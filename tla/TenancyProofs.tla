---------------------------- MODULE TenancyProofs ----------------------------
(***************************************************************************)
(* Theorems about Tenancy, for any servers, keys, requests and tenants.    *)
(***************************************************************************)
EXTENDS Tenancy, TLAPS

\* The context of a key, and the default one, are contexts, and not Nil.
LEMMA ContextType ==
    /\ DefaultContext \in Context
    /\ DefaultEnvironment \in Tenant
    /\ \A k \in Key : TargetOf(k) \in Target
    /\ \A k \in Key : keys[k] \in ApiKey => ContextOf(k) \in Context
  <1>1. DefaultContext \in Context /\ DefaultEnvironment \in Tenant
    BY TenancyAssumption
    DEF DefaultContext, Context, DefaultEnvironment, Tenant, AllScopes, Scope
  <1>2. ASSUME NEW k \in Key PROVE TargetOf(k) \in Target
    <2>1. Flags[k] \in [org: Organization, target: Target \cup {Nil}]
      BY TenancyAssumption
    <2> QED
      BY <2>1, TenancyAssumption DEF TargetOf, Target
  <1>3. ASSUME NEW k \in Key, keys[k] \in ApiKey PROVE ContextOf(k) \in Context
    <2>1. Flags[k].org \in Organization
      BY TenancyAssumption
    <2> QED
      BY <1>2, <1>3, <2>1 DEF ContextOf, Context, ApiKey, Target
  <1> QED
    BY <1>1, <1>2, <1>3

\* A request with a context writes a row.
LEMMA PendingRowType ==
    ASSUME NEW r \in Request, req[r].context \in Context
    PROVE  /\ PendingRow(r) \in Row
           /\ PendingRow(r).id = r
           /\ PendingRow(r).org = req[r].context.org
           /\ PendingRow(r).project = req[r].context.project
           /\ PendingRow(r).environment = req[r].context.environment
           /\ PendingRow(r).hash = [org |-> req[r].context.org,
                                    project |-> req[r].context.project,
                                    environment |-> req[r].context.environment]
  BY DEF PendingRow, Row, Content, Context

-----------------------------------------------------------------------------
\* A handler that has begun to accept has a context, and a replay finds the
\* response it is going to answer.
HasContext ==
    \A r \in Request :
        /\ req[r].at \in {"claim", "replay", "insert", "accepted"} =>
              req[r].context \in Context
        /\ req[r].at \in {"claim", "replay"} => IdempotencyOf[r] # Nil
        /\ req[r].at = "replay" => idempotency[Slot(r)][IdempotencyOf[r]] # Nil

\* An answer keeps the type of the handlers.
LEMMA AnswerType ==
    ASSUME req \in [Request -> Handler], NEW r \in Request, NEW id \in Request,
           Answer(r, id)
    PROVE  req' \in [Request -> Handler]
  <1>1. [req[r] EXCEPT !.at = "accepted", !.told = id] \in Handler
    BY DEF Handler
  <1>2. req' = [req EXCEPT ![r] = [req[r] EXCEPT !.at = "accepted", !.told = id]]
    BY DEF Answer
  <1> QED
    BY <1>1, <1>2

LEMMA TypeInit == Init => TypeOK /\ HasContext
  BY TenancyAssumption
  DEF Init, TypeOK, HasContext, Handler, NewHandler, Process

LEMMA TypeStep == TypeOK /\ HasContext /\ [Next]_vars => TypeOK' /\ HasContext'
  <1> SUFFICES ASSUME TypeOK, HasContext, [Next]_vars
               PROVE  TypeOK' /\ HasContext'
    OBVIOUS
  <1> USE DEF TypeOK
  <1>1. ASSUME NEW s \in Server, Boot(s) PROVE TypeOK' /\ HasContext'
    BY <1>1 DEF Boot, AfterSeed, HasContext, Slot, tenants, rows, Process
  <1>2. ASSUME NEW k \in Key, KeyCreate(k) PROVE TypeOK' /\ HasContext'
    BY <1>2 DEF KeyCreate, HasContext, Slot, tenants, rows, Process
  <1>3. ASSUME NEW x \in Process, EnsureDefaultProject(x) PROVE TypeOK' /\ HasContext'
    BY <1>3, TenancyAssumption DEF EnsureDefaultProject, HasContext, Slot, rows
  <1>4. ASSUME NEW x \in Process, EnsureDefaultEnvironment(x) PROVE TypeOK' /\ HasContext'
    BY <1>4, ContextType DEF EnsureDefaultEnvironment, HasContext, Slot, rows
  <1>5. ASSUME NEW k \in Key, InsertApiKey(k) PROVE TypeOK' /\ HasContext'
    <2>1. \A scopes \in Grants : [scopes |-> scopes, revoked |-> FALSE] \in ApiKey
      BY TenancyAssumption DEF ApiKey
    <2>2. keys' \in [Key -> ApiKey \cup {Nil}]
      BY <1>5, <2>1 DEF InsertApiKey
    <2>3. at' \in [Process -> {"off", "project", "environment", "ready", "stopping"}]
      BY <1>5 DEF InsertApiKey
    <2> QED
      BY <1>5, <2>2, <2>3 DEF InsertApiKey, HasContext, Slot, tenants, rows
  <1>6. ASSUME NEW k \in Key, RevokeApiKey(k) PROVE TypeOK' /\ HasContext'
    BY <1>6 DEF RevokeApiKey, HasContext, Slot, tenants, rows, ApiKey
  <1>7. ASSUME NEW p \in Project, CreateProject(p) PROVE TypeOK' /\ HasContext'
    BY <1>7 DEF CreateProject, HasContext, Slot, rows
  <1>8. ASSUME NEW e \in Environment, CreateEnvironment(e) PROVE TypeOK' /\ HasContext'
    BY <1>8 DEF CreateEnvironment, HasContext, Slot, rows, Tenant
  <1>9. ASSUME NEW r \in Request, NEW s \in Server, Arrive(r, s)
        PROVE  TypeOK' /\ HasContext'
    <2> DEFINE x == IF s \in guarded
                    THEN [NewHandler EXCEPT !.at = "lookup", !.server = s]
                    ELSE Accepting(r, s, DefaultContext)
    <2>0. req' = [req EXCEPT ![r] = x]
      BY <1>9 DEF Arrive
    <2>1. /\ x \in Handler
          /\ \/ x.at = "lookup"
             \/ /\ x.at \in {"claim", "insert"} /\ x.context = DefaultContext
                /\ x.at = "claim" => IdempotencyOf[r] # Nil
      <3>1. CASE s \in guarded
        BY <3>1 DEF NewHandler, Handler
      <3>2. CASE s \notin guarded
        BY <3>2, ContextType DEF Accepting, Handler
      <3> QED
        BY <3>1, <3>2
    <2> HIDE DEF x
    <2>2. HasContext'
      BY <1>9, <2>0, <2>1, ContextType DEF Arrive, HasContext, Slot, rows
    <2> QED
      BY <1>9, <2>0, <2>1, <2>2 DEF Arrive, tenants, rows
  <1>10. ASSUME NEW r \in Request, LookupApiKeyByHash(r) PROVE TypeOK' /\ HasContext'
    <2>1. Allowed(KeyOf[r]) => ContextOf(KeyOf[r]) \in Context
      BY ContextType, TenancyAssumption DEF Allowed, KeyFound
    <2>2. req' \in [Request -> Handler]
      BY <1>10, <2>1 DEF LookupApiKeyByHash, Accepting, Handler
    <2>3. HasContext'
      BY <1>10, <2>1 DEF LookupApiKeyByHash, Accepting, Handler, HasContext, Slot, rows
    <2> QED
      BY <1>10, <2>2, <2>3 DEF LookupApiKeyByHash, tenants, rows
  <1>11. ASSUME NEW r \in Request, ClaimIdempotencyKey(r) PROVE TypeOK' /\ HasContext'
    <2>1. Slot(r) \in Organization /\ IdempotencyOf[r] \in IdempotencyKey
      BY <1>11, TenancyAssumption DEF ClaimIdempotencyKey, HasContext, Slot, Context
    <2>2. req' \in [Request -> Handler]
      BY <1>11 DEF ClaimIdempotencyKey, Handler
    <2> DEFINE slot == [idempotency[Slot(r)] EXCEPT ![IdempotencyOf[r]] = r]
    <2>slot. slot \in [IdempotencyKey -> Request \cup {Nil}]
      BY <2>1
    <2>store. \/ idempotency' = [idempotency EXCEPT ![Slot(r)] = slot]
          \/ idempotency' = idempotency
      BY <1>11 DEF ClaimIdempotencyKey
    <2>3. idempotency' \in [Organization -> [IdempotencyKey -> Request \cup {Nil}]]
      BY <2>1, <2>slot, <2>store
    <2>4. \A o \in Organization, i \in IdempotencyKey :
             idempotency[o][i] # Nil => idempotency'[o][i] # Nil
      BY <2>1, <2>store, TenancyAssumption
    <2>5. /\ \A q \in Request \ {r} : req'[q] = req[q]
          /\ req'[r].context = req[r].context
          /\ req'[r].at \in {"insert", "replay"}
          /\ req'[r].at = "replay" => idempotency'[Slot(r)][IdempotencyOf[r]] # Nil
      BY <1>11 DEF ClaimIdempotencyKey, Handler
    <2>6. \A q \in Request : req[q].at = "replay" =>
             Slot(q) \in Organization /\ IdempotencyOf[q] \in IdempotencyKey
      BY TenancyAssumption DEF HasContext, Slot, Context
    <2>7. HasContext'
      BY <1>11, <2>1, <2>4, <2>5, <2>6 DEF ClaimIdempotencyKey, HasContext, Slot
    <2> QED
      BY <1>11, <2>2, <2>3, <2>7 DEF ClaimIdempotencyKey, tenants
  <1>12. ASSUME NEW r \in Request, GetIdempotentResponse(r) PROVE TypeOK' /\ HasContext'
    <2>1. idempotency[Slot(r)][IdempotencyOf[r]] \in Request
      BY <1>12, TenancyAssumption DEF GetIdempotentResponse, HasContext, Slot, Context
    <2>2. req' \in [Request -> Handler]
      BY <1>12, <2>1, AnswerType DEF GetIdempotentResponse
    <2>3. HasContext'
      BY <1>12 DEF GetIdempotentResponse, Answer, Handler, HasContext, Slot, rows
    <2> QED
      BY <1>12, <2>2, <2>3 DEF GetIdempotentResponse, tenants, rows
  <1>13. ASSUME NEW r \in Request, InsertPendingEvent(r) PROVE TypeOK' /\ HasContext'
    <2>1. PendingRow(r) \in Row
      BY <1>13, PendingRowType DEF InsertPendingEvent, HasContext
    <2>2. req' \in [Request -> Handler]
      BY <1>13, AnswerType DEF InsertPendingEvent
    <2>3. HasContext'
      BY <1>13 DEF InsertPendingEvent, Answer, Handler, HasContext, Slot
    <2> QED
      BY <1>13, <2>1, <2>2, <2>3 DEF InsertPendingEvent, tenants
  <1>14. ASSUME NEW s \in Server, SealShard(s) PROVE TypeOK' /\ HasContext'
    <2>1. \A p \in pending : environments[p.environment] # Nil => SealedRow(p) \in Row
      BY DEF SealedRow, ShardChain, Row, Tenant
    <2> QED
      BY <1>14, <2>1 DEF SealShard, HasContext, Slot, tenants
  <1>15. ASSUME NEW s \in Server, Stop(s) PROVE TypeOK' /\ HasContext'
    BY <1>15, TenancyAssumption DEF Stop, HasContext, Slot, tenants, rows, Process
  <1>16. ASSUME NEW s \in Server, Gone(s) PROVE req' \in [Request -> Handler]
    BY <1>16 DEF Gone, Handler
  <1>17. ASSUME NEW s \in Server, Gone(s), UNCHANGED idempotency PROVE HasContext'
    <2>1. \A r \in Request : \/ req'[r] = req[r]
                             \/ req'[r].at = "lost"
      BY <1>17 DEF Gone, Handler
    <2> QED
      BY <1>17, <2>1 DEF HasContext, Slot
  <1>18. ASSUME NEW s \in Server, Exit(s) \/ Crash(s) PROVE TypeOK' /\ HasContext'
    <2>1. Gone(s) /\ UNCHANGED <<tenants, keys, guarded, rows, refusable>>
      BY <1>18 DEF Exit, Crash
    <2>2. failures' \in 0 .. MaxFailures
      BY <1>18, TenancyAssumption DEF Exit, Crash
    <2>3. at' \in [Process -> {"off", "project", "environment", "ready", "stopping"}]
      BY <2>1 DEF Gone
    <2> QED
      BY <1>16, <1>17, <2>1, <2>2, <2>3 DEF tenants, rows
  <1>19. ASSUME NEW k \in Key, CommandFails(k) PROVE TypeOK' /\ HasContext'
    BY <1>19, TenancyAssumption DEF CommandFails, HasContext, Slot, tenants, rows, Process
  <1>20. ASSUME NEW r \in Request, RequestFails(r) PROVE TypeOK' /\ HasContext'
    <2>1. req' \in [Request -> Handler]
      BY <1>20 DEF RequestFails, Handler
    <2>2. \A q \in Request : req'[q] = req[q] \/ req'[q].at = "lost"
      BY <1>20 DEF RequestFails, Handler
    <2>3. HasContext'
      BY <1>20, <2>2 DEF RequestFails, HasContext, Slot, rows
    <2> QED
      BY <1>20, <2>1, <2>3, TenancyAssumption DEF RequestFails, tenants, rows
  <1>21. CASE UNCHANGED vars
    BY <1>21 DEF vars, HasContext, Slot
  <1> QED
    BY <1>1, <1>2, <1>3, <1>4, <1>5, <1>6, <1>7, <1>8, <1>9, <1>10, <1>11,
       <1>12, <1>13, <1>14, <1>15, <1>17, <1>18, <1>19, <1>20, <1>21
    DEF Next, Up, Command, Handle, Quiet, Process

\* Every variable keeps its type; in particular every row carries a tenant,
\* and a replay finds a cached response.
THEOREM TypeCorrect == Spec => []TypeOK
  <1>1. Init => TypeOK /\ HasContext
    BY TypeInit
  <1>2. TypeOK /\ HasContext /\ [Next]_vars => TypeOK' /\ HasContext'
    BY TypeStep
  <1> QED
    BY <1>1, <1>2, PTL DEF Spec

-----------------------------------------------------------------------------
(***************************************************************************)
(* The inductive invariant.                                                *)
(***************************************************************************)
Begun(r) == req[r].context \in Context

\* Environments are there before anything refers to them.
EnvironmentsKept ==
    /\ environments[DefaultEnvironmentID] \in {Nil, DefaultEnvironment}
    /\ \A s \in Server : at[s] \in {"ready", "stopping"} /\ s \notin guarded =>
          environments[DefaultEnvironmentID] # Nil
    /\ \A k \in Key : keys[k] # Nil => environments[TargetOf(k).environment] # Nil

HandlersKept ==
    \A r \in Request :
        /\ Begun(r) => environments[req[r].context.environment] # Nil
        /\ req[r].at \in {"new", "lookup", "refused"} => req[r].context = Nil
        /\ req[r].told # Nil <=> req[r].at = "accepted"

\* No later step of the operator lets the request through.
Hopeless(r) ==
    \/ KeyOf[r] = Nil
    \/ /\ keys[KeyOf[r]] # Nil
       /\ keys[KeyOf[r]].revoked \/ "events:write" \notin keys[KeyOf[r]].scopes

RefusalsKept ==
    \A r \in refusable :
        /\ req[r].at \in {"lookup", "refused", "lost"}
        /\ req[r].context = Nil
        /\ Hopeless(r)

\* A request of the organization that has got through the idempotency gate.
Owned(id, org) ==
    /\ id \in Request
    /\ Begun(id)
    /\ req[id].context.org = org
    /\ req[id].at \in {"insert", "lost", "accepted"}
    /\ req[id].at = "accepted" => req[id].told = id

SlotsKept ==
    \A o \in Organization, i \in IdempotencyKey :
        idempotency[o][i] # Nil => Owned(idempotency[o][i], o)

HasRow(r) == \E p \in pending \cup events : p.id = r

Represented(r) ==
    \E q \in events : /\ ExternalOf[q.id] = ExternalOf[r]
                      /\ ExternalOf[r] # Nil
                      /\ q.environment = req[r].context.environment

AnswersKept ==
    \A r \in Request :
        req[r].told # Nil =>
            /\ Owned(req[r].told, req[r].context.org)
            /\ req[r].told = r => HasRow(r) \/ Represented(r)

\* What a row says of its request.
RowKept(p) ==
    LET c == req[p.id].context IN
    /\ req[p.id].at = "accepted"
    /\ c \in Context
    /\ p.org = c.org
    /\ p.environment = c.environment
    /\ p.hash = [org |-> c.org, project |-> c.project, environment |-> c.environment]

RowsKept ==
    /\ \A p \in pending : RowKept(p) /\ p.project = p.hash.project
    /\ \A p \in events : RowKept(p) /\ p.project = environments[p.environment].project

TenancyInv ==
    /\ TypeOK /\ HasContext
    /\ EnvironmentsKept /\ HandlersKept /\ RefusalsKept
    /\ SlotsKept /\ AnswersKept /\ RowsKept

LEMMA InvInit == Init => TenancyInv
  <1> SUFFICES ASSUME Init PROVE TenancyInv
    OBVIOUS
  <1>1. \A x \in Process : at[x] = "off"
    BY DEF Init
  <1>2. \A r \in Request : req[r] = NewHandler
    BY DEF Init
  <1>3. EnvironmentsKept
    BY <1>1, TenancyAssumption DEF Init, EnvironmentsKept, Process
  <1>4. HandlersKept /\ AnswersKept
    BY <1>2, TenancyAssumption DEF HandlersKept, AnswersKept, NewHandler, Begun
  <1>5. RefusalsKept /\ SlotsKept /\ RowsKept
    BY DEF Init, RefusalsKept, SlotsKept, RowsKept
  <1> QED
    BY <1>3, <1>4, <1>5, TypeInit DEF TenancyInv

-----------------------------------------------------------------------------
(***************************************************************************)
(* What one step can do to each part of the state, whatever the action.    *)
(***************************************************************************)
Move(r) ==
    \/ req'[r] = req[r]
    \/ /\ req[r].at = "new" /\ req'[r].at = "lookup"
       /\ req'[r].context = Nil /\ req'[r].told = Nil
    \/ /\ req[r].at = "new" /\ req'[r].at \in {"claim", "insert"}
       /\ req'[r].context = DefaultContext /\ req'[r].told = Nil
       /\ environments[DefaultEnvironmentID] # Nil
    \/ /\ req[r].at = "lookup" /\ req'[r].at = "refused"
       /\ req'[r].context = req[r].context /\ req'[r].told = req[r].told
    \/ /\ req[r].at = "lookup" /\ req'[r].at \in {"claim", "insert"}
       /\ Allowed(KeyOf[r])
       /\ req'[r].context = ContextOf(KeyOf[r]) /\ req'[r].told = Nil
    \/ /\ req[r].at = "claim" /\ req'[r].at \in {"insert", "replay"}
       /\ req'[r].context = req[r].context /\ req'[r].told = req[r].told
    \/ /\ req[r].at = "replay" /\ req'[r].at = "accepted"
       /\ req'[r].context = req[r].context
       /\ req'[r].told = idempotency[Slot(r)][IdempotencyOf[r]]
    \/ /\ req[r].at = "insert" /\ req'[r].at = "accepted"
       /\ req'[r].context = req[r].context /\ req'[r].told = r
       /\ PendingRow(r) \in pending'
    \/ /\ Running(r) /\ req'[r].at = "lost"
       /\ req'[r].context = req[r].context /\ req'[r].told = req[r].told

HandlersMove == \A r \in Request : Move(r)

TenantsMove ==
    /\ \A e \in Environment : environments[e] # Nil => environments'[e] = environments[e]
    /\ \A k \in Key : keys[k] # Nil =>
          /\ keys'[k] # Nil
          /\ keys'[k].scopes = keys[k].scopes
          /\ keys[k].revoked => keys'[k].revoked

RefusalsMove ==
    \A r \in refusable' :
        \/ r \in refusable
        \/ req[r].at = "new" /\ req'[r].at = "lookup" /\ Hopeless(r)

SlotsMove ==
    \A o \in Organization, i \in IdempotencyKey :
        \/ idempotency'[o][i] = idempotency[o][i]
        \/ \E r \in Request : /\ idempotency[o][i] = Nil
                              /\ idempotency'[o][i] = r
                              /\ o = Slot(r)
                              /\ req[r].at = "claim" /\ req'[r].at = "insert"

RowsMove ==
    /\ \A p \in pending' :
          \/ p \in pending
          \/ \E r \in Request : /\ p = PendingRow(r)
                                /\ req[r].at = "insert" /\ req'[r].at = "accepted"
    /\ \A p \in events' :
          \/ p \in events
          \/ \E q \in pending : environments[q.environment] # Nil /\ p = SealedRow(q)
    /\ events \subseteq events'
    /\ \A p \in pending :
          \/ p \in pending'
          \/ SealedRow(p) \in events'
          \/ \E q \in events : Same(p, q)

Moves == HandlersMove /\ TenantsMove /\ RefusalsMove /\ SlotsMove /\ RowsMove

\* Nothing but the tenants, the processes and the keys changes.
LEMMA Elsewhere ==
    ASSUME UNCHANGED <<req, rows, refusable>>
    PROVE  HandlersMove /\ RefusalsMove /\ SlotsMove /\ RowsMove
  BY DEF rows, HandlersMove, Move, RefusalsMove, SlotsMove, RowsMove

LEMMA StepMoves == TenancyInv /\ [Next]_vars => Moves
  <1> SUFFICES ASSUME TenancyInv, [Next]_vars PROVE Moves
    OBVIOUS
  <1> USE DEF TenancyInv
  <1>1. ASSUME UNCHANGED <<environments, keys>> PROVE TenantsMove
    BY <1>1 DEF TenantsMove
  <1>2. ASSUME NEW k \in Key, InsertApiKey(k) \/ RevokeApiKey(k) PROVE Moves
    <2>1. UNCHANGED <<environments, req, rows, refusable>>
      BY <1>2 DEF InsertApiKey, RevokeApiKey, tenants
    <2>2. \A q \in Key \ {k} : keys'[q] = keys[q]
      BY <1>2 DEF InsertApiKey, RevokeApiKey, TypeOK
    <2>3. keys[k] # Nil => /\ keys'[k] = [keys[k] EXCEPT !.revoked = TRUE]
                           /\ keys[k] \in ApiKey
      BY <1>2 DEF InsertApiKey, RevokeApiKey, TypeOK
    <2>4. keys[k] # Nil => /\ keys'[k] \in ApiKey
                           /\ keys'[k].scopes = keys[k].scopes
                           /\ keys'[k].revoked
      BY <2>3 DEF ApiKey
    <2> QED
      BY <2>1, <2>2, <2>4, Elsewhere, TenancyAssumption DEF Moves, TenantsMove
  <1>3. ASSUME NEW x \in Process, EnsureDefaultEnvironment(x) PROVE Moves
    BY <1>3, Elsewhere, TenancyAssumption
    DEF EnsureDefaultEnvironment, Moves, TenantsMove, TypeOK
  <1>4. ASSUME NEW e \in Environment, CreateEnvironment(e) PROVE Moves
    BY <1>4, Elsewhere DEF CreateEnvironment, Moves, TenantsMove, TypeOK
  <1>5. ASSUME NEW x \in Process,
               \/ x \in Server /\ (Boot(x) \/ Stop(x))
               \/ x \in Key /\ (KeyCreate(x) \/ CommandFails(x))
               \/ EnsureDefaultProject(x)
        PROVE  Moves
    <2>1. UNCHANGED <<environments, keys, req, rows, refusable>>
      BY <1>5 DEF Boot, Stop, KeyCreate, CommandFails, EnsureDefaultProject, tenants
    <2> QED
      BY <2>1, <1>1, Elsewhere DEF Moves
  <1>6. ASSUME NEW p \in Project, CreateProject(p) PROVE Moves
    BY <1>6, <1>1, Elsewhere DEF CreateProject, Moves
  <1>7. ASSUME NEW r \in Request, NEW s \in Server, Arrive(r, s) PROVE Moves
    <2> DEFINE x == IF s \in guarded
                    THEN [NewHandler EXCEPT !.at = "lookup", !.server = s]
                    ELSE Accepting(r, s, DefaultContext)
    <2>1. req' = [req EXCEPT ![r] = x] /\ req[r].at = "new" /\ at[s] = "ready"
      BY <1>7 DEF Arrive
    <2>2. CASE s \in guarded
      <3>1. x.at = "lookup" /\ x.context = Nil /\ x.told = Nil
        BY <2>2 DEF NewHandler
      <3>2. HandlersMove /\ req'[r].at = "lookup"
        BY <2>1, <3>1 DEF HandlersMove, Move, TypeOK
      <3>3. RefusalsMove
        BY <1>7, <2>1, <2>2, <3>2 DEF Arrive, RefusalsMove, Hopeless
      <3> QED
        BY <1>7, <1>1, <3>2, <3>3 DEF Arrive, Moves, SlotsMove, RowsMove, rows, tenants
    <2>3. CASE s \notin guarded
      <3>1. /\ x.at \in {"claim", "insert"}
            /\ x.context = DefaultContext /\ x.told = Nil
        BY <2>3 DEF Accepting
      <3>2. environments[DefaultEnvironmentID] # Nil
        BY <2>1, <2>3 DEF EnvironmentsKept
      <3>3. HandlersMove
        BY <2>1, <3>1, <3>2 DEF HandlersMove, Move, TypeOK
      <3> QED
        BY <1>7, <1>1, <2>3, <3>3
        DEF Arrive, Moves, RefusalsMove, SlotsMove, RowsMove, rows, tenants
    <2> QED
      BY <2>2, <2>3
  <1>8. ASSUME NEW r \in Request, LookupApiKeyByHash(r) PROVE Moves
    <2>1. HandlersMove
      <3>1. CASE Allowed(KeyOf[r])
        BY <1>8, <3>1 DEF LookupApiKeyByHash, Accepting, HandlersMove, Move, TypeOK
      <3>2. CASE ~ Allowed(KeyOf[r])
        BY <1>8, <3>2 DEF LookupApiKeyByHash, HandlersMove, Move, TypeOK, Handler
      <3> QED
        BY <3>1, <3>2
    <2> QED
      BY <1>8, <1>1, <2>1
      DEF LookupApiKeyByHash, Moves, RefusalsMove, SlotsMove, RowsMove, rows, tenants
  <1>9. ASSUME NEW r \in Request, ClaimIdempotencyKey(r) PROVE Moves
    <2>1. HandlersMove
      BY <1>9 DEF ClaimIdempotencyKey, HandlersMove, Move, TypeOK, Handler
    <2>2. Slot(r) \in Organization /\ IdempotencyOf[r] \in IdempotencyKey
      BY <1>9, TenancyAssumption DEF ClaimIdempotencyKey, HasContext, Slot, Context
    <2>3. \/ idempotency' = idempotency
          \/ /\ idempotency[Slot(r)][IdempotencyOf[r]] = Nil
             /\ idempotency' = [idempotency EXCEPT ![Slot(r)][IdempotencyOf[r]] = r]
             /\ req'[r].at = "insert"
      BY <1>9 DEF ClaimIdempotencyKey, TypeOK, Handler
    <2>4. SlotsMove
      BY <1>9, <2>2, <2>3 DEF ClaimIdempotencyKey, SlotsMove, TypeOK
    <2> QED
      BY <1>9, <1>1, <2>1, <2>4
      DEF ClaimIdempotencyKey, Moves, RefusalsMove, RowsMove, tenants
  <1>10. ASSUME NEW r \in Request, GetIdempotentResponse(r) PROVE Moves
    <2>1. HandlersMove
      BY <1>10 DEF GetIdempotentResponse, Answer, HandlersMove, Move, TypeOK, Handler
    <2> QED
      BY <1>10, <1>1, <2>1
      DEF GetIdempotentResponse, Moves, RefusalsMove, SlotsMove, RowsMove, rows, tenants
  <1>11. ASSUME NEW r \in Request, InsertPendingEvent(r) PROVE Moves
    <2>1. HandlersMove
      BY <1>11 DEF InsertPendingEvent, Answer, HandlersMove, Move, TypeOK, Handler
    <2>2. req[r].at = "insert" /\ req'[r].at = "accepted"
      BY <1>11 DEF InsertPendingEvent, Answer, TypeOK, Handler
    <2>3. RowsMove
      BY <1>11, <2>2 DEF InsertPendingEvent, RowsMove
    <2> QED
      BY <1>11, <1>1, <2>1, <2>3
      DEF InsertPendingEvent, Moves, RefusalsMove, SlotsMove, tenants
  <1>12. ASSUME NEW s \in Server, SealShard(s) PROVE Moves
    <2>1. RowsMove
      BY <1>12 DEF SealShard, RowsMove
    <2> QED
      BY <1>12, <1>1, <2>1
      DEF SealShard, Moves, HandlersMove, Move, RefusalsMove, SlotsMove, tenants
  <1>13. ASSUME UNCHANGED <<tenants, keys, rows, refusable>>,
                \A r \in Request : \/ req'[r] = req[r]
                                   \/ Running(r) /\ req'[r] = [req[r] EXCEPT !.at = "lost"]
         PROVE  Moves
    <2>0. \A r \in Request : req[r] \in Handler
      BY DEF TypeOK
    <2>1. ASSUME NEW r \in Request PROVE Move(r)
      <3>1. CASE req'[r] = req[r]
        BY <3>1 DEF Move
      <3>2. CASE Running(r) /\ req'[r] = [req[r] EXCEPT !.at = "lost"]
        <4>1. /\ req'[r].at = "lost"
              /\ req'[r].context = req[r].context /\ req'[r].told = req[r].told
          BY <2>0, <3>2 DEF Handler
        <4> QED
          BY <3>2, <4>1 DEF Move
      <3> QED
        BY <1>13, <3>1, <3>2
    <2> QED
      BY <1>13, <1>1, <2>1
      DEF Moves, HandlersMove, RefusalsMove, SlotsMove, RowsMove, rows, tenants
  <1>14. ASSUME NEW s \in Server, Exit(s) \/ Crash(s) PROVE Moves
    BY <1>13, <1>14 DEF Exit, Crash, Gone
  <1>15. ASSUME NEW r \in Request, RequestFails(r) PROVE Moves
    BY <1>13, <1>15 DEF RequestFails, TypeOK
  <1>16. CASE UNCHANGED vars
    BY <1>16, <1>1, Elsewhere DEF vars, rows, Moves
  <1> QED
    BY <1>2, <1>3, <1>4, <1>5, <1>6, <1>7, <1>8, <1>9, <1>10, <1>11, <1>12,
       <1>14, <1>15, <1>16
    DEF Next, Up, Command, Handle, Quiet, Process

-----------------------------------------------------------------------------
(***************************************************************************)
(* Each part of the invariant is kept.                                     *)
(***************************************************************************)
LEMMA EnvironmentsStep == TenancyInv /\ [Next]_vars => EnvironmentsKept'
  <1> SUFFICES ASSUME TenancyInv, [Next]_vars PROVE EnvironmentsKept'
    OBVIOUS
  <1> USE DEF TenancyInv, EnvironmentsKept
  <1>0. /\ \A k \in Key : TargetOf(k).environment \in Environment
        /\ DefaultEnvironment # Nil
    BY ContextType, TenancyAssumption DEF Target
  <1>1. CASE UNCHANGED <<environments, keys, at, guarded>>
    BY <1>1
  <1>2. ASSUME NEW s \in Server, Boot(s) PROVE EnvironmentsKept'
    BY <1>2 DEF Boot, AfterSeed, TypeOK, Process, tenants
  <1>3. ASSUME NEW k \in Key, KeyCreate(k) \/ CommandFails(k) PROVE EnvironmentsKept'
    BY <1>3, TenancyAssumption DEF KeyCreate, CommandFails, TypeOK, Process, tenants
  <1>4. ASSUME NEW x \in Process, EnsureDefaultProject(x) PROVE EnvironmentsKept'
    BY <1>4 DEF EnsureDefaultProject, TypeOK, Process
  <1>5. ASSUME NEW x \in Process, EnsureDefaultEnvironment(x) PROVE EnvironmentsKept'
    <2>1. /\ environments'[DefaultEnvironmentID] = DefaultEnvironment
          /\ \A e \in Environment : environments[e] # Nil => environments'[e] = environments[e]
      BY <1>5, <1>0, TenancyAssumption DEF EnsureDefaultEnvironment, TypeOK
    <2> QED
      BY <1>5, <1>0, <2>1 DEF EnsureDefaultEnvironment
  <1>6. ASSUME NEW k \in Key, InsertApiKey(k) PROVE EnvironmentsKept'
    BY <1>6, TenancyAssumption DEF InsertApiKey, TypeOK, Process, tenants
  <1>7. ASSUME NEW k \in Key, RevokeApiKey(k) PROVE EnvironmentsKept'
    BY <1>7 DEF RevokeApiKey, TypeOK, tenants
  <1>8. ASSUME NEW e \in Environment, CreateEnvironment(e) PROVE EnvironmentsKept'
    <2>1. /\ environments'[DefaultEnvironmentID] = environments[DefaultEnvironmentID]
          /\ \A f \in Environment : environments[f] # Nil => environments'[f] = environments[f]
      BY <1>8, TenancyAssumption DEF CreateEnvironment, TypeOK
    <2> QED
      BY <1>8, <1>0, <2>1 DEF CreateEnvironment
  <1>9. ASSUME NEW s \in Server, Stop(s) \/ Exit(s) \/ Crash(s) PROVE EnvironmentsKept'
    BY <1>9 DEF Stop, Exit, Crash, Gone, TypeOK, Process, tenants
  <1> QED
    BY <1>1, <1>2, <1>3, <1>4, <1>5, <1>6, <1>7, <1>8, <1>9
    DEF Next, Up, Command, Handle, Quiet, Process, vars, tenants, CreateProject,
        Arrive, LookupApiKeyByHash, ClaimIdempotencyKey, GetIdempotentResponse,
        InsertPendingEvent, RequestFails, SealShard

\* A context stays what it is, and its environment is there.
LEMMA HandlersStep ==
    TenancyInv /\ Moves /\ TypeOK' /\ EnvironmentsKept' =>
        /\ HandlersKept'
        /\ \A r \in Request : Begun(r) => req'[r].context = req[r].context
        /\ \A r \in Request, o \in Organization : Owned(r, o) => Owned(r, o)'
  <1> SUFFICES ASSUME TenancyInv, Moves, EnvironmentsKept', NEW r \in Request
               PROVE  /\ Begun(r)' => environments'[req'[r].context.environment] # Nil
                      /\ req'[r].at \in {"new", "lookup", "refused"} => req'[r].context = Nil
                      /\ req'[r].told # Nil <=> req'[r].at = "accepted"
                      /\ Begun(r) => req'[r].context = req[r].context
                      /\ \A o \in Organization : Owned(r, o) => Owned(r, o)'
    BY DEF HandlersKept
  <1>1. Move(r) /\ TenantsMove
    BY DEF Moves, HandlersMove
  <1>2. /\ Begun(r) => environments[req[r].context.environment] # Nil
        /\ req[r].at \in {"new", "lookup", "refused"} => req[r].context = Nil
        /\ req[r].told # Nil <=> req[r].at = "accepted"
        /\ req[r].at \in {"new", "lookup", "refused"} => ~ Begun(r)
    BY TenancyAssumption DEF TenancyInv, HandlersKept, Begun
  <1>3. Nil \notin Request
    BY TenancyAssumption
  <1>4. /\ Begun(r) => req'[r].context = req[r].context
        /\ \A o \in Organization : Owned(r, o) => Owned(r, o)'
    BY <1>1, <1>2 DEF Move, Owned, Begun, Running
  <1>5. req'[r].told # Nil <=> req'[r].at = "accepted"
    <2>1. req[r].at = "replay" => idempotency[Slot(r)][IdempotencyOf[r]] # Nil
      BY DEF TenancyInv, HasContext
    <2> QED
      BY <1>1, <1>2, <1>3, <2>1 DEF Move, Running
  <1>6. req'[r].at \in {"new", "lookup", "refused"} => req'[r].context = Nil
    BY <1>1, <1>2 DEF Move
  <1>7. ASSUME Begun(r)' PROVE environments'[req'[r].context.environment] # Nil
    <2>1. CASE req'[r].context = req[r].context
      <3>1. req[r].context.environment \in Environment
        BY <1>7, <2>1 DEF Begun, Context
      <3> QED
        BY <1>1, <1>2, <1>7, <2>1, <3>1 DEF TenantsMove, Begun, TenancyInv, TypeOK
    <2>2. CASE req'[r].context = DefaultContext /\ environments[DefaultEnvironmentID] # Nil
      BY <1>1, <2>2, TenancyAssumption DEF TenantsMove, DefaultContext
    <2>3. CASE Allowed(KeyOf[r]) /\ req'[r].context = ContextOf(KeyOf[r])
      <3>1. KeyOf[r] \in Key /\ keys[KeyOf[r]] # Nil
        BY <2>3, TenancyAssumption DEF Allowed, KeyFound
      <3>2. environments[TargetOf(KeyOf[r]).environment] # Nil
        BY <3>1 DEF TenancyInv, EnvironmentsKept
      <3>3. TargetOf(KeyOf[r]).environment \in Environment
        BY <3>1, ContextType DEF Target
      <3> QED
        BY <1>1, <2>3, <3>2, <3>3 DEF TenantsMove, ContextOf
    <2>4. CASE req'[r].context = Nil
      BY <1>7, <2>4, TenancyAssumption DEF Begun
    <2> QED
      BY <1>1, <2>1, <2>2, <2>3, <2>4 DEF Move
  <1> QED
    BY <1>4, <1>5, <1>6, <1>7

LEMMA RefusalsStep == TenancyInv /\ Moves /\ TypeOK' => RefusalsKept'
  <1> SUFFICES ASSUME TenancyInv, Moves, TypeOK', NEW r \in refusable'
               PROVE  /\ req'[r].at \in {"lookup", "refused", "lost"}
                      /\ req'[r].context = Nil
                      /\ Hopeless(r)'
    BY DEF RefusalsKept
  <1>0. r \in Request
    BY DEF TypeOK
  <1>1. /\ Move(r)
        /\ TenantsMove
        /\ \/ r \in refusable
           \/ req[r].at = "new" /\ req'[r].at = "lookup" /\ Hopeless(r)
    BY <1>0 DEF Moves, HandlersMove, RefusalsMove
  <1>2. CASE r \in refusable
    <2>1. /\ req[r].at \in {"lookup", "refused", "lost"}
          /\ req[r].context = Nil
          /\ Hopeless(r) /\ r \in Request
      BY <1>2 DEF TenancyInv, RefusalsKept, TypeOK
    <2>2. Hopeless(r)'
      BY <1>1, <2>1, TenancyAssumption DEF Hopeless, TenantsMove
    <2>3. ~ Allowed(KeyOf[r])
      BY <2>1 DEF Hopeless, Allowed, KeyFound
    <2> QED
      BY <1>1, <2>1, <2>2, <2>3 DEF Move
  <1>3. CASE r \notin refusable
    <2>1. req[r].context = Nil
      BY <1>0, <1>1, <1>3 DEF TenancyInv, HandlersKept
    <2>2. KeyOf[r] \in Key \cup {Nil} => Hopeless(r)'
      BY <1>1, <1>3 DEF Hopeless, TenantsMove
    <2> QED
      BY <1>0, <1>1, <1>3, <2>1, <2>2, TenancyAssumption DEF Move
  <1> QED
    BY <1>2, <1>3

LEMMA SlotsStep ==
    ASSUME TenancyInv, Moves, HandlersKept',
           \A r \in Request : Begun(r) => req'[r].context = req[r].context,
           \A r \in Request, o \in Organization : Owned(r, o) => Owned(r, o)'
    PROVE  SlotsKept'
  <1> SUFFICES ASSUME NEW o \in Organization, NEW i \in IdempotencyKey,
                      idempotency'[o][i] # Nil
               PROVE  Owned(idempotency[o][i], o)'
    BY DEF SlotsKept
  <1>1. CASE idempotency'[o][i] = idempotency[o][i]
    <2>1. Owned(idempotency[o][i], o)
      BY <1>1 DEF TenancyInv, SlotsKept
    <2>2. idempotency[o][i] \in Request
      BY <2>1 DEF Owned
    <2> QED
      BY <1>1, <2>1, <2>2 DEF Owned
  <1>2. ASSUME NEW r \in Request, idempotency'[o][i] = r, o = Slot(r),
               req[r].at = "claim", req'[r].at = "insert"
        PROVE  Owned(idempotency[o][i], o)'
    <2>1. Begun(r)
      BY <1>2 DEF TenancyInv, HasContext, Begun
    <2> QED
      BY <1>2, <2>1 DEF Owned, Begun, Slot
  <1> QED
    BY <1>1, <1>2 DEF Moves, SlotsMove

LEMMA RowsStep ==
    ASSUME TenancyInv, Moves
    PROVE  RowsKept'
  <1>0. HandlersMove /\ TenantsMove /\ RowsMove
    BY DEF Moves
  <1>1. ASSUME NEW p \in pending \cup events PROVE RowKept(p)'
    <2>1. RowKept(p) /\ p.id \in Request
      BY <1>1 DEF TenancyInv, RowsKept, TypeOK, Row
    <2>2. req'[p.id] = req[p.id]
      BY <1>0, <2>1 DEF HandlersMove, Move, RowKept, Running
    <2> QED
      BY <2>1, <2>2 DEF RowKept
  <1>2. ASSUME NEW p \in pending' PROVE (RowKept(p) /\ p.project = p.hash.project)'
    <2>1. CASE p \in pending
      BY <1>1, <2>1 DEF TenancyInv, RowsKept
    <2>2. ASSUME NEW r \in Request, p = PendingRow(r),
                 req[r].at = "insert", req'[r].at = "accepted"
          PROVE  (RowKept(p) /\ p.project = p.hash.project)'
      <3>1. req[r].context \in Context
        BY <2>2 DEF TenancyInv, HasContext
      <3>2. req'[r].context = req[r].context
        BY <1>0, <2>2 DEF HandlersMove, Move
      <3>3. /\ p.id = r /\ p.org = req[r].context.org
            /\ p.project = req[r].context.project
            /\ p.environment = req[r].context.environment
            /\ p.hash = [org |-> req[r].context.org,
                         project |-> req[r].context.project,
                         environment |-> req[r].context.environment]
        BY <2>2, <3>1, PendingRowType
      <3>4. p.project = p.hash.project
        BY <3>3
      <3>5. RowKept(p)'
        BY <2>2, <3>1, <3>2, <3>3 DEF RowKept
      <3> QED
        BY <3>4, <3>5
    <2> QED
      BY <1>0, <2>1, <2>2 DEF RowsMove
  <1>3. ASSUME NEW p \in events'
        PROVE  (RowKept(p) /\ p.project = environments[p.environment].project)'
    <2>1. CASE p \in events
      <3>1. /\ p.environment \in Environment
            /\ environments[p.environment] # Nil
            /\ p.project = environments[p.environment].project
        <4>1. /\ RowKept(p) /\ p \in Row
              /\ p.project = environments[p.environment].project
          BY <2>1 DEF TenancyInv, RowsKept, TypeOK
        <4>2. p.id \in Request /\ p.environment \in Environment
          BY <4>1 DEF Row
        <4>3. Begun(p.id) /\ p.environment = req[p.id].context.environment
          BY <4>1 DEF RowKept, Begun
        <4> QED
          BY <4>1, <4>2, <4>3 DEF TenancyInv, HandlersKept
      <3> QED
        BY <1>0, <1>1, <2>1, <3>1 DEF TenantsMove
    <2>2. ASSUME NEW q \in pending, environments[q.environment] # Nil, p = SealedRow(q)
          PROVE  (RowKept(p) /\ p.project = environments[p.environment].project)'
      <3>1. q \in Row /\ RowKept(q)'
        BY <1>1, <2>2 DEF TenancyInv, TypeOK
      <3>2. /\ p.id = q.id /\ p.org = q.org /\ p.environment = q.environment
            /\ p.hash = q.hash
            /\ p.project = environments[q.environment].project
        BY <2>2, <3>1 DEF SealedRow, ShardChain, Row
      <3>3. environments'[q.environment] = environments[q.environment]
        BY <1>0, <2>2, <3>1 DEF TenantsMove, Row
      <3> QED
        BY <3>1, <3>2, <3>3 DEF RowKept
    <2> QED
      BY <1>0, <2>1, <2>2 DEF RowsMove
  <1> QED
    BY <1>2, <1>3 DEF RowsKept

LEMMA AnswersStep ==
    ASSUME TenancyInv, Moves, HandlersKept',
           \A r \in Request : Begun(r) => req'[r].context = req[r].context,
           \A r \in Request, o \in Organization : Owned(r, o) => Owned(r, o)'
    PROVE  AnswersKept'
  <1>0. HandlersMove /\ RowsMove
    BY DEF Moves
  <1>1. ASSUME NEW r \in Request, Begun(r), HasRow(r) \/ Represented(r)
        PROVE  (HasRow(r) \/ Represented(r))'
    <2>1. req'[r].context = req[r].context
      BY <1>1
    <2>2. CASE Represented(r)
      BY <1>0, <2>1, <2>2 DEF Represented, RowsMove
    <2>3. ASSUME NEW p \in events, p.id = r PROVE HasRow(r)'
      BY <1>0, <2>3 DEF HasRow, RowsMove
    <2>4. ASSUME NEW p \in pending, p.id = r PROVE (HasRow(r) \/ Represented(r))'
      <3>1. p \in Row /\ RowKept(p)
        BY <2>4 DEF TenancyInv, TypeOK, RowsKept
      <3>2. SealedRow(p).id = r
        BY <2>4, <3>1 DEF SealedRow, Row
      <3>3. ASSUME NEW q \in events, Same(p, q) PROVE Represented(r)'
        <4>1. q \in events'
          BY <1>0 DEF RowsMove
        <4>2. q.environment = req'[r].context.environment
          BY <2>1, <2>4, <3>1, <3>3 DEF Same, RowKept
        <4> QED
          BY <2>4, <3>3, <4>1, <4>2 DEF Same, Represented
      <3> QED
        BY <1>0, <2>4, <3>2, <3>3 DEF RowsMove, HasRow
    <2> QED
      BY <1>1, <2>2, <2>3, <2>4 DEF HasRow
  <1>2. SUFFICES ASSUME NEW r \in Request, req'[r].told # Nil
                 PROVE  /\ Owned(req[r].told, req[r].context.org)'
                        /\ req'[r].told = r => (HasRow(r) \/ Represented(r))'
    BY DEF AnswersKept
  <1>3. req'[r].at = "accepted"
    BY <1>2 DEF HandlersKept
  <1>4. CASE req'[r] = req[r]
    <2>1. /\ Owned(req[r].told, req[r].context.org)
          /\ req[r].told = r => HasRow(r) \/ Represented(r)
          /\ req[r].told \in Request
      BY <1>2, <1>4 DEF TenancyInv, AnswersKept, Owned
    <2>2. req[r].context \in Context
      BY <1>3, <1>4 DEF TenancyInv, HasContext
    <2> QED
      BY <1>1, <1>4, <2>1, <2>2 DEF Begun, Context
  <1>5. CASE /\ req[r].at = "replay"
             /\ req'[r].context = req[r].context
             /\ req'[r].told = idempotency[Slot(r)][IdempotencyOf[r]]
    <2>1. Slot(r) \in Organization /\ IdempotencyOf[r] \in IdempotencyKey
      BY <1>5, TenancyAssumption DEF TenancyInv, HasContext, Slot, Context
    <2>2. Owned(req'[r].told, Slot(r))
      BY <1>2, <1>5, <2>1 DEF TenancyInv, SlotsKept
    <2>3. req'[r].told # r /\ req'[r].told \in Request
      BY <1>5, <2>2 DEF Owned
    <2> QED
      BY <1>5, <2>1, <2>2, <2>3 DEF Slot, Owned
  <1>6. CASE /\ req[r].at = "insert"
             /\ req'[r].context = req[r].context /\ req'[r].told = r
             /\ PendingRow(r) \in pending'
    <2>1. req[r].context \in Context
      BY <1>6 DEF TenancyInv, HasContext
    <2>2. HasRow(r)'
      BY <1>6, <2>1, PendingRowType DEF HasRow
    <2> QED
      BY <1>3, <1>6, <2>1, <2>2 DEF Owned, Begun
  <1> QED
    BY <1>0, <1>3, <1>4, <1>5, <1>6 DEF HandlersMove, Move

LEMMA InvStep == TenancyInv /\ [Next]_vars => TenancyInv'
  <1> SUFFICES ASSUME TenancyInv, [Next]_vars PROVE TenancyInv'
    OBVIOUS
  <1>1. TypeOK' /\ HasContext'
    BY TypeStep DEF TenancyInv
  <1>2. Moves /\ EnvironmentsKept'
    BY StepMoves, EnvironmentsStep
  <1>3. /\ HandlersKept'
        /\ \A r \in Request : Begun(r) => req'[r].context = req[r].context
        /\ \A r \in Request, o \in Organization : Owned(r, o) => Owned(r, o)'
    BY <1>1, <1>2, HandlersStep
  <1> QED
    BY <1>1, <1>2, <1>3, RefusalsStep, SlotsStep, AnswersStep, RowsStep DEF TenancyInv

LEMMA InvHolds == Spec => []TenancyInv
  BY InvInit, InvStep, PTL DEF Spec

-----------------------------------------------------------------------------
(***************************************************************************)
(* The properties.                                                         *)
(***************************************************************************)
\* A request refused at the gate leaves no row and gets no 202: whatever
\* bears its id was written under a context, and it never gets one.
THEOREM RefusedWrites == Spec => []RefusedWritesNothing
  <1>1. TenancyInv => RefusedWritesNothing
    <2> SUFFICES ASSUME TenancyInv, NEW r \in refusable
                 PROVE  ~ Written(r) /\ req[r].told = Nil
      BY DEF RefusedWritesNothing
    <2>1. /\ r \in Request /\ req[r].context = Nil
          /\ req[r].at \in {"lookup", "refused", "lost"}
      BY DEF TenancyInv, RefusalsKept, TypeOK
    <2>2. ~ Begun(r)
      BY <2>1, TenancyAssumption DEF Begun
    <2>3. ASSUME NEW p \in pending \cup events PROVE p.id # r
      BY <2>1, <2>3 DEF TenancyInv, RowsKept, RowKept
    <2>4. ASSUME NEW o \in Organization, NEW i \in IdempotencyKey
          PROVE  idempotency[o][i] # r
      <3>1. r # Nil
        BY <2>1, TenancyAssumption
      <3> QED
        BY <2>2, <3>1 DEF TenancyInv, SlotsKept, Owned
    <2> QED
      BY <2>1, <2>3, <2>4 DEF TenancyInv, HandlersKept, Written
  <1> QED
    BY <1>1, InvHolds, PTL

\* An event is only stored for an environment that has a row, so that a chain
\* can be created for it.
THEOREM StoredSealable == Spec => []EnvironmentExists
  <1>1. ASSUME TenancyInv, NEW p \in pending PROVE environments[p.environment] # Nil
    <2>1. RowKept(p) /\ p.id \in Request
      BY <1>1 DEF TenancyInv, RowsKept, TypeOK, Row
    <2>2. Begun(p.id) /\ p.environment = req[p.id].context.environment
      BY <2>1 DEF RowKept, Begun
    <2> QED
      BY <1>1, <2>1, <2>2 DEF TenancyInv, HandlersKept
  <1>2. TenancyInv => EnvironmentExists
    BY <1>1 DEF EnvironmentExists
  <1> QED
    BY <1>2, InvHolds, PTL

\* An event verifies before and after sealing unless its key's project is
\* not its environment's, which the default context's never is.
THEOREM EventsVerify == Spec => []VerifiesUnlessStray
  <1>1. TenancyInv => VerifiesUnlessStray
    <2> SUFFICES ASSUME TenancyInv PROVE VerifiesUnlessStray
      OBVIOUS
    <2>1. ASSUME NEW p \in pending \cup events
          PROVE  /\ RowKept(p) /\ p \in Row /\ p.id \in Request
                 /\ p \in pending => p.project = p.hash.project
                 /\ p \in events => p.project = environments[p.environment].project
      BY <2>1 DEF TenancyInv, RowsKept, TypeOK, Row
    <2>hash. ASSUME NEW p \in pending \cup events
          PROVE  /\ p.hash = [org |-> p.org, project |-> req[p.id].context.project,
                              environment |-> p.environment]
                 /\ p.hash.project = req[p.id].context.project
      <3>1. RowKept(p)
        BY <2>1, <2>hash
      <3>2. p.hash = [org |-> req[p.id].context.org,
                      project |-> req[p.id].context.project,
                      environment |-> req[p.id].context.environment]
        BY <3>1 DEF RowKept
      <3>3. p.org = req[p.id].context.org /\ p.environment = req[p.id].context.environment
        BY <3>1 DEF RowKept
      <3> QED
        BY <3>2, <3>3
    <2>2. ASSUME NEW p \in pending PROVE Verifies(p)
      <3>1. p.project = req[p.id].context.project
        BY <2>1, <2>hash
      <3> QED
        BY <2>hash, <3>1 DEF Verifies
    <2>3. ASSUME NEW p \in events, ~ StrayProject(p.id) PROVE Verifies(p)
      <3>1. RowKept(p) /\ p.project = environments[p.environment].project
        BY <2>1, <2>3
      <3>2. p.environment = req[p.id].context.environment
        BY <3>1 DEF RowKept
      <3>3. environments[req[p.id].context.environment].project
              = req[p.id].context.project
        BY <2>3 DEF StrayProject
      <3>4. p.project = req[p.id].context.project
        BY <3>1, <3>2, <3>3
      <3> QED
        BY <2>hash, <3>4 DEF Verifies
    <2>4. ASSUME NEW p \in pending \cup events, req[p.id].context = DefaultContext
          PROVE  ~ StrayProject(p.id)
      <3>1. environments[DefaultEnvironmentID] # Nil
        BY <2>1, <2>4, ContextType
        DEF TenancyInv, HandlersKept, Begun, DefaultContext
      <3> QED
        BY <2>4, <3>1
        DEF TenancyInv, EnvironmentsKept, StrayProject, DefaultContext, DefaultEnvironment
    <2> QED
      BY <2>2, <2>3, <2>4 DEF VerifiesUnlessStray
  <1> QED
    BY <1>1, InvHolds, PTL

\* The id of a 202 is that of an event of the caller's organization, which it
\* finds, unless it is not inserted or was dropped as a duplicate.
THEOREM AnswersOwn == Spec => []ToldIsOwn
  <1>1. TenancyInv => ToldIsOwn
    <2> SUFFICES ASSUME TenancyInv, NEW r \in Request, req[r].told # Nil
                 PROVE  LET id == req[r].told IN
                        /\ req[id].context.org = req[r].context.org
                        /\ \/ \E p \in pending \cup events :
                                 p.id = id /\ p.org = req[r].context.org
                           \/ req[id].at \in {"insert", "lost"}
                           \/ \E q \in events :
                                 /\ ExternalOf[q.id] = ExternalOf[id]
                                 /\ ExternalOf[id] # Nil
                                 /\ q.environment = req[id].context.environment
      BY DEF ToldIsOwn
    <2> DEFINE id == req[r].told
    <2>1. Owned(id, req[r].context.org)
      BY DEF TenancyInv, AnswersKept
    <2>2. CASE req[id].at = "accepted"
      <3>1. id \in Request /\ req[id].told = id /\ id # Nil
        BY <2>1, <2>2 DEF Owned
      <3>2. HasRow(id) \/ Represented(id)
        BY <3>1 DEF TenancyInv, AnswersKept
      <3>3. \A p \in pending \cup events : p.org = req[p.id].context.org
        BY DEF TenancyInv, RowsKept, RowKept
      <3> QED
        BY <2>1, <3>2, <3>3 DEF HasRow, Represented, Owned
    <2> QED
      BY <2>1, <2>2 DEF Owned
  <1> QED
    BY <1>1, InvHolds, PTL

\* A duplicate is represented by an event of its own organization, unless a
\* key's organization is not its environment's.
THEOREM DropsOwn == Spec => []DropRepresented
  <1>1. TenancyInv => DropRepresented
    <2> SUFFICES ASSUME TenancyInv, NEW r \in Request, req[r].told = r, ~ HasRow(r)
                 PROVE  \E q \in events :
                            /\ ExternalOf[q.id] = ExternalOf[r]
                            /\ q.environment = req[r].context.environment
                            /\ \/ q.org = req[r].context.org
                               \/ StrayOrg(r) \/ StrayOrg(q.id)
      BY DEF DropRepresented, HasRow
    <2>1. Represented(r)
      BY TenancyAssumption DEF TenancyInv, AnswersKept
    <2>2. PICK q \in events : /\ ExternalOf[q.id] = ExternalOf[r]
                              /\ q.environment = req[r].context.environment
      BY <2>1 DEF Represented
    <2>3. /\ q.org = req[q.id].context.org
          /\ q.environment = req[q.id].context.environment
      BY DEF TenancyInv, RowsKept, RowKept
    <2> DEFINE c == req[r].context
               d == req[q.id].context
    <2>4. c.environment = d.environment /\ q.org = d.org
      BY <2>2, <2>3
    <2>5. /\ StrayOrg(r) <=> c.org # environments[c.environment].org
          /\ StrayOrg(q.id) <=> d.org # environments[d.environment].org
      BY DEF StrayOrg
    <2>6. q.org = c.org \/ StrayOrg(r) \/ StrayOrg(q.id)
      <3> HIDE DEF c, d
      <3> QED
        BY <2>4, <2>5
    <2> QED
      BY <2>2, <2>6
  <1> QED
    BY <1>1, InvHolds, PTL

-----------------------------------------------------------------------------
(***************************************************************************)
(* What no restart, command or other tenant's request takes back.          *)
(***************************************************************************)
Settled ==
    /\ \A e \in Environment : environments[e] # Nil => environments'[e] = environments[e]
    /\ \A k \in Key : keys[k] # Nil =>
          /\ keys'[k] # Nil
          /\ keys'[k].scopes = keys[k].scopes
          /\ keys[k].revoked => keys'[k].revoked
    /\ \A r \in Request :
          /\ req[r].context # Nil => req'[r].context = req[r].context
          /\ req[r].told # Nil => req'[r].told = req[r].told
    /\ \A o \in Organization, i \in IdempotencyKey :
          idempotency[o][i] # Nil => idempotency'[o][i] = idempotency[o][i]
    /\ events \subseteq events'

(***************************************************************************)
(* An environment never changes its tenant, a revoked key is never in      *)
(* force again and none gains a scope, a request keeps the tenant it was   *)
(* let in for and the id it was told, an idempotency slot keeps its id,    *)
(* and no sealed event is taken back, whatever servers, commands and       *)
(* requests of other tenants do (the upserts of bootstrap.go update        *)
(* nothing; revokeKeyCmd only sets revoked_at).                            *)
(***************************************************************************)
TenantsSettled == [][Settled]_vars

LEMMA TenantsStep == TenancyInv /\ [Next]_vars => Settled
  <1> SUFFICES ASSUME TenancyInv, [Next]_vars PROVE Settled
    OBVIOUS
  <1>1. Moves
    BY StepMoves
  <1>2. ASSUME NEW r \in Request
        PROVE  /\ req[r].context # Nil => req'[r].context = req[r].context
               /\ req[r].told # Nil => req'[r].told = req[r].told
    <2>1. /\ Move(r)
          /\ req[r].at \in {"new", "lookup", "refused"} => req[r].context = Nil
          /\ req[r].told # Nil <=> req[r].at = "accepted"
      BY <1>1 DEF Moves, HandlersMove, TenancyInv, HandlersKept
    <2> QED
      BY <2>1 DEF Move, Running
  <1>3. ASSUME NEW o \in Organization, NEW i \in IdempotencyKey, idempotency[o][i] # Nil
        PROVE  idempotency'[o][i] = idempotency[o][i]
    BY <1>1, <1>3 DEF Moves, SlotsMove
  <1> QED
    BY <1>1, <1>2, <1>3 DEF Settled, Moves, TenantsMove, RowsMove

\* What is set up, revoked, let in, told or sealed stays so (bootstrap.go,
\* the commands of cmd/stonewrit/main.go, the auth gate, accept.go).
THEOREM TenantsAlwaysSettled == Spec => TenantsSettled
  <1>1. TenancyInv /\ [Next]_vars => Settled
    BY TenantsStep
  <1> QED
    BY <1>1, InvHolds, PTL DEF Spec, TenantsSettled
=============================================================================
