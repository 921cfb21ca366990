------------------------------- MODULE Tenancy -------------------------------
(***************************************************************************)
(* Who writes where: the boot of the servers (server/cmd/server/main.go,   *)
(* bootstrap.go), the management commands (cmd/stonewrit/main.go), the     *)
(* auth gate (middleware/apikey.go, auth/, router.go), and the tenant that *)
(* a request's context, its rows and the chain they are sealed into carry. *)
(*                                                                         *)
(* One action is one statement; SealShard, whose statements are in Sealer, *)
(* is one commit here, and a batch as many of them as it has rows.         *)
(***************************************************************************)
EXTENDS Integers, FiniteSets

CONSTANTS
    Server, Key, Request,
    Organization, Project, Environment,
    DefaultOrganizationID, DefaultProjectID, DefaultEnvironmentID,
    IdempotencyKey, ExternalID,
    Flags,          \* --org, --project and --environment of a `key create`
    Grants,         \* what --scopes may be given
    KeyOf,          \* the token a request carries, or Nil
    IdempotencyOf,  \* its Idempotency-Key, or Nil
    ExternalOf,     \* its external_event_id, or Nil
    Nil,
    MaxFailures     \* bound: stops and crashes

Scope == {"events:write", "events:read", "chains:verify", "evidence:read"}

AllScopes == Scope

Target == [project: Project, environment: Environment]

Tenant == [org: Organization, project: Project]

ApiKey == [scopes: SUBSET Scope, revoked: BOOLEAN]

Context == [org: Organization, project: Project, environment: Environment,
            scopes: SUBSET Scope]

\* The ids are uuids: no value of one kind is one of another.  `key create`
\* refuses one of --project and --environment without the other.
ASSUME TenancyAssumption ==
    /\ Server \cap Key = {}
    /\ DefaultOrganizationID \in Organization
    /\ DefaultProjectID \in Project
    /\ DefaultEnvironmentID \in Environment
    /\ Nil \notin Key \cup Request \cup IdempotencyKey \cup ExternalID
    /\ Nil \notin Tenant \cup Target \cup ApiKey \cup Context
    /\ Flags \in [Key -> [org: Organization, target: Target \cup {Nil}]]
    /\ Grants \subseteq SUBSET Scope
    /\ KeyOf \in [Request -> Key \cup {Nil}]
    /\ IdempotencyOf \in [Request -> IdempotencyKey \cup {Nil}]
    /\ ExternalOf \in [Request -> ExternalID \cup {Nil}]
    /\ MaxFailures \in Nat

\* The processes that set up the default tenant.
Process == Server \cup Key

VARIABLES
    projects,       \* rows of projects
    environments,   \* rows of environments, Nil for an id without one
    keys,           \* rows of api_keys, Nil before the insert
    at,             \* where a server or a `key create` is
    guarded,        \* servers with APIKEY_AUTH=true
    req,            \* the local state of a request's handler
    idempotency,    \* idempotency_keys: the id in the cached response
    pending,        \* rows of pending_events
    events,         \* rows of events
    refusable,      \* history: requests that no key in force at arrival allows
    failures        \* stops and crashes so far

tenants == <<projects, environments>>
rows == <<idempotency, pending, events>>
vars == <<projects, environments, keys, at, guarded, req, idempotency,
          pending, events, refusable, failures>>

-----------------------------------------------------------------------------
\* What Accept hashes of the tenant, and what verification rebuilds.
Content == [org: Organization, project: Project, environment: Environment]

Row == [id: Request, org: Organization, project: Project,
        environment: Environment, hash: Content]

Handler == [at: {"new", "lookup", "claim", "replay", "insert",
                 "accepted", "refused", "lost"},
            server: Server \cup {Nil},
            context: Context \cup {Nil},
            told: Request \cup {Nil}]

NewHandler == [at |-> "new", server |-> Nil, context |-> Nil, told |-> Nil]

Init ==
    /\ projects = {}
    /\ environments = [e \in Environment |-> Nil]
    /\ keys = [k \in Key |-> Nil]
    /\ at = [x \in Process |-> "off"]
    /\ guarded = {}
    /\ req = [r \in Request |-> NewHandler]
    /\ idempotency = [o \in Organization |-> [i \in IdempotencyKey |-> Nil]]
    /\ pending = {}
    /\ events = {}
    /\ refusable = {}
    /\ failures = 0

-----------------------------------------------------------------------------
(***************************************************************************)
(* Servers and commands.                                                   *)
(***************************************************************************)
\* Mutant: the server relies on `key create` for its default tenant.
AlwaysReady(auth) == IF auth THEN "ready" ELSE "ready"

\* Where a boot goes after SeedCatalog.
AfterSeed(auth) == IF auth THEN "ready" ELSE "project"

Boot(s) ==
    /\ at[s] = "off"
    /\ \E auth \in BOOLEAN :
          /\ guarded' = IF auth THEN guarded \cup {s} ELSE guarded \ {s}
          /\ at' = [at EXCEPT ![s] = AfterSeed(auth)]
    /\ UNCHANGED <<tenants, keys, req, rows, refusable, failures>>

\* `key create` has parsed its flags.
KeyCreate(k) ==
    /\ at[k] = "off"
    /\ at' = [at EXCEPT ![k] = IF Flags[k].target = Nil THEN "project" ELSE "ready"]
    /\ UNCHANGED <<tenants, keys, guarded, req, rows, refusable, failures>>

\* The two upserts of EnsureDefaultTenant, for a server or a command.
EnsureDefaultProject(x) ==
    /\ at[x] = "project"
    /\ projects' = projects \cup {DefaultProjectID}
    /\ at' = [at EXCEPT ![x] = "environment"]
    /\ UNCHANGED <<environments, keys, guarded, req, rows, refusable, failures>>

DefaultEnvironment == [org |-> DefaultOrganizationID, project |-> DefaultProjectID]

EnsureDefaultEnvironment(x) ==
    /\ at[x] = "environment"
    /\ environments' = [environments EXCEPT
          ![DefaultEnvironmentID] = IF @ = Nil THEN DefaultEnvironment ELSE @]
    /\ at' = [at EXCEPT ![x] = "ready"]
    /\ UNCHANGED <<projects, keys, guarded, req, rows, refusable, failures>>

TargetOf(k) ==
    IF Flags[k].target = Nil
    THEN [project |-> DefaultProjectID, environment |-> DefaultEnvironmentID]
    ELSE Flags[k].target

\* The foreign keys are all that is asked of the target.
InsertApiKey(k) ==
    /\ at[k] = "ready" /\ keys[k] = Nil
    /\ IF TargetOf(k).project \in projects /\ environments[TargetOf(k).environment] # Nil
       THEN /\ \E scopes \in Grants :
                  keys' = [keys EXCEPT ![k] = [scopes |-> scopes, revoked |-> FALSE]]
            /\ UNCHANGED at
       ELSE at' = [at EXCEPT ![k] = "off"] /\ UNCHANGED keys
    /\ UNCHANGED <<tenants, guarded, req, rows, refusable, failures>>

RevokeApiKey(k) ==
    /\ keys[k] # Nil
    /\ ~ keys[k].revoked
    /\ keys' = [keys EXCEPT ![k].revoked = TRUE]
    /\ UNCHANGED <<tenants, at, guarded, req, rows, refusable, failures>>

\* `project create` and `environment create` draw new ids.
CreateProject(p) ==
    /\ p \notin projects \cup {DefaultProjectID}
    /\ projects' = projects \cup {p}
    /\ UNCHANGED <<environments, keys, at, guarded, req, rows, refusable, failures>>

CreateEnvironment(e) ==
    /\ e # DefaultEnvironmentID /\ environments[e] = Nil
    /\ \E o \in Organization, p \in projects :
          environments' = [environments EXCEPT ![e] = [org |-> o, project |-> p]]
    /\ UNCHANGED <<projects, keys, at, guarded, req, rows, refusable, failures>>

-----------------------------------------------------------------------------
(***************************************************************************)
(* The auth gate and the accept path of an event.                          *)
(***************************************************************************)
DefaultContext == [org |-> DefaultOrganizationID, project |-> DefaultProjectID,
                   environment |-> DefaultEnvironmentID, scopes |-> AllScopes]

\* Mutant: a column of the lookup is not copied.
ContextWithoutEnvironment(k) ==
    [org |-> Flags[k].org, project |-> TargetOf(k).project,
     environment |-> Nil, scopes |-> keys[k].scopes]

ContextOf(k) == [org |-> Flags[k].org, project |-> TargetOf(k).project,
                 environment |-> TargetOf(k).environment, scopes |-> keys[k].scopes]

\* Mutant: the lookup does not look at revoked_at.
AnyKeyFound(k) == k # Nil /\ keys[k] # Nil

\* LookupApiKeyByHash finds a row.
KeyFound(k) == k # Nil /\ keys[k] # Nil /\ ~ keys[k].revoked

Allowed(k) == KeyFound(k) /\ "events:write" \in keys[k].scopes

\* A handler with a context, at Accept's first statement that matters here.
Accepting(r, s, c) ==
    [at |-> IF IdempotencyOf[r] # Nil THEN "claim" ELSE "insert",
     server |-> s, context |-> c, told |-> Nil]

\* A request reaches a server.  A client has no token before `key create`
\* prints it; a server without authentication looks at none.
Arrive(r, s) ==
    /\ req[r].at = "new"
    /\ at[s] = "ready"
    /\ IF s \in guarded
       THEN /\ KeyOf[r] # Nil => keys[KeyOf[r]] # Nil
            /\ req' = [req EXCEPT ![r] = [NewHandler EXCEPT !.at = "lookup", !.server = s]]
            /\ refusable' = IF \/ KeyOf[r] = Nil
                               \/ keys[KeyOf[r]].revoked
                               \/ "events:write" \notin keys[KeyOf[r]].scopes
                            THEN refusable \cup {r}
                            ELSE refusable
       ELSE /\ req' = [req EXCEPT ![r] = Accepting(r, s, DefaultContext)]
            /\ UNCHANGED refusable
    /\ UNCHANGED <<tenants, keys, at, guarded, rows, failures>>

\* Require: Verify's lookup, and the scope of the route.
LookupApiKeyByHash(r) ==
    /\ req[r].at = "lookup"
    /\ req' = [req EXCEPT ![r] = IF Allowed(KeyOf[r])
                                 THEN Accepting(r, @.server, ContextOf(KeyOf[r]))
                                 ELSE [@ EXCEPT !.at = "refused"]]
    /\ UNCHANGED <<tenants, keys, at, guarded, rows, refusable, failures>>

\* Mutant: the unique key of idempotency_keys is the key alone.
SharedSlot(r) == DefaultOrganizationID

\* UNIQUE (organization_id, key): whose keys a request's key is one of.
Slot(r) == req[r].context.org

ClaimIdempotencyKey(r) ==
    LET i == IdempotencyOf[r] IN
    /\ req[r].at = "claim"
    /\ IF idempotency[Slot(r)][i] = Nil
       THEN /\ idempotency' = [idempotency EXCEPT ![Slot(r)][i] = r]
            /\ req' = [req EXCEPT ![r].at = "insert"]
       ELSE /\ req' = [req EXCEPT ![r].at = "replay"]
            /\ UNCHANGED idempotency
    /\ UNCHANGED <<tenants, keys, at, guarded, pending, events, refusable, failures>>

\* 202 with an id: the cached one, or that of the event just inserted.
Answer(r, id) == req' = [req EXCEPT ![r].at = "accepted", ![r].told = id]

GetIdempotentResponse(r) ==
    /\ req[r].at = "replay"
    /\ Answer(r, idempotency[Slot(r)][IdempotencyOf[r]])
    /\ UNCHANGED <<tenants, keys, at, guarded, rows, refusable, failures>>

PendingRow(r) ==
    LET c == req[r].context IN
    [id |-> r, org |-> c.org, project |-> c.project, environment |-> c.environment,
     hash |-> [org |-> c.org, project |-> c.project, environment |-> c.environment]]

InsertPendingEvent(r) ==
    /\ req[r].at = "insert"
    /\ pending' = pending \cup {PendingRow(r)}
    /\ Answer(r, r)
    /\ UNCHANGED <<tenants, keys, at, guarded, idempotency, events, refusable, failures>>

-----------------------------------------------------------------------------
(***************************************************************************)
(* The sealer of a server.                                                 *)
(***************************************************************************)
\* Mutant: chains are created in the default project.
DefaultShardChain(p) == [environments[p.environment] EXCEPT !.project = DefaultProjectID]

\* Tenant of the chain row, from the environment's row (nothing updates it).
ShardChain(p) == environments[p.environment]

SealedRow(p) == [p EXCEPT !.project = ShardChain(p).project]

\* Mutant: the duplicates are looked for in all environments.
SameAnywhere(p, q) == ExternalOf[p.id] # Nil /\ ExternalOf[p.id] = ExternalOf[q.id]

\* Two rows that the unique index of events does not let stand together.
Same(p, q) ==
    /\ ExternalOf[p.id] # Nil
    /\ ExternalOf[p.id] = ExternalOf[q.id]
    /\ p.environment = q.environment

\* Without an environment row there is no chain, and the shard is skipped.
SealShard(s) ==
    /\ at[s] = "ready"
    /\ \E p \in pending :
          /\ environments[p.environment] # Nil
          /\ pending' = pending \ {p}
          /\ events' = IF \E q \in events : Same(p, q)
                       THEN events
                       ELSE events \cup {SealedRow(p)}
    /\ UNCHANGED <<tenants, keys, at, guarded, req, idempotency, refusable, failures>>

-----------------------------------------------------------------------------
(***************************************************************************)
(* Stops and crashes.                                                      *)
(***************************************************************************)
Running(r) == req[r].at \in {"lookup", "claim", "replay", "insert"}

\* A signal stops the sealer and the listener; handlers have ten seconds.
Stop(s) ==
    /\ at[s] = "ready" /\ failures < MaxFailures
    /\ at' = [at EXCEPT ![s] = "stopping"]
    /\ failures' = failures + 1
    /\ UNCHANGED <<tenants, keys, guarded, req, rows, refusable>>

\* The process is gone, and the handlers that were running in it.
Gone(s) ==
    /\ at' = [at EXCEPT ![s] = "off"]
    /\ req' = [r \in Request |-> IF Running(r) /\ req[r].server = s
                                 THEN [req[r] EXCEPT !.at = "lost"]
                                 ELSE req[r]]

Exit(s) ==
    /\ at[s] = "stopping"
    /\ Gone(s)
    /\ UNCHANGED <<tenants, keys, guarded, rows, refusable, failures>>

Crash(s) ==
    /\ at[s] # "off" /\ failures < MaxFailures
    /\ Gone(s)
    /\ failures' = failures + 1
    /\ UNCHANGED <<tenants, keys, guarded, rows, refusable>>

\* A command fails or is interrupted, and may be given again.
CommandFails(k) ==
    /\ at[k] \in {"project", "environment", "ready"} /\ keys[k] = Nil
    /\ failures < MaxFailures
    /\ at' = [at EXCEPT ![k] = "off"]
    /\ failures' = failures + 1
    /\ UNCHANGED <<tenants, keys, guarded, req, rows, refusable>>

\* A statement of a handler returns an error: a 500.
RequestFails(r) ==
    /\ Running(r) /\ failures < MaxFailures
    /\ req' = [req EXCEPT ![r].at = "lost"]
    /\ failures' = failures + 1
    /\ UNCHANGED <<tenants, keys, at, guarded, rows, refusable>>

-----------------------------------------------------------------------------
Up(s) ==
    \/ Boot(s)
    \/ EnsureDefaultProject(s)
    \/ EnsureDefaultEnvironment(s)
    \/ Exit(s)

Command(k) ==
    \/ KeyCreate(k)
    \/ EnsureDefaultProject(k)
    \/ EnsureDefaultEnvironment(k)
    \/ InsertApiKey(k)
    \/ RevokeApiKey(k)
    \/ CommandFails(k)

Handle(r) ==
    \/ \E s \in Server : Arrive(r, s)
    \/ LookupApiKeyByHash(r)
    \/ ClaimIdempotencyKey(r)
    \/ GetIdempotentResponse(r)
    \/ InsertPendingEvent(r)
    \/ RequestFails(r)

\* No request is left, and nothing to seal.
Quiet ==
    /\ pending = {}
    /\ \A r \in Request : req[r].at \in {"accepted", "refused", "lost"}
    /\ UNCHANGED vars

Next ==
    \/ \E s \in Server : Up(s) \/ SealShard(s) \/ Stop(s) \/ Crash(s)
    \/ \E k \in Key : Command(k)
    \/ \E p \in Project : CreateProject(p)
    \/ \E e \in Environment : CreateEnvironment(e)
    \/ \E r \in Request : Handle(r)
    \/ Quiet

Spec == Init /\ [][Next]_vars

-----------------------------------------------------------------------------
(***************************************************************************)
(* Properties                                                              *)
(***************************************************************************)
TypeOK ==
    /\ projects \subseteq Project
    /\ environments \in [Environment -> Tenant \cup {Nil}]
    /\ keys \in [Key -> ApiKey \cup {Nil}]
    /\ at \in [Process -> {"off", "project", "environment", "ready", "stopping"}]
    /\ guarded \subseteq Server
    /\ req \in [Request -> Handler]
    /\ idempotency \in [Organization -> [IdempotencyKey -> Request \cup {Nil}]]
    /\ pending \subseteq Row
    /\ events \subseteq Row
    /\ refusable \subseteq Request
    /\ failures \in 0 .. MaxFailures

Written(r) ==
    \/ \E p \in pending \cup events : p.id = r
    \/ \E o \in Organization, i \in IdempotencyKey : idempotency[o][i] = r

(***************************************************************************)
(* A request that reaches a server with authentication after its key has   *)
(* been revoked, without a key or with one that may not write, leaves no   *)
(* row and is never answered 202, whatever restarts of servers in the      *)
(* other mode and other requests of the key come in between.               *)
(***************************************************************************)
RefusedWritesNothing ==
    \A r \in refusable : ~ Written(r) /\ req[r].told = Nil

(***************************************************************************)
(* An event is only ever stored for an environment that has a row, which   *)
(* no foreign key of pending_events demands and without which no chain can *)
(* be created for it: the default environment is there before the first    *)
(* request of a server without authentication, however many boots were     *)
(* broken off before.                                                      *)
(***************************************************************************)
EnvironmentExists ==
    \A p \in pending : environments[p.environment] # Nil

\* The tenant of an event's request differs from that of its environment's
\* row: a key made with an --org or a --project that is not the environment's.
StrayOrg(r) ==
    LET c == req[r].context IN c.org # environments[c.environment].org

StrayProject(r) ==
    LET c == req[r].context IN c.project # environments[c.environment].project

Verifies(p) == p.hash = [org |-> p.org, project |-> p.project,
                         environment |-> p.environment]

(***************************************************************************)
(* An accepted event verifies, and goes on verifying when it is sealed,    *)
(* where its project is replaced by that of the chain, unless its key was  *)
(* made with a project that is not its environment's; the requests of a    *)
(* server without authentication are never of that kind.                   *)
(***************************************************************************)
VerifiesUnlessStray ==
    /\ \A p \in pending : Verifies(p)
    /\ \A p \in events : Verifies(p) \/ StrayProject(p.id)
    /\ \A p \in pending \cup events :
          req[p.id].context = DefaultContext => ~ StrayProject(p.id)

(***************************************************************************)
(* The id a client is told is that of an event of its own organization,    *)
(* also when another request of the organization, through another key or   *)
(* project, had used the idempotency key: it can be read, unless that      *)
(* request has not inserted it (yet), or it was dropped as a duplicate.    *)
(***************************************************************************)
ToldIsOwn ==
    \A r \in Request :
        LET id == req[r].told IN
        id # Nil =>
            /\ req[id].context.org = req[r].context.org
            /\ \/ \E p \in pending \cup events :
                     p.id = id /\ p.org = req[r].context.org
               \/ req[id].at \in {"insert", "lost"}
               \/ \E q \in events : /\ ExternalOf[q.id] = ExternalOf[id]
                                    /\ ExternalOf[id] # Nil
                                    /\ q.environment = req[id].context.environment

(***************************************************************************)
(* An event dropped as a duplicate is represented in the journal by one of *)
(* the same organization, which its sender can read, unless one of the two *)
(* came with a key of an organization that is not their environment's.     *)
(***************************************************************************)
DropRepresented ==
    \A r \in Request :
        /\ req[r].told = r
        /\ ~ \E p \in pending \cup events : p.id = r
        => \E q \in events :
              /\ ExternalOf[q.id] = ExternalOf[r]
              /\ q.environment = req[r].context.environment
              /\ \/ q.org = req[r].context.org
                 \/ StrayOrg(r) \/ StrayOrg(q.id)
=============================================================================
