--------------------------- MODULE EvidenceProofs ---------------------------
(***************************************************************************)
(* Theorems about Evidence, for any requests, bodies, rules, agents and    *)
(* interleavings of accepts, seals, boots and reads.                       *)
(***************************************************************************)
EXTENDS Evidence, FiniteSetTheorems, WellFoundedInduction, TLAPS

\* What json.Marshal and json.Unmarshal do to the fields that may be absent.
LEMMA StoredField ==
    ASSUME NEW input, NEW f \in Optional
    PROVE  Stored(input)[f] =
             IF f = "metadata" THEN OmitEmpty(input.metadata) ELSE input[f]
  BY DEF Stored, Optional

\* A row that is stored twice is stored as once.
LEMMA StoredOnce ==
    ASSUME NEW input
    PROVE  Stored(Stored(input)) = Stored(input)
  BY ContentAssumption DEF Stored, OmitEmpty

\* The payload rebuilt from what was stored is the payload that was hashed,
\* unless the metadata were an empty map.
LEMMA RebuiltPayload ==
    ASSUME NEW at, NEW input
    PROVE  BuildContentPayload(at, Stored(input)) = BuildContentPayload(at, input)
             <=> input.metadata # {}
  <1> DEFINE present(i) == {g \in Optional : i[g] # Nil}
             optional(i) == [f \in present(i) |-> i[f]]
  <1>1. BuildContentPayload(at, Stored(input)) = BuildContentPayload(at, input)
          <=> optional(Stored(input)) = optional(input)
    BY DEF BuildContentPayload, Stored
  <1>2. CASE input.metadata # {}
    <2>1. \A f \in Optional : Stored(input)[f] = input[f]
      BY <1>2, StoredField DEF OmitEmpty
    <2>2. present(Stored(input)) = present(input)
      BY <2>1
    <2>3. optional(Stored(input)) = optional(input)
      BY <2>1, <2>2
    <2> QED
      BY <1>1, <1>2, <2>3
  <1>3. CASE input.metadata = {}
    <2>1. "metadata" \in present(input)
      BY <1>3, ContentAssumption DEF Optional
    <2>2. "metadata" \notin present(Stored(input))
      BY <1>3, StoredField DEF Optional, OmitEmpty
    <2>3. DOMAIN optional(Stored(input)) # DOMAIN optional(input)
      BY <2>1, <2>2
    <2> QED
      BY <1>1, <1>3, <2>3
  <1> QED
    BY <1>2, <1>3

-----------------------------------------------------------------------------
(***************************************************************************)
(* What every event keeps from Accept to the journal.                      *)
(***************************************************************************)
Hashed(e) == req[e].hash = BuildContentPayload(req[e].at, req[e].input)

Verdict(e, scope) ==
    scope # Nil =>
        /\ IsAgent(req[e].input.actor)
        /\ \E row \in seen[e] : scope.in_scope = Authorizes(row, req[e].input)

PendingRight(e) ==
    /\ pending[e].payload_hash = req[e].hash
    /\ pending[e].event_data.received_at = req[e].at
    /\ pending[e].event_data.input = Stored(req[e].input)
    /\ Verdict(e, pending[e].scope_check)

SealedRight(e) ==
    /\ events[e].payload_hash = req[e].hash
    /\ events[e].received_at = req[e].at
    /\ events[e].raw_payload = Stored(req[e].input)
    /\ Verdict(e, events[e].scope_check_result)

EventRight(e) ==
    /\ InRequest(e) \/ req[e].step = "accepted" => Hashed(e)
    /\ InRequest(e) => RegisteredAgent(e) \in seen[e]
    /\ req[e].step = "insert" => Verdict(e, req[e].scope)
    /\ req[e].step = "accepted" <=> e \in DOMAIN pending \cup Sealed
    /\ e \in DOMAIN pending => PendingRight(e)
    /\ e \in Sealed => SealedRight(e)

EvidenceInv ==
    /\ DOMAIN req = Event /\ DOMAIN seen = Event /\ DOMAIN agents = Agent
    /\ DOMAIN pending \subseteq Event /\ Sealed \subseteq Event
    /\ \A e \in Event : EventRight(e)
    /\ reader.op = "verifyPending" => reader.event \in Accepted

LEMMA EvidenceInvInit == Init => EvidenceInv
  BY DEF Init, EvidenceInv, EventRight, Sealed, InRequest, NoRequest, Request, Idle

\* An event whose request and rows a step leaves alone stays right, if the
\* step has noted what it did to the event's agent.
LEMMA EventKept ==
    ASSUME NEW e, EventRight(e), req'[e] = req[e], seen[e] \subseteq seen'[e],
           InRequest(e) => RegisteredAgent(e)' \in seen'[e],
           e \in DOMAIN pending' <=> e \in DOMAIN pending,
           e \in DOMAIN events' <=> e \in DOMAIN events,
           e \in DOMAIN pending => pending'[e] = pending[e],
           e \in DOMAIN events => events'[e] = events[e]
    PROVE  EventRight(e)'
  <1>1. ASSUME NEW scope, Verdict(e, scope) PROVE Verdict(e, scope)'
    BY <1>1 DEF Verdict
  <1>2. PendingRight(e) /\ e \in DOMAIN pending => PendingRight(e)'
    BY <1>1 DEF PendingRight
  <1>3. SealedRight(e) /\ e \in DOMAIN events => SealedRight(e)'
    BY <1>1 DEF SealedRight
  <1>4. req[e].step = "insert" /\ Verdict(e, req[e].scope) => Verdict(e, req[e].scope)'
    BY <1>1
  <1> QED
    BY <1>2, <1>3, <1>4 DEF EventRight, Sealed, InRequest, Hashed

\* A step of Accept for one event disturbs no other, and the reader and the
\* accepted events of the reader are left as they were.
LEMMA OthersKept ==
    ASSUME EvidenceInv, NEW e \in Event, NEW d \in Event \ {e},
           req'[d] = req[d], seen'[d] = seen[d], UNCHANGED <<agents, tables>>
    PROVE  EventRight(d)'
  <1>1. EventRight(d)
    BY DEF EvidenceInv
  <1>2. InRequest(d) => RegisteredAgent(d)' \in seen'[d]
    BY <1>1 DEF EventRight, RegisteredAgent
  <1> QED
    BY <1>1, <1>2, EventKept DEF tables

LEMMA AcceptKeeps ==
    ASSUME EvidenceInv, NEW e \in Event, Accept(e)
    PROVE  EvidenceInv'
  <1> USE DEF EvidenceInv
  <1>1. ASSUME NEW input, Receive(e, input) PROVE EvidenceInv'
    <2>1. /\ req' = [req EXCEPT ![e] =
                       Request("resolve", input, HashTime(now),
                               BuildContentPayload(HashTime(now), input),
                               Compute(input), Nil)]
          /\ req[e].step = "none"
          /\ UNCHANGED <<agents, tables, reader>>
      BY <1>1 DEF Receive, tables
    <2>2. /\ DOMAIN seen' = Event
          /\ \A d \in Event \ {e} : seen'[d] = seen[d]
          /\ RegisteredAgent(e)' \in seen'[e]
      BY <1>1 DEF Receive, RegisteredAgent, Request
    <2>3. EventRight(e)'
      BY <2>1, <2>2 DEF EventRight, Request, InRequest, Hashed, Sealed, tables
    <2>4. \A d \in Event \ {e} : EventRight(d)'
      BY <2>1, <2>2, OthersKept
    <2> QED
      BY <2>1, <2>2, <2>3, <2>4 DEF tables, Sealed, Accepted
  <1>2. ASSUME ResolveControlReferences(e) PROVE EvidenceInv'
    <2>1. /\ req' = [req EXCEPT ![e] =
                       Request("scope", req[e].input, req[e].at, req[e].hash,
                               ResolveAgainstCatalog(req[e].mappings, catalog), Nil)]
          /\ req[e].step = "resolve"
          /\ UNCHANGED <<agents, tables, reader, seen>>
      BY <1>2 DEF ResolveControlReferences, tables
    <2>2. EventRight(e)'
      BY <2>1 DEF EventRight, Request, InRequest, Hashed, Sealed, tables, RegisteredAgent
    <2>3. \A d \in Event \ {e} : EventRight(d)'
      BY <2>1, OthersKept
    <2> QED
      BY <2>1, <2>2, <2>3 DEF tables, Sealed, Accepted
  <1>3. ASSUME GetAgentByExternalID(e) PROVE EvidenceInv'
    <2>1. /\ req' = [req EXCEPT ![e] =
                       Request("insert", req[e].input, req[e].at, req[e].hash,
                               req[e].mappings,
                               ComputeScopeCheck(req[e].input, RegisteredAgent(e)))]
          /\ req[e].step = "scope"
          /\ UNCHANGED <<agents, tables, reader, seen>>
      BY <1>3 DEF GetAgentByExternalID, tables
    <2>2. Verdict(e, ComputeScopeCheck(req[e].input, RegisteredAgent(e)))
      <3>1. RegisteredAgent(e) \in seen[e]
        BY <2>1 DEF EventRight, InRequest
      <3> QED
        BY <3>1 DEF Verdict, ComputeScopeCheck, Authorizes
    <2>3. req'[e].input = req[e].input /\ req'[e].step = "insert"
          /\ req'[e].hash = req[e].hash /\ req'[e].at = req[e].at
          /\ req'[e].scope = ComputeScopeCheck(req[e].input, RegisteredAgent(e))
      BY <2>1 DEF Request
    <2>4. Verdict(e, req[e].scope)'
      BY <2>1, <2>2, <2>3 DEF Verdict
    <2>5. EventRight(e)'
      BY <2>1, <2>3, <2>4 DEF EventRight, InRequest, Hashed, Sealed, tables, RegisteredAgent
    <2>6. \A d \in Event \ {e} : EventRight(d)'
      BY <2>1, OthersKept
    <2> QED
      BY <2>1, <2>3, <2>5, <2>6 DEF tables, Sealed, Accepted
  <1>4. ASSUME AgentLookupFails(e) PROVE EvidenceInv'
    <2>1. /\ req' = [req EXCEPT ![e] =
                       Request("insert", req[e].input, req[e].at, req[e].hash,
                               req[e].mappings, Nil)]
          /\ req[e].step = "scope"
          /\ UNCHANGED <<agents, tables, reader, seen>>
      BY <1>4 DEF AgentLookupFails, tables
    <2>2. EventRight(e)'
      BY <2>1 DEF EventRight, Request, InRequest, Hashed, Sealed, tables,
                  RegisteredAgent, Verdict
    <2>3. \A d \in Event \ {e} : EventRight(d)'
      BY <2>1, OthersKept
    <2> QED
      BY <2>1, <2>2, <2>3 DEF Request, tables, Sealed, Accepted
  <1>5. ASSUME InsertPendingEvent(e) PROVE EvidenceInv'
    <2> DEFINE row == PendingRow(req[e].at, req[e].input, req[e].hash,
                                 req[e].mappings, req[e].scope)
    <2>1. /\ req' = [req EXCEPT ![e] =
                       Request("accepted", req[e].input, req[e].at, req[e].hash, {}, Nil)]
          /\ req[e].step = "insert"
          /\ pending' = WithRow(pending, e, row)
          /\ UNCHANGED <<agents, events, reader, seen>>
      BY <1>5 DEF InsertPendingEvent
    <2>2. /\ DOMAIN pending' = DOMAIN pending \cup {e}
          /\ pending'[e] = row
          /\ \A d \in DOMAIN pending \ {e} : pending'[d] = pending[d]
      BY <2>1 DEF WithRow
    <2>3. /\ req'[e].input = req[e].input /\ req'[e].step = "accepted"
          /\ req'[e].hash = req[e].hash /\ req'[e].at = req[e].at
      BY <2>1 DEF Request
    <2>4. PendingRight(e)'
      <3>1. /\ row.payload_hash = req[e].hash /\ row.scope_check = req[e].scope
            /\ row.event_data.received_at = req[e].at
            /\ row.event_data.input = Stored(req[e].input)
        BY DEF PendingRow
      <3>2. Verdict(e, req[e].scope)
        BY <2>1 DEF EventRight
      <3>3. ASSUME NEW v, Verdict(e, v) PROVE Verdict(e, v)'
        BY <3>3, <2>1, <2>3 DEF Verdict
      <3> HIDE DEF row
      <3>4. /\ pending'[e].payload_hash = req'[e].hash
            /\ pending'[e].event_data.received_at = req'[e].at
            /\ pending'[e].event_data.input = Stored(req'[e].input)
            /\ pending'[e].scope_check = req[e].scope
        BY <2>2, <2>3, <3>1
      <3>5. Verdict(e, pending[e].scope_check)'
        BY <3>2, <3>3, <3>4 DEF Verdict
      <3> QED
        BY <3>4, <3>5 DEF PendingRight
    <2>5. e \notin Sealed
      BY <2>1 DEF EventRight
    <2>6. EventRight(e)'
      BY <2>1, <2>2, <2>3, <2>4, <2>5 DEF EventRight, InRequest, Hashed, Sealed
    <2>7. ASSUME NEW d \in Event \ {e} PROVE EventRight(d)'
      <3>1. /\ req'[d] = req[d] /\ seen'[d] = seen[d] /\ agents' = agents
            /\ d \in DOMAIN pending' <=> d \in DOMAIN pending
            /\ d \in DOMAIN pending => pending'[d] = pending[d]
        BY <2>1, <2>2
      <3> QED
        BY <2>1, <3>1, EventKept DEF RegisteredAgent, EventRight
    <2> QED
      BY <2>1, <2>2, <2>3, <2>6, <2>7 DEF Sealed, Accepted
  <1>6. ASSUME AcceptFails(e) PROVE EvidenceInv'
    <2>1. /\ req' = [req EXCEPT ![e] = Failed(req[e])]
          /\ req[e].step \in {"resolve", "insert"}
          /\ UNCHANGED <<agents, tables, reader, seen>>
      BY <1>6 DEF AcceptFails, tables
    <2>2. EventRight(e)'
      BY <2>1 DEF EventRight, Failed, Request, InRequest, Sealed, tables
    <2>3. \A d \in Event \ {e} : EventRight(d)'
      BY <2>1, OthersKept
    <2> QED
      BY <2>1, <2>2, <2>3 DEF Request, Failed, tables, Sealed, Accepted
  <1> QED
    BY <1>1, <1>2, <1>3, <1>4, <1>5, <1>6 DEF Accept

LEMMA SealKeeps ==
    ASSUME EvidenceInv, NEW e \in Event, Seal(e)
    PROVE  EvidenceInv'
  <1> USE DEF EvidenceInv
  <1>1. /\ e \in DOMAIN pending
        /\ events' = WithRow(events, e, BuildEventRow(pending[e]))
        /\ pending' = WithoutRow(pending, e)
        /\ UNCHANGED <<agents, req, reader, seen>>
    BY DEF Seal
  <1>2. /\ DOMAIN events' = DOMAIN events \cup {e}
        /\ events'[e] = BuildEventRow(pending[e])
        /\ \A d \in DOMAIN events \ {e} : events'[d] = events[d]
        /\ DOMAIN pending' = DOMAIN pending \ {e}
        /\ \A d \in DOMAIN pending \ {e} : pending'[d] = pending[d]
    BY <1>1 DEF WithRow, WithoutRow
  <1>3. PendingRight(e) /\ EventRight(e)
    BY <1>1 DEF EventRight
  <1>4. SealedRight(e)'
    <2>1. /\ events'[e].payload_hash = pending[e].payload_hash
          /\ events'[e].received_at = pending[e].event_data.received_at
          /\ events'[e].raw_payload = Stored(pending[e].event_data.input)
          /\ events'[e].scope_check_result = pending[e].scope_check
      BY <1>2 DEF BuildEventRow, ScopeColumn
    <2> QED
      BY <1>1, <1>3, <2>1, StoredOnce DEF PendingRight, SealedRight, Verdict
  <1>5. EventRight(e)'
    BY <1>1, <1>2, <1>3, <1>4 DEF EventRight, InRequest, Hashed, Sealed
  <1>6. ASSUME NEW d \in Event \ {e} PROVE EventRight(d)'
    <2>1. /\ d \in DOMAIN pending' <=> d \in DOMAIN pending
          /\ d \in DOMAIN pending => pending'[d] = pending[d]
          /\ d \in DOMAIN events' <=> d \in DOMAIN events
          /\ d \in DOMAIN events => events'[d] = events[d]
      BY <1>2
    <2> QED
      BY <1>1, <2>1, EventKept DEF RegisteredAgent, EventRight
  <1> QED
    BY <1>1, <1>2, <1>5, <1>6 DEF Sealed, Accepted

LEMMA ChangeAgentKeeps ==
    ASSUME EvidenceInv, NEW a \in Agent, ChangeAgent(a)
    PROVE  EvidenceInv'
  <1> USE DEF EvidenceInv
  <1>1. PICK row \in AgentRow \cup {Nil} :
            /\ agents' = [agents EXCEPT ![a] = row]
            /\ seen' = [e \in Event |->
                          IF InRequest(e) /\ req[e].input.actor.id = a
                          THEN seen[e] \cup {row} ELSE seen[e]]
    BY DEF ChangeAgent
  <1>2. UNCHANGED <<req, pending, events, reader>>
    BY DEF ChangeAgent, tables
  <1>3. ASSUME NEW e \in Event PROVE EventRight(e)'
    <2>1. seen[e] \subseteq seen'[e]
      BY <1>1
    <2>2. InRequest(e) => RegisteredAgent(e)' \in seen'[e]
      <3>1. InRequest(e) => RegisteredAgent(e) \in seen[e]
        BY DEF EventRight
      <3>2. CASE req[e].input.actor.id = a
        BY <1>1, <1>2, <3>2 DEF RegisteredAgent
      <3>3. CASE req[e].input.actor.id # a
        BY <1>1, <1>2, <3>1, <3>3 DEF RegisteredAgent
      <3> QED
        BY <3>2, <3>3
    <2>3. EventRight(e)
      OBVIOUS
    <2> QED
      BY <1>2, <2>1, <2>2, <2>3, EventKept
  <1> QED
    BY <1>1, <1>2, <1>3 DEF Sealed, Accepted

LEMMA CrashKeeps ==
    ASSUME EvidenceInv, Crash
    PROVE  EvidenceInv'
  <1> USE DEF EvidenceInv
  <1>1. /\ req' = [e \in Event |-> IF InRequest(e) THEN Failed(req[e]) ELSE req[e]]
        /\ UNCHANGED <<agents, tables, seen>>
        /\ reader' = Idle
    BY DEF Crash
  <1>2. ASSUME NEW e \in Event PROVE EventRight(e)'
    <2>1. CASE InRequest(e)
      BY <1>1, <2>1 DEF EventRight, Failed, Request, InRequest, Sealed, tables
    <2>2. CASE ~ InRequest(e)
      <3>1. EventRight(e) /\ req'[e] = req[e]
        BY <1>1, <2>2
      <3> QED
        BY <1>1, <2>2, <3>1, EventKept DEF tables
    <2> QED
      BY <2>1, <2>2
  <1> QED
    BY <1>1, <1>2 DEF Idle, tables, Sealed

LEMMA ReadKeeps ==
    ASSUME EvidenceInv, Read
    PROVE  EvidenceInv'
  <1> USE DEF EvidenceInv
  <1>1. UNCHANGED <<req, seen, agents, tables>>
    BY DEF Read, VerifyEvent, VerifyPendingEvent, Summary, RunQuery, QueryFails,
           SummaryReplies, Asks, Replies, world
  <1>2. \A e \in Event : EventRight(e)'
    <2>1. ASSUME NEW e \in Event PROVE EventRight(e)'
      <3>1. InRequest(e) => RegisteredAgent(e)' \in seen'[e]
        BY <1>1 DEF RegisteredAgent, EventRight
      <3>2. EventRight(e)
        OBVIOUS
      <3> QED
        BY <1>1, <3>1, <3>2, EventKept DEF tables
    <2> QED
      BY <2>1
  <1>3. reader'.op = "verifyPending" => reader'.event \in Accepted
    <2>1. ASSUME NEW e \in Event, VerifyEvent(e)
          PROVE  reader'.op = "verifyPending" => reader'.event \in Accepted
      BY <2>1 DEF VerifyEvent, Asks, Replies, Idle, Accepted
    <2>2. ASSUME NEW fw, NEW watch, Summary(fw, watch) PROVE reader'.op # "verifyPending"
      BY <2>2 DEF Summary, Asks, Replies, SummaryOf, Idle
    <2>3. ASSUME NEW q, RunQuery(q) PROVE reader'.op # "verifyPending"
      BY <2>3 DEF RunQuery, Asks, SummaryOf
    <2>4. VerifyPendingEvent \/ QueryFails \/ SummaryReplies => reader'.op # "verifyPending"
      BY DEF VerifyPendingEvent, QueryFails, SummaryReplies, Replies, Idle
    <2> QED
      BY <2>1, <2>2, <2>3, <2>4 DEF Read
  <1> QED
    BY <1>1, <1>2, <1>3 DEF tables, Sealed, Accepted

LEMMA EvidenceInvStep == EvidenceInv /\ [Next]_vars => EvidenceInv'
  <1> SUFFICES ASSUME EvidenceInv, [Next]_vars PROVE EvidenceInv'
    OBVIOUS
  <1>1. ASSUME UNCHANGED <<req, seen, agents, pending, events, reader>>
        PROVE  EvidenceInv'
    <2>1. ASSUME NEW e \in Event PROVE EventRight(e)'
      <3>1. EventRight(e)
        BY DEF EvidenceInv
      <3>2. InRequest(e) => RegisteredAgent(e)' \in seen'[e]
        BY <1>1, <3>1 DEF RegisteredAgent, EventRight
      <3> QED
        BY <1>1, <3>1, <3>2, EventKept
    <2> QED
      BY <1>1, <2>1 DEF EvidenceInv, Sealed, Accepted
  <1>2. Tick \/ SeedCatalog \/ UNCHANGED vars
          => UNCHANGED <<req, seen, agents, pending, events, reader>>
    BY DEF Tick, SeedCatalog, vars, world, tables
  <1> QED
    BY <1>1, <1>2, AcceptKeeps, SealKeeps, ChangeAgentKeeps, CrashKeeps, ReadKeeps
       DEF Next, Work

\* The contents of every request and row are those of its own input and time
\* in every reachable state (PostOne, SealShard, SeedCatalog).
THEOREM EvidenceInvHolds == Spec => []EvidenceInv
  BY EvidenceInvInit, EvidenceInvStep, PTL DEF Spec

-----------------------------------------------------------------------------
(***************************************************************************)
(* However an agent is changed, suspended or removed during or after the   *)
(* request, the verdict stored with its event, pending or sealed, is that  *)
(* of a row of agents that held during the request (ComputeScopeCheck,     *)
(* the scope_check columns of PendingRow and BuildEventRow).               *)
(***************************************************************************)
THEOREM ScopeWasAuthorized == Spec => []InScopeWasAuthorized
  <1>1. EvidenceInv => InScopeWasAuthorized
    <2> SUFFICES ASSUME EvidenceInv, NEW e \in Accepted, ScopeOf(e) # Nil
                 PROVE  /\ IsAgent(req[e].input.actor)
                        /\ \E row \in seen[e] :
                              ScopeOf(e).in_scope = Authorizes(row, req[e].input)
      BY DEF InScopeWasAuthorized
    <2>1. EventRight(e) /\ req[e].step = "accepted"
      BY DEF Accepted, EvidenceInv
    <2>2. Verdict(e, ScopeOf(e))
      BY <2>1 DEF EventRight, PendingRight, SealedRight, ScopeOf
    <2> QED
      BY <2>2 DEF Verdict
  <1> QED
    BY <1>1, EvidenceInvHolds, PTL

\* The answer of a step that answers a verification.
LEMMA VerifyStep ==
    ASSUME EvidenceInv, Next
    PROVE  VerifyMatchesUnlessEmptyMap'
  <1> SUFFICES ASSUME answer' # Nil, answer'.op = "verify"
               PROVE  answer'.matches <=> req'[answer'.event].input.metadata # {}
    BY DEF VerifyMatchesUnlessEmptyMap, Answers
  <1>1. (\E e \in Event : VerifyEvent(e)) \/ VerifyPendingEvent
    <2>1. ASSUME NEW fw, NEW watch, Summary(fw, watch) PROVE FALSE
      BY <2>1 DEF Summary, Asks, Replies
    <2>2. ASSUME NEW q, RunQuery(q) PROVE FALSE
      BY <2>2 DEF RunQuery, Asks
    <2>3. ~ QueryFails /\ ~ SummaryReplies
      BY DEF QueryFails, SummaryReplies, Replies
    <2> QED
      BY <2>1, <2>2, <2>3 DEF Next, Read
  <1>2. ASSUME NEW e \in Event, VerifyEvent(e)
        PROVE  answer'.matches <=> req'[answer'.event].input.metadata # {}
    <2>1. /\ e \in Sealed /\ req' = req
          /\ answer' = [op |-> "verify", event |-> e, matches |-> VerifySealed(events[e])]
      BY <1>2 DEF VerifyEvent, Asks, Replies, world
    <2>2. Hashed(e) /\ SealedRight(e)
      BY <2>1 DEF EvidenceInv, EventRight
    <2>3. VerifySealed(events[e]) <=> req[e].input.metadata # {}
      BY <2>2, RebuiltPayload DEF Hashed, SealedRight, VerifySealed
    <2> QED
      BY <2>1, <2>3
  <1>3. ASSUME VerifyPendingEvent
        PROVE  answer'.matches <=> req'[answer'.event].input.metadata # {}
    <2> DEFINE e == reader.event
    <2>1. /\ e \in DOMAIN pending /\ req' = req
          /\ answer' = [op |-> "verify", event |-> e, matches |-> VerifyPending(pending[e])]
      BY <1>3 DEF VerifyPendingEvent, Replies, world
    <2>2. Hashed(e) /\ PendingRight(e)
      BY <2>1 DEF EvidenceInv, EventRight
    <2>3. VerifyPending(pending[e]) <=> req[e].input.metadata # {}
      BY <2>2, RebuiltPayload DEF Hashed, PendingRight, VerifyPending
    <2> QED
      BY <2>1, <2>3
  <1> QED
    BY <1>1, <1>2, <1>3

(***************************************************************************)
(* The payload hash of an accepted event matches at every verification,    *)
(* before and after its seal, exactly when its metadata were not an empty  *)
(* map (BuildContentPayload at accept and in verify.go, the json tags of   *)
(* spec/event.go in between).                                              *)
(***************************************************************************)
THEOREM HashAlwaysVerifies == Spec => []VerifyMatchesUnlessEmptyMap
  <1>1. Init => VerifyMatchesUnlessEmptyMap
    BY DEF Init, VerifyMatchesUnlessEmptyMap, Answers
  <1>2. EvidenceInv /\ [Next]_vars /\ VerifyMatchesUnlessEmptyMap
          => VerifyMatchesUnlessEmptyMap'
    BY VerifyStep DEF VerifyMatchesUnlessEmptyMap, Answers, vars, world
  <1> QED
    BY <1>1, <1>2, EvidenceInvHolds, PTL DEF Spec

-----------------------------------------------------------------------------
(***************************************************************************)
(* The controls of an event.                                               *)
(***************************************************************************)

LEMMA LeastNatural ==
    ASSUME NEW T \in SUBSET Nat, T # {}
    PROVE  \E n \in T : \A k \in T : n <= k
  <1> DEFINE Less == {p \in Nat \X Nat : p[1] < p[2]}
  <1>1. IsWellFoundedOn(Less, Nat)
    BY NatLessThanWellFounded DEF OpToRel
  <1>2. PICK n \in T : \A k \in T : ~ (<<k, n>> \in Less)
    <2> HIDE DEF Less
    <2> QED
      BY <1>1, WFMin
  <1>3. \A k \in T : ~ (k < n)
    BY <1>2
  <1> QED
    BY <1>3

\* Compute keeps every control that a rule contributes, whichever rule comes
\* first, and those of the customer.
LEMMA ComputedRefs ==
    ASSUME NEW input
    PROVE  {m.ref : m \in Compute(input)} = Ruled(input) \cup CustomerRefs(input)
  <1> DEFINE hits  == RuleHits(input)
             first == {h \in hits : \A g \in hits : g[2] = h[2] => h[1] <= g[1]}
             byRule == {[ref |-> h[2], reason |-> Rules[h[1]].reason] : h \in first}
             declared == {[ref |-> r, reason |-> "customer_declared"] :
                            r \in CustomerRefs(input) \ Ruled(input)}
  <1>1. Compute(input) = byRule \cup declared
    BY DEF Compute, Ruled
  <1>2. \A h \in hits : h[1] \in Nat
    BY ContentAssumption DEF RuleHits
  <1>3. ASSUME NEW r \in Ruled(input) PROVE \E h \in first : h[2] = r
    <2> DEFINE T == {h[1] : h \in {g \in hits : g[2] = r}}
    <2>1. T \in SUBSET Nat
      BY <1>2
    <2>2. T # {}
      BY <1>3 DEF Ruled
    <2>3. PICK n \in T : \A k \in T : n <= k
      <3> HIDE DEF T
      <3> QED
        BY <2>1, <2>2, LeastNatural
    <2>4. PICK h \in hits : h[2] = r /\ h[1] = n
      BY <2>3
    <2>5. \A g \in hits : g[2] = h[2] => h[1] <= g[1]
      BY <2>3, <2>4
    <2> QED
      BY <2>4, <2>5
  <1>4. \A m \in byRule : m.ref \in Ruled(input)
    BY DEF Ruled
  <1>5. \A r \in Ruled(input) : \E m \in byRule : m.ref = r
    <2> SUFFICES ASSUME NEW r \in Ruled(input) PROVE \E m \in byRule : m.ref = r
      OBVIOUS
    <2>1. PICK h \in first : h[2] = r
      BY <1>3
    <2> DEFINE m == [ref |-> h[2], reason |-> Rules[h[1]].reason]
    <2>2. m \in byRule /\ m.ref = r
      BY <2>1
    <2> QED
      BY <2>2
  <1>6. \A m \in declared : m.ref \in CustomerRefs(input)
    OBVIOUS
  <1>7. \A r \in CustomerRefs(input) \ Ruled(input) : \E m \in declared : m.ref = r
    <2> SUFFICES ASSUME NEW r \in CustomerRefs(input) \ Ruled(input)
                 PROVE  \E m \in declared : m.ref = r
      OBVIOUS
    <2> DEFINE m == [ref |-> r, reason |-> "customer_declared"]
    <2>1. m \in declared /\ m.ref = r
      OBVIOUS
    <2> QED
      BY <2>1
  <1> HIDE DEF byRule, declared
  <1> QED
    BY <1>1, <1>4, <1>5, <1>6, <1>7

\* What MappingsFaithful says of mappings given to an event.
Faithful(e, mappings) ==
    LET refs  == {m.ref : m \in mappings}
        ruled == Ruled(req[e].input)
    IN  /\ ruled \subseteq refs
        /\ refs \subseteq catalog \cap (ruled \cup CustomerRefs(req[e].input))

MappedRight(e) ==
    /\ InRequest(e) => Serving
    /\ req[e].step = "resolve" => req[e].mappings = Compute(req[e].input)
    /\ req[e].step \in {"scope", "insert"} => Faithful(e, req[e].mappings)
    /\ e \in DOMAIN pending => Faithful(e, pending[e].control_mappings)
    /\ e \in Sealed => Faithful(e, events[e].mappings)

\* The boot seeds in order, and what it has seeded stays.
SeededSoFar ==
    /\ booted \in 0 .. Len(Seeds)
    /\ \A i \in 1 .. booted : Seeds[i] \in catalog

MappingInv == SeededSoFar /\ \A e \in Event : MappedRight(e)

\* While the server serves, the catalog has the controls of every rule.
LEMMA RulesInCatalog ==
    ASSUME SeededSoFar, Serving, NEW input
    PROVE  Ruled(input) \subseteq catalog
  <1>1. DOMAIN Seeds = 1 .. Len(Seeds)
    BY EvidenceAssumption
  <1>2. \A ref \in Ruled(input) : \E i \in DOMAIN Seeds : Seeds[i] = ref
    BY PackAssumption DEF Ruled, RuleHits
  <1> QED
    BY <1>1, <1>2 DEF SeededSoFar, Serving

LEMMA ResolvedFaithful ==
    ASSUME MappingInv, NEW e \in Event, Serving, req[e].mappings = Compute(req[e].input)
    PROVE  Faithful(e, ResolveAgainstCatalog(req[e].mappings, catalog))
  <1> DEFINE input == req[e].input
  <1>1. Ruled(input) \subseteq catalog
    BY RulesInCatalog DEF MappingInv
  <1>2. {m.ref : m \in Compute(input)} = Ruled(input) \cup CustomerRefs(input)
    BY ComputedRefs
  <1>3. {m.ref : m \in ResolveAgainstCatalog(Compute(input), catalog)}
          = {m.ref : m \in Compute(input)} \cap catalog
    BY DEF ResolveAgainstCatalog
  <1> QED
    BY <1>1, <1>2, <1>3 DEF Faithful

\* An event whose request and rows a step leaves alone stays right, if the
\* step takes nothing from the catalog and does not stop the server.
LEMMA MappingKept ==
    ASSUME NEW e, MappedRight(e), req'[e] = req[e], catalog \subseteq catalog',
           InRequest(e) /\ Serving => Serving',
           e \in DOMAIN pending' => e \in DOMAIN pending /\ pending'[e] = pending[e],
           e \in DOMAIN events' => e \in DOMAIN events /\ events'[e] = events[e]
    PROVE  MappedRight(e)'
  <1>1. req[e].step \in {"scope", "insert"} => Faithful(e, req[e].mappings)'
    BY DEF MappedRight, Faithful
  <1>2. e \in DOMAIN pending' => Faithful(e, pending[e].control_mappings)'
    BY DEF MappedRight, Faithful
  <1>3. e \in DOMAIN events' => Faithful(e, events[e].mappings)'
    BY DEF MappedRight, Faithful, Sealed
  <1> QED
    BY <1>1, <1>2, <1>3 DEF MappedRight, InRequest, Sealed

LEMMA MappingInvInit == Init => MappingInv
  <1> SUFFICES ASSUME Init PROVE MappingInv
    OBVIOUS
  <1>1. SeededSoFar
    BY EvidenceAssumption DEF Init, SeededSoFar
  <1> QED
    BY <1>1 DEF Init, MappingInv, MappedRight, InRequest, NoRequest, Request, Sealed

LEMMA AcceptMaps ==
    ASSUME EvidenceInv, MappingInv, NEW e \in Event, Accept(e)
    PROVE  MappingInv'
  <1> USE DEF EvidenceInv, MappingInv
  <1>1. /\ UNCHANGED <<booted, catalog, events>>
        /\ \A d \in Event \ {e} : req'[d] = req[d]
    BY DEF Accept, Receive, ResolveControlReferences, GetAgentByExternalID,
           AgentLookupFails, InsertPendingEvent, AcceptFails, tables
  <1>2. \A d \in Event \ {e} :
           d \in DOMAIN pending' => d \in DOMAIN pending /\ pending'[d] = pending[d]
    BY DEF Accept, Receive, ResolveControlReferences, GetAgentByExternalID,
           AgentLookupFails, InsertPendingEvent, AcceptFails, tables, WithRow
  <1>3. ASSUME NEW d \in Event \ {e} PROVE MappedRight(d)'
    <2>1. MappedRight(d)
      OBVIOUS
    <2> QED
      BY <1>1, <1>2, <2>1, MappingKept DEF Serving
  <1>4. MappedRight(e) /\ EventRight(e)
    OBVIOUS
  <1>5. e \in DOMAIN pending \cup Sealed => req[e].step = "accepted"
    BY <1>4 DEF EventRight
  <1>6. ASSUME NEW input, Receive(e, input) PROVE MappedRight(e)'
    BY <1>5, <1>6 DEF Receive, Request, MappedRight, InRequest, Serving, Sealed, tables
  <1>7. ASSUME ResolveControlReferences(e) PROVE MappedRight(e)'
    <2>1. Faithful(e, ResolveAgainstCatalog(req[e].mappings, catalog))
      BY <1>4, <1>7, ResolvedFaithful DEF ResolveControlReferences, MappedRight, InRequest
    <2>2. /\ req'[e].step = "scope" /\ req'[e].input = req[e].input
          /\ req'[e].mappings = ResolveAgainstCatalog(req[e].mappings, catalog)
      BY <1>7 DEF ResolveControlReferences, Request
    <2>3. Faithful(e, req[e].mappings)'
      BY <1>1, <2>1, <2>2 DEF Faithful
    <2> QED
      BY <1>1, <1>4, <1>5, <1>7, <2>2, <2>3
         DEF ResolveControlReferences, MappedRight, InRequest, Serving, Sealed, tables
  <1>8. ASSUME GetAgentByExternalID(e) \/ AgentLookupFails(e) PROVE MappedRight(e)'
    <2>1. /\ req[e].step = "scope" /\ req'[e].step = "insert"
          /\ req'[e].input = req[e].input /\ req'[e].mappings = req[e].mappings
          /\ UNCHANGED <<pending, events>>
      BY <1>8 DEF GetAgentByExternalID, AgentLookupFails, Request, tables
    <2>2. Faithful(e, req[e].mappings)'
      BY <1>1, <1>4, <2>1 DEF Faithful, MappedRight
    <2> QED
      BY <1>1, <1>4, <1>5, <2>1, <2>2 DEF MappedRight, InRequest, Serving, Sealed
  <1>9. ASSUME InsertPendingEvent(e) PROVE MappedRight(e)'
    <2>1. /\ req[e].step = "insert" /\ req'[e].step = "accepted"
          /\ req'[e].input = req[e].input
          /\ pending'[e].control_mappings = req[e].mappings
      BY <1>9 DEF InsertPendingEvent, Request, WithRow, PendingRow
    <2>2. Faithful(e, pending[e].control_mappings)'
      BY <1>1, <1>4, <2>1 DEF Faithful, MappedRight
    <2> QED
      BY <1>1, <1>5, <2>1, <2>2 DEF MappedRight, InRequest, Sealed
  <1>10. ASSUME AcceptFails(e) PROVE MappedRight(e)'
    BY <1>5, <1>10 DEF AcceptFails, Failed, Request, MappedRight, InRequest, Sealed, tables
  <1>11. SeededSoFar'
    BY <1>1 DEF SeededSoFar
  <1> QED
    BY <1>3, <1>6, <1>7, <1>8, <1>9, <1>10, <1>11 DEF Accept

LEMMA SealMaps ==
    ASSUME MappingInv, NEW e \in Event, Seal(e)
    PROVE  MappingInv'
  <1> USE DEF MappingInv
  <1>1. /\ UNCHANGED <<booted, catalog, req>>
        /\ events' = WithRow(events, e, BuildEventRow(pending[e]))
        /\ e \in DOMAIN pending
        /\ pending' = WithoutRow(pending, e)
    BY DEF Seal
  <1>2. MappedRight(e)'
    <2>1. MappedRight(e)
      OBVIOUS
    <2>2. events'[e].mappings = pending[e].control_mappings /\ e \notin DOMAIN pending'
      BY <1>1 DEF WithRow, WithoutRow, BuildEventRow
    <2>3. Faithful(e, events[e].mappings)'
      BY <1>1, <2>1, <2>2 DEF Faithful, MappedRight
    <2>4. req[e].step \in {"scope", "insert"} => Faithful(e, req[e].mappings)'
      BY <1>1, <2>1 DEF Faithful, MappedRight
    <2> QED
      BY <1>1, <2>1, <2>2, <2>3, <2>4 DEF MappedRight, InRequest, Serving
  <1>3. ASSUME NEW d \in Event \ {e} PROVE MappedRight(d)'
    <2>1. MappedRight(d)
      OBVIOUS
    <2> QED
      BY <1>1, <2>1, MappingKept DEF WithRow, WithoutRow, Serving
  <1>4. SeededSoFar'
    BY <1>1 DEF SeededSoFar
  <1> QED
    BY <1>2, <1>3, <1>4

LEMMA SeedCatalogMaps ==
    ASSUME MappingInv, SeedCatalog
    PROVE  MappingInv'
  <1> USE DEF MappingInv
  <1>1. /\ booted < Len(Seeds) /\ booted' = booted + 1
        /\ catalog' = catalog \cup {Seeds[booted + 1]}
        /\ UNCHANGED <<req, pending, events>>
    BY DEF SeedCatalog
  <1>2. SeededSoFar'
    BY <1>1, EvidenceAssumption DEF SeededSoFar
  <1>3. ASSUME NEW e \in Event PROVE MappedRight(e)'
    <2>1. MappedRight(e) /\ ~ Serving
      BY <1>1, EvidenceAssumption DEF Serving
    <2> QED
      BY <1>1, <2>1, MappingKept
  <1> QED
    BY <1>2, <1>3

LEMMA CrashMaps ==
    ASSUME EvidenceInv, MappingInv, Crash
    PROVE  MappingInv'
  <1> USE DEF MappingInv
  <1>1. /\ req' = [e \in Event |-> IF InRequest(e) THEN Failed(req[e]) ELSE req[e]]
        /\ UNCHANGED tables /\ booted' = 0
    BY DEF Crash
  <1>2. SeededSoFar'
    BY <1>1, EvidenceAssumption DEF SeededSoFar
  <1>3. ASSUME NEW e \in Event PROVE MappedRight(e)'
    <2>1. MappedRight(e)
      OBVIOUS
    <2>2. CASE InRequest(e)
      <3>1. e \notin DOMAIN pending \cup Sealed
        BY <2>2 DEF EvidenceInv, EventRight, InRequest
      <3> QED
        BY <1>1, <2>2, <3>1 DEF Failed, Request, MappedRight, InRequest, Sealed, tables
    <2>3. CASE ~ InRequest(e)
      BY <1>1, <2>1, <2>3, MappingKept DEF tables
    <2> QED
      BY <2>2, <2>3
  <1> QED
    BY <1>2, <1>3

LEMMA MappingInvStep == EvidenceInv /\ MappingInv /\ [Next]_vars => MappingInv'
  <1> SUFFICES ASSUME EvidenceInv, MappingInv, [Next]_vars PROVE MappingInv'
    OBVIOUS
  <1>1. ASSUME UNCHANGED <<booted, catalog, req, pending, events>> PROVE MappingInv'
    <2>1. SeededSoFar'
      BY <1>1 DEF MappingInv, SeededSoFar
    <2>2. ASSUME NEW e \in Event PROVE MappedRight(e)'
      <3>1. MappedRight(e)
        BY DEF MappingInv
      <3> QED
        BY <1>1, <3>1, MappingKept DEF Serving
    <2> QED
      BY <2>1, <2>2 DEF MappingInv
  <1>2. ASSUME Read PROVE UNCHANGED <<booted, catalog, req, pending, events>>
    BY <1>2 DEF Read, VerifyEvent, VerifyPendingEvent, Summary, RunQuery, QueryFails,
           SummaryReplies, Asks, Replies, world, tables
  <1>3. ASSUME Tick \/ (\E a \in Agent : ChangeAgent(a)) \/ UNCHANGED vars
        PROVE  UNCHANGED <<booted, catalog, req, pending, events>>
    BY <1>3 DEF Tick, ChangeAgent, vars, world, tables
  <1> QED
    BY <1>1, <1>2, <1>3, AcceptMaps, SealMaps, SeedCatalogMaps, CrashMaps DEF Next, Work

(***************************************************************************)
(* An accepted event has every control that the rules give it, although    *)
(* Accept drops the ones it does not find in the catalog, and although the *)
(* server boots again and again: main seeds before it serves.              *)
(***************************************************************************)
THEOREM MappingsAlwaysFaithful == Spec => []MappingsFaithful
  <1>1. EvidenceInv /\ MappingInv => MappingsFaithful
    <2> SUFFICES ASSUME EvidenceInv, MappingInv, NEW e \in Accepted
                 PROVE  Faithful(e, MappingsOf(e))
      BY DEF MappingsFaithful, Faithful, RefsOf
    <2>1. e \in Event /\ EventRight(e) /\ MappedRight(e) /\ req[e].step = "accepted"
      BY DEF Accepted, EvidenceInv, MappingInv
    <2> QED
      BY <2>1 DEF EventRight, MappedRight, MappingsOf
  <1> QED
    BY <1>1, EvidenceInvHolds, MappingInvInit, MappingInvStep, PTL DEF Spec

-----------------------------------------------------------------------------
(***************************************************************************)
(* The life of an event's row, seen from one step: it stays as it is, or   *)
(* is inserted, or moves to events.                                        *)
(***************************************************************************)
RowStays(e) ==
    /\ e \in DOMAIN pending' <=> e \in DOMAIN pending
    /\ e \in DOMAIN pending => pending'[e] = pending[e]
    /\ e \in DOMAIN events' <=> e \in DOMAIN events
    /\ e \in DOMAIN events => events'[e] = events[e]

RowInserted(e) ==
    /\ req[e].step = "insert" /\ req'[e].step = "accepted"
    /\ DOMAIN pending' = DOMAIN pending \cup {e}
    /\ pending'[e] = PendingRow(req[e].at, req[e].input, req[e].hash,
                                req[e].mappings, req[e].scope)
    /\ events' = events

RowSealed(e) ==
    /\ e \in DOMAIN pending /\ req' = req
    /\ DOMAIN pending' = DOMAIN pending \ {e}
    /\ DOMAIN events' = DOMAIN events \cup {e}
    /\ events'[e] = BuildEventRow(pending[e])

\* An accepted request has ended: nothing changes it any more.
AcceptedStays(e) ==
    /\ req[e].step = "accepted" => req'[e].step = "accepted"
    /\ req'[e].step = "accepted" => /\ req'[e].input = req[e].input
                                    /\ req'[e].at = req[e].at
    /\ req[e].step # "accepted" /\ req'[e].step = "accepted" => RowInserted(e)

LEMMA RowMoves ==
    ASSUME EvidenceInv, [Next]_vars, NEW e \in Event
    PROVE  /\ RowStays(e) \/ RowInserted(e) \/ RowSealed(e)
           /\ AcceptedStays(e)
  <1>1. e \in DOMAIN req
    BY DEF EvidenceInv
  <1>2. ASSUME NEW d \in Event, Accept(d)
        PROVE  /\ RowStays(e) \/ RowInserted(e) \/ RowSealed(e)
               /\ AcceptedStays(e)
    <2>1. ASSUME NEW input, Receive(d, input)
          PROVE  RowStays(e) /\ AcceptedStays(e)
      BY <1>1, <2>1 DEF Receive, Request, RowStays, AcceptedStays, tables
    <2>2. ASSUME InsertPendingEvent(d)
          PROVE  (RowStays(e) \/ RowInserted(e)) /\ AcceptedStays(e)
      <3> DEFINE row == PendingRow(req[d].at, req[d].input, req[d].hash,
                                   req[d].mappings, req[d].scope)
      <3>1. /\ DOMAIN pending' = DOMAIN pending \cup {d}
            /\ pending'[d] = row
            /\ \A x \in DOMAIN pending \ {d} : pending'[x] = pending[x]
            /\ events' = events
        BY <2>2 DEF InsertPendingEvent, WithRow
      <3>2. /\ req[d].step = "insert"
            /\ req' = [req EXCEPT ![d] =
                  Request("accepted", req[d].input, req[d].at, req[d].hash, {}, Nil)]
        BY <2>2 DEF InsertPendingEvent
      <3> HIDE DEF row
      <3>3. CASE e = d
        <4>1. /\ req'[e].step = "accepted" /\ req'[e].input = req[e].input
              /\ req'[e].at = req[e].at
          BY <1>1, <3>2, <3>3 DEF Request
        <4> QED
          BY <3>1, <3>2, <3>3, <4>1 DEF RowInserted, AcceptedStays, row
      <3>4. CASE e # d
        BY <1>1, <3>1, <3>2, <3>4 DEF RowStays, AcceptedStays
      <3> QED
        BY <3>3, <3>4
    <2>3. ASSUME \/ ResolveControlReferences(d) \/ GetAgentByExternalID(d)
                 \/ AgentLookupFails(d) \/ AcceptFails(d)
          PROVE  RowStays(e) /\ AcceptedStays(e)
      <3>1. UNCHANGED <<pending, events>>
        BY <2>3 DEF ResolveControlReferences, GetAgentByExternalID,
                    AgentLookupFails, AcceptFails, tables
      <3>2. /\ req[d].step # "accepted" /\ req'[d].step # "accepted"
            /\ \A x \in Event : x # d => req'[x] = req[x]
        BY <2>3 DEF EvidenceInv, ResolveControlReferences, GetAgentByExternalID,
                    AgentLookupFails, AcceptFails, Request, Failed
      <3> QED
        BY <3>1, <3>2 DEF RowStays, AcceptedStays
    <2> QED
      BY <1>2, <2>1, <2>2, <2>3 DEF Accept
  <1>3. ASSUME NEW d \in Event, Seal(d)
        PROVE  (RowStays(e) \/ RowSealed(e)) /\ AcceptedStays(e)
    <2>1. /\ DOMAIN events' = DOMAIN events \cup {d}
          /\ events'[d] = BuildEventRow(pending[d])
          /\ \A x \in DOMAIN events \ {d} : events'[x] = events[x]
          /\ DOMAIN pending' = DOMAIN pending \ {d}
          /\ \A x \in DOMAIN pending \ {d} : pending'[x] = pending[x]
          /\ d \in DOMAIN pending /\ req' = req
      BY <1>3 DEF Seal, WithRow, WithoutRow
    <2> QED
      BY <2>1 DEF RowStays, RowSealed, AcceptedStays
  <1>4. ASSUME Crash
        PROVE  RowStays(e) /\ AcceptedStays(e)
    BY <1>4 DEF Crash, tables, RowStays, AcceptedStays, InRequest, Failed, Request
  <1>5. ASSUME \/ Tick \/ SeedCatalog \/ Read \/ UNCHANGED vars
               \/ \E a \in Agent : ChangeAgent(a)
        PROVE  RowStays(e) /\ AcceptedStays(e)
    <2>1. UNCHANGED <<req, pending, events>>
      BY <1>5 DEF Tick, SeedCatalog, Read, VerifyEvent, VerifyPendingEvent, Summary,
         RunQuery, QueryFails, SummaryReplies, Asks, Replies, ChangeAgent, world,
         vars, tables
    <2> QED
      BY <2>1 DEF RowStays, AcceptedStays
  <1> QED
    BY <1>2, <1>3, <1>4, <1>5 DEF Next, Work

LEMMA TypeInit == Init => TypeOK
  BY EvidenceAssumption DEF Init, TypeOK, NoRequest, Request, Idle, Accepted, Sealed

\* The tables of pending and sealed rows stay apart.
TablesApart ==
    /\ Accepted = DOMAIN pending \cup Sealed
    /\ DOMAIN pending \cap Sealed = {}

LEMMA TablesStep == EvidenceInv /\ TablesApart /\ [Next]_vars => TablesApart'
  <1> SUFFICES ASSUME EvidenceInv, TablesApart, [Next]_vars
               PROVE  TablesApart'
    OBVIOUS
  <1>1. EvidenceInv'
    BY EvidenceInvStep
  <1>2. \A e \in Event : ~ (e \in DOMAIN pending' /\ e \in DOMAIN events')
    <2> SUFFICES ASSUME NEW e \in Event
                 PROVE  ~ (e \in DOMAIN pending' /\ e \in DOMAIN events')
      OBVIOUS
    <2>1. RowStays(e) \/ RowInserted(e) \/ RowSealed(e)
      BY RowMoves
    <2>2. req[e].step = "insert" => e \notin DOMAIN events
      BY DEF EvidenceInv, EventRight, Sealed
    <2> QED
      BY <2>1, <2>2 DEF RowStays, RowInserted, RowSealed, TablesApart, Sealed
  <1> QED
    BY <1>1, <1>2 DEF TablesApart, EvidenceInv, EventRight, Accepted, Sealed

\* The row of an accepted event only moves, and BuildEventRow carries its columns.
LEMMA SnapshotStep ==
    ASSUME EvidenceInv, TablesApart, [Next]_vars, NEW e \in Accepted
    PROVE  /\ MappingsOf(e)' = MappingsOf(e)
           /\ ScopeOf(e)' = ScopeOf(e)
           /\ ClassesOf(e)' = ClassesOf(e)
  <1>1. e \in Event /\ req[e].step = "accepted" /\ e \in DOMAIN pending \cup DOMAIN events
    BY DEF Accepted, TablesApart, Sealed
  <1>2. RowStays(e) \/ RowSealed(e)
    BY <1>1, RowMoves DEF RowInserted
  <1>3. CASE RowStays(e)
    BY <1>1, <1>3 DEF RowStays, MappingsOf, ScopeOf, ClassesOf, Sealed
  <1>4. CASE RowSealed(e)
    <2>1. /\ e \in DOMAIN pending /\ e \notin DOMAIN events /\ e \in DOMAIN events'
          /\ events'[e] = BuildEventRow(pending[e])
      BY <1>4 DEF RowSealed, TablesApart, Sealed
    <2>2. /\ events'[e].mappings = pending[e].control_mappings
          /\ events'[e].scope_check_result = pending[e].scope_check
          /\ events'[e].data_classes = pending[e].classification.classes
      BY <2>1 DEF BuildEventRow, ScopeColumn
    <2> QED
      BY <2>1, <2>2 DEF MappingsOf, ScopeOf, ClassesOf, Sealed
  <1> QED
    BY <1>2, <1>3, <1>4

(***************************************************************************)
(* What was stored at accept stays: no boot, crash, change of an agent or  *)
(* seal alters the mappings, scope check or classes of an accepted event   *)
(* (PendingRow, BuildEventRow).                                            *)
(***************************************************************************)
THEOREM SnapshotAlwaysKept == Spec => SnapshotKept
  <1> DEFINE Kept == \A e \in Accepted : /\ MappingsOf(e)' = MappingsOf(e)
                                         /\ ScopeOf(e)' = ScopeOf(e)
                                         /\ ClassesOf(e)' = ClassesOf(e)
  <1>1. Init => EvidenceInv /\ TablesApart
    BY EvidenceInvInit, TypeInit DEF TypeOK, TablesApart
  <1>2. EvidenceInv /\ TablesApart /\ [Next]_vars => (EvidenceInv /\ TablesApart)'
    BY EvidenceInvStep, TablesStep
  <1>3. EvidenceInv /\ TablesApart /\ [Next]_vars => [Kept]_vars
    BY SnapshotStep
  <1>4. Spec => [][Kept]_vars
    <2> HIDE DEF Kept
    <2> QED
      BY <1>1, <1>2, <1>3, PTL DEF Spec
  <1> QED
    BY <1>4 DEF SnapshotKept

-----------------------------------------------------------------------------
(***************************************************************************)
(* What the columns of an event say of it.                                 *)
(***************************************************************************)
PendingClassed(e) ==
    /\ pending[e].classification = Classify(req[e].input)
    /\ pending[e].event_data.input = Stored(req[e].input)

SealedClassed(e) ==
    /\ events[e].data_classes = DataClasses(req[e].input)
    /\ events[e].risk_level = RiskLevel(req[e].input)
    /\ events[e].event_type = req[e].input.event_type
    /\ events[e].actor_type = req[e].input.actor.type
    /\ events[e].action_result = req[e].input.action.result

ClassInv ==
    \A e \in Event : /\ e \in DOMAIN pending => PendingClassed(e)
                     /\ e \in Sealed => SealedClassed(e)

LEMMA ClassInvStep ==
    EvidenceInv /\ TablesApart /\ ClassInv /\ [Next]_vars => ClassInv'
  <1> SUFFICES ASSUME EvidenceInv, TablesApart, ClassInv, [Next]_vars,
                      NEW e \in Event
               PROVE  /\ e \in DOMAIN pending' => PendingClassed(e)'
                      /\ e \in DOMAIN events' => SealedClassed(e)'
    BY DEF ClassInv, Sealed
  <1>1. /\ RowStays(e) \/ RowInserted(e) \/ RowSealed(e)
        /\ AcceptedStays(e)
    BY RowMoves
  <1>2. CASE RowStays(e)
    <2>1. ASSUME e \in DOMAIN pending \cup DOMAIN events
          PROVE  req'[e].input = req[e].input
      BY <1>1, <2>1 DEF AcceptedStays, TablesApart, Accepted, Sealed
    <2> QED
      BY <1>2, <2>1 DEF RowStays, ClassInv, PendingClassed, SealedClassed, Sealed
  <1>3. CASE RowInserted(e)
    <2>1. /\ req'[e].input = req[e].input /\ e \notin DOMAIN events
      BY <1>1, <1>3 DEF RowInserted, AcceptedStays, EvidenceInv, EventRight, Sealed
    <2>2. /\ pending'[e].classification = Classify(req[e].input)
          /\ pending'[e].event_data.input = Stored(req[e].input)
      BY <1>3 DEF RowInserted, PendingRow
    <2> QED
      BY <1>3, <2>1, <2>2 DEF RowInserted, PendingClassed
  <1>4. CASE RowSealed(e)
    <2>1. PendingClassed(e)
      <3>1. e \in DOMAIN pending
        BY <1>4 DEF RowSealed
      <3> QED
        BY <3>1 DEF ClassInv
    <2>2. req' = req /\ e \notin DOMAIN pending'
          /\ events'[e] = BuildEventRow(pending[e])
      BY <1>4 DEF RowSealed
    <2>3. /\ events'[e].data_classes = pending[e].classification.classes
          /\ events'[e].risk_level = pending[e].classification.risk
          /\ events'[e].event_type = pending[e].event_data.input.event_type
          /\ events'[e].actor_type = pending[e].event_data.input.actor.type
          /\ events'[e].action_result = pending[e].event_data.input.action.result
      BY <2>2 DEF BuildEventRow
    <2> QED
      BY <2>1, <2>2, <2>3 DEF PendingClassed, SealedClassed, Classify, Stored
  <1> QED
    BY <1>1, <1>2, <1>3, <1>4

LEMMA ClassInvHolds == Spec => [](EvidenceInv /\ TablesApart /\ ClassInv)
  <1>1. Init => EvidenceInv /\ TablesApart /\ ClassInv
    <2>1. Init => ClassInv
      BY DEF Init, ClassInv, Sealed
    <2> QED
      BY <2>1, EvidenceInvInit, TypeInit DEF TypeOK, TablesApart
  <1> QED
    BY <1>1, EvidenceInvStep, TablesStep, ClassInvStep, PTL DEF Spec

(***************************************************************************)
(* For any body and however events are accepted and sealed, an event that  *)
(* a summary counts as an agent's, as denied or as shared outside is not   *)
(* stored with low risk, but for what is sent to a vendor (RiskLevel, the  *)
(* WHERE clauses of evidence.sql).                                         *)
(***************************************************************************)
THEOREM RiskAlwaysCovers == Spec => []RiskCoversCounts
  <1>1. EvidenceInv /\ ClassInv => RiskCoversCounts
    <2> SUFFICES ASSUME EvidenceInv, ClassInv, NEW e \in Sealed
                 PROVE  \/ events[e].risk_level # "low"
                        \/ /\ ~ IsAgent(req[e].input.actor)
                           /\ events[e].action_result # "denied"
                           /\ ExternalShare(events[e])
                                => "vendor_data_egress" \in ClassesOf(e)
      BY DEF RiskCoversCounts
    <2> DEFINE input == req[e].input
    <2>0. SealedClassed(e)
      BY DEF EvidenceInv, ClassInv
    <2>1. /\ events[e].data_classes = DataClasses(input)
          /\ events[e].risk_level = RiskLevel(input)
          /\ events[e].event_type = input.event_type
          /\ events[e].action_result = input.action.result
          /\ ClassesOf(e) = events[e].data_classes
      BY <2>0 DEF SealedClassed, ClassesOf
    <2> HIDE DEF input
    <2>2. SUFFICES ASSUME RiskLevel(input) = "low"
                   PROVE  /\ ~ IsAgent(input.actor)
                          /\ input.action.result # "denied"
                          /\ ExternalShare(events[e])
                                => "vendor_data_egress" \in DataClasses(input)
      BY <2>1 DEF input
    <2>3. /\ ~ IsAgent(input.actor) /\ input.action.result # "denied"
          /\ input.event_type[1] # "data"
      BY <2>2 DEF RiskLevel
    <2>4. ASSUME ExternalShare(events[e])
          PROVE  "vendor_data_egress" \in DataClasses(input)
      <3>1. input.event_type[1] = "vendor"
        BY <2>1, <2>3, <2>4 DEF ExternalShare
      <3>2. <<"vendor", "vendor_data_egress">> \in FamilyClass
        BY DEF FamilyClass
      <3> QED
        BY <3>1, <3>2 DEF DataClasses
    <2> QED
      BY <2>3, <2>4
  <1> QED
    BY <1>1, ClassInvHolds, PTL

-----------------------------------------------------------------------------
(***************************************************************************)
(* Type correctness.                                                       *)
(***************************************************************************)
LEMMA TypeStep == EvidenceInv /\ TypeOK /\ [Next]_vars => TypeOK'
  <1> SUFFICES ASSUME EvidenceInv, TypeOK, [Next]_vars
               PROVE  TypeOK'
    OBVIOUS
  <1>0. TablesApart'
    BY TablesStep DEF TypeOK, TablesApart
  <1> DEFINE Rest ==
        /\ now \in 0..MaxTime
        /\ agents \in [Agent -> AgentRow \cup {Nil}]
        /\ catalog \subseteq {Seeds[i] : i \in DOMAIN Seeds}
        /\ booted \in 0..Len(Seeds)
        /\ changes \in 0..MaxChanges
        /\ failures \in 0..MaxFailures
        /\ reader.op \in {"idle", "verifyPending", "summary"}
        /\ answer = Nil \/ answer.op \in {"verify", "summary", "404", "500"}
        /\ \A e \in Event :
            /\ req[e].step \in {"none", "resolve", "scope", "insert", "accepted", "failed"}
            /\ seen[e] \subseteq AgentRow \cup {Nil}
  <1>1. Rest /\ MaxTime \in Nat /\ MaxChanges \in Nat /\ MaxFailures \in Nat
        /\ Len(Seeds) \in Nat /\ DOMAIN req = Event /\ DOMAIN seen = Event
        /\ DOMAIN Seeds = 1 .. Len(Seeds)
    BY EvidenceAssumption DEF TypeOK, EvidenceInv
  <1>2. ASSUME Work, answer' = Nil PROVE Rest'
    <2>1. CASE Tick
      BY <1>1, <1>2, <2>1 DEF Tick, tables
    <2>2. ASSUME NEW a \in Agent, ChangeAgent(a) PROVE Rest'
      BY <1>1, <1>2, <2>2 DEF ChangeAgent, tables
    <2>3. CASE SeedCatalog
      BY <1>1, <1>2, <2>3 DEF SeedCatalog
    <2>4. CASE Crash
      <3>1. \A e \in Event : req'[e].step \in {req[e].step, "failed"}
        BY <2>4 DEF Crash, Failed, Request
      <3> QED
        BY <1>1, <1>2, <2>4, <3>1 DEF Crash, tables, Idle
    <2>5. ASSUME NEW e \in Event, Accept(e) PROVE Rest'
      <3>1. /\ UNCHANGED <<now, agents, catalog, booted, reader, changes>>
            /\ failures' \in {failures, failures + 1}
            /\ failures' # failures => failures < MaxFailures
        BY <2>5 DEF Accept, Receive, ResolveControlReferences, GetAgentByExternalID,
           AgentLookupFails, InsertPendingEvent, AcceptFails, tables
      <3>2. \A d \in Event : req'[d].step \in
               {req[d].step, "resolve", "scope", "insert", "accepted", "failed"}
        BY <1>1, <2>5 DEF Accept, Receive, ResolveControlReferences,
           GetAgentByExternalID, AgentLookupFails, InsertPendingEvent,
           AcceptFails, Request, Failed
      <3>3. \A d \in Event : seen'[d] \subseteq AgentRow \cup {Nil}
        BY <1>1, <2>5 DEF Accept, Receive, ResolveControlReferences,
           GetAgentByExternalID, AgentLookupFails, InsertPendingEvent, AcceptFails
      <3> QED
        BY <1>1, <1>2, <3>1, <3>2, <3>3
    <2>6. ASSUME NEW e \in Event, Seal(e) PROVE Rest'
      BY <1>1, <1>2, <2>6 DEF Seal
    <2> QED
      BY <1>2, <2>1, <2>2, <2>3, <2>4, <2>5, <2>6 DEF Work
  <1>3. ASSUME Read PROVE Rest'
    <2>1. /\ UNCHANGED <<now, agents, catalog, booted, changes, req, seen>>
          /\ failures' \in {failures, failures + 1}
          /\ failures' # failures => failures < MaxFailures
      BY <1>3 DEF Read, VerifyEvent, VerifyPendingEvent, Summary, RunQuery,
         QueryFails, SummaryReplies, Asks, Replies, world, tables
    <2>2. /\ reader'.op \in {"idle", "verifyPending", "summary"}
          /\ answer' = Nil \/ answer'.op \in {"verify", "summary", "404", "500"}
      <3>1. ASSUME NEW e \in Event, VerifyEvent(e)
            PROVE  /\ reader'.op \in {"idle", "verifyPending"}
                   /\ answer' = Nil \/ answer'.op = "verify"
        BY <3>1 DEF VerifyEvent, Asks, Replies, Idle
      <3>2. ASSUME NEW fw \in Framework, NEW watch \in Watched, Summary(fw, watch)
            PROVE  /\ reader'.op \in {"idle", "summary"}
                   /\ answer' = Nil \/ answer'.op = "404"
        BY <3>2 DEF Summary, Asks, Replies, Idle, SummaryOf
      <3>3. ASSUME NEW q \in Query, RunQuery(q)
            PROVE  reader'.op = "summary" /\ answer' = Nil
        BY <3>3 DEF RunQuery, Asks, SummaryOf
      <3>4. ASSUME VerifyPendingEvent
            PROVE  reader'.op = "idle" /\ answer'.op \in {"verify", "404"}
        BY <3>4 DEF VerifyPendingEvent, Replies, Idle
      <3>5. ASSUME QueryFails \/ SummaryReplies
            PROVE  reader'.op = "idle" /\ answer'.op \in {"500", "summary"}
        <4>1. CASE QueryFails
          BY <4>1 DEF QueryFails, Idle
        <4>2. CASE SummaryReplies
          <5>1. reader' = Idle /\ answer'.op = "summary"
            BY <4>2 DEF SummaryReplies, Replies
          <5> QED
            BY <5>1 DEF Idle
        <4> QED
          BY <3>5, <4>1, <4>2
      <3> QED
        BY <1>3, <3>1, <3>2, <3>3, <3>4, <3>5 DEF Read
    <2> QED
      BY <1>1, <2>1, <2>2
  <1>4. ASSUME UNCHANGED vars PROVE Rest'
    <2>1. UNCHANGED <<now, agents, catalog, booted, changes, failures, reader,
                      answer, req, seen>>
      BY <1>4 DEF vars, world, tables
    <2> QED
      BY <1>1, <2>1
  <1>5. Rest'
    BY <1>2, <1>3, <1>4 DEF Next
  <1> QED
    BY <1>0, <1>5 DEF TypeOK, TablesApart, Accepted, Sealed

(***************************************************************************)
(* For any requests, bodies and interleavings every variable keeps its     *)
(* type, and a request is accepted exactly when its event is in one of     *)
(* pending_events and events, never in both.                               *)
(***************************************************************************)
THEOREM TypeCorrect == Spec => []TypeOK
  BY TypeInit, EvidenceInvInit, TypeStep, EvidenceInvStep, PTL DEF Spec

-----------------------------------------------------------------------------
(***************************************************************************)
(* A count of a summary lies between what must and what may be counted,    *)
(* from the moment its query has run.                                      *)
(***************************************************************************)
Must(q, w, before) == {e \in before : Received(e, w) /\ AtLeast(q, e)}

May(q, w, sealed) == {e \in sealed : Received(e, w) /\ AtMost(q, e)}

CountRight(q, n, w, before, sealed) ==
    /\ n \in Nat
    /\ Cardinality(Must(q, w, before)) <= n
    /\ n <= Cardinality(May(q, w, sealed))

IsCount(q) == q \notin {"perControl", "catalog"}

SummaryRight(r) ==
    /\ r.before \subseteq Sealed
    /\ r.todo \subseteq Query /\ DOMAIN r.got \subseteq Query
    /\ \A q \in DOMAIN r.got : IsCount(q) =>
          CountRight(q, r.got[q], r.window, r.before, Sealed)

CountInv ==
    /\ IsFiniteSet(Sealed)
    /\ reader.op = "summary" => SummaryRight(reader)

\* The columns a count looks at say what the classifier and the body do.
LEMMA CountedWithin ==
    ASSUME EvidenceInv, ClassInv, NEW e \in Sealed, NEW q \in Query, IsCount(q)
    PROVE  /\ AtLeast(q, e) => Counted(q, events[e])
           /\ Counted(q, events[e]) => AtMost(q, e)
  <1> DEFINE row == events[e]
             input == req[e].input
  <1>1. /\ SealedClassed(e) /\ SealedRight(e) /\ ClassesOf(e) = row.data_classes
    BY DEF EvidenceInv, EventRight, ClassInv, ClassesOf
  <1>2. /\ row.event_type = input.event_type /\ row.actor_type = input.actor.type
        /\ row.action_result = input.action.result
        /\ ClassesOf(e) = DataClasses(input)
        /\ row.scope_check_result # Nil => IsAgent(input.actor)
    BY <1>1 DEF SealedClassed, SealedRight, Verdict
  <1>3. ASSUME NEW fc \in FamilyClass, input.event_type[1] = fc[1]
        PROVE  fc[2] \in DataClasses(input)
    BY <1>3 DEF DataClasses
  <1>4. IsAgent(input.actor) => "ai_agent_action" \in DataClasses(input)
    BY DEF DataClasses
  <1>5. /\ input.event_type[1] = "data" => "data_event" \in DataClasses(input)
        /\ input.event_type[1] = "admin" => "privileged_admin" \in DataClasses(input)
        /\ input.event_type[1] = "identity" => "identity_event" \in DataClasses(input)
        /\ input.event_type[1] = "agent" => "ai_agent_action" \in DataClasses(input)
        /\ input.event_type[1] = "vendor" => "vendor_data_egress" \in DataClasses(input)
    BY <1>3 DEF FamilyClass
  <1> HIDE DEF row, input
  <1>6. CASE q = "total"
    BY <1>6 DEF AtLeast, AtMost, Counted
  <1>7. CASE q = "privileged"
    <2>1. PrivilegedEvent(row) => input.event_type[1] \in {"admin", "identity"}
      BY <1>2 DEF PrivilegedEvent
    <2> QED
      BY <1>2, <1>5, <1>7, <2>1 DEF AtLeast, AtMost, Counted, row
  <1>8. CASE q = "agent"
    BY <1>2, <1>4, <1>5, <1>8 DEF AtLeast, AtMost, Counted, AIAgentEvent, IsAgent,
       row, input
  <1>9. CASE q = "outOfScope"
    BY <1>2, <1>4, <1>9 DEF AtLeast, AtMost, Counted, OutOfScopeAction, row
  <1>10. CASE q = "denied"
    BY <1>2, <1>10 DEF AtLeast, AtMost, Counted, PolicyDenial, row, input
  <1>11. CASE q = "shared"
    <2>1. ExternalShare(row) => input.event_type[1] \in {"data", "vendor"}
      BY <1>2 DEF ExternalShare
    <2> QED
      BY <1>2, <1>5, <1>11, <2>1 DEF AtLeast, AtMost, Counted, row
  <1> QED
    BY <1>6, <1>7, <1>8, <1>9, <1>10, <1>11 DEF Query, IsCount

LEMMA CountBetween ==
    ASSUME NEW S, NEW T, NEW U, S \subseteq T, T \subseteq U, IsFiniteSet(U)
    PROVE  /\ Cardinality(T) \in Nat /\ Cardinality(S) <= Cardinality(T)
           /\ Cardinality(T) <= Cardinality(U)
  <1>1. IsFiniteSet(T) /\ Cardinality(T) <= Cardinality(U)
    BY FS_Subset
  <1>2. IsFiniteSet(S) /\ Cardinality(S) <= Cardinality(T)
    BY <1>1, FS_Subset
  <1> QED
    BY <1>1, <1>2, FS_CardinalityType

LEMMA QueryCounts ==
    ASSUME EvidenceInv, ClassInv, IsFiniteSet(Sealed),
           NEW before \in SUBSET Sealed, NEW w, NEW q \in Query, IsCount(q),
           NEW r, r.window = w
    PROVE  CountRight(q, Result(q, r), w, before, Sealed)
  <1> DEFINE T == {e \in InPeriod(w) : Counted(q, events[e])}
             S == Must(q, w, before)
             U == May(q, w, Sealed)
  <1>1. Result(q, r) = Cardinality(T)
    BY DEF Result, IsCount
  <1>2. \A e \in Sealed : InWindow(events[e], w) <=> Received(e, w)
    <2> SUFFICES ASSUME NEW e \in Sealed
                 PROVE  InWindow(events[e], w) <=> Received(e, w)
      OBVIOUS
    <2>1. events[e].received_at = req[e].at
      BY DEF EvidenceInv, EventRight, SealedRight
    <2> QED
      BY <2>1 DEF InWindow, Received
  <1>3. S \subseteq T
    BY <1>2, CountedWithin DEF Must, InPeriod
  <1>4. T \subseteq U
    BY <1>2, CountedWithin DEF May, InPeriod
  <1>5. IsFiniteSet(U)
    BY FS_Subset DEF May
  <1> HIDE DEF S, T, U
  <1>6. /\ Cardinality(T) \in Nat /\ Cardinality(S) <= Cardinality(T)
        /\ Cardinality(T) <= Cardinality(U)
    BY <1>3, <1>4, <1>5, CountBetween
  <1> QED
    BY <1>1, <1>6 DEF CountRight, S, U

\* What a summary goes by stays with a sealed event.
LEMMA SealedStays ==
    ASSUME EvidenceInv, TablesApart, [Next]_vars, NEW e \in Sealed
    PROVE  /\ e \in Sealed'
           /\ req'[e].input = req[e].input /\ req'[e].at = req[e].at
           /\ ClassesOf(e)' = ClassesOf(e)
           /\ MappingsOf(e)' = MappingsOf(e)
  <1>1. e \in Accepted /\ e \in Event
    BY DEF TablesApart, EvidenceInv
  <1>2. /\ RowStays(e) \/ RowInserted(e) \/ RowSealed(e)
        /\ AcceptedStays(e)
    BY <1>1, RowMoves
  <1>3. RowStays(e)
    BY <1>1, <1>2 DEF RowInserted, RowSealed, Accepted, TablesApart
  <1>4. req'[e].input = req[e].input /\ req'[e].at = req[e].at
    BY <1>1, <1>2 DEF AcceptedStays, Accepted
  <1>5. e \in Sealed'
    BY <1>3 DEF RowStays, Sealed
  <1> QED
    BY <1>1, <1>4, <1>5, SnapshotStep

LEMMA SealedFinite ==
    ASSUME IsFiniteSet(Sealed), [Next]_vars
    PROVE  IsFiniteSet(Sealed') /\ Sealed \subseteq Sealed'
  <1>1. ASSUME NEW e \in Event, Seal(e) PROVE Sealed' = Sealed \cup {e}
    BY <1>1 DEF Seal, WithRow, Sealed
  <1>2. ASSUME ~ \E e \in Event : Seal(e) PROVE Sealed' = Sealed
    <2>1. ASSUME NEW e \in Event, Accept(e) PROVE events' = events
      BY <2>1 DEF Accept, Receive, ResolveControlReferences, GetAgentByExternalID,
         AgentLookupFails, InsertPendingEvent, AcceptFails, tables
    <2>2. ASSUME \/ Tick \/ SeedCatalog \/ Crash \/ Read \/ UNCHANGED vars
                 \/ \E a \in Agent : ChangeAgent(a)
          PROVE  events' = events
      BY <2>2 DEF Tick, SeedCatalog, Crash, Read, VerifyEvent, VerifyPendingEvent,
         Summary, RunQuery, QueryFails, SummaryReplies, Asks, Replies, ChangeAgent,
         world, vars, tables
    <2> QED
      BY <1>2, <2>1, <2>2 DEF Next, Work, Sealed
  <1>3. \A e \in Event : IsFiniteSet(Sealed \cup {e})
    BY FS_AddElement
  <1> QED
    BY <1>1, <1>2, <1>3

LEMMA CountKept ==
    ASSUME EvidenceInv, TablesApart, IsFiniteSet(Sealed), [Next]_vars,
           NEW before \in SUBSET Sealed, NEW w, NEW q, NEW n,
           CountRight(q, n, w, before, Sealed)
    PROVE  CountRight(q, n, w, before, Sealed)'
  <1>1. ASSUME NEW e \in Sealed
        PROVE  /\ Received(e, w)' <=> Received(e, w)
               /\ AtLeast(q, e)' <=> AtLeast(q, e)
               /\ AtMost(q, e)' <=> AtMost(q, e)
    <2>1. /\ req'[e].input = req[e].input /\ req'[e].at = req[e].at
          /\ ClassesOf(e)' = ClassesOf(e)
      BY SealedStays
    <2> QED
      BY <2>1 DEF Received, AtLeast, AtMost
  <1>2. Must(q, w, before)' = Must(q, w, before)
    BY <1>1 DEF Must
  <1> DEFINE U == May(q, w, Sealed)
             V == May(q, w, Sealed)'
  <1>3. U \subseteq V /\ IsFiniteSet(V)
    <2>1. IsFiniteSet(Sealed') /\ Sealed \subseteq Sealed'
      BY SealedFinite
    <2> QED
      BY <1>1, <2>1, FS_Subset DEF May
  <1> HIDE DEF U, V
  <1>4. Cardinality(U) <= Cardinality(V) /\ Cardinality(V) \in Nat
        /\ Cardinality(U) \in Nat
    BY <1>3, FS_Subset, FS_CardinalityType
  <1>5. /\ n \in Nat /\ n <= Cardinality(U)
        /\ Cardinality(Must(q, w, before)) <= n
    BY DEF CountRight, U
  <1>6. n <= Cardinality(V)
    BY <1>4, <1>5
  <1> QED
    BY <1>2, <1>5, <1>6 DEF CountRight, V

LEMMA SummaryKept ==
    ASSUME EvidenceInv, TablesApart, IsFiniteSet(Sealed), [Next]_vars,
           NEW r, SummaryRight(r)
    PROVE  SummaryRight(r)'
  <1>1. Sealed \subseteq Sealed'
    BY SealedFinite
  <1>2. ASSUME NEW q \in DOMAIN r.got, IsCount(q)
        PROVE  CountRight(q, r.got[q], r.window, r.before, Sealed)'
    <2>1. /\ r.before \in SUBSET Sealed
          /\ CountRight(q, r.got[q], r.window, r.before, Sealed)
      BY <1>2 DEF SummaryRight
    <2> QED
      BY <2>1, CountKept
  <1>3. /\ r.before \subseteq Sealed
        /\ r.todo \subseteq Query /\ DOMAIN r.got \subseteq Query
    BY DEF SummaryRight
  <1> QED
    BY <1>1, <1>2, <1>3 DEF SummaryRight

LEMMA CountStep ==
    EvidenceInv /\ TablesApart /\ ClassInv /\ CountInv /\ [Next]_vars => CountInv'
  <1> SUFFICES ASSUME EvidenceInv, TablesApart, ClassInv, CountInv, [Next]_vars
               PROVE  CountInv'
    OBVIOUS
  <1>1. IsFiniteSet(Sealed) /\ IsFiniteSet(Sealed')
    BY SealedFinite DEF CountInv
  <1>2. PICK r : r = reader'
    OBVIOUS
  <1>3. ASSUME r.op = "summary" PROVE SummaryRight(r)
    <2>1. CASE reader' = reader
      BY <1>2, <1>3, <2>1 DEF CountInv
    <2>2. ASSUME NEW fw \in Framework, NEW watch \in Watched, Summary(fw, watch)
          PROVE  SummaryRight(r)
      <3>1. PICK w : reader' = SummaryOf(fw, w, watch, << >>, Sealed)
        BY <1>2, <1>3, <2>2 DEF Summary, Asks, Replies, Idle
      <3>2. /\ r.before = Sealed /\ r.todo = watch /\ DOMAIN r.got = {}
        BY <1>2, <3>1 DEF SummaryOf
      <3> QED
        BY <3>2, EvidenceAssumption DEF SummaryRight
    <2>3. ASSUME NEW q \in Query, RunQuery(q)
          PROVE  SummaryRight(r)
      <3>1. /\ SummaryRight(reader) /\ q \in reader.todo
            /\ r = SummaryOf(reader.fw, reader.window, reader.todo \ {q},
                             WithRow(reader.got, q, Result(q, reader)), reader.before)
        BY <1>2, <2>3 DEF RunQuery, Asks, CountInv
      <3>2. /\ r.before = reader.before /\ r.window = reader.window
            /\ r.todo \subseteq reader.todo
            /\ DOMAIN r.got = DOMAIN reader.got \cup {q}
            /\ r.got[q] = Result(q, reader)
            /\ \A p \in DOMAIN reader.got \ {q} : r.got[p] = reader.got[p]
        BY <3>1 DEF SummaryOf, WithRow
      <3>3. reader.before \in SUBSET Sealed
        BY <3>1 DEF SummaryRight
      <3>4. IsCount(q) => CountRight(q, Result(q, reader), reader.window,
                                     reader.before, Sealed)
        BY <1>1, <3>3, QueryCounts
      <3> QED
        BY <3>1, <3>2, <3>3, <3>4 DEF SummaryRight
    <2>4. ASSUME Read, ~ \E fw \in Framework, watch \in Watched : Summary(fw, watch),
                 ~ \E q \in Query : RunQuery(q)
          PROVE  FALSE
      <3>1. r.op # "summary"
        BY <1>2, <2>4 DEF Read, VerifyEvent, VerifyPendingEvent, QueryFails,
           SummaryReplies, Asks, Replies, Idle
      <3> QED
        BY <1>3, <3>1
    <2>5. ASSUME Work PROVE reader' = reader
      <3>1. ASSUME Crash PROVE FALSE
        BY <1>2, <1>3, <3>1 DEF Crash, Idle
      <3>2. ASSUME NEW e \in Event, Accept(e) PROVE reader' = reader
        BY <3>2 DEF Accept, Receive, ResolveControlReferences, GetAgentByExternalID,
           AgentLookupFails, InsertPendingEvent, AcceptFails
      <3> QED
        BY <2>5, <3>1, <3>2 DEF Work, Tick, ChangeAgent, SeedCatalog, Seal
    <2> QED
      BY <2>1, <2>2, <2>3, <2>4, <2>5 DEF Next, vars
  <1>4. r.op = "summary" => SummaryRight(r)'
    BY <1>1, <1>3, SummaryKept
  <1> QED
    BY <1>1, <1>2, <1>4 DEF CountInv, SummaryRight

\* The totals of a reply are the counts of its summary.
LEMMA ReplyWithin ==
    ASSUME CountInv, [Next]_vars, SummaryWithin
    PROVE  SummaryWithin'
  <1> SUFFICES ASSUME answer' # Nil, answer'.op = "summary"
               PROVE  SummaryWithin'
    BY DEF SummaryWithin, Answers
  <1>1. CASE SummaryReplies
    <2>1. SummaryRight(reader) /\ UNCHANGED <<req, pending, events>>
      BY <1>1 DEF SummaryReplies, CountInv, Replies, world, tables
    <2> DEFINE got == reader.got  w == reader.window  before == reader.before
    <2>2. /\ answer'.before = before /\ answer'.after = Sealed /\ answer'.window = w
          /\ answer'.totals = [q \in DOMAIN got \ {"perControl", "catalog"} |-> got[q]]
      BY <1>1 DEF SummaryReplies, Replies
    <2>3. ASSUME NEW q \in DOMAIN answer'.totals
          PROVE  /\ answer'.totals[q] >= Cardinality({e \in answer'.before :
                        Received(e, answer'.window) /\ AtLeast(q, e)})
                 /\ answer'.totals[q] <= Cardinality({e \in answer'.after :
                        Received(e, answer'.window) /\ AtMost(q, e)})
      <3>1. CountRight(q, got[q], w, before, Sealed) /\ answer'.totals[q] = got[q]
        BY <2>1, <2>2, <2>3 DEF SummaryRight, IsCount
      <3> HIDE DEF got, w, before
      <3>2. /\ {e \in answer'.before : Received(e, answer'.window) /\ AtLeast(q, e)}
                  = Must(q, w, before)
            /\ {e \in answer'.after : Received(e, answer'.window) /\ AtMost(q, e)}
                  = May(q, w, Sealed)
        BY <2>2 DEF Must, May
      <3>3. /\ got[q] \in Nat /\ Cardinality(Must(q, w, before)) <= got[q]
            /\ got[q] <= Cardinality(May(q, w, Sealed))
        BY <3>1 DEF CountRight
      <3> QED
        BY <3>1, <3>2, <3>3
    <2> QED
      BY <2>1, <2>3 DEF SummaryWithin, Received, AtLeast, AtMost, ClassesOf, Sealed
  <1>2. CASE UNCHANGED vars
    BY <1>2 DEF SummaryWithin, Answers, vars, world, tables, Received, AtLeast,
       AtMost, ClassesOf, Sealed
  <1>3. ASSUME NEW e \in Event, VerifyEvent(e) PROVE FALSE
    BY <1>3 DEF VerifyEvent, Asks, Replies
  <1>4. ASSUME NEW fw, NEW watch, Summary(fw, watch) PROVE FALSE
    BY <1>4 DEF Summary, Asks, Replies
  <1>5. ASSUME NEW q, RunQuery(q) PROVE FALSE
    BY <1>5 DEF RunQuery, Asks
  <1>6. ASSUME VerifyPendingEvent \/ QueryFails PROVE FALSE
    BY <1>6 DEF VerifyPendingEvent, QueryFails, Replies
  <1> QED
    BY <1>1, <1>2, <1>3, <1>4, <1>5, <1>6 DEF Next, Read

LEMMA CountInvHolds ==
    Spec => [](EvidenceInv /\ TablesApart /\ ClassInv /\ CountInv)
  <1>1. Init => CountInv
    BY FS_EmptySet DEF Init, CountInv, Idle, Sealed
  <1> QED
    BY <1>1, ClassInvHolds, CountStep, PTL DEF Spec

(***************************************************************************)
(* The totals of a summary, whose counts are separate statements, are each *)
(* within what was sealed when the request began and what is sealed at the *)
(* reply, for any events and period and any seals in between; no count     *)
(* takes an event for what the classifier has not classed it as            *)
(* (evidence.go:89-145 and the queries of evidence.sql).                   *)
(***************************************************************************)
THEOREM SummaryAlwaysWithin == Spec => []SummaryWithin
  <1>1. Init => SummaryWithin
    BY DEF Init, SummaryWithin, Answers
  <1>2. CountInv /\ SummaryWithin /\ [Next]_vars => SummaryWithin'
    BY ReplyWithin
  <1> QED
    BY <1>1, <1>2, CountInvHolds, PTL DEF Spec

-----------------------------------------------------------------------------
(***************************************************************************)
(* A control once in the mappings of an event, so that the rows of a       *)
(* control are as many as its events.                                      *)
(***************************************************************************)
EachOnce(mappings) == \A m, n \in mappings : m.ref = n.ref => m = n

OnceInv ==
    \A e \in Event :
        /\ EachOnce(req[e].mappings)
        /\ e \in DOMAIN pending => EachOnce(pending[e].control_mappings)
        /\ e \in DOMAIN events => EachOnce(events[e].mappings)

LEMMA ComputedOnce ==
    ASSUME NEW input
    PROVE  EachOnce(Compute(input))
  <1> DEFINE hits  == RuleHits(input)
             first == {h \in hits : \A g \in hits : g[2] = h[2] => h[1] <= g[1]}
             byRule == {[ref |-> h[2], reason |-> Rules[h[1]].reason] : h \in first}
             declared == {[ref |-> r, reason |-> "customer_declared"] :
                            r \in CustomerRefs(input) \ Ruled(input)}
  <1>1. Compute(input) = byRule \cup declared
    BY DEF Compute, Ruled
  <1>2. \A h \in hits : h[1] \in Nat
    BY ContentAssumption DEF RuleHits
  <1>3. ASSUME NEW m \in byRule, NEW n \in byRule, m.ref = n.ref
        PROVE  m = n
    <2>1. PICK h \in first : m = [ref |-> h[2], reason |-> Rules[h[1]].reason]
      OBVIOUS
    <2>2. PICK g \in first : n = [ref |-> g[2], reason |-> Rules[g[1]].reason]
      OBVIOUS
    <2>3. h[2] = g[2]
      BY <1>3, <2>1, <2>2
    <2>4. h[1] <= g[1] /\ g[1] <= h[1] /\ h[1] \in Nat /\ g[1] \in Nat
      BY <1>2, <2>3
    <2>5. h[1] = g[1]
      BY <2>4
    <2> QED
      BY <2>1, <2>2, <2>3, <2>5
  <1>4. /\ \A m \in byRule : m.ref \in Ruled(input)
        /\ \A m \in declared : m.ref \notin Ruled(input)
    BY DEF Ruled
  <1>5. \A m, n \in declared : m.ref = n.ref => m = n
    OBVIOUS
  <1> HIDE DEF byRule, declared
  <1> QED
    BY <1>1, <1>3, <1>4, <1>5 DEF EachOnce

LEMMA OnceStep == EvidenceInv /\ OnceInv /\ [Next]_vars => OnceInv'
  <1> SUFFICES ASSUME EvidenceInv, OnceInv, [Next]_vars, NEW e \in Event
               PROVE  /\ EachOnce(req'[e].mappings)
                      /\ e \in DOMAIN pending' => EachOnce(pending'[e].control_mappings)
                      /\ e \in DOMAIN events' => EachOnce(events'[e].mappings)
    BY DEF OnceInv, EachOnce
  <1>1. RowStays(e) \/ RowInserted(e) \/ RowSealed(e)
    BY RowMoves
  <1>2. /\ e \in DOMAIN pending' => EachOnce(pending'[e].control_mappings)
        /\ e \in DOMAIN events' => EachOnce(events'[e].mappings)
    <2>1. CASE RowStays(e)
      BY <2>1 DEF RowStays, OnceInv
    <2>2. CASE RowInserted(e)
      BY <2>2 DEF RowInserted, PendingRow, OnceInv
    <2>3. CASE RowSealed(e)
      BY <2>3 DEF RowSealed, BuildEventRow, OnceInv
    <2> QED
      BY <1>1, <2>1, <2>2, <2>3
  <1>3. EachOnce(req'[e].mappings)
    <2>1. EachOnce(req[e].mappings) /\ DOMAIN req = Event
      BY DEF OnceInv, EvidenceInv
    <2>2. ASSUME NEW d \in Event, Accept(d)
          PROVE  EachOnce(req'[e].mappings)
      <3>1. CASE d # e
        <4>1. req'[e] = req[e]
          BY <2>1, <2>2, <3>1 DEF Accept, Receive, ResolveControlReferences,
             GetAgentByExternalID, AgentLookupFails, InsertPendingEvent, AcceptFails
        <4> QED
          BY <2>1, <4>1
      <3>2. CASE d = e
        <4>1. ASSUME NEW input, Receive(e, input)
              PROVE  EachOnce(req'[e].mappings)
          <5>1. req'[e].mappings = Compute(input)
            BY <2>1, <4>1 DEF Receive, Request
          <5> QED
            BY <5>1, ComputedOnce
        <4>2. ASSUME ~ \E input : Receive(e, input)
              PROVE  req'[e].mappings \subseteq req[e].mappings
          BY <2>1, <2>2, <3>2, <4>2 DEF Accept, ResolveControlReferences,
             GetAgentByExternalID, AgentLookupFails, InsertPendingEvent, AcceptFails,
             Request, Failed, ResolveAgainstCatalog
        <4> QED
          BY <2>1, <4>1, <4>2 DEF EachOnce
      <3> QED
        BY <3>1, <3>2
    <2>3. ASSUME Crash PROVE req'[e].mappings \subseteq req[e].mappings
      BY <2>3 DEF Crash, Failed, Request
    <2>4. ASSUME \/ Tick \/ SeedCatalog \/ Read \/ UNCHANGED vars
                 \/ \E a \in Agent : ChangeAgent(a)
                 \/ \E d \in Event : Seal(d)
          PROVE  req' = req
      BY <2>4 DEF Tick, SeedCatalog, Read, VerifyEvent, VerifyPendingEvent, Summary,
         RunQuery, QueryFails, SummaryReplies, Asks, Replies, ChangeAgent, Seal,
         world, vars
    <2> QED
      BY <2>1, <2>2, <2>3, <2>4 DEF Next, Work, EachOnce
  <1> QED
    BY <1>2, <1>3

\* The events of S in the period w that have the control c.
With(c, w, S) == {e \in S : Received(e, w) /\ c \in RefsOf(e)}

LEMMA RowsAreEvents ==
    ASSUME EvidenceInv, OnceInv, IsFiniteSet(Sealed), NEW c, NEW w
    PROVE  Cardinality(MappingRows(c, w)) = Cardinality(With(c, w, Sealed))
  <1> DEFINE R == MappingRows(c, w)
             W == With(c, w, Sealed)
             f == [row \in R |-> row[1]]
  <1>1. \A e \in Sealed : /\ InWindow(events[e], w) <=> Received(e, w)
                          /\ EachOnce(events[e].mappings)
                          /\ RefsOf(e) = {m.ref : m \in events[e].mappings}
    <2> SUFFICES ASSUME NEW e \in Sealed
                 PROVE  /\ InWindow(events[e], w) <=> Received(e, w)
                        /\ EachOnce(events[e].mappings)
                        /\ RefsOf(e) = {m.ref : m \in events[e].mappings}
      OBVIOUS
    <2>1. events[e].received_at = req[e].at /\ e \in Event
      BY DEF EvidenceInv, EventRight, SealedRight
    <2>2. RefsOf(e) = {m.ref : m \in events[e].mappings}
      BY DEF RefsOf, MappingsOf
    <2> QED
      BY <2>1, <2>2 DEF InWindow, Received, OnceInv, Sealed
  <1>2. \A row \in R : /\ row[1] \in Sealed /\ Received(row[1], w)
                       /\ row[2] \in events[row[1]].mappings /\ row[2].ref = c
                       /\ row = <<row[1], row[2]>>
    BY <1>1 DEF MappingRows, InPeriod
  <1>3. f \in [R -> W]
    BY <1>1, <1>2 DEF With
  <1>4. \A p, q \in R : f[p] = f[q] => p = q
    BY <1>1, <1>2 DEF EachOnce
  <1>5. ASSUME NEW e \in W PROVE \E row \in R : f[row] = e
    <2>1. e \in Sealed /\ Received(e, w)
      BY <1>5 DEF With
    <2>2. PICK m \in events[e].mappings : m.ref = c
      BY <1>1, <1>5, <2>1 DEF With
    <2>3. <<e, m>> \in R
      BY <1>1, <2>1, <2>2 DEF MappingRows, InPeriod
    <2> QED
      BY <2>3
  <1>6. IsFiniteSet(W)
    BY FS_Subset DEF With
  <1> HIDE DEF R, W, f
  <1>7. f \in Injection(R, W) /\ f \in Surjection(R, W)
    BY <1>3, <1>4, <1>5 DEF Injection, Surjection, IsInjective
  <1> QED
    BY <1>6, <1>7, FS_Injection DEF R, W

\* What evidence_count of a control must be at least and may be at most.
ControlRight(c, n, w, before, sealed) ==
    /\ n \in Nat
    /\ Cardinality(With(c, w, before)) <= n
    /\ n <= Cardinality(With(c, w, sealed))

CountFor(c, counts) == IF c \in DOMAIN counts THEN counts[c] ELSE 0

ControlsRight(r) ==
    /\ r.before \subseteq Sealed
    /\ "perControl" \in DOMAIN r.got =>
          \A c : c[1] = r.fw =>
              ControlRight(c, CountFor(c, r.got["perControl"]), r.window,
                           r.before, Sealed)
    /\ "catalog" \in DOMAIN r.got =>
          /\ \A c \in r.got["catalog"] : c[1] = r.fw
          /\ \A e \in r.before : \A c \in RefsOf(e) :
                Received(e, r.window) /\ c[1] = r.fw => c \in r.got["catalog"]

ControlInv ==
    /\ IsFiniteSet(Sealed)
    /\ reader.op = "summary" => ControlsRight(reader)

LEMMA PerControlCounts ==
    ASSUME EvidenceInv, OnceInv, IsFiniteSet(Sealed), NEW r,
           NEW before \in SUBSET Sealed, NEW c, c[1] = r.fw
    PROVE  ControlRight(c, CountFor(c, Result("perControl", r)), r.window,
                        before, Sealed)
  <1> DEFINE counts == Result("perControl", r)
             w == r.window
             rows == MappingRows(c, w)
             S == With(c, w, before)
             W == With(c, w, Sealed)
  <1>1. /\ DOMAIN counts =
              {x \in {m.ref : m \in UNION {events[e].mappings : e \in Sealed}} :
                 x[1] = r.fw /\ MappingRows(x, w) # {}}
        /\ \A x \in DOMAIN counts : counts[x] = Cardinality(MappingRows(x, w))
    BY DEF Result
  <1>2. rows # {} => c \in {m.ref : m \in UNION {events[e].mappings : e \in Sealed}}
    BY DEF MappingRows
  <1>3. CountFor(c, counts) = Cardinality(rows)
    <2>1. CASE rows = {}
      <3>1. c \notin DOMAIN counts
        BY <1>1, <2>1
      <3> QED
        BY <2>1, <3>1, FS_EmptySet DEF CountFor
    <2>2. CASE rows # {}
      <3>1. c \in DOMAIN counts
        BY <1>1, <1>2, <2>2
      <3> QED
        BY <1>1, <3>1 DEF CountFor
    <2> QED
      BY <2>1, <2>2
  <1>4. Cardinality(rows) = Cardinality(W)
    BY RowsAreEvents
  <1>5. S \subseteq W /\ W \subseteq W /\ IsFiniteSet(W)
    BY FS_Subset DEF With
  <1> HIDE DEF counts, rows, S, W
  <1>6. /\ Cardinality(W) \in Nat /\ Cardinality(S) <= Cardinality(W)
        /\ Cardinality(W) <= Cardinality(W)
    BY <1>5, CountBetween
  <1> QED
    BY <1>3, <1>4, <1>6 DEF ControlRight, counts, S, W

LEMMA CatalogListed ==
    ASSUME EvidenceInv, MappingInv, NEW r, NEW e \in Sealed, NEW c \in RefsOf(e),
           c[1] = r.fw
    PROVE  c \in Result("catalog", r)
  <1>1. /\ e \in Event /\ Faithful(e, events[e].mappings)
        /\ RefsOf(e) = {m.ref : m \in events[e].mappings}
    BY DEF EvidenceInv, MappingInv, MappedRight, RefsOf, MappingsOf
  <1>2. c \in catalog /\ c \in Ruled(req[e].input) \cup CustomerRefs(req[e].input)
    BY <1>1 DEF Faithful
  <1>3. Len(c) = 2
    BY <1>2, PackAssumption DEF Ruled, RuleHits, CustomerRefs
  <1> QED
    BY <1>2, <1>3 DEF Result

LEMMA ControlKept ==
    ASSUME EvidenceInv, TablesApart, IsFiniteSet(Sealed), [Next]_vars,
           NEW before \in SUBSET Sealed, NEW w, NEW c, NEW n,
           ControlRight(c, n, w, before, Sealed)
    PROVE  ControlRight(c, n, w, before, Sealed)'
  <1>1. ASSUME NEW e \in Sealed
        PROVE  /\ Received(e, w)' <=> Received(e, w)
               /\ RefsOf(e)' = RefsOf(e)
    BY SealedStays DEF Received, RefsOf
  <1>2. With(c, w, before)' = With(c, w, before)
    BY <1>1 DEF With
  <1> DEFINE U == With(c, w, Sealed)
             V == With(c, w, Sealed)'
  <1>3. U \subseteq V /\ IsFiniteSet(V)
    <2>1. IsFiniteSet(Sealed') /\ Sealed \subseteq Sealed'
      BY SealedFinite
    <2> QED
      BY <1>1, <2>1, FS_Subset DEF With
  <1> HIDE DEF U, V
  <1>4. Cardinality(U) <= Cardinality(V) /\ Cardinality(V) \in Nat
        /\ Cardinality(U) \in Nat
    BY <1>3, FS_Subset, FS_CardinalityType
  <1>5. /\ n \in Nat /\ n <= Cardinality(U)
        /\ Cardinality(With(c, w, before)) <= n
    BY DEF ControlRight, U
  <1>6. n <= Cardinality(V)
    BY <1>4, <1>5
  <1> QED
    BY <1>2, <1>5, <1>6 DEF ControlRight, V

LEMMA ControlsKept ==
    ASSUME EvidenceInv, TablesApart, IsFiniteSet(Sealed), [Next]_vars,
           NEW r, ControlsRight(r)
    PROVE  ControlsRight(r)'
  <1>1. Sealed \subseteq Sealed' /\ r.before \in SUBSET Sealed
    BY SealedFinite DEF ControlsRight
  <1>2. \A e \in r.before : /\ Received(e, r.window)' <=> Received(e, r.window)
                            /\ RefsOf(e)' = RefsOf(e)
    BY <1>1, SealedStays DEF Received, RefsOf
  <1>3. ASSUME "perControl" \in DOMAIN r.got, NEW c, c[1] = r.fw
        PROVE  ControlRight(c, CountFor(c, r.got["perControl"]), r.window,
                            r.before, Sealed)'
    <2>1. ControlRight(c, CountFor(c, r.got["perControl"]), r.window,
                       r.before, Sealed)
      BY <1>3 DEF ControlsRight
    <2> QED
      BY <1>1, <2>1, ControlKept
  <1> QED
    BY <1>1, <1>2, <1>3 DEF ControlsRight

LEMMA ControlStep ==
    /\ EvidenceInv /\ TablesApart /\ MappingInv /\ OnceInv /\ ControlInv
    /\ [Next]_vars
    => ControlInv'
  <1> SUFFICES ASSUME EvidenceInv, TablesApart, MappingInv, OnceInv, ControlInv,
                      [Next]_vars
               PROVE  ControlInv'
    OBVIOUS
  <1>1. IsFiniteSet(Sealed) /\ IsFiniteSet(Sealed')
    BY SealedFinite DEF ControlInv
  <1>2. PICK r : r = reader'
    OBVIOUS
  <1>3. ASSUME r.op = "summary" PROVE ControlsRight(r)
    <2>1. CASE reader' = reader
      BY <1>2, <1>3, <2>1 DEF ControlInv
    <2>2. ASSUME NEW fw \in Framework, NEW watch \in Watched, Summary(fw, watch)
          PROVE  ControlsRight(r)
      <3>1. PICK w : reader' = SummaryOf(fw, w, watch, << >>, Sealed)
        BY <1>2, <1>3, <2>2 DEF Summary, Asks, Replies, Idle
      <3>2. r.before = Sealed /\ DOMAIN r.got = {}
        BY <1>2, <3>1 DEF SummaryOf
      <3> QED
        BY <3>2 DEF ControlsRight
    <2>3. ASSUME NEW q \in Query, RunQuery(q)
          PROVE  ControlsRight(r)
      <3>1. /\ ControlsRight(reader)
            /\ r = SummaryOf(reader.fw, reader.window, reader.todo \ {q},
                             WithRow(reader.got, q, Result(q, reader)), reader.before)
        BY <1>2, <2>3 DEF RunQuery, Asks, ControlInv
      <3>2. /\ r.before = reader.before /\ r.window = reader.window
            /\ r.fw = reader.fw
            /\ DOMAIN r.got = DOMAIN reader.got \cup {q}
            /\ r.got[q] = Result(q, reader)
            /\ \A p \in DOMAIN reader.got \ {q} : r.got[p] = reader.got[p]
        BY <3>1 DEF SummaryOf, WithRow
      <3>3. reader.before \in SUBSET Sealed
        BY <3>1 DEF ControlsRight
      <3>4. ASSUME "perControl" \in DOMAIN r.got, NEW c, c[1] = r.fw
            PROVE  ControlRight(c, CountFor(c, r.got["perControl"]), r.window,
                                r.before, Sealed)
        <4>1. CASE q = "perControl"
          BY <1>1, <3>2, <3>3, <3>4, <4>1, PerControlCounts
        <4>2. CASE q # "perControl"
          BY <3>1, <3>2, <3>4, <4>2 DEF ControlsRight
        <4> QED
          BY <4>1, <4>2
      <3>5. ASSUME "catalog" \in DOMAIN r.got
            PROVE  /\ \A c \in r.got["catalog"] : c[1] = r.fw
                   /\ \A e \in r.before : \A c \in RefsOf(e) :
                         Received(e, r.window) /\ c[1] = r.fw
                            => c \in r.got["catalog"]
        <4>1. CASE q = "catalog"
          <5>1. \A c \in Result("catalog", reader) : c[1] = reader.fw
            BY DEF Result
          <5> QED
            BY <3>2, <3>3, <4>1, <5>1, CatalogListed
        <4>2. CASE q # "catalog"
          BY <3>1, <3>2, <3>5, <4>2 DEF ControlsRight
        <4> QED
          BY <4>1, <4>2
      <3> QED
        BY <3>2, <3>3, <3>4, <3>5 DEF ControlsRight
    <2>4. ASSUME Read, ~ \E fw \in Framework, watch \in Watched : Summary(fw, watch),
                 ~ \E q \in Query : RunQuery(q)
          PROVE  FALSE
      <3>1. r.op # "summary"
        BY <1>2, <2>4 DEF Read, VerifyEvent, VerifyPendingEvent, QueryFails,
           SummaryReplies, Asks, Replies, Idle
      <3> QED
        BY <1>3, <3>1
    <2>5. ASSUME Work PROVE reader' = reader
      <3>1. ASSUME Crash PROVE FALSE
        BY <1>2, <1>3, <3>1 DEF Crash, Idle
      <3>2. ASSUME NEW e \in Event, Accept(e) PROVE reader' = reader
        BY <3>2 DEF Accept, Receive, ResolveControlReferences, GetAgentByExternalID,
           AgentLookupFails, InsertPendingEvent, AcceptFails
      <3> QED
        BY <2>5, <3>1, <3>2 DEF Work, Tick, ChangeAgent, SeedCatalog, Seal
    <2> QED
      BY <2>1, <2>2, <2>3, <2>4, <2>5 DEF Next, vars
  <1>4. r.op = "summary" => ControlsRight(r)'
    BY <1>1, <1>3, ControlsKept
  <1> QED
    BY <1>1, <1>2, <1>4 DEF ControlInv, ControlsRight

LEMMA ReplyCountsOnce ==
    ASSUME ControlInv, [Next]_vars, EvidenceCountedOnce
    PROVE  EvidenceCountedOnce'
  <1> SUFFICES ASSUME answer' # Nil, answer'.op = "summary",
                      answer'.controls # << >>
               PROVE  EvidenceCountedOnce'
    BY DEF EvidenceCountedOnce, Answers
  <1>1. CASE SummaryReplies
    <2> DEFINE got == reader.got  w == reader.window  before == reader.before
    <2>1. ControlsRight(reader) /\ UNCHANGED <<req, pending, events>>
      BY <1>1 DEF SummaryReplies, ControlInv, Replies, world, tables
    <2>2. /\ answer'.before = before /\ answer'.after = Sealed /\ answer'.window = w
          /\ answer'.fw = reader.fw
          /\ answer'.controls = IF {"perControl", "catalog"} \subseteq DOMAIN got
                                THEN EvidencePerControl ELSE << >>
      BY <1>1 DEF SummaryReplies, Replies
    <2>3. /\ "perControl" \in DOMAIN got /\ "catalog" \in DOMAIN got
          /\ answer'.controls = EvidencePerControl
      BY <2>2
    <2>4. /\ DOMAIN answer'.controls = got["catalog"]
          /\ \A c \in got["catalog"] :
                answer'.controls[c] = CountFor(c, got["perControl"])
      BY <2>3 DEF EvidencePerControl, CountFor
    <2>5. ASSUME NEW c \in DOMAIN answer'.controls
          PROVE  /\ answer'.controls[c] >= Cardinality(With(c, w, before))
                 /\ answer'.controls[c] <= Cardinality(With(c, w, Sealed))
      <3> DEFINE n == CountFor(c, got["perControl"])
      <3>1. c \in got["catalog"] /\ c[1] = reader.fw
        BY <2>1, <2>3, <2>4, <2>5 DEF ControlsRight
      <3>2. ControlRight(c, n, w, before, Sealed)
        BY <2>1, <2>3, <3>1 DEF ControlsRight
      <3>3. answer'.controls[c] = n
        BY <2>4, <3>1
      <3> HIDE DEF n, w, before
      <3>4. /\ n \in Nat /\ Cardinality(With(c, w, before)) <= n
            /\ n <= Cardinality(With(c, w, Sealed))
        BY <3>2 DEF ControlRight
      <3> QED
        BY <3>3, <3>4
    <2>6. \A e \in before : \A c \in RefsOf(e) :
             Received(e, w) /\ c[1] = reader.fw => c \in DOMAIN answer'.controls
      BY <2>1, <2>3, <2>4 DEF ControlsRight
    <2> HIDE DEF got, w, before
    <2> QED
      BY <2>1, <2>2, <2>5, <2>6 DEF EvidenceCountedOnce, With, Received, RefsOf,
         MappingsOf, Sealed
  <1>2. CASE UNCHANGED vars
    BY <1>2 DEF EvidenceCountedOnce, Answers, vars, world, tables, Received, RefsOf,
       MappingsOf, Sealed
  <1>3. ASSUME NEW e \in Event, VerifyEvent(e) PROVE FALSE
    BY <1>3 DEF VerifyEvent, Asks, Replies
  <1>4. ASSUME NEW fw, NEW watch, Summary(fw, watch) PROVE FALSE
    BY <1>4 DEF Summary, Asks, Replies
  <1>5. ASSUME NEW q, RunQuery(q) PROVE FALSE
    BY <1>5 DEF RunQuery, Asks
  <1>6. ASSUME VerifyPendingEvent \/ QueryFails PROVE FALSE
    BY <1>6 DEF VerifyPendingEvent, QueryFails, Replies
  <1> QED
    BY <1>1, <1>2, <1>3, <1>4, <1>5, <1>6 DEF Next, Read

(***************************************************************************)
(* evidence_count counts mapping rows, yet each event once and none missed *)
(* that was sealed when the request began, and every control with evidence *)
(* is listed, for any rules, periods and seals in between                  *)
(* (GetEvidenceCountsPerControl, Compute, evidence.go:157-174).            *)
(***************************************************************************)
THEOREM EvidenceAlwaysOnce == Spec => []EvidenceCountedOnce
  <1> DEFINE Inv == /\ EvidenceInv /\ TablesApart /\ MappingInv /\ OnceInv
                    /\ ControlInv
  <1>1. Init => Inv /\ EvidenceCountedOnce
    <2>1. Init => OnceInv
      BY DEF Init, OnceInv, EachOnce, NoRequest, Request
    <2>2. Init => ControlInv /\ EvidenceCountedOnce
      BY FS_EmptySet DEF Init, ControlInv, Idle, Sealed, EvidenceCountedOnce, Answers
    <2> QED
      BY <2>1, <2>2, EvidenceInvInit, MappingInvInit, TypeInit DEF TypeOK, TablesApart
  <1>2. Inv /\ [Next]_vars => Inv'
    BY EvidenceInvStep, TablesStep, MappingInvStep, OnceStep, ControlStep
  <1>3. Inv /\ EvidenceCountedOnce /\ [Next]_vars => EvidenceCountedOnce'
    BY ReplyCountsOnce
  <1> HIDE DEF Inv
  <1> QED
    BY <1>1, <1>2, <1>3, PTL DEF Spec

=============================================================================
