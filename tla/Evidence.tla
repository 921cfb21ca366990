----------------------------- MODULE Evidence ------------------------------
(***************************************************************************)
(* One server from its boot to the evidence it reports: it seeds the       *)
(* catalog (bootstrap), accepts events and annotates them with controls    *)
(* and scope checks (ingest), seals them, and answers verifications of one *)
(* event (verify) and evidence summaries (routes/evidence.go).  Everything *)
(* happens in one tenant, and without idempotency keys: those, chains and  *)
(* retries are in Ingest and Sealer.                                       *)
(*                                                                         *)
(* Statements of a handler are separate actions; between them the clock    *)
(* moves, agents change, events are sealed and the server may crash.       *)
(***************************************************************************)
EXTENDS Content, FiniteSets

CONSTANTS
    Event,          \* requests to accept an event
    Input,          \* the bodies that may be posted, by request
    Agent, AgentRow,    \* actor ids, and the values of a row of agents
    Seeds,          \* the sequence of upserts of the boot: <<framework>> and
                    \* <<framework, control>>
    Framework,      \* the frameworks asked for
    Window,         \* the periods asked for, besides the default one
    Month,          \* the length of the default period
    Watched,        \* sets of queries of a summary that are looked at at once
    MaxTime, MaxChanges, MaxFailures    \* bounds: clock, agents, errors

Query == {"total", "privileged", "agent", "outOfScope", "denied", "shared",
          "perControl", "catalog"}

ASSUME EvidenceAssumption ==
    /\ Seeds \in Seq({Seeds[i] : i \in DOMAIN Seeds})
    /\ Nil \notin Event /\ Nil \notin AgentRow /\ Nil \notin Agent
    /\ Watched \subseteq SUBSET Query
    /\ {MaxTime, MaxChanges, MaxFailures, Month} \subseteq Nat

\* What packs_test.go asks of the packs.
ASSUME PackAssumption ==
    \A k \in DOMAIN Rules : \A ref \in Rules[k].controls :
        Len(ref) = 2 /\ \E i \in DOMAIN Seeds : Seeds[i] = ref

VARIABLES
    now,            \* the server's clock, in ticks
    agents,         \* the table agents: a row, or Nil, by external id
    catalog,        \* the tables frameworks and controls
    booted,         \* the upserts the server has done since its start
    req,            \* the request of each event
    pending,        \* the rows of pending_events, by event
    events,         \* the rows of events, with classification and mappings
    reader,         \* the read request in progress
    answer,         \* the answer the last step gave to it, or Nil
    seen,           \* history: the agent rows that held during the request
    changes, failures

tables == <<catalog, pending, events>>
world == <<now, agents, tables, booted, req, seen, changes, failures>>
vars == <<world, reader, answer>>

-----------------------------------------------------------------------------
\* A request in Accept: its input, accepted_at and what is computed so far.
Request(step, input, at, hash, mappings, scope) ==
    [step |-> step, input |-> input, at |-> at, hash |-> hash,
     mappings |-> mappings, scope |-> scope]

NoRequest == Request("none", Nil, 0, Nil, {}, Nil)

\* A summary whose queries in todo are still to run.
SummaryOf(fw, window, todo, got, before) ==
    [op |-> "summary", fw |-> fw, window |-> window, todo |-> todo, got |-> got,
     before |-> before]

Idle == [op |-> "idle"]

\* Mutant: the catalog is seeded while requests are served.
ServingAtOnce == booted \in Nat

\* The server listens after its catalog is seeded.
Serving == booted = Len(Seeds)

InRequest(e) == req[e].step \in {"resolve", "scope", "insert"}

Sealed == DOMAIN events

\* A table with a row more, and with a row less.
WithRow(table, e, row) ==
    [x \in DOMAIN table \cup {e} |-> IF x = e THEN row ELSE table[x]]

WithoutRow(table, e) == [x \in DOMAIN table \ {e} |-> table[x]]

Init ==
    /\ now = 0
    /\ agents = [a \in Agent |-> Nil]
    /\ catalog = {}
    /\ booted = 0
    /\ req = [e \in Event |-> NoRequest]
    /\ pending = << >>
    /\ events = << >>
    /\ reader = Idle
    /\ answer = Nil
    /\ seen = [e \in Event |-> {}]
    /\ changes = 0
    /\ failures = 0

-----------------------------------------------------------------------------
Tick ==
    /\ now < MaxTime
    /\ now' = now + 1
    /\ UNCHANGED <<agents, tables, booted, req, reader, seen, changes, failures>>

\* Agents are registered, changed and removed from outside.
ChangeAgent(a) ==
    /\ changes < MaxChanges
    /\ \E row \in AgentRow \cup {Nil} :
        /\ row # agents[a]
        /\ agents' = [agents EXCEPT ![a] = row]
        /\ seen' = [e \in Event |->
                        IF InRequest(e) /\ req[e].input.actor.id = a
                        THEN seen[e] \cup {row} ELSE seen[e]]
    /\ changes' = changes + 1
    /\ UNCHANGED <<now, tables, booted, req, reader, failures>>

\* UpsertFramework, then UpsertControl: a statement, committed, for each row.
SeedCatalog ==
    /\ booted < Len(Seeds)
    /\ catalog' = catalog \cup {Seeds[booted + 1]}
    /\ booted' = booted + 1
    /\ UNCHANGED <<now, agents, pending, events, req, reader, seen, changes, failures>>

Failed(r) == Request("failed", r.input, r.at, Nil, {}, Nil)

\* The server dies, with the requests it was serving, and boots again.
Crash ==
    /\ failures < MaxFailures
    /\ booted' = 0
    /\ req' = [e \in Event |->
                  IF InRequest(e) THEN Failed(req[e]) ELSE req[e]]
    /\ reader' = Idle
    /\ failures' = failures + 1
    /\ UNCHANGED <<now, agents, tables, seen, changes>>

-----------------------------------------------------------------------------
\* Accept, up to its first statement: time, hash, classes and controls.
Receive(e, input) ==
    LET at == HashTime(now) IN
    /\ Serving
    /\ req[e].step = "none"
    /\ req' = [req EXCEPT ![e] =
                 Request("resolve", input, at, BuildContentPayload(at, input),
                         Compute(input), Nil)]
    /\ seen' = [seen EXCEPT ![e] =
                  IF input.actor.id \in Agent THEN {agents[input.actor.id]} ELSE {Nil}]
    /\ UNCHANGED <<now, agents, tables, booted, reader, changes, failures>>

\* The statement is skipped when no control is proposed.
ResolveControlReferences(e) ==
    /\ req[e].step = "resolve"
    /\ req' = [req EXCEPT ![e] =
                 Request("scope", @.input, @.at, @.hash,
                         ResolveAgainstCatalog(@.mappings, catalog), Nil)]
    /\ UNCHANGED <<now, agents, tables, booted, reader, seen, changes, failures>>

RegisteredAgent(e) ==
    LET a == req[e].input.actor.id IN IF a \in Agent THEN agents[a] ELSE Nil

GetAgentByExternalID(e) ==
    /\ req[e].step = "scope"
    /\ req' = [req EXCEPT ![e] =
                 Request("insert", @.input, @.at, @.hash, @.mappings,
                         ComputeScopeCheck(@.input, RegisteredAgent(e)))]
    /\ UNCHANGED <<now, agents, tables, booted, reader, seen, changes, failures>>

\* The error of the lookup is swallowed.
AgentLookupFails(e) ==
    /\ req[e].step = "scope"
    /\ IsAgent(req[e].input.actor)
    /\ failures < MaxFailures
    /\ req' = [req EXCEPT ![e] =
                 Request("insert", @.input, @.at, @.hash, @.mappings, Nil)]
    /\ failures' = failures + 1
    /\ UNCHANGED <<now, agents, tables, booted, reader, seen, changes>>

InsertPendingEvent(e) ==
    /\ req[e].step = "insert"
    /\ pending' = WithRow(pending, e,
                     PendingRow(req[e].at, req[e].input, req[e].hash,
                                req[e].mappings, req[e].scope))
    /\ req' = [req EXCEPT ![e] = Request("accepted", @.input, @.at, @.hash, {}, Nil)]
    /\ UNCHANGED <<now, agents, catalog, events, booted, reader, seen, changes, failures>>

\* An error of the catalog's read or of the insert is answered with 500.
AcceptFails(e) ==
    /\ req[e].step \in {"resolve", "insert"}
    /\ failures < MaxFailures
    /\ req' = [req EXCEPT ![e] = Failed(@)]
    /\ failures' = failures + 1
    /\ UNCHANGED <<now, agents, tables, booted, reader, seen, changes>>

Accept(e) ==
    \/ \E input \in Input[e] : Receive(e, input)
    \/ ResolveControlReferences(e)
    \/ GetAgentByExternalID(e)
    \/ AgentLookupFails(e)
    \/ InsertPendingEvent(e)
    \/ AcceptFails(e)

\* Mutant: the rows are not deleted from pending_events.
SealKeeping(e) ==
    /\ Serving
    /\ e \in DOMAIN pending
    /\ events' = WithRow(events, e, BuildEventRow(pending[e]))
    /\ UNCHANGED <<now, agents, catalog, pending, booted, req, reader, seen, changes, failures>>

\* A committed seal of one event: a larger batch is several in a row.
Seal(e) ==
    /\ Serving
    /\ e \in DOMAIN pending
    /\ events' = WithRow(events, e, BuildEventRow(pending[e]))
    /\ pending' = WithoutRow(pending, e)
    /\ UNCHANGED <<now, agents, catalog, booted, req, reader, seen, changes, failures>>

-----------------------------------------------------------------------------
Asks(query) == reader' = query /\ answer' = Nil /\ UNCHANGED world

Replies(a) == reader' = Idle /\ answer' = a /\ UNCHANGED world

\* VerifyEvent reads events, and when the row is not there pending_events.
VerifyEvent(e) ==
    /\ Serving
    /\ reader = Idle
    /\ req[e].step = "accepted"
    /\ IF e \in Sealed
       THEN Replies([op |-> "verify", event |-> e, matches |-> VerifySealed(events[e])])
       ELSE Asks([op |-> "verifyPending", event |-> e])

VerifyPendingEvent ==
    /\ reader.op = "verifyPending"
    /\ LET e == reader.event IN
       IF e \in DOMAIN pending
       THEN Replies([op |-> "verify", event |-> e, matches |-> VerifyPending(pending[e])])
       ELSE Replies([op |-> "404"])

\* GetFramework, and the period of the request: the last month by default.
Summary(fw, watch) ==
    /\ Serving
    /\ reader = Idle
    /\ IF <<fw>> \in catalog
       THEN \E w \in Window \cup {[from |-> now - Month, to |-> now]} :
              Asks(SummaryOf(fw, w, watch, << >>, Sealed))
       ELSE Replies([op |-> "404"])

\* Mutant: the end of the period is included.
InClosedWindow(row, w) == row.received_at >= w.from /\ row.received_at <= w.to

InWindow(row, w) == row.received_at >= w.from /\ row.received_at < w.to

PrivilegedEvent(row) ==
    \/ row.event_type[1] = "admin"
    \/ row.event_type \in {<<"identity", t>> : t \in
         {"permission.granted", "permission.revoked", "role.changed",
          "mfa.enabled", "mfa.disabled", "session.revoked"}}

AIAgentEvent(row) == row.actor_type = "ai_agent" \/ row.event_type[1] = "agent"

OutOfScopeAction(row) ==
    row.scope_check_result # Nil /\ ~ row.scope_check_result.in_scope

PolicyDenial(row) == row.action_result = "denied" \/ row.policy_decision = "denied"

ExternalShare(row) ==
    row.event_type \in {<<"data", "exported">>, <<"data", "shared_external">>,
                        <<"vendor", "data_sent">>}

\* The WHERE clause of a count, besides tenant and period.  The count of open
\* exceptions is left out: nothing here writes that table.
Counted(q, row) ==
    CASE q = "total"      -> TRUE
      [] q = "privileged" -> PrivilegedEvent(row)
      [] q = "agent"      -> AIAgentEvent(row)
      [] q = "outOfScope" -> OutOfScopeAction(row)
      [] q = "denied"     -> PolicyDenial(row)
      [] q = "shared"     -> ExternalShare(row)

InPeriod(w) == {e \in Sealed : InWindow(events[e], w)}

\* The rows of GetEvidenceCountsPerControl: mapping rows, not events.
MappingRows(c, w) ==
    {row \in InPeriod(w) \X UNION {events[e].mappings : e \in Sealed} :
        row[2] \in events[row[1]].mappings /\ row[2].ref = c}

Result(q, r) ==
    CASE q = "catalog"    -> {c \in catalog : Len(c) = 2 /\ c[1] = r.fw}
      [] q = "perControl" ->
           [c \in {c \in {m.ref : m \in UNION {events[e].mappings : e \in Sealed}} :
                     c[1] = r.fw /\ MappingRows(c, r.window) # {}}
              |-> Cardinality(MappingRows(c, r.window))]
      [] OTHER -> Cardinality({e \in InPeriod(r.window) : Counted(q, events[e])})

\* One of the queries that run at the same time.
RunQuery(q) ==
    /\ reader.op = "summary"
    /\ q \in reader.todo
    /\ Asks(SummaryOf(reader.fw, reader.window, reader.todo \ {q},
                      WithRow(reader.got, q, Result(q, reader)), reader.before))

\* An error of one query fails the request.
QueryFails ==
    /\ reader.op = "summary"
    /\ failures < MaxFailures
    /\ failures' = failures + 1
    /\ reader' = Idle
    /\ answer' = [op |-> "500"]
    /\ UNCHANGED <<now, agents, tables, booted, req, seen, changes>>

\* Every control of the catalog, with its count or zero.
EvidencePerControl ==
    [c \in reader.got["catalog"] |->
        IF c \in DOMAIN reader.got["perControl"] THEN reader.got["perControl"][c] ELSE 0]

SummaryReplies ==
    /\ reader.op = "summary"
    /\ reader.todo = {}
    /\ Replies([op |-> "summary", fw |-> reader.fw, window |-> reader.window,
                totals |-> [q \in DOMAIN reader.got \ {"perControl", "catalog"} |->
                              reader.got[q]],
                controls |-> IF {"perControl", "catalog"} \subseteq DOMAIN reader.got
                             THEN EvidencePerControl ELSE << >>,
                before |-> reader.before, after |-> Sealed])

Read ==
    \/ \E e \in Event : VerifyEvent(e)
    \/ VerifyPendingEvent
    \/ \E fw \in Framework, watch \in Watched : Summary(fw, watch)
    \/ \E q \in Query : RunQuery(q)
    \/ QueryFails
    \/ SummaryReplies

Work ==
    \/ Tick
    \/ \E a \in Agent : ChangeAgent(a)
    \/ SeedCatalog
    \/ Crash
    \/ \E e \in Event : Accept(e) \/ Seal(e)

Next ==
    \/ Work /\ answer' = Nil
    \/ Read

Spec == Init /\ [][Next]_vars

-----------------------------------------------------------------------------
MappingsOf(e) ==
    IF e \in Sealed THEN events[e].mappings ELSE pending[e].control_mappings

ScopeOf(e) == IF e \in Sealed THEN events[e].scope_check_result ELSE pending[e].scope_check

ClassesOf(e) ==
    IF e \in Sealed THEN events[e].data_classes ELSE pending[e].classification.classes

Accepted == {e \in Event : req[e].step = "accepted"}

Answers(op) == answer # Nil /\ answer.op = op

RefsOf(e) == {m.ref : m \in MappingsOf(e)}

Ruled(input) == {h[2] : h \in RuleHits(input)}

\* The types of all variables, and that a request is accepted exactly when
\* its event is in one of the two tables, never in both.
TypeOK ==
    /\ now \in 0..MaxTime
    /\ agents \in [Agent -> AgentRow \cup {Nil}]
    /\ catalog \subseteq {Seeds[i] : i \in DOMAIN Seeds}
    /\ booted \in 0..Len(Seeds)
    /\ changes \in 0..MaxChanges
    /\ failures \in 0..MaxFailures
    /\ reader.op \in {"idle", "verifyPending", "summary"}
    /\ answer = Nil \/ answer.op \in {"verify", "summary", "404", "500"}
    /\ \A e \in Event :
        /\ req[e].step \in {"none", "resolve", "scope", "insert", "accepted", "failed"}
        /\ seen[e] \subseteq AgentRow \cup {Nil}
    /\ Accepted = DOMAIN pending \cup Sealed
    /\ DOMAIN pending \cap Sealed = {}

\* Verification recomputes the hash an event was accepted with, from either
\* table, after the round trips through event_data and raw_payload
\* (verify.go:77-163); the only events it fails for are those posted with
\* an empty metadata object.
VerifyMatchesUnlessEmptyMap ==
    Answers("verify") =>
        (answer.matches <=> req[answer.event].input.metadata # {})

\* What payload.go and verify.go say of every event.
VerifyMatches == Answers("verify") => answer.matches

Authorizes(row, input) ==
    row # Nil /\ row.status = "active" /\ input.action.category \in row.scopes

\* The verdict stored with an agent's event is that of a row of agents that
\* held at some moment of the request, however the agent has changed since:
\* in scope only if it was active and authorized, out of scope only if not
\* (scope_check.go:61-118).
InScopeWasAuthorized ==
    \A e \in Accepted : ScopeOf(e) # Nil =>
        /\ IsAgent(req[e].input.actor)
        /\ \E row \in seen[e] : ScopeOf(e).in_scope = Authorizes(row, req[e].input)

\* No event loses a control of the rules: the catalog is seeded before the
\* first request of every boot.  Of what a customer declares, only controls
\* of the catalog are kept (resolve.go:18-53, server/main.go:50-54).
MappingsFaithful ==
    \A e \in Accepted :
        LET input == req[e].input IN
        /\ Ruled(input) \subseteq RefsOf(e)
        /\ RefsOf(e) \subseteq catalog \cap (Ruled(input) \cup CustomerRefs(input))

Received(e, w) == req[e].at >= w.from /\ req[e].at < w.to

\* The events a count of the summary must contain, and those it may contain,
\* by what was posted and by the classes the classifier gave.
AtLeast(q, e) ==
    CASE q = "total"  -> TRUE
      [] q = "agent"  -> IsAgent(req[e].input.actor)
      [] q = "denied" -> req[e].input.action.result = "denied"
      [] OTHER        -> FALSE

AtMost(q, e) ==
    CASE q \in {"agent", "outOfScope"} -> "ai_agent_action" \in ClassesOf(e)
      [] q = "privileged" -> {"privileged_admin", "identity_event"} \cap ClassesOf(e) # {}
      [] q = "shared"     -> {"data_event", "vendor_data_egress"} \cap ClassesOf(e) # {}
      [] OTHER            -> TRUE

\* The counts of a summary run as separate statements while events are
\* sealed: each lies between what was sealed when the request began and what
\* is sealed at the reply, for the requested period of accepted_at; and the
\* SQL counts no event as agent activity, privileged or shared that the
\* classifier has classed otherwise (evidence.go:89-145, evidence.sql).
SummaryWithin ==
    Answers("summary") =>
        \A q \in DOMAIN answer.totals :
            /\ answer.totals[q] >= Cardinality({e \in answer.before :
                                    Received(e, answer.window) /\ AtLeast(q, e)})
            /\ answer.totals[q] <= Cardinality({e \in answer.after :
                                    Received(e, answer.window) /\ AtMost(q, e)})

\* evidence_count of a control counts each event once, although it counts
\* mapping rows, and misses none that was sealed when the request began: a
\* control with evidence is listed (evidence.go:157-174, mapcontrols.go:54-70).
EvidenceCountedOnce ==
    (Answers("summary") /\ answer.controls # << >>) =>
        LET With(c, S) == {e \in S : Received(e, answer.window) /\ c \in RefsOf(e)} IN
        /\ \A e \in answer.before : \A c \in RefsOf(e) :
              Received(e, answer.window) /\ c[1] = answer.fw => c \in DOMAIN answer.controls
        /\ \A c \in DOMAIN answer.controls :
              /\ answer.controls[c] >= Cardinality(With(c, answer.before))
              /\ answer.controls[c] <= Cardinality(With(c, answer.after))

\* No event that the summary counts as an agent's, as denied by its result or
\* as shared outside is stored with low risk, but for what is sent to a
\* vendor, which has a class of its own (classify.go:20-33, evidence.sql).
RiskCoversCounts ==
    \A e \in Sealed :
        \/ events[e].risk_level # "low"
        \/ /\ ~ IsAgent(req[e].input.actor)
           /\ events[e].action_result # "denied"
           /\ ExternalShare(events[e]) => "vendor_data_egress" \in ClassesOf(e)

\* What was computed at accept is canonical: no later step, the seal least of
\* all, changes the hash, classes, mappings or scope check of an event
\* (sealer.go:547-550).
SnapshotKept ==
    [][\A e \in Accepted :
        /\ MappingsOf(e)' = MappingsOf(e)
        /\ ScopeOf(e)' = ScopeOf(e)
        /\ ClassesOf(e)' = ClassesOf(e)]_vars

=============================================================================
