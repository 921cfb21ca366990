------------------------------ MODULE Content -------------------------------
(***************************************************************************)
(* What is computed from one event: the payload its hash commits to        *)
(* (core/payload.go), its class and risk (classify/classify.go), the       *)
(* controls it is evidence for (classify/mapcontrols.go), the check of its *)
(* agent's scopes (ingest/scope_check.go), and the row of events written   *)
(* from all of them (buildEventRow).                                       *)
(*                                                                         *)
(* An event type is a pair <<family, rest>>, split where the prefixes of   *)
(* the rules end.  A control reference is <<framework, control>>, or       *)
(* <<text>> when it has no colon.  A text that omitempty leaves out is     *)
(* Nil.  Hashes are injective: the payload stands for its hash.            *)
(***************************************************************************)
EXTENDS Integers, Sequences

CONSTANTS
    Nil,
    TicksPerMs,     \* the ticks of a clock in a millisecond
    Rules           \* the sequence of the packs' rules

ASSUME ContentAssumption ==
    /\ TicksPerMs \in Nat \ {0}
    /\ Nil # {}
    /\ Rules \in Seq({Rules[k] : k \in DOMAIN Rules})

-----------------------------------------------------------------------------
HashTime(t) == t - (t % TicksPerMs)

Optional == {"external_event_id", "policy", "request", "metadata"}

\* Optional fields are present unless nil: an empty map is present.
BuildContentPayload(receivedAt, input) ==
    [received_at |-> HashTime(receivedAt),
     occurred_at |-> HashTime(input.occurred_at),
     event_type  |-> input.event_type,
     actor       |-> input.actor,
     action      |-> input.action,
     resource    |-> input.resource,
     optional    |-> [f \in {g \in Optional : input[g] # Nil} |-> input[f]]]

\* Mutant: metadata is not marshalled at all.
OmitAlways(m) == Nil

OmitEmpty(m) == IF m = {} THEN Nil ELSE m

\* An input after json.Marshal and json.Unmarshal: omitempty drops an empty
\* map, and what it drops comes back as nil.
Stored(input) ==
    [event_type        |-> input.event_type,
     occurred_at       |-> input.occurred_at,
     external_event_id |-> input.external_event_id,
     actor             |-> input.actor,
     action            |-> input.action,
     resource          |-> input.resource,
     policy            |-> input.policy,
     request           |-> input.request,
     metadata          |-> OmitEmpty(input.metadata)]

-----------------------------------------------------------------------------
IsAgent(actor) == actor.type = "ai_agent"

FamilyClass ==
    {<<"data", "data_event">>, <<"admin", "privileged_admin">>,
     <<"identity", "identity_event">>, <<"agent", "ai_agent_action">>,
     <<"vendor", "vendor_data_egress">>}

DataClasses(input) ==
    input.resource \cup
    {fc[2] : fc \in {x \in FamilyClass : x[1] = input.event_type[1]}} \cup
    {c \in {"ai_agent_action"} : IsAgent(input.actor)}

HighRisk == {"pii", "customer_data", "phi", "pci", "financial"}

HighRiskType == {<<"data", "exported">>, <<"data", "shared_external">>}

\* Mutant: a denied action does not raise the risk.
RiskOfSuccess(input) ==
    IF DataClasses(input) \cap HighRisk # {} \/ input.event_type \in HighRiskType
    THEN "high"
    ELSE IF input.event_type[1] \in {"data", "admin"} \/ IsAgent(input.actor)
         THEN "medium" ELSE "low"

RiskLevel(input) ==
    IF DataClasses(input) \cap HighRisk # {} \/ input.event_type \in HighRiskType
    THEN "high"
    ELSE IF \/ input.event_type[1] \in {"data", "admin"}
            \/ input.action.result = "denied"
            \/ IsAgent(input.actor)
         THEN "medium" ELSE "low"

Classify(input) == [classes |-> DataClasses(input), risk |-> RiskLevel(input)]

-----------------------------------------------------------------------------
\* A dimension of a rule that is left empty matches every event; exact types
\* and prefixes are one dimension.
Matches(match, input) ==
    /\ match.exact # {} \/ match.prefix # {}
         => input.event_type \in match.exact \/ input.event_type[1] \in match.prefix
    /\ match.classes # {} => match.classes \cap DataClasses(input) # {}
    /\ match.actors # {} => input.actor.type \in match.actors
    /\ match.results # {} => input.action.result \in match.results

\* The controls that the rules, by position, contribute to an event.
RuleHits(input) ==
    {h \in (DOMAIN Rules) \X UNION {Rules[k].controls : k \in DOMAIN Rules} :
        Matches(Rules[h[1]].match, input) /\ h[2] \in Rules[h[1]].controls}

CustomerRefs(input) ==
    IF input.policy = Nil THEN {}
    ELSE {ref \in input.policy.controls : Len(ref) = 2}

\* Mutant: what a rule has contributed is not remembered as seen.
ComputeRepeating(input) ==
    {[ref |-> h[2], reason |-> Rules[h[1]].reason] : h \in RuleHits(input)}
    \cup {[ref |-> r, reason |-> "customer_declared"] : r \in CustomerRefs(input)}

\* Each control once, with the reason of the first to contribute it.  The
\* order of the mappings shows nowhere: they are a set.
Compute(input) ==
    LET hits  == RuleHits(input)
        first == {h \in hits : \A g \in hits : g[2] = h[2] => h[1] <= g[1]}
        ruled == {h[2] : h \in hits}
    IN  {[ref |-> h[2], reason |-> Rules[h[1]].reason] : h \in first}
        \cup {[ref |-> r, reason |-> "customer_declared"] :
                r \in CustomerRefs(input) \ ruled}

ResolveAgainstCatalog(proposed, catalog) == {m \in proposed : m.ref \in catalog}

-----------------------------------------------------------------------------
\* Mutant: an agent's status is only reported, not asked.
ScopeOfAnyStatus(input, agent) ==
    IF ~ IsAgent(input.actor) THEN Nil
    ELSE IF agent = Nil THEN [in_scope |-> FALSE, agent |-> Nil]
    ELSE [in_scope |-> input.action.category \in agent.scopes, agent |-> agent]

\* agent is the registered row, or Nil.  The reason follows from the fields.
ComputeScopeCheck(input, agent) ==
    IF ~ IsAgent(input.actor) THEN Nil
    ELSE IF agent = Nil THEN [in_scope |-> FALSE, agent |-> Nil]
    ELSE [in_scope |-> /\ input.action.category \in agent.scopes
                       /\ agent.status = "active",
          agent    |-> agent]

\* The row of pending_events; event_data is an envelope of time and input.
PendingRow(receivedAt, input, hash, mappings, scope) ==
    [event_data       |-> [received_at |-> receivedAt, input |-> Stored(input)],
     payload_hash     |-> hash,
     classification   |-> Classify(input),
     control_mappings |-> mappings,
     scope_check      |-> scope]

\* Mutant: the column is left to its default.
ScopeColumnNull(p) == Nil

ScopeColumn(p) == p.scope_check

\* The row of events with those of its classification and its mappings.
BuildEventRow(p) ==
    LET input == p.event_data.input IN
    [received_at     |-> p.event_data.received_at,
     event_type      |-> input.event_type,
     actor_type      |-> input.actor.type,
     action_result   |-> input.action.result,
     policy_decision |-> IF input.policy = Nil THEN Nil ELSE input.policy.decision,
     raw_payload     |-> Stored(input),
     payload_hash    |-> p.payload_hash,
     data_classes    |-> p.classification.classes,
     risk_level      |-> p.classification.risk,
     mappings        |-> p.control_mappings,
     scope_check_result |-> ScopeColumn(p)]

\* payload_hash_matches of a sealed and of a pending event.
VerifySealed(row) ==
    row.payload_hash = BuildContentPayload(row.received_at, row.raw_payload)

VerifyPending(p) ==
    p.payload_hash = BuildContentPayload(p.event_data.received_at, p.event_data.input)

=============================================================================
