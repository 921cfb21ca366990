----------------------------- MODULE MCEvidence ----------------------------
(***************************************************************************)
(* Instances of Evidence for TLC: one framework with two controls, three   *)
(* rules of which two contribute one control, one registered agent, and    *)
(* inputs that meet every class, count and optional field.                 *)
(***************************************************************************)
EXTENDS Evidence

CONSTANTS e1, e2, a1

Access == <<"SOC2", "CC6.1">>
Monitoring == <<"SOC2", "CC7.2">>

MCSeeds == << <<"SOC2">>, Access, Monitoring >>

Anything == [exact |-> {}, prefix |-> {}, classes |-> {}, actors |-> {}, results |-> {}]

MCRules ==
    << [match |-> [Anything EXCEPT !.prefix = {"agent"}],
        controls |-> {Access, Monitoring}, reason |-> "ai_agent_action"],
       [match |-> [Anything EXCEPT !.results = {"denied"}],
        controls |-> {Monitoring}, reason |-> "policy_denial"],
       [match |-> [Anything EXCEPT !.classes = {"pii", "identity_event"}],
        controls |-> {Access}, reason |-> "sensitive"] >>

Body == [event_type |-> <<"data", "exported">>, occurred_at |-> 1,
         external_event_id |-> Nil, actor |-> [type |-> "user", id |-> Nil],
         action |-> [category |-> "read", result |-> "allowed"],
         resource |-> {}, policy |-> Nil, request |-> Nil, metadata |-> Nil]

\* A shared record with personal data, and an empty metadata object.
Shared == [Body EXCEPT !.resource = {"pii"}, !.metadata = {}]

\* An agent's denied action, with a declared control a rule contributes too.
Denied == [Body EXCEPT !.event_type = <<"agent", "tool.called">>,
             !.actor = [type |-> "ai_agent", id |-> a1], !.action.result = "denied",
             !.policy = [decision |-> "denied", controls |-> {Monitoring}],
             !.metadata = {"k"}]

\* An agent's action of another family; a control the catalog does not have.
ByAgent == [Body EXCEPT !.event_type = <<"identity", "role.changed">>,
              !.actor = [type |-> "ai_agent", id |-> a1], !.external_event_id = "x",
              !.policy = [decision |-> Nil,
                          controls |-> {<<"HIPAA", "164">>, Access, <<"none">>}]]

\* A vendor's egress, and a user's refused action.
ToVendor == [Body EXCEPT !.event_type = <<"vendor", "data_sent">>, !.request = "r"]
Refused == [Body EXCEPT !.event_type = <<"identity", "mfa.enabled">>,
              !.action.result = "denied"]

MCInput == [e \in Event |-> IF e = e1 THEN {Shared, ToVendor} ELSE {Denied, ByAgent, Refused}]

MCAgentRow == {[status |-> "active", scopes |-> {"read"}],
               [status |-> "suspended", scopes |-> {"read"}]}

MCWatched == {{"total"}, {"privileged"}, {"agent", "outOfScope"}, {"denied"}, {"shared"},
              {"perControl", "catalog"}}

=============================================================================
