SPECIFICATION Spec
CONSTANTS
    Nil = Nil
    e1 = e1
    e2 = e2
    a1 = a1
    Event = {e1, e2}
    Agent = {a1}
    Input <- MCInput
    AgentRow <- MCAgentRow
    Rules <- MCRules
    Seeds <- MCSeeds
    Framework = {"SOC2", "HIPAA"}
    Window = {}
    Watched <- MCWatched
    TicksPerMs = 2
    Month = 2
    MaxTime = 2
    MaxChanges = 1
    MaxFailures = 1
INVARIANTS VerifyMatches
