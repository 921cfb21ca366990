SPECIFICATION Spec
CONSTANTS
    Nil = Nil
    e1 = e1
    e2 = e2
    e3 = e3
    j1 = j1
    j2 = j2
    s1 = s1
    s2 = s2
    w1 = w1
    w2 = w2
    Event = {e1, e2}
    Payload = {e1, e2}
    Ext = {}
    Shard = {s1, s2}
    Job = {j1, j2}
    Worker = {w1, w2}
    ExtOf <- MCExtOf
    PayloadOf <- MCPayloadOf
    InPeriod <- MCFullPeriod
    MaxFailures = 1
INVARIANTS
    FailureRecorded
