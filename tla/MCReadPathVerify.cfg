SPECIFICATION Spec
CONSTANTS
    Nil = Nil
    e1 = e1
    e2 = e2
    e3 = e3
    e4 = e4
    x = x
    s1 = s1
    s2 = s2
    Event = {e1, e2, e3, e4}
    Payload = {e1, e2, e3, e4}
    Ext = {x}
    Shard = {s1, s2}
    ExtOf <- MCExtOf
    PayloadOf <- MCPayloadOf
    ReadsFail = FALSE
    ChainVerifySyncLimit = 2
INVARIANTS
    IntactChainVerifies
