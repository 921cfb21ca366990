SPECIFICATION FairSpec
CONSTANTS
    Nil = Nil
    e1 = e1
    e2 = e2
    e3 = e3
    e4 = e4
    x = x
    a = a
    b = b
    s1 = s1
    s2 = s2
    p1 = p1
    p2 = p2
    ExtOf <- MCExtOf
    ActorOf <- MCActorOf
    PayloadOf <- MCPayloadOf
    Payload = {e1, e2, e3}
    Event = {e1, e2, e3}
    Ext = {x}
    Actor = {a, b}
    Shard = {s1, s2}
    Process = {p1, p2}
    BatchSize = 2
    MaxWork = 1
    Concurrency = 1
    Anchoring = {p1}
    MaxFailures = 1
    IndexFor <- MCTwoShards
INVARIANTS
    CopyNeverCollides
    AnchoredUnlessFailed
PROPERTIES
    ImplementsJournal
    EventuallySealed
