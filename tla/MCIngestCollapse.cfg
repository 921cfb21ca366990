SPECIFICATION Spec
CONSTANTS
    Nil = Nil
    r1 = r1
    r2 = r2
    r3 = r3
    r4 = r4
    r5 = r5
    e1 = e1
    e2 = e2
    e3 = e3
    e4 = e4
    e5 = e5
    e6 = e6
    k1 = k1
    k2 = k2
    Request = {r1, r2, r3, r4, r5}
    Event = {e1, e2, e3, e4, e5, e6}
    Key = {k1, k2}
    EventsOf <- MCEventsOf
    KeyOf <- MCKeyOf
    MaxFailures = 1
INVARIANTS
    KeyedPostsCollapse
