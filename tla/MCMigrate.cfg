SPECIFICATION FairSpec
CONSTANTS
    projects = projects
    environments = environments
    pending_events = pending_events
    events = events
    later = later
    u1 = u1
    u2 = u2
    d1 = d1
    d2 = d2
    Version = {1, 2}
    Table = {projects, environments, pending_events, events, later}
    Runner = {u1, u2, d1, d2}
    UpSQL <- MCUpSQL
    DownSQL <- MCDownSQL
    Goal <- MCGoal
    MaxFailures = 1
INVARIANTS
    TypeOK
    RecordedSound
    ReportsSound
PROPERTIES
    EveryRunEnds
