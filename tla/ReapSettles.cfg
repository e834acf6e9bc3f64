CONSTANTS
    p1 = p1
    p2 = p2
    s1 = s1
    s2 = s2
    k1 = k1
    r1 = r1
    r2 = r2
    u1 = u1
    u2 = u2
    d1 = d1
    x1 = x1
    None = None
    Path = {p2}
    DispatchNamed = {p2}
    Session = {s1, k1}
    ActivitySession = {k1}
    Reaper = {r1, r2}
    Resumer = {}
    Destroyer = {}
    Dispatcher = {x1}
    TokenPath <- OneToken
    OnReapFailureLimit = 3
    MaxCrashes = 1
    PartialDestroy = FALSE
SPECIFICATION FairSpec
INVARIANTS MappedDispatchIsRecorded
PROPERTIES DesertedIsSettled FailedRunsAreCounted OrphanIsReclaimed RollbackOrphansNobody
CHECK_DEADLOCK FALSE
