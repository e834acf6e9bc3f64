CONSTANTS
    p1 = p1
    p2 = p2
    s1 = s1
    s2 = s2
    k1 = k1
    r1 = r1
    r2 = r2
    u1 = u1
    u2 = u2
    d1 = d1
    x1 = x1
    None = None
    Path = {p1}
    DispatchNamed = {p1}
    Session = {s1, s2, k1}
    ActivitySession = {k1}
    Reaper = {r1}
    Resumer = {u1}
    Destroyer = {}
    Dispatcher = {}
    TokenPath <- NoToken
    OnReapFailureLimit = 2
    MaxCrashes = 1
    PartialDestroy = FALSE
SPECIFICATION Spec
INVARIANTS LockIsHeldByItsActor RunningWorkersAreMapped
PROPERTIES ReapSparesLiveWorkers StoredSettleIsCurrent
CHECK_DEADLOCK FALSE
