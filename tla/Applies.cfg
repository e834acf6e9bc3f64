CONSTANTS
    a = a
    b = b
    w = w
    f = f
    m = m
    Repo = {a, b}
    OverlayRepo = {b}
    Worktree = {w}
    RepoOf <- WorktreeRepo
    CloneWorkers = 2
    CloneAttempts = 2
    File = {f}
    Mapping = {m}
    Cfg <- Configs
    WritesInRefresh = FALSE
    MaxCommit = 1
    MaxEvents = 3
SPECIFICATION Spec
INVARIANTS NothingOfOursIsLost TrustIsRecorded FailedCreateLeavesNothing
PROPERTIES RemovesOnlyStale OverlayIsKept
CHECK_DEADLOCK FALSE
