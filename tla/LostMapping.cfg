CONSTANTS
    a = a
    b = b
    w = w
    f = f
    m = m
    Repo = {a, b}
    OverlayRepo = {b}
    Worktree = {w}
    RepoOf <- WorktreeRepo
    CloneWorkers = 2
    CloneAttempts = 2
    File = {f}
    Mapping = {m}
    Cfg <- Configs
    WritesInRefresh = TRUE
    MaxCommit = 1
    MaxEvents = 3
SPECIFICATION Spec
INVARIANTS NothingOfOursIsLost
CHECK_DEADLOCK FALSE
