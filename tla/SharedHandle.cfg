CONSTANTS
    None = None
    x1 = x1
    x2 = x2
    c1 = c1
    Session = {1, 2, 3}
    Instance = {1, 2, 3}
    PR = {1, 2}
    HandleOf <- OneHandle
    MaxHead <- TwoHeads
    Cli = {}
    Pass = {x1}
    PerRunBound = 2
    MaxStaged = 3
    Repeats = TRUE
    Troubles = {}
    MaxTrouble = 0
SPECIFICATION Spec
INVARIANTS OneReviewPerPR
CHECK_DEADLOCK FALSE
