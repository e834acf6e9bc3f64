CONSTANTS
    None = None
    x1 = x1
    x2 = x2
    c1 = c1
    Session = {1, 2, 3}
    Instance = {1, 2}
    PR = {1, 2}
    HandleOf <- OwnHandles
    MaxHead <- TwoHeads
    Cli = {}
    Pass = {x1}
    PerRunBound = 1
    MaxStaged = 1
    Repeats = TRUE
    Troubles = {"fault", "late", "visit", "ask"}
    MaxTrouble = 2
SPECIFICATION FairSpec
INVARIANTS OneReviewPerPR CapIsKept HandledWasReviewed
PROPERTIES HeadIsReviewed
CHECK_DEADLOCK FALSE
