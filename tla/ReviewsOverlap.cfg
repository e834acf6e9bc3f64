CONSTANTS
    None = None
    x1 = x1
    x2 = x2
    c1 = c1
    Session = {1, 2, 3}
    Instance = {1, 2}
    PR = {1}
    HandleOf <- OwnHandles
    MaxHead <- TwoHeads
    Cli = {c1}
    Pass = {x1, x2}
    PerRunBound = 1
    MaxStaged = 2
    Repeats = FALSE
    Troubles = {"fault", "crash", "removal", "late", "visit"}
    MaxTrouble = 1
SPECIFICATION Spec
INVARIANTS PromptedOncePerHead
PROPERTIES HaltedIsNotWoken
CHECK_DEADLOCK FALSE
