CONSTANTS
    d1 = d1
    d2 = d2
    d3 = d3
    Id = {d1, d2, d3}
    Past = {d1}
    NoId = NoId
    NoQuestion = NoQuestion
    Known = {"merge", "cut"}
    Unset = Unset
    Blank = Blank
    Bad = Bad
    MaxWalkLevels = 3
    TokenFromEnv = FALSE
    DocBudget = 4
    Nameable <- PlainNames
    Policies <- TwoPolicies
    PastPolicies <- WithMerge
    Requests <- LeadRequest
    PastRequests <- LeadRequest
    MaxAtOnce = 1
    MaxEvents = 1
SPECIFICATION DecisionsSpec
SYMMETRY Interchangeable
INVARIANTS WithinDispatcher OneSessionIsBound AuthorityDecisions SecretDecisions InstallDecisions CommandDecisions
CHECK_DEADLOCK FALSE
