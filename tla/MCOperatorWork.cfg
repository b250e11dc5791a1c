SPECIFICATION OperatorSpec
CONSTANTS
    Builds = {b1, b2, b3}
    WorkspaceIds = {w1, w2}
    PlanIds = {p1}
    Intakes <- MCIntakes
    MaxActive = 1
    NoWorkspace = none
    NoPlan = nobody
    NoLink = unlinked
INVARIANTS CompletedIsSound NothingIsHeldOver PlanTellsTruth
CHECK_DEADLOCK FALSE
