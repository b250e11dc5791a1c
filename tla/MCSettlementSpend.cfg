SPECIFICATION SettlementSpec
CONSTANTS
    MaxSettlements = 2
    Callers = {telegram, api}
    MaxReposts = 1
    LoadLimit = 1
    PersistOutcomes = {TRUE}
    MaxCrashes = 2
INVARIANT SpendingIsApproved
CHECK_DEADLOCK FALSE
