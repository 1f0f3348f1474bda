CONSTANTS
    NumItems = 2
    NumRunIds = 2
    Concurrency = 2
    FirstBudget = 3
    Budgets = {}
    MinCall = 2
    MaxCall = 2
    CallCosts = {2}
    StopAfter = 2
    MinPass = 50
    Endings = {"produced", "failed"}
    Verdicts = {"pass", "fail"}
    Controls = {"pause", "resume", "cancel"}
    MaxCrashes = 1
    MaxUnbilled = 2
SPECIFICATION FairSpec
CHECK_DEADLOCK FALSE
INVARIANTS
    ItemsAccounted
    CostCovers
PROPERTIES
    DeliverableKept
    BatchSettles
