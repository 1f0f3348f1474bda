CONSTANTS
    NumItems = 2
    NumRunIds = 2
    Concurrency = 2
    FirstBudget = 3
    Budgets = {4}
    MinCall = 2
    MaxCall = 2
    CallCosts = {2}
    StopAfter = 2
    MinPass = 50
    Endings = {"produced", "failed", "cancelled"}
    Verdicts = {"pass", "fail"}
    Controls = {"resume", "rerun"}
    MaxCrashes = 0
    MaxUnbilled = 2
SPECIFICATION Spec
CHECK_DEADLOCK FALSE
INVARIANTS
    TypeOK
    ItemsAccounted
    BudgetHolds
PROPERTIES
    DeliverableKept
