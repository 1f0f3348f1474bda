CONSTANTS
    NumItems = 2
    NumRunIds = 2
    Concurrency = 2
    FirstBudget = 3
    Budgets = {}
    MinCall = 2
    MaxCall = 2
    CallCosts = {2}
    StopAfter = 2
    MinPass = 50
    Endings = {"produced", "failed", "cancelled"}
    Verdicts = {"pass", "fail"}
    Controls = {"pause"}
    MaxCrashes = 0
    MaxUnbilled = 0
SPECIFICATION Spec
CHECK_DEADLOCK FALSE
INVARIANT
    BudgetAlwaysHolds
