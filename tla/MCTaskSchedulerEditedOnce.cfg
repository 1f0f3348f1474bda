CONSTANTS
    Tasks = {recurs}
    Once = {}
    EditTo <- MCChangesKind
    Budgeted = {}
    recurs = recurs
    once = once
    RunsPerTask = 2
    MaxEdits = 1
    MaxCrashes = 1
    MaxConcurrent = 1
    MaxQueued = 1
SPECIFICATION Spec
CHECK_DEADLOCK FALSE
INVARIANTS
    RanMeansFired
