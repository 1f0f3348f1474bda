CONSTANTS
    Tasks = {once}
    Once = {once}
    EditTo <- MCKeepsKind
    Budgeted = {once}
    recurs = recurs
    once = once
    RunsPerTask = 3
    MaxEdits = 1
    MaxCrashes = 2
    MaxConcurrent = 1
    MaxQueued = 1
SPECIFICATION Spec
\* Every run id used and the schedules idle: the bounds stop the model.
CHECK_DEADLOCK FALSE
INVARIANTS
    TypeOK
    OneLinePerRun
    OnceAtMostOnce
    NotRunTwice
    OneRunPerTask
    RanMeansFired
