CONSTANTS
    Tasks <- MCTasks
    Once = {once}
    EditTo <- MCKeepsKind
    Budgeted = {}
    recurs = recurs
    once = once
    RunsPerTask = 1
    MaxEdits = 1
    MaxCrashes = 1
    MaxConcurrent = 1
    MaxQueued = 1
SPECIFICATION FairSpec
\* Every run id used and the schedules idle: the bounds stop the model.
CHECK_DEADLOCK FALSE
INVARIANTS
    TicketAgrees
    NoSlotLeaks
PROPERTIES
    TicketsClose
