CONSTANTS
    NumEvents = 1
    Retention = 0
    MaxDay = 1
    MaxTrouble = 2
    NumTools = 1
    MaxAttempts = 2
SPECIFICATION FairSpec
\* Every event delivered and every trouble spent: the bounds stop the model.
CHECK_DEADLOCK FALSE
INVARIANTS
    TypeOK
    InstallEventsKept
    CreatedOnce
    NothingForgotten
PROPERTIES
    NotSentAgain
    DeliveriesSettle
