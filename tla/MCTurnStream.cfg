CONSTANTS
    Turns = {1, 2, 3}
    Viewers = {v1}
    Cap = 3
SPECIFICATION FairSpec
\* All turns are settled in the end.
CHECK_DEADLOCK FALSE
INVARIANTS
    TypeOK
    OneTurnAtATime
    TerminalIsLast
    SeenInOrder
PROPERTIES
    StreamingEnds
