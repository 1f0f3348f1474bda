CONSTANTS
    Requests <- MCRequests
    Workspaces <- MCWorkspaces
    Keys <- MCKeys
    WorkspaceOf <- MCWorkspaceOf
    KeyOf <- MCKeyOf
    NoKey = NoKey
    MaxConcurrent = 2
    MaxQueued = 3
    r1 = r1
    r2 = r2
    r3 = r3
    r4 = r4
    r5 = r5
    r6 = r6
    r7 = r7
    wA = wA
    wB = wB
    wC = wC
    k1 = k1
    k2 = k2
    k3 = k3
    k4 = k4
SPECIFICATION FairSpec
\* A stopped pool whose runs have ended does nothing more.
CHECK_DEADLOCK FALSE
INVARIANTS
    WithinLimits
    OneRunPerKey
    SlotsAccounted
    WorkConserving
PROPERTIES
    FairShare
    NoStarvation
