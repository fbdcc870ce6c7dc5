SPECIFICATION FairSpec
CONSTANTS
    p1 = p1
    p2 = p2
    None = None
    Processes <- TwoProcesses
    Capacity = 2
    ResetToLatest = TRUE
    LastOffset = 2
    MaxFaults = 2
INVARIANTS
    TypeOK
    LossBounded
    DuplicatesPaid
PROPERTIES
    EveryMessageSettled
