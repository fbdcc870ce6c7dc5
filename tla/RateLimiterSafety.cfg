SPECIFICATION Spec
CONSTANTS
    p1 = p1
    p2 = p2
    Processes <- TwoProcesses
    RpmLimit = 1
    SecondsPerMinute = 2
    MinutesPerHour = 3
    LastMinute = 3
    MaxErrors = 1
INVARIANTS
    TypeOK
    RateBounded
PROPERTIES
    RefusedOverLimit
