SPECIFICATION AdmissionSpec
CONSTANTS
    p1 = p1
    p2 = p2
    Processes <- TwoProcesses
    RpmLimit = 1
    SecondsPerMinute = 3
    MinutesPerHour = 3
    LastMinute = 1
    MaxErrors = 1
    DedupTtl = 2
    MaxMessages = 4
SYMMETRY Symmetry
INVARIANTS
    AdmissionTypeOK
    QuotaAccounted
PROPERTIES
    UniqueOncePerTtl
