SPECIFICATION Spec
CONSTANTS
    None = None
    m1 = m1
    m2 = m2
    m3 = m3
    m4 = m4
    w1 = w1
    w2 = w2
    Messages <- ThreeMessages
    Workers <- TwoWorkers
    Reasons <- ThreeReasons
    ChannelSize = 1
    PushQueueSize = 1
    ResponseChannelSize = 1
    MaxRetryAttempts = 2
    HandleAllMessagesBeforeExiting = TRUE
SYMMETRY Symmetry
INVARIANTS
    TypeOK
    SingleCustody
    PendingExact
    ShutdownOrder
    GracefulExitLosesAtMostOne
    RetriesBounded
    ReportsExact
PROPERTIES
    ImplementsDelivery
