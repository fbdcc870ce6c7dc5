SPECIFICATION Spec
CONSTANTS
    None = None
    m1 = m1
    m2 = m2
    m3 = m3
    m4 = m4
    w1 = w1
    w2 = w2
    Messages <- TwoMessages
    Workers <- OneWorker
    Reasons <- TwoReasons
    ChannelSize = 1
    PushQueueSize = 1
    ResponseChannelSize = 1
    MaxRetryAttempts = 2
    HandleAllMessagesBeforeExiting = TRUE
SYMMETRY Symmetry
INVARIANTS
    NeverPanics
