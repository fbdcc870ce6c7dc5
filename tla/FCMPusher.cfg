SPECIFICATION OrderedSpec
CONSTANTS
    None = None
    m1 = m1
    m2 = m2
    m3 = m3
    h1 = h1
    h2 = h2
    Messages <- ThreeMessages
    Handlers <- TwoHandlers
    ChannelSize = 1
    HandleAllMessagesBeforeExiting = TRUE
INVARIANTS
    TypeOK
    SingleCustody
    PendingExact
    TokensConserved
    ReportedWhenDone
PROPERTIES
    ImplementsDelivery
    EveryMessageAccounted
    ShutdownDrains
