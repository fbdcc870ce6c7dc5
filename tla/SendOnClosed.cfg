SPECIFICATION Spec
CONSTANTS
    None = None
    m1 = m1
    m2 = m2
    m3 = m3
    t1 = t1
    t2 = t2
    Messages <- ThreeMessages
    Tables <- TwoTables
    TableOf <- MCTableOf
    ChannelSize = 1
    TokenChannelSize = 1
    BufferSize = 2
    HandleAllMessagesBeforeExiting = TRUE
SYMMETRY Symmetry
INVARIANTS
    BrokerNeverPanics
