SPECIFICATION FairSpec
CONSTANTS
    Messages <- FiveTokens
    Games <- AllGames
    ParsableNames <- WordGames
    PlainNames <- PlainGames
    HomeOf <- HomeOfToken
    Apps <- AppsOf
    Configured <- PatternTopics
    Answers <- TokenAnswers
    ChannelSize = 2
    PushCapacity = 1
    ProduceChannelSize = 1
    InvalidTokenEnabled = TRUE
INVARIANTS
    TypeOK
    ConfiguredGamesServed
    OnlyInvalidDeleted
PROPERTIES
    EveryMessageRouted
    InvalidTokenDeleted
CHECK_DEADLOCK FALSE
