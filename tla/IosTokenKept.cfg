SPECIFICATION FairSpec
CONSTANTS
    Messages <- PhoneTokens
    Games <- AllGames
    ParsableNames <- WordGames
    PlainNames <- PlainGames
    HomeOf <- HomeOfToken
    Apps <- AppsOf
    Configured <- PatternTopics
    Answers <- TokenAnswers
    ChannelSize = 2
    PushCapacity = 1
    ProduceChannelSize = 1
    InvalidTokenEnabled = TRUE
PROPERTIES
    UnregisteredTokenDeleted
CHECK_DEADLOCK FALSE
