SPECIFICATION FairSpec
CONSTANTS
    Requests = {r1, r2, r3}
    Asks <- SmallAsks
    Collections <- SmallCollections
    PoolSize = 2
    Ill = "ill"
    Dotted <- SmallDotted
    DbMayFail = TRUE
INVARIANTS
    AnswersTruthful
    ListsRight
    LoginSound
PROPERTIES
    HashKept
    EveryRequestEnds
