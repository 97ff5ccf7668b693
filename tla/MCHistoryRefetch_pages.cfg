SPECIFICATION FairSpec
CONSTANTS
    a = a
    b = b
    Chats <- TwoChats
    Asked <- BothAsked
    Phone <- PhoneHas
    Cached <- NothingOrOne
    Live <- NewestLive
    Secret <- OneSecret
    At <- SameSecond
    Since = 0
    PageSize = 2
    MaxPages = 3
    SaveEvery = 2
    InitialAnchors = 2
INVARIANTS
    TypeOK
    OldestIsReached
    StopsAfterInterrupt
PROPERTIES
    RefetchEnds
CHECK_DEADLOCK FALSE
