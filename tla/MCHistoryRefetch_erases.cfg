SPECIFICATION Spec
CONSTANTS
    a = a
    b = b
    Chats <- TwoChats
    Asked <- BothAsked
    Phone <- PhoneHas
    Cached <- OneOfEach
    Live <- NothingLive
    Secret <- OneSecret
    At <- SameSecond
    Since = 0
    PageSize = 2
    MaxPages = 3
    SaveEvery = 2
    InitialAnchors = 2
PROPERTIES
    FilesOnlyGrow
CHECK_DEADLOCK FALSE
