SPECIFICATION MarkFairSpec
CONSTANTS
    a = a
    b = b
    NoChat = NoChat
    Chats <- TwoChats
    Arrivals <- OneChat
    MaxTimers = 2
INVARIANTS
    PendingTimerRuns
PROPERTIES
    WishStands
    OpenChatGetsRead
CHECK_DEADLOCK FALSE
