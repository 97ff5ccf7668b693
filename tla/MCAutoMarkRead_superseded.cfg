SPECIFICATION MarkSpec
CONSTANTS
    a = a
    b = b
    NoChat = NoChat
    Chats <- TwoChats
    Arrivals <- OneChat
    MaxTimers = 3
PROPERTIES
    SupersededGivesUp
    \* TimerSparesWish
CHECK_DEADLOCK FALSE
