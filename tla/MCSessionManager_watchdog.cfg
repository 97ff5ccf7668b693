SPECIFICATION FairSpec
CONSTANTS
    a = a
    g = g
    NoChat = NoChat
    Chats <- TwoChats
    Groups <- OneGroup
    Repertoires <- LoginsAndLogouts
    StatusCap = 2
    CommandCap = 2
    MaxClients = 2
    MaxPosts = 1
PROPERTIES
    WatchdogHonoursUser
CHECK_DEADLOCK FALSE
