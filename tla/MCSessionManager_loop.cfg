SPECIFICATION FairSpec
CONSTANTS
    a = a
    g = g
    NoChat = NoChat
    Chats <- TwoChats
    Groups <- OneGroup
    Repertoires <- ConnectionOrChats
    StatusCap = 2
    CommandCap = 2
    MaxClients = 2
    MaxPosts = 1
INVARIANTS
    LastSelectWins
PROPERTIES
    ReadHitsItsChat
    LoopComesBack
    UITellsTruth
    RepairTried
CHECK_DEADLOCK FALSE
