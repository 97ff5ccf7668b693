SPECIFICATION FairSpec
CONSTANTS
    a = a
    g = g
    NoChat = NoChat
    Chats <- TwoChats
    Groups <- OneGroup
    Repertoires <- AloneAtNight
    StatusCap = 2
    CommandCap = 2
    MaxClients = 1
    MaxPosts = 1
PROPERTIES
    UpMeansLoaded
CHECK_DEADLOCK FALSE
