SPECIFICATION FairSpec
CONSTANTS
    c1 = c1
    c2 = c2
    x = x
    y = y
    e = e
    l1 = l1
    l2 = l2
    Away = Away
    NoChat = NoChat
    NoLogin = NoLogin
    About <- Everything
    Clients <- TwoClients
    Chats <- TwoFullOneEmpty
    Empty <- JustE
    Publishers <- OnePublisher
    Buffer = 1
    CommandCap = 1
    Logins <- TwoLogins
    SinkCap = 1
    MaxEvents = 2
    MaxCodes = 2
INVARIANTS
    NothingMissed
    LastScreenWins
    SinkKnowsCode
PROPERTIES
    FeedIsKept
    HandlersEnd
CHECK_DEADLOCK FALSE
