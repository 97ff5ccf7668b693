SPECIFICATION FairSpec
CONSTANTS
    c1 = c1
    c2 = c2
    x = x
    y = y
    e = e
    l1 = l1
    l2 = l2
    Away = Away
    NoChat = NoChat
    NoLogin = NoLogin
    About <- JustLogins
    Clients <- TwoClients
    Chats <- TwoFullOneEmpty
    Empty <- JustE
    Publishers <- OnePublisher
    Buffer = 1
    CommandCap = 1
    Logins <- TwoLogins
    SinkCap = 1
    MaxEvents = 2
    MaxCodes = 2
CHECK_DEADLOCK FALSE
PROPERTIES
    LoginIsAnswered
\* To see a handler's late screen take the clients back to the chat before:
\*     About <- JustScreens
\* INVARIANTS
\*     OpenChatShown
