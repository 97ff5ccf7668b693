SPECIFICATION Spec
CONSTANTS
    a = a
    b = b
    m1 = m1
    m2 = m2
    o1 = o1
    n1 = n1
    own1 = own1
    NoChat = NoChat
    NoMsg = NoMsg
    Chats <- TwoChats
    Live <- Three
    Old <- JustOld
    Own <- JustOwn
    First <- FirstOf
    Uses <- Deleting
    MaxEvents = 1
INVARIANTS
    RevokeOfShownChat
CHECK_DEADLOCK FALSE
