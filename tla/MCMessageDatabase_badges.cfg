SPECIFICATION Spec
CONSTANTS
    c1 = c1
    c2 = c2
    NoEmoji = NoEmoji
    Chats = {c1}
    Loaders = {l1, l2}
    Senders = {}
    Emojis = {}
    Ids <- BadgeIds
    ChatOf <- BadgeChatOf
    SentAt <- BadgeSentAt
    FromMe <- BadgeFromMe
    Statuses <- BadgeStatuses
    Payloads <- OnlyFull
    Counts <- ZeroToTwo
    Times <- ZeroToTwo
    Marks <- OnlyFalse
INVARIANTS
    IndexMatchesLists
    ChatsCoverMessages
    OwnNeverUnread
PROPERTIES
    BadgeStaysExact
    BadgeKeepsCovering
