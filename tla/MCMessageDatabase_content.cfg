SPECIFICATION Spec
CONSTANTS
    c1 = c1
    c2 = c2
    NoEmoji = NoEmoji
    Chats = {c1, c2}
    Loaders = {}
    Senders = {s1}
    Emojis = {e1}
    Ids <- ContentIds
    ChatOf <- ContentChatOf
    SentAt <- ContentSentAt
    FromMe <- ContentFromMe
    Statuses <- AllStatuses
    Payloads <- AllPayloads
    Counts <- ZeroAndOne
    Times <- OnlyZero
    Marks <- AnyMark
PROPERTIES
    StatusNeverFalls
