SPECIFICATION ReactionFairSpec
CONSTANTS
    m1 = m1
    m2 = m2
    thumb = thumb
    NoEmoji = NoEmoji
    NotQueued = NotQueued
    Senders = {s1}
    Targets <- TwoMessages
    Emojis = {thumb}
    Cached <- OneMessage
    Outgoing <- SecondMessage
    Batches <- FirstOrNone
    Snapshots <- AnySnapshot
INVARIANTS
    NoneStranded
PROPERTIES
    PendingDrain
