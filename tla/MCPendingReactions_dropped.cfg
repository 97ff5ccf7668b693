SPECIFICATION ReactionSpec
CONSTANTS
    m1 = m1
    m2 = m2
    thumb = thumb
    NoEmoji = NoEmoji
    NotQueued = NotQueued
    Senders = {s1}
    Targets <- OneMessage
    Emojis = {thumb}
    Cached <- OneMessage
    Outgoing <- NoMessage
    Batches <- NoBatches
    Snapshots <- EmptySnapshot
INVARIANTS
    LatestKnown
\* To see a queued reaction left behind by the one who stores what it sent:
\*     Cached <- NoMessage
\*     Outgoing <- OneMessage
\* INVARIANTS
\*     NoneOverlooked
