------------------------- MODULE MCMessageDatabase -------------------------
(* Small instances of MessageDatabase for TLC. *)
EXTENDS MessageDatabase

CONSTANTS c1, c2

\* Unread bookkeeping: two incoming messages and an own one, with ties between
\* timestamps.
BadgeIds == 1..3
BadgeChatOf == <<c1, c1, c1>>
BadgeSentAt == <<1, 2, 2>>
BadgeFromMe == <<FALSE, TRUE, FALSE>>
BadgeStatuses == {2}
OnlyFull == {Full}

\* Contents: an incoming and an own message in different chats.
ContentIds == 1..2
ContentChatOf == <<c1, c2>>
ContentSentAt == <<2, 1>>
ContentFromMe == <<FALSE, TRUE>>
AllStatuses == 0..4
AllPayloads == {Full, Stub, Revoked}

ZeroAndOne == {0, 1}
ZeroToTwo == 0..2
OnlyZero == {0}
OnlyFalse == {FALSE}
AnyMark == BOOLEAN
=============================================================================
