------------------------- MODULE MCPendingReactions -------------------------
(* Small instances of PendingReactions for TLC. *)
EXTENDS PendingReactions

CONSTANTS m1, m2, thumb

TwoMessages == {m1, m2}
OneMessage == {m1}
SecondMessage == {m2}
NoMessage == {}
FirstOrNone == {{}, {m1}}
NoBatches == {}
AnySnapshot == Reactions
EmptySnapshot == {NoReactions}
=============================================================================
