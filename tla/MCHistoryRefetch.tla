--------------------------- MODULE MCHistoryRefetch ---------------------------
(* Small instances of HistoryRefetch for TLC. *)
EXTENDS HistoryRefetch, TLC

CONSTANTS a, b

TwoChats == {a, b}
BothAsked == <<a, b>>
\* Messages 2 and 3 were sent in the same second.
SameSecond == <<1, 2, 2, 3>>
PhoneHas == (a :> 1..4) @@ (b :> {})
NothingOrOne == (a :> {{}, {3}}) @@ (b :> {{}})
OneOfEach == (a :> {{4}}) @@ (b :> {{2}})
NewestLive == (a :> {4}) @@ (b :> {})
NothingLive == [c \in TwoChats |-> {}]
OneSecret == (a :> 3) @@ (b :> Blank)
=============================================================================
