--------------------------- MODULE MCContactNames ---------------------------
(* Small instances of ContactNames for TLC. *)
EXTENDS ContactNames

CONSTANTS m1, m2

OneMessage == {m1}
TwoMessages == {m1, m2}
FullNames == {"full"}
AnyNames == {"first", "full"}
=============================================================================
