--------------------------- MODULE MCAutoMarkRead ---------------------------
(* Small instances of AutoMarkRead for TLC. *)
EXTENDS AutoMarkRead

CONSTANTS a, b

TwoChats == {a, b}
OneChat == {a}
=============================================================================
