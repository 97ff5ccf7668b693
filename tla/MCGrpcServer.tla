---------------------------- MODULE MCGrpcServer ----------------------------
(* Small instances of GrpcServer for TLC. *)
EXTENDS GrpcServer

CONSTANTS c1, c2, x, y, e, l1, l2

TwoClients == {c1, c2}
TwoFullOneEmpty == {x, y, e}
JustE == {e}
OnePublisher == {"events"}
TwoLogins == {l1, l2}
Of(s, l, m, n, cs) ==
    [streams |-> s, logins |-> l, lists |-> m, selects |-> n, chats |-> cs]
JustLogins == {Of(FALSE, TRUE, 0, 0, {})}
JustScreens == {Of(TRUE, FALSE, 0, 2, {x, y})}
Everything == JustLogins \cup JustScreens \cup
    {Of(TRUE, FALSE, 2, 0, {}), Of(TRUE, FALSE, 0, 1, {x, e})}
=============================================================================
