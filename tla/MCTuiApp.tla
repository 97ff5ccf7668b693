------------------------------ MODULE MCTuiApp ------------------------------
(* Small instances of TuiApp for TLC. *)
EXTENDS TuiApp, TLC

CONSTANTS a, b, m1, m2, o1, n1, own1

TwoChats == {a, b}
Three == {m1, m2, n1}
JustOld == {o1}
JustOwn == {own1}
\* n1 arrives in b, everything else in a.
FirstOf == [i \in Three \cup JustOld |-> IF i = n1 THEN b ELSE a]

OneAndNone == (a :> <<m1>>) @@ (b :> << >>)
TwoAndOne == (a :> <<m1, m2>>) @@ (b :> <<n1>>)
Use(start, arrives, keyboard, n, k) ==
    [start |-> start, arrives |-> arrives, keyboard |-> keyboard, keys |-> n, others |-> k]

\* Screens and messages that meet; an empty chat.
Meeting == Use(OneAndNone, {n1, o1}, {"select"}, 2, 1)
\* Any key.
Typing == Use(TwoAndOne, {}, Keys, 4, 1)
ScreensAndKeys == {Meeting, Typing}

OneClient == {[Meeting EXCEPT !.others = 0]}
Uploading == {[Typing EXCEPT !.keyboard = {"select", "type", "upload"}]}
Asking == {[Typing EXCEPT !.keyboard = {"tab", "pass", "d"}]}
Deleting == {[Typing EXCEPT !.keyboard = {"select", "tab", "d"}]}
=============================================================================
