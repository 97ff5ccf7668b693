---------------------------- MODULE MCTranslation ----------------------------
(* Small instances of Translation for TLC. *)
EXTENDS Translation

Words(number, known, lingua, scores) ==
    [kind |-> "words", words |-> number, spanish |-> FALSE, known |-> known,
     lingua |-> lingua, scores |-> scores]
Text(me, text) == [me |-> me, raw |-> text, body |-> text, voice |-> Empty, to |-> AsTyped]

\* Short and Spanish, which lingua takes for Portuguese; a longer sentence that names no
\* known word; English that lingua is not sure of; and English that it is sure of.
Hola == Words(2, {Spanish}, "pt", << <<"pt", 30>>, <<English, 25>>, <<Spanish, 20>> >>)
Trabajo == Words(6, {}, Spanish, << <<Spanish, 54>>, <<English, 5>> >>)
Leaving == Words(3, {}, English, << <<English, 29>>, <<Spanish, 21>> >>)
Tomorrow == Words(9, {}, English, << <<English, 60>>, <<Spanish, 3>> >>)

Voice == [me |-> FALSE, raw |-> Tomorrow, body |-> Empty, voice |-> Trabajo, to |-> AsTyped]

MixedChat == {Text(FALSE, Hola), Text(FALSE, Leaving), Text(TRUE, Trabajo), Voice}

Use(m, o, f, s, r) == [messages |-> m, opens |-> o, forces |-> f, sends |-> s, restarts |-> r]
JustForce == {Use(1, 1, 1, 0, 0)}
JustSend == {Use(6, 0, 0, 1, 0)}
PlainChat == {Text(FALSE, Trabajo), Text(FALSE, Tomorrow)}
ReadForceSend == {Use(2, 1, 1, 0, 0), Use(1, 1, 1, 0, 1), Use(2, 0, 0, 1, 0)}
=============================================================================
