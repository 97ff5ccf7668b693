------------------------------ MODULE Languages ------------------------------
(***************************************************************************)
(* Which language a text is in: backend/translate/detect.go, and the       *)
(* decision to send in the contact's language from session_manager.go.     *)
(*                                                                         *)
(* A text is what the code looks at in it, a record:                       *)
(*   kind    "empty", "symbols" (no letter), "url", "ack" (a stock reply,  *)
(*           such as ok or gracias) or "words"                             *)
(*   words   how many different words it has                               *)
(*   spanish it has one of the characters that only Spanish has            *)
(*   known   the languages of its words that strongWordSignal lists        *)
(*   lingua  the label that the lingua library gives it, or NoLanguage     *)
(*   scores  lingua's confidences, best first: <<language, hundredths>>    *)
(* A message of a chat has two texts: raw, what Message.Text holds, and    *)
(* body, that without the marker of its medium.  me says that it is an own *)
(* one.  The texts of some of a chat's messages are a function from their  *)
(* numbers, later ones being younger, and so is a reading of texts, which  *)
(* says what each of them was identified as.                               *)
(*                                                                         *)
(* Two loops of the code range over a Go map, which has no order: the one  *)
(* that looks for a known word and the one that looks for the language     *)
(* with the most messages.  Where they decide, the operators here give the *)
(* set of possible answers.                                                *)
(***************************************************************************)
EXTENDS Naturals, Sequences, FiniteSetsExt

CONSTANTS
    English, Spanish, NoLanguage,
    Others,         \* other languages
    Window,         \* messages that the thread's language is read from (30 in the code)
    MinForeign      \* of them that must be foreign (4 in the code)

Foreign == {Spanish} \cup Others
Languages == Foreign \cup {English}

ASSUME LanguagesAssumption ==
    /\ NoLanguage \notin Languages /\ English \notin Foreign
    /\ Window \in Nat \ {0} /\ MinForeign \in Nat \ {0, 1}

Empty == [kind |-> "empty", words |-> 0, spanish |-> FALSE, known |-> {},
          lingua |-> NoLanguage, scores |-> << >>]

\* No listed word is English.
IsText(text) ==
    /\ text.words \in Nat /\ text.spanish \in BOOLEAN
    /\ text.known \subseteq Foreign /\ text.lingua \in Languages \cup {NoLanguage}
    /\ text.scores \in Seq(Languages \X Nat)

\* A model's answer in the language l: a sentence that lingua recognises.
Written(l) == [kind |-> "words", words |-> 9, spanish |-> FALSE, known |-> {},
               lingua |-> l, scores |-> << <<l, 90>> >>]

IsTrivialNoOp(text) == text.kind # "words"

\* The possible values of strongLanguageSignal; none when it finds nothing.
StrongSignals(text) == IF text.spanish THEN {Spanish} ELSE text.known

IdentifyMessageLanguage(text) ==
    IF text.words <= 4 /\ StrongSignals(text) # {}
    THEN StrongSignals(text)
    ELSE {text.lingua}

\* What the texts that are not trivial may be identified as, text by text.
Substantial(texts) == {i \in DOMAIN texts : ~IsTrivialNoOp(texts[i])}
Readings(texts) ==
    LET heard == UNION {IdentifyMessageLanguage(texts[i]) : i \in Substantial(texts)}
    IN {reading \in [Substantial(texts) -> heard] :
            \A i \in Substantial(texts) : reading[i] \in IdentifyMessageLanguage(texts[i])}

-----------------------------------------------------------------------------
(* The language of a thread *)

\* The youngest texts that were identified, no more than the window takes.
Recent(reading) ==
    LET read == {i \in DOMAIN reading : reading[i] # NoLanguage}
    IN [i \in {n \in read : Cardinality({m \in read : m > n}) < Window} |-> reading[i]]

CountOf(l, codes) == Cardinality({i \in DOMAIN codes : codes[i] = l})

Leaders(codes) ==
    {l \in Foreign : /\ CountOf(l, codes) > 0
                     /\ \A k \in Foreign : CountOf(k, codes) <= CountOf(l, codes)}

Confident(l, codes) ==
    /\ CountOf(l, codes) >= MinForeign
    /\ 10 * CountOf(l, codes) >= 4 * Cardinality(DOMAIN codes)

\* The possible answers [lang, confident] of DetectThreadLanguage.
Answers(codes) ==
    IF Leaders(codes) = {}
    THEN {[lang |-> NoLanguage, confident |-> FALSE]}
    ELSE {[lang |-> l, confident |-> Confident(l, codes)] : l \in Leaders(codes)}
DetectThreadLanguage(texts) == UNION {Answers(Recent(reading)) : reading \in Readings(texts)}

\* The texts of the contact, without the markers: detectThreadLanguage reads these.
Bodies(messages) ==
    [i \in {n \in DOMAIN messages : ~messages[n].me /\ messages[n].body.kind # "empty"} |->
        messages[i].body]

ThreadLanguage(messages) == DetectThreadLanguage(Bodies(messages))

-----------------------------------------------------------------------------
(* Whether to translate a message *)

Floor(score) == Max({score, 1})

EnglishScore(scores) ==
    LET english == {n \in DOMAIN scores : scores[n][1] = English}
    IN IF english = {} THEN 0 ELSE scores[Max(english)][2]

\* The best foreign language, with its score.
TopForeign(scores) ==
    LET foreign == {n \in DOMAIN scores : scores[n][1] # English}
    IN IF foreign = {} THEN <<NoLanguage, 0>> ELSE scores[Min(foreign)]

\* The source languages that ClassifyMessage may give; NoLanguage stands for DecisionSkip.
ClassifyMessage(text, thread) ==
    LET english == EnglishScore(text.scores)
        top == TopForeign(text.scores)
    IN CASE IsTrivialNoOp(text) -> {NoLanguage}
         [] StrongSignals(text) # {} -> StrongSignals(text)
         [] /\ top[1] # NoLanguage
            /\ \/ top[2] >= 10 /\ top[2] >= 5 * Floor(english)
               \/ top[1] = thread /\ top[2] >= 20 -> {top[1]}
         [] english >= 3 * Floor(top[2]) -> {NoLanguage}
         [] OTHER -> {IF thread = English THEN NoLanguage ELSE thread}

-----------------------------------------------------------------------------
(* Whether to send in the contact's language *)

\* The texts of the contact as the messages hold them: the decision reads these.
Raws(messages) ==
    [i \in {n \in DOMAIN messages : ~messages[n].me /\ messages[n].raw.kind # "empty"} |->
        messages[i].raw]

ForeignOnes(reading) == {i \in DOMAIN reading : reading[i] \notin {NoLanguage, English}}

\* Mutant: one message is enough.
MostlyForeignFromOne(reading) ==
    LET examined == Cardinality(DOMAIN reading)
    IN examined >= 1 /\ 100 * Cardinality(ForeignOnes(reading)) >= 60 * examined

MostlyForeign(reading) ==
    LET examined == Cardinality(DOMAIN reading)
    IN examined >= 2 /\ 100 * Cardinality(ForeignOnes(reading)) >= 60 * examined

\* The possible answers of decideAutoTranslateOutgoing.
DecideAutoTranslateOutgoing(messages) ==
    LET texts == Raws(messages)
        said == Substantial(texts)
        Rest(thread) == thread.confident /\ (said = {} \/ texts[Max(said)].lingua # English)
    IN {translate \in BOOLEAN :
          \E reading \in Readings(texts), thread \in DetectThreadLanguage(texts) :
             translate = (MostlyForeign(reading) \/ Rest(thread))}
=============================================================================
