----------------------------- MODULE Translation -----------------------------
(***************************************************************************)
(* Translating and transcribing the messages of one chat:                  *)
(* backend/messages/session_manager.go, translate.go, transcriber.go, and  *)
(* the translation cache of storage.go.                                    *)
(*                                                                         *)
(* A goroutine translates a message that arrives, one each goes over the   *)
(* messages of a chat that the user opens to translate and to transcribe   *)
(* them, and one translates an own message that went out in the contact's  *)
(* language.  The command loop itself runs the translation that the user   *)
(* forces, and sends.  All of them share the cache of translations and its *)
(* file; a lock guards each access to the cache, none a translation as a   *)
(* whole, and none the file.                                               *)
(*                                                                         *)
(* A translation is known here by the source language that the model was   *)
(* given: for one text and one language it answers always the same.        *)
(***************************************************************************)
EXTENDS Languages

CONSTANTS
    Arrivals,       \* the messages that may arrive, see Message
    Workers,        \* goroutines; the bound on how many run at the same time
    Loop,           \* the command loop
    AsTyped,        \* no target language: the message went out as the user typed it
    Uses,           \* what a run is about: bounds on messages, on what the user does and
                    \* on restarts
    MaxMessages     \* bound on messages, own ones included

Texts == {a.raw : a \in Arrivals} \cup {a.body : a \in Arrivals} \cup {a.voice : a \in Arrivals}
           \cup {Written(l) : l \in Languages} \cup {Empty}
\* A message's raw text is Message.Text, its body what translatableMessageText leaves of
\* it, voice what a transcription of it says.
Message == [me : BOOLEAN, raw : Texts, body : Texts, voice : Texts,
            to : Foreign \cup {NoLanguage, AsTyped}]

ASSUME TranslationAssumption ==
    /\ Arrivals \subseteq Message
    /\ \A a \in Arrivals : a.to = AsTyped /\ IsText(a.raw) /\ IsText(a.body) /\ IsText(a.voice)
    /\ Loop \notin Workers
    /\ AsTyped \notin Languages \cup {NoLanguage}
    /\ MaxMessages \in Nat \ {0}
    /\ Uses \subseteq [messages : Nat, opens : Nat, forces : Nat, sends : Nat, restarts : Nat]

VARIABLES
    chat,           \* the messages of the chat, which its cache keeps over a restart
    ready,          \* the model is loaded
    works,          \* the model and the network answer in this run
    translations,   \* md.translations, NoLanguage for none
    file,           \* the translation cache file
    transcripts,    \* md.transcriptions and their file
    told,           \* the last translation of each message sent to the UI
    jobs,           \* what each goroutine does
    left,           \* what is left of the run's bounds
    forced          \* the last forced translation of each message, and whether no other one
                    \* of it was under way (read by no code)

vars == <<chat, ready, works, translations, file, transcripts, told, jobs, left, forced>>

Ids == 1..MaxMessages
Sources == Foreign \cup {NoLanguage}
NotForced == [lang |-> NoLanguage, alone |-> FALSE]
NoJob == [at |-> "idle", kind |-> "live", msg |-> 1, text |-> Empty, lang |-> NoLanguage,
          next |-> 0, worked |-> FALSE, snap |-> [i \in Ids |-> NoLanguage]]

Job == [at : {"idle", "next", "hear", "check", "infer", "store", "tell", "save", "write",
              "target", "wire"},
        kind : {"live", "echo", "screen", "voices", "force", "send"},
        msg : Ids, text : Texts, lang : Sources \cup {AsTyped}, next : 0..MaxMessages,
        worked : BOOLEAN, snap : [Ids -> Sources]]

TypeOK ==
    /\ chat \in Seq(Message) /\ Len(chat) <= MaxMessages
    /\ ready \in BOOLEAN /\ works \in BOOLEAN
    /\ translations \in [Ids -> Sources] /\ file \in [Ids -> Sources]
    /\ transcripts \subseteq Ids
    /\ told \in [Ids -> Sources]
    /\ jobs \in [Workers \cup {Loop} -> Job]
    /\ left \in [messages : Nat, opens : Nat, forces : Nat, sends : Nat, restarts : Nat]
    /\ forced \in [Ids -> [lang : Sources, alone : BOOLEAN]]

Init ==
    /\ chat = << >> /\ ready = FALSE /\ works \in BOOLEAN
    /\ translations = [i \in Ids |-> NoLanguage] /\ file = translations
    /\ transcripts = {} /\ told = translations
    /\ jobs = [w \in Workers \cup {Loop} |-> NoJob]
    /\ left \in Uses
    /\ forced = [i \in Ids |-> NotForced]

-----------------------------------------------------------------------------
(* Starting work *)

IsVoice(m) == m.voice # Empty
Fresh(kind, i) == [NoJob EXCEPT !.at = "check", !.kind = kind, !.msg = i,
                                !.text = chat'[i].body, !.worked = (kind = "live")]
Idle(w) == jobs[w].at = "idle"
Spend(what) == left[what] > 0 /\ left' = [left EXCEPT ![what] = @ - 1]

\* A message arrives: handleLiveMessage, whose last step starts a goroutine for it.
Receive(a) ==
    /\ Len(chat) < MaxMessages /\ Spend("messages")
    /\ chat' = Append(chat, a)
    /\ LET i == Len(chat)' IN
       \E w \in Workers :
          /\ Idle(w)
          /\ jobs' = CASE IsVoice(a) -> [jobs EXCEPT ![w] = [Fresh("voices", i) EXCEPT !.at = "hear"]]
                       [] ~IsVoice(a) /\ a.body # Empty /\ ready ->
                            [jobs EXCEPT ![w] = Fresh("live", i)]
                       [] OTHER -> jobs
    /\ UNCHANGED <<ready, works, translations, file, transcripts, told, forced>>

\* The user opens the chat: setCurrentReceiver.  The messages are those of now.
Open ==
    /\ Spend("opens") /\ Idle(Loop) /\ chat # << >>
    /\ LET screen(kind) == [NoJob EXCEPT !.at = "next", !.kind = kind, !.next = Len(chat)]
       IN \E thread \in ThreadLanguage(chat), v, w \in Workers :
             /\ v # w /\ Idle(v) /\ Idle(w)
             /\ jobs' = [jobs EXCEPT
                  ![v] = screen("voices"),
                  ![w] = IF ready /\ thread.confident THEN screen("screen") ELSE @]
    /\ UNCHANGED <<chat, ready, works, translations, file, transcripts, told, forced>>

\* The next message of the screen: from the newest to the oldest.
TakeNext(w) ==
    LET job == jobs[w]
        m == chat[job.next]
        text == IF ~IsVoice(m) THEN m.body
                ELSE IF job.next \in transcripts THEN m.voice ELSE Empty
        wanted == text # Empty /\ (translations[job.next] # NoLanguage \/ text.lingua # English)
        Step(at, worked) == [job EXCEPT !.at = at, !.msg = job.next, !.next = @ - 1,
                                        !.text = text, !.worked = worked]
    IN /\ job.at = "next"
       /\ jobs' = [jobs EXCEPT ![w] =
            CASE job.next = 0 /\ job.kind = "screen" /\ job.worked -> [job EXCEPT !.at = "save"]
              [] job.next = 0 /\ ~(job.kind = "screen" /\ job.worked) -> NoJob
              [] job.next > 0 /\ job.kind = "screen" /\ wanted ->
                   Step("check", job.worked \/ translations[job.next] = NoLanguage)
              [] job.next > 0 /\ job.kind = "voices" /\ IsVoice(m) -> Step("hear", FALSE)
              [] OTHER -> Step("next", job.worked)]
       /\ UNCHANGED <<chat, ready, works, translations, file, transcripts, told, left, forced>>

-----------------------------------------------------------------------------
(* Translating *)

\* Where a goroutine goes on after translateIncoming.
After(job) == IF job.kind # "screen" /\ job.worked THEN "save" ELSE "next"
Goes(w, at) == jobs' = [jobs EXCEPT ![w].at = at]

\* StoreTranscription and SaveTranscriptionCache.
StoreTranscription(i) == transcripts' = transcripts \cup {i}

\* transcribeAndTranslate up to the call of translateIncoming.  A transcription that is
\* made is stored and saved, and its translation saved too.
Hear(w) ==
    LET i == jobs[w].msg
        Translating(worked) ==
          jobs' = [jobs EXCEPT ![w].at = "check", ![w].text = chat[i].voice, ![w].worked = worked]
    IN /\ jobs[w].at = "hear"
       /\ \/ i \in transcripts /\ Translating(FALSE) /\ UNCHANGED transcripts
          \/ i \notin transcripts /\ ~works /\ Goes(w, "next") /\ UNCHANGED transcripts
          \/ /\ i \notin transcripts /\ works
             /\ StoreTranscription(i)
             /\ \/ ready /\ Translating(TRUE)
                \/ (~ready \/ chat[i].voice.lingua = English) /\ Goes(w, "next")
       /\ UNCHANGED <<chat, ready, works, translations, file, told, left, forced>>

\* Mutant: every text is given to the model, translated before or not.
CheckUncached(w) ==
    LET job == jobs[w]
    IN /\ job.at = "check"
       /\ \/ (job.text = Empty \/ ~ready) /\ Goes(w, After(job))
          \/ /\ job.text # Empty /\ ready
             /\ \E thread \in ThreadLanguage(chat) :
                \E lang \in ClassifyMessage(job.text, thread.lang) :
                   IF lang = NoLanguage THEN Goes(w, After(job))
                   ELSE jobs' = [jobs EXCEPT ![w].at = "infer", ![w].lang = lang]
       /\ UNCHANGED <<chat, ready, works, translations, file, transcripts, told, left, forced>>

\* translateIncoming up to the call of the model.
Check(w) ==
    LET job == jobs[w]
        known == translations[job.msg]
    IN /\ job.at = "check"
       /\ \/ (job.text = Empty \/ ~ready) /\ Goes(w, After(job))
          \/ /\ job.text # Empty /\ ready /\ known # NoLanguage
             /\ jobs' = [jobs EXCEPT ![w].at = "tell", ![w].lang = known]
          \/ /\ job.text # Empty /\ ready /\ known = NoLanguage
             /\ \E thread \in ThreadLanguage(chat) :
                \E lang \in ClassifyMessage(job.text, thread.lang) :
                   IF lang = NoLanguage THEN Goes(w, After(job))
                   ELSE jobs' = [jobs EXCEPT ![w].at = "infer", ![w].lang = lang]
       /\ UNCHANGED <<chat, ready, works, translations, file, transcripts, told, left, forced>>

\* Mutant: the answer of a model that fails is stored like any other.
InferAnyhow(w) ==
    LET job == jobs[w] IN
    /\ job.at = "infer" /\ job.kind # "send"
    /\ jobs' = [jobs EXCEPT ![w].at = "store", ![w].lang = IF works THEN @ ELSE AsTyped]
    /\ UNCHANGED <<chat, ready, works, translations, file, transcripts, told, left, forced>>

\* The model, one call at a time.  Without an answer nothing is stored.
Infer(w) ==
    LET job == jobs[w] IN
    /\ job.at = "infer" /\ job.kind # "send"
    /\ jobs' = [jobs EXCEPT ![w].at = IF works THEN "store" ELSE After(job)]
    /\ UNCHANGED <<chat, ready, works, translations, file, transcripts, told, left, forced>>

\* The same for a message to be sent, which goes out as typed if there is no answer.
TranslateFromEnglish(w) ==
    /\ jobs[w].at = "infer" /\ jobs[w].kind = "send"
    /\ jobs' = [jobs EXCEPT ![w].at = "wire", ![w].lang = IF works THEN @ ELSE AsTyped]
    /\ UNCHANGED <<chat, ready, works, translations, file, transcripts, told, left, forced>>

UnderWay(i) == \E w \in Workers : jobs[w].msg = i /\ jobs[w].at \in {"infer", "store"}

\* Mutant: a translation that is stored is not sent.
StoreSilently(w) ==
    LET job == jobs[w] IN
    /\ job.at = "store"
    /\ translations' = [translations EXCEPT ![job.msg] = job.lang]
    /\ forced' = IF job.kind # "force" THEN forced
                 ELSE [forced EXCEPT ![job.msg] = [lang |-> job.lang, alone |-> ~UnderWay(job.msg)]]
    /\ Goes(w, IF job.kind = "force" THEN "save" ELSE After(job))
    /\ UNCHANGED <<chat, ready, works, file, transcripts, told, left>>

Store(w) ==
    LET job == jobs[w] IN
    /\ job.at = "store"
    /\ translations' = [translations EXCEPT ![job.msg] = job.lang]
    /\ forced' = IF job.kind # "force" THEN forced
                 ELSE [forced EXCEPT ![job.msg] = [lang |-> job.lang, alone |-> ~UnderWay(job.msg)]]
    /\ Goes(w, IF job.kind = "force" THEN "save" ELSE "tell")
    /\ UNCHANGED <<chat, ready, works, file, transcripts, told, left>>

Tell(w) ==
    /\ jobs[w].at = "tell"
    /\ told' = [told EXCEPT ![jobs[w].msg] = jobs[w].lang]
    /\ Goes(w, After(jobs[w]))
    /\ UNCHANGED <<chat, ready, works, translations, file, transcripts, left, forced>>

\* SaveTranslationCache: a copy under the lock, then the file.
Save(w) ==
    /\ jobs[w].at = "save"
    /\ jobs' = [jobs EXCEPT ![w].at = "write", ![w].snap = translations, ![w].worked = FALSE]
    /\ UNCHANGED <<chat, ready, works, translations, file, transcripts, told, left, forced>>

Write(w) ==
    /\ jobs[w].at = "write"
    /\ file' = jobs[w].snap
    /\ jobs' = [jobs EXCEPT ![w].at = IF jobs[w].kind = "force" THEN "tell" ELSE "next",
                            ![w].snap = NoJob.snap]
    /\ UNCHANGED <<chat, ready, works, translations, transcripts, told, left, forced>>

-----------------------------------------------------------------------------
(* The user *)

\* translateMessageForce: the cached translation goes before the model is asked.
ForceTranslate(i) ==
    /\ Spend("forces") /\ Idle(Loop)
    /\ i <= Len(chat) /\ chat[i].body # Empty /\ ready
    /\ \E thread \in ThreadLanguage(chat) :
         LET label == chat[i].body.lingua
             lang == CASE label \in Foreign -> label
                       [] label \notin Foreign /\ thread.lang # NoLanguage -> thread.lang
                       [] OTHER -> Spanish
         IN jobs' = [jobs EXCEPT ![Loop] = [NoJob EXCEPT
                        !.at = "infer", !.kind = "force", !.msg = i, !.lang = lang]]
    /\ translations' = [translations EXCEPT ![i] = NoLanguage]
    /\ forced' = [forced EXCEPT ![i] = NotForced]
    /\ UNCHANGED <<chat, ready, works, file, transcripts, told>>

\* sendText up to its decision; it looks at the chat again for the target language.
SendText ==
    /\ Spend("sends") /\ Idle(Loop) /\ Len(chat) < MaxMessages
    /\ \E translate \in (IF ready THEN DecideAutoTranslateOutgoing(chat) ELSE {FALSE}) :
         jobs' = [jobs EXCEPT ![Loop] = [NoJob EXCEPT
                     !.at = IF translate THEN "target" ELSE "wire",
                     !.kind = "send", !.lang = AsTyped]]
    /\ UNCHANGED <<chat, ready, works, translations, file, transcripts, told, forced>>

ChooseTarget ==
    /\ jobs[Loop].at = "target"
    /\ \E thread \in ThreadLanguage(chat) :
         jobs' = [jobs EXCEPT ![Loop].at = "infer", ![Loop].lang = thread.lang]
    /\ UNCHANGED <<chat, ready, works, translations, file, transcripts, told, left, forced>>

\* The message goes out; one that was translated is translated back for the user.
Wire ==
    LET to == jobs[Loop].lang
        text == Written(IF to \in Foreign THEN to ELSE English)
    IN /\ jobs[Loop].at = "wire" /\ Len(chat) < MaxMessages
       /\ \/ ~works /\ jobs' = [jobs EXCEPT ![Loop] = NoJob] /\ UNCHANGED chat
          \/ /\ works
             /\ chat' = Append(chat, [me |-> TRUE, raw |-> text, body |-> text,
                                      voice |-> Empty, to |-> to])
             /\ \E w \in Workers :
                  /\ Idle(w)
                  /\ jobs' = [jobs EXCEPT
                       ![Loop] = NoJob,
                       ![w] = IF to = AsTyped THEN @ ELSE Fresh("echo", Len(chat)')]
       /\ UNCHANGED <<ready, works, translations, file, transcripts, told, left, forced>>

-----------------------------------------------------------------------------
(* The process *)

LoadModel ==
    /\ ~ready /\ ready' = TRUE
    /\ UNCHANGED <<chat, works, translations, file, transcripts, told, jobs, left, forced>>

Restart ==
    /\ Spend("restarts")
    /\ translations' = file /\ ready' = FALSE
    /\ jobs' = [w \in Workers \cup {Loop} |-> NoJob]
    /\ forced' = [i \in Ids |-> NotForced]
    /\ UNCHANGED <<chat, works, file, transcripts, told>>

Step(w) ==
    \/ TakeNext(w) \/ Hear(w) \/ Check(w) \/ Infer(w) \/ TranslateFromEnglish(w)
    \/ Store(w) \/ Tell(w) \/ Save(w) \/ Write(w)

Next ==
    \/ \E a \in Arrivals : Receive(a)
    \/ Open
    \/ \E i \in Ids : ForceTranslate(i)
    \/ SendText \/ ChooseTarget \/ Wire
    \/ LoadModel \/ Restart
    \/ \E w \in Workers \cup {Loop} : Step(w)

Spec == Init /\ [][Next]_vars

\* Goroutines run; the loop goes on with what it does.
FairSpec == Spec /\ \A w \in Workers \cup {Loop} : WF_vars(Step(w))

-----------------------------------------------------------------------------
(* Properties *)

\* The user has the final word: once a forced translation is in the cache, with no other
\* one of the message under way, no goroutine of this run of the process replaces or
\* loses it.  translateMessageForce empties the cache entry, so a goroutine that looks in
\* between translates the message again; what keeps it away is the check of the others.
ForcedKept ==
    \A i \in Ids : forced[i].alone => translations[i] = forced[i].lang

\* The same without the condition.
ForcedStands ==
    \A i \in Ids : forced[i].lang # NoLanguage => translations[i] = forced[i].lang

\* A message goes out translated only into a language that the contact wrote in, and not
\* on the word of one message, at least two were foreign, whatever arrived between the
\* decision, which reads the messages as they are, and the look at the thread, which reads
\* them without the markers of their media.
TargetHasGrounds ==
    \A i \in DOMAIN chat :
        LET theirs == {k \in 1..(i - 1) : ~chat[k].me}
        IN /\ chat[i].to \in Foreign =>
                \E k \in theirs : chat[i].to \in IdentifyMessageLanguage(chat[k].body)
           /\ chat[i].to # AsTyped =>
                Cardinality({k \in theirs :
                               IdentifyMessageLanguage(chat[k].raw) \cap Foreign # {}}) >= 2

\* A message that goes out translated has a target language.
TargetIsNamed == \A i \in DOMAIN chat : chat[i].to # NoLanguage

\* A message with a word that only a foreign language has is translated on the screen,
\* if it arrives when the model is loaded, the model works and no restart comes between.
ForeignIsTold ==
    \A i \in Ids :
        (/\ works /\ i \in DOMAIN chat
         /\ \E w \in Workers : jobs[w].at = "check" /\ jobs[w].kind = "live" /\ jobs[w].msg = i
         /\ ~IsTrivialNoOp(chat[i].body) /\ StrongSignals(chat[i].body) # {})
        ~> (told[i] # NoLanguage \/ ~ready)
=============================================================================
