-------------------------- MODULE TranslationProofs --------------------------
(***************************************************************************)
(* Theorems about Translation, for every set of texts and goroutines, and  *)
(* every window and number of foreign messages that the thread's language  *)
(* is read from: the type, that a translation that the user forced stays,  *)
(* once it is in the cache and no other one of the message is under way,   *)
(* and that a message goes out translated only on grounds that the chat    *)
(* has.                                                                    *)
(*                                                                         *)
(* ForcedKept is not inductive: a goroutine that is about to store, or     *)
(* about to ask the model because it finds nothing in the cache, would     *)
(* break it.  ForcedInv says that there is none, and that a forced         *)
(* translation fills the entry that keeps the others away.  It needs to    *)
(* know which jobs the loop and the goroutines can have (JobsInv), and     *)
(* nothing of what the languages of the texts are.                         *)
(*                                                                         *)
(* The other two need what the operators of Languages give.  TargetHas-    *)
(* Grounds speaks of messages that are in the chat; GroundsInv says the    *)
(* same of the one that the loop is about to send, from the decision to    *)
(* the wire, while the chat grows.  TypeInv is the type with the jobs'     *)
(* references into the chat.                                               *)
(***************************************************************************)
EXTENDS Translation, FiniteSetTheorems, TLAPS

All == Workers \cup {Loop}
Fields == {"at", "kind", "msg", "text", "lang", "next", "worked", "snap"}

\* A job is a record with these fields; of their values only the copy of the cache matters.
IsJob(job) == job = [f \in Fields |-> job[f]] /\ DOMAIN job.snap = Ids

\* The loop forces translations and sends; what it sends never comes to "store".
LoopJob(job) ==
    \/ job.at = "idle" /\ job.kind = "live"
    \/ /\ job.kind = "force" /\ job.at \in {"infer", "store", "save", "write", "tell", "next"}
       /\ job.lang # NoLanguage
    \/ job.kind = "send" /\ job.at \in {"target", "infer", "wire"}
WorkerJob(job) == job.kind \in {"live", "echo", "screen", "voices"}

JobsInv ==
    /\ jobs = [w \in All |-> jobs[w]]
    /\ \A w \in All : IsJob(jobs[w])
    /\ LoopJob(jobs[Loop])
    /\ \A w \in Workers : WorkerJob(jobs[w])

MapsInv == DOMAIN translations = Ids /\ DOMAIN forced = Ids /\ DOMAIN file = Ids

\* A job comes under way only for a message with nothing in the cache.
Busy(job) == job.at \in {"infer", "store"}
Calm(job, new) ==
    Busy(new) => \/ Busy(job) /\ new.msg = job.msg
                 \/ translations[new.msg] = NoLanguage
AllCalm == \A v \in Workers : Calm(jobs[v], jobs'[v])

ForcedInv ==
    \A i \in Ids : forced[i].alone =>
        /\ translations[i] = forced[i].lang /\ translations[i] # NoLanguage
        /\ ~UnderWay(i)

LEMMA NoJobIsOne == IsJob(NoJob) /\ LoopJob(NoJob) /\ WorkerJob(NoJob) /\ ~Busy(NoJob)
BY DEF IsJob, NoJob, Fields, LoopJob, WorkerJob, Busy

\* A job of one of them changes.
LEMMA JobChange ==
    ASSUME JobsInv, NEW w \in All, NEW job, IsJob(job), jobs' = [jobs EXCEPT ![w] = job],
           w = Loop => LoopJob(job), w \in Workers => WorkerJob(job) /\ Calm(jobs[w], job)
    PROVE  JobsInv' /\ AllCalm
<1>1. jobs' = [v \in All |-> IF v = w THEN job ELSE jobs[v]]
  BY DEF JobsInv
<1>2. Loop \notin Workers
  BY TranslationAssumption
<1>3. AllCalm
  BY <1>1 DEF AllCalm, Calm, Busy, All
<1> QED
  BY <1>1, <1>2, <1>3 DEF JobsInv, All

LEMMA InitJobs == Init => JobsInv
BY NoJobIsOne DEF Init, JobsInv, All

\* The place of a job changes, or some of its fields do.
LEMMA FieldChange ==
    ASSUME NEW job, IsJob(job), NEW p
    PROVE  /\ IsJob([job EXCEPT !.at = p]) /\ [job EXCEPT !.at = p].at = p
           /\ [job EXCEPT !.at = p].kind = job.kind /\ [job EXCEPT !.at = p].lang = job.lang
           /\ [job EXCEPT !.at = p].msg = job.msg
BY DEF IsJob, Fields

LEMMA GoesJob == ASSUME JobsInv, NEW w \in All, NEW p, Goes(w, p)
                 PROVE jobs' = [jobs EXCEPT ![w] = [jobs[w] EXCEPT !.at = p]]
BY DEF Goes, JobsInv

LEMMA GoesJobs ==
    ASSUME JobsInv, NEW w \in All, NEW p, Goes(w, p),
           w = Loop => jobs[w].kind = "force" /\ p \in {"store", "save", "write", "tell", "next"},
           p \in {"infer", "store"} => Busy(jobs[w])
    PROVE  JobsInv' /\ AllCalm
<1> DEFINE job == [jobs[w] EXCEPT !.at = p]
<1>1. IsJob(jobs[w]) /\ (w = Loop => LoopJob(jobs[w])) /\ (w \in Workers => WorkerJob(jobs[w]))
  BY DEF JobsInv
<1>2. /\ IsJob(job) /\ job.at = p /\ job.kind = jobs[w].kind /\ job.lang = jobs[w].lang
      /\ job.msg = jobs[w].msg /\ jobs' = [jobs EXCEPT ![w] = job]
  BY <1>1, FieldChange, GoesJob
<1> HIDE DEF job
<1>3. w = Loop => LoopJob(job)
  BY <1>1, <1>2 DEF LoopJob
<1>4. w \in Workers => WorkerJob(job) /\ Calm(jobs[w], job)
  BY <1>1, <1>2 DEF WorkerJob, Calm, Busy
<1> QED
  BY <1>2, <1>3, <1>4, JobChange

LEMMA AfterPlaces == ASSUME NEW job PROVE After(job) \in {"save", "next"}
BY DEF After

LEMMA TakeNextJobs == ASSUME JobsInv, NEW w \in All, TakeNext(w) PROVE JobsInv' /\ AllCalm
<1>1. IsJob(jobs[w]) /\ jobs[w].at = "next"
  BY DEF JobsInv, TakeNext
<1>2. PICK job : /\ jobs' = [jobs EXCEPT ![w] = job]
                 /\ IsJob(job)
                 /\ \/ job = NoJob
                    \/ job.kind = jobs[w].kind /\ job.lang = jobs[w].lang
                       /\ (job.at = "next" \/ jobs[w].kind \in {"screen", "voices"})
                 /\ ~Busy(job)
  <2> DEFINE m == chat[jobs[w].next]
             text == IF ~IsVoice(m) THEN m.body
                     ELSE IF jobs[w].next \in transcripts THEN m.voice ELSE Empty
             wanted == text # Empty /\ (translations[jobs[w].next] # NoLanguage \/ text.lingua # English)
             Goal(job) == /\ IsJob(job)
                          /\ \/ job = NoJob
                             \/ job.kind = jobs[w].kind /\ job.lang = jobs[w].lang
                                /\ (job.at = "next" \/ jobs[w].kind \in {"screen", "voices"})
                          /\ ~Busy(job)
             To(at, worked) == [jobs[w] EXCEPT !.at = at, !.msg = jobs[w].next, !.next = @ - 1,
                                               !.text = text, !.worked = worked]
             New == CASE jobs[w].next = 0 /\ jobs[w].kind = "screen" /\ jobs[w].worked ->
                           [jobs[w] EXCEPT !.at = "save"]
                      [] jobs[w].next = 0 /\ ~(jobs[w].kind = "screen" /\ jobs[w].worked) -> NoJob
                      [] jobs[w].next > 0 /\ jobs[w].kind = "screen" /\ wanted ->
                           To("check", jobs[w].worked \/ translations[jobs[w].next] = NoLanguage)
                      [] jobs[w].next > 0 /\ jobs[w].kind = "voices" /\ IsVoice(m) -> To("hear", FALSE)
                      [] OTHER -> To("next", jobs[w].worked)
  <2>1. jobs' = [jobs EXCEPT ![w] = New]
    BY DEF TakeNext
  <2>2. Goal(NoJob)
    BY NoJobIsOne
  <2>3. Goal([jobs[w] EXCEPT !.at = "save"]) \/ jobs[w].kind # "screen"
    BY <1>1, FieldChange DEF Busy
  <2>4. ASSUME NEW at \in {"next", "check", "hear"}, NEW worked,
               at = "next" \/ jobs[w].kind \in {"screen", "voices"}
        PROVE  Goal(To(at, worked))
    BY <1>1, <2>4 DEF IsJob, Fields, Busy
  <2>5. Goal(New)
    <3> HIDE DEF Goal, To
    <3> QED
      BY <2>2, <2>3, <2>4
  <2> QED
    BY <2>1, <2>5
<1>3. w = Loop => LoopJob(job)
  BY <1>1, <1>2, NoJobIsOne DEF LoopJob, JobsInv
<1>4. w \in Workers => WorkerJob(job) /\ Calm(jobs[w], job)
  BY <1>1, <1>2, NoJobIsOne DEF WorkerJob, JobsInv, Calm
<1> QED
  BY <1>2, <1>3, <1>4, JobChange

\* Every other step of a job keeps its kind, and its language unless it checks.
LEMMA StepJobs ==
    ASSUME JobsInv, MapsInv, NEW w \in All, Step(w)
    PROVE  JobsInv' /\ AllCalm
<1>1. IsJob(jobs[w]) /\ (w = Loop => LoopJob(jobs[w])) /\ (w \in Workers => WorkerJob(jobs[w]))
  BY DEF JobsInv
<1>2. CASE TakeNext(w)
  BY <1>2, TakeNextJobs
<1>3. CASE Hear(w)
  <2>1. w # Loop
    BY <1>1, <1>3 DEF Hear, LoopJob
  <2>2. \/ \E worked : jobs' = [jobs EXCEPT ![w].at = "check", ![w].text = chat[jobs[w].msg].voice, ![w].worked = worked]
        \/ Goes(w, "next")
    BY <1>3 DEF Hear
  <2>3. ASSUME NEW worked,
               jobs' = [jobs EXCEPT ![w].at = "check", ![w].text = chat[jobs[w].msg].voice, ![w].worked = worked]
        PROVE  JobsInv' /\ AllCalm
    <3> DEFINE job == [jobs[w] EXCEPT !.at = "check", !.text = chat[jobs[w].msg].voice, !.worked = worked]
    <3>1. jobs' = [jobs EXCEPT ![w] = job]
      BY <2>3 DEF JobsInv
    <3>2. IsJob(job) /\ job.kind = jobs[w].kind /\ ~Busy(job)
      BY <1>1 DEF IsJob, Fields, Busy
    <3> HIDE DEF job
    <3> QED
      BY <1>1, <2>1, <3>1, <3>2, JobChange DEF WorkerJob, All, Calm
  <2>4. CASE Goes(w, "next")
    BY <2>1, <2>4, GoesJobs
  <2> QED
    BY <2>2, <2>3, <2>4
<1>4. CASE Check(w)
  <2>1. w # Loop
    BY <1>1, <1>4 DEF Check, LoopJob
  <2>2. \/ Goes(w, After(jobs[w]))
        \/ \E p, lang : /\ jobs' = [jobs EXCEPT ![w].at = p, ![w].lang = lang]
                        /\ p = "tell" \/ translations[jobs[w].msg] = NoLanguage
    BY <1>4 DEF Check
  <2>3. ASSUME NEW p, NEW lang, jobs' = [jobs EXCEPT ![w].at = p, ![w].lang = lang],
               p = "tell" \/ translations[jobs[w].msg] = NoLanguage
        PROVE  JobsInv' /\ AllCalm
    <3> DEFINE job == [jobs[w] EXCEPT !.at = p, !.lang = lang]
    <3>1. jobs' = [jobs EXCEPT ![w] = job]
      BY <2>3 DEF JobsInv
    <3>2. IsJob(job) /\ job.kind = jobs[w].kind /\ job.at = p /\ job.msg = jobs[w].msg
      BY <1>1 DEF IsJob, Fields
    <3>3. Calm(jobs[w], job)
      BY <2>3, <3>2 DEF Calm, Busy
    <3> HIDE DEF job
    <3> QED
      BY <1>1, <2>1, <3>1, <3>2, <3>3, JobChange DEF WorkerJob, All
  <2>4. CASE Goes(w, After(jobs[w]))
    BY <2>1, <2>4, GoesJobs, AfterPlaces
  <2> QED
    BY <2>2, <2>3, <2>4
<1>5. CASE Infer(w)
  <2>1. jobs' = [jobs EXCEPT ![w] = [jobs[w] EXCEPT !.at = IF works THEN "store" ELSE After(jobs[w])]]
    BY <1>5 DEF Infer, JobsInv
  <2>2. Goes(w, IF works THEN "store" ELSE After(jobs[w]))
    BY <1>5 DEF Infer, Goes
  <2>3. (IF works THEN "store" ELSE After(jobs[w])) \in {"store", "save", "next"}
    BY AfterPlaces
  <2>4. w = Loop => jobs[w].kind = "force"
    BY <1>1, <1>5 DEF Infer, LoopJob
  <2>5. Busy(jobs[w])
    BY <1>5 DEF Infer, Busy
  <2> QED
    BY GoesJobs, <2>2, <2>3, <2>4, <2>5
<1>6. CASE TranslateFromEnglish(w)
  <2>1. w = Loop
    BY <1>1, <1>6 DEF TranslateFromEnglish, WorkerJob, All
  <2> DEFINE job == [jobs[w] EXCEPT !.at = "wire", !.lang = IF works THEN @ ELSE AsTyped]
  <2>2. jobs' = [jobs EXCEPT ![w] = job]
    BY <1>6 DEF TranslateFromEnglish, JobsInv
  <2>3. IsJob(job) /\ job.kind = "send" /\ job.at = "wire"
    BY <1>1, <1>6 DEF IsJob, Fields, TranslateFromEnglish
  <2> QED
    BY <2>1, <2>2, <2>3, JobChange, TranslationAssumption DEF LoopJob
<1>7. CASE Store(w)
  <2>1. Goes(w, IF jobs[w].kind = "force" THEN "save" ELSE "tell")
    BY <1>7 DEF Store
  <2>2. w = Loop => jobs[w].kind = "force"
    BY <1>1, <1>7 DEF Store, LoopJob
  <2> QED
    BY GoesJobs, <2>1, <2>2
<1>8. CASE Tell(w)
  <2>1. Goes(w, After(jobs[w])) /\ (w = Loop => jobs[w].kind = "force")
    BY <1>1, <1>8 DEF Tell, LoopJob
  <2> QED
    BY GoesJobs, <2>1, AfterPlaces
<1>9. CASE Save(w)
  <2> DEFINE job == [jobs[w] EXCEPT !.at = "write", !.snap = translations, !.worked = FALSE]
  <2>1. jobs' = [jobs EXCEPT ![w] = job]
    BY <1>9 DEF Save, JobsInv
  <2>2. IsJob(job) /\ job.kind = jobs[w].kind /\ job.at = "write" /\ job.lang = jobs[w].lang
    BY <1>1 DEF IsJob, Fields, MapsInv
  <2>3. w = Loop => jobs[w].kind = "force" /\ jobs[w].lang # NoLanguage
    BY <1>1, <1>9 DEF Save, LoopJob
  <2> QED
    BY <1>1, <2>1, <2>2, <2>3, JobChange DEF LoopJob, WorkerJob, Calm, Busy
<1>10. CASE Write(w)
  <2> DEFINE p == IF jobs[w].kind = "force" THEN "tell" ELSE "next"
             job == [jobs[w] EXCEPT !.at = p, !.snap = NoJob.snap]
  <2>1. jobs' = [jobs EXCEPT ![w] = job]
    BY <1>10 DEF Write, JobsInv
  <2>2. IsJob(job) /\ job.kind = jobs[w].kind /\ job.at \in {"tell", "next"} /\ job.lang = jobs[w].lang
    BY <1>1 DEF IsJob, Fields, NoJob
  <2>3. w = Loop => jobs[w].kind = "force" /\ jobs[w].lang # NoLanguage
    BY <1>1, <1>10 DEF Write, LoopJob
  <2> QED
    BY <1>1, <2>1, <2>2, <2>3, JobChange DEF LoopJob, WorkerJob, Calm, Busy
<1> QED
  BY <1>2, <1>3, <1>4, <1>5, <1>6, <1>7, <1>8, <1>9, <1>10 DEF Step

\* A job that starts with a message is a worker's.
LEMMA FreshJob ==
    ASSUME NEW i, NEW kind \in {"live", "echo", "voices"}
    PROVE  /\ IsJob(Fresh(kind, i)) /\ WorkerJob(Fresh(kind, i)) /\ ~Busy(Fresh(kind, i))
           /\ LET job == [Fresh(kind, i) EXCEPT !.at = "hear"]
              IN IsJob(job) /\ WorkerJob(job) /\ ~Busy(job)
BY DEF Fresh, NoJob, IsJob, Fields, WorkerJob, Busy

\* The same jobs.
LEMMA SameJobs == ASSUME JobsInv, UNCHANGED jobs PROVE JobsInv' /\ AllCalm
BY DEF JobsInv, AllCalm, Calm, Busy

\* What arrives, and what the user does.
LEMMA EventJobs ==
    ASSUME JobsInv, \/ \E a \in Arrivals : Receive(a)
                    \/ Open
                    \/ \E i \in Ids : ForceTranslate(i)
                    \/ SendText \/ ChooseTarget \/ Wire
    PROVE  JobsInv' /\ AllCalm
<1>1. Loop \notin Workers /\ Loop \in All /\ Workers \subseteq All
  BY TranslationAssumption DEF All
<1>2. ASSUME NEW a \in Arrivals, Receive(a) PROVE JobsInv' /\ AllCalm
  <2> DEFINE i == Len(chat)'
  <2>1. PICK w \in Workers :
           \/ jobs' = [jobs EXCEPT ![w] = [Fresh("voices", i) EXCEPT !.at = "hear"]]
           \/ jobs' = [jobs EXCEPT ![w] = Fresh("live", i)]
           \/ jobs' = jobs
    BY <1>2 DEF Receive
  <2> HIDE DEF i
  <2> QED
    BY <1>1, <2>1, FreshJob, JobChange, SameJobs DEF Calm
<1>3. CASE Open
  <2> DEFINE screen(kind) == [NoJob EXCEPT !.at = "next", !.kind = kind, !.next = Len(chat)]
  <2>1. PICK v \in Workers, w \in Workers :
           \/ jobs' = [jobs EXCEPT ![v] = screen("voices"), ![w] = screen("screen")]
           \/ jobs' = [jobs EXCEPT ![v] = screen("voices"), ![w] = @]
    BY <1>3 DEF Open
  <2>2. \A kind \in {"voices", "screen"} :
           IsJob(screen(kind)) /\ WorkerJob(screen(kind)) /\ ~Busy(screen(kind))
    BY DEF NoJob, IsJob, Fields, WorkerJob, Busy
  <2> HIDE DEF screen
  <2>3. /\ jobs' = [u \in All |-> jobs'[u]]
        /\ \A u \in All : jobs'[u] = jobs[u] \/ (u \in Workers /\ \E kind \in {"voices", "screen"} : jobs'[u] = screen(kind))
    BY <1>1, <2>1 DEF JobsInv
  <2> QED
    BY <1>1, <2>2, <2>3 DEF JobsInv, AllCalm, Calm, Busy
<1>4. ASSUME NEW i \in Ids, ForceTranslate(i) PROVE JobsInv' /\ AllCalm
  <2>1. PICK lang : /\ lang # NoLanguage
                    /\ jobs' = [jobs EXCEPT ![Loop] = [NoJob EXCEPT
                            !.at = "infer", !.kind = "force", !.msg = i, !.lang = lang]]
    <3>1. NoLanguage \notin Foreign /\ Spanish # NoLanguage
      BY LanguagesAssumption DEF Languages, Foreign
    <3> DEFINE label == chat[i].body.lingua
               Choice(thread) == CASE label \in Foreign -> label
                                   [] label \notin Foreign /\ thread.lang # NoLanguage -> thread.lang
                                   [] OTHER -> Spanish
    <3>2. PICK thread : jobs' = [jobs EXCEPT ![Loop] = [NoJob EXCEPT
                            !.at = "infer", !.kind = "force", !.msg = i, !.lang = Choice(thread)]]
      <4> HIDE DEF NoJob
      <4> QED
        BY <1>4 DEF ForceTranslate
    <3>3. Choice(thread) # NoLanguage
      BY <3>1
    <3> HIDE DEF Choice
    <3> QED
      BY <3>2, <3>3
  <2> DEFINE job == [NoJob EXCEPT !.at = "infer", !.kind = "force", !.msg = i, !.lang = lang]
  <2>2. IsJob(job) /\ LoopJob(job)
    BY <2>1 DEF NoJob, IsJob, Fields, LoopJob
  <2> HIDE DEF job
  <2> QED
    BY <1>1, <2>1, <2>2, JobChange DEF job
<1>5. CASE SendText
  <2> DEFINE job(translate) == [NoJob EXCEPT !.at = IF translate THEN "target" ELSE "wire",
                                             !.kind = "send", !.lang = AsTyped]
  <2>1. PICK translate : jobs' = [jobs EXCEPT ![Loop] = job(translate)]
    BY <1>5 DEF SendText
  <2>2. IsJob(job(translate)) /\ LoopJob(job(translate))
    BY DEF NoJob, IsJob, Fields, LoopJob
  <2> HIDE DEF job
  <2> QED
    BY <1>1, <2>1, <2>2, JobChange
<1>6. CASE ChooseTarget
  <2> DEFINE job(lang) == [jobs[Loop] EXCEPT !.at = "infer", !.lang = lang]
  <2>1. PICK lang : jobs' = [jobs EXCEPT ![Loop] = job(lang)]
    BY <1>6 DEF ChooseTarget, JobsInv
  <2>2. IsJob(jobs[Loop]) /\ jobs[Loop].kind = "send"
    BY <1>1, <1>6 DEF ChooseTarget, JobsInv, LoopJob
  <2>3. IsJob(job(lang)) /\ LoopJob(job(lang))
    BY <2>2 DEF IsJob, Fields, LoopJob
  <2> HIDE DEF job
  <2> QED
    BY <1>1, <2>1, <2>3, JobChange
<1>7. CASE Wire
  <2>1. CASE jobs' = [jobs EXCEPT ![Loop] = NoJob]
    BY <1>1, <2>1, NoJobIsOne, JobChange
  <2>2. CASE jobs' # [jobs EXCEPT ![Loop] = NoJob]
    <3> DEFINE i == Len(chat)'
    <3>1. PICK w \in Workers :
             \/ jobs' = [jobs EXCEPT ![Loop] = NoJob, ![w] = @]
             \/ jobs' = [jobs EXCEPT ![Loop] = NoJob, ![w] = Fresh("echo", i)]
      BY <1>7, <2>2 DEF Wire
    <3> HIDE DEF i
    <3>2. /\ jobs' = [u \in All |-> jobs'[u]]
          /\ jobs'[Loop] = NoJob
          /\ \A u \in Workers : jobs'[u] = jobs[u] \/ jobs'[u] = Fresh("echo", i)
      BY <1>1, <3>1 DEF JobsInv
    <3> HIDE DEF Fresh
    <3> QED
      BY <1>1, <3>2, FreshJob, NoJobIsOne DEF JobsInv, AllCalm, Calm, Busy, All
  <2> QED
    BY <2>1, <2>2
<1> QED
  BY <1>2, <1>3, <1>4, <1>5, <1>6, <1>7

LEMMA NextJobs == JobsInv /\ MapsInv /\ [Next]_vars => JobsInv'
<1>1. CASE LoadModel \/ UNCHANGED vars
  BY <1>1, SameJobs DEF LoadModel, vars
<1>2. CASE Restart
  BY <1>2, NoJobIsOne DEF Restart, JobsInv, All
<1> QED
  BY <1>1, <1>2, EventJobs, StepJobs DEF Next, All

-----------------------------------------------------------------------------
(* The caches keep their entries *)

LEMMA NextMaps ==
    ASSUME JobsInv, MapsInv, [Next]_vars
    PROVE  MapsInv'
<1>1. \A w \in All : DOMAIN jobs[w].snap = Ids
  BY DEF JobsInv, IsJob
<1>2. ASSUME NEW w \in All, Step(w) PROVE MapsInv'
  <2>1. \/ UNCHANGED <<translations, forced, file>>
        \/ Store(w) \/ Write(w)
    BY <1>2 DEF Step, TakeNext, Hear, Check, Infer, TranslateFromEnglish, Tell, Save
  <2>2. CASE Store(w)
    BY <2>2 DEF Store, MapsInv
  <2>3. CASE Write(w)
    BY <1>1, <2>3 DEF Write, MapsInv
  <2> QED
    BY <2>1, <2>2, <2>3 DEF MapsInv
<1>3. CASE \/ (\E a \in Arrivals : Receive(a)) \/ Open \/ SendText \/ ChooseTarget \/ Wire
           \/ LoadModel \/ UNCHANGED vars
  BY <1>3 DEF Receive, Open, SendText, ChooseTarget, Wire, LoadModel, vars, MapsInv
<1>4. CASE (\E i \in Ids : ForceTranslate(i)) \/ Restart
  BY <1>4 DEF ForceTranslate, Restart, MapsInv
<1> QED
  BY <1>2, <1>3, <1>4 DEF Next, All

-----------------------------------------------------------------------------
(* The forced translation *)

\* A step keeps ForcedInv if the jobs are calm and the entries of those forced stay.
LEMMA KeptByCalm ==
    ASSUME ForcedInv, AllCalm,
           \A i \in Ids : forced'[i].alone =>
               forced[i].alone /\ forced'[i] = forced[i] /\ translations'[i] = translations[i]
    PROVE  ForcedInv'
<1> SUFFICES ASSUME NEW i \in Ids, forced'[i].alone
             PROVE  /\ translations'[i] = forced'[i].lang /\ translations'[i] # NoLanguage
                    /\ ~UnderWay(i)'
  BY DEF ForcedInv
<1>1. /\ translations[i] = forced[i].lang /\ translations[i] # NoLanguage /\ ~UnderWay(i)
      /\ forced'[i] = forced[i] /\ translations'[i] = translations[i]
  BY DEF ForcedInv
<1>2. ASSUME NEW v \in Workers, jobs'[v].msg = i, jobs'[v].at \in {"infer", "store"}
      PROVE  FALSE
  BY <1>1, <1>2 DEF AllCalm, Calm, Busy, UnderWay
<1> QED
  BY <1>1, <1>2 DEF UnderWay

\* Only a goroutine that was under way stores, and the loop says whether there is one.
LEMMA StoreForced ==
    ASSUME JobsInv, MapsInv, ForcedInv, AllCalm, NEW w \in All, Store(w)
    PROVE  ForcedInv'
<1> DEFINE k == jobs[w].msg
<1>1. /\ translations' = [translations EXCEPT ![k] = jobs[w].lang]
      /\ jobs[w].at = "store"
  BY DEF Store
<1>2. CASE w \in Workers
  <2>1. forced' = forced
    BY <1>2 DEF Store, JobsInv, WorkerJob
  <2>2. UnderWay(k)
    BY <1>1, <1>2 DEF UnderWay
  <2>3. \A i \in Ids : forced[i].alone => i # k
    BY <2>2 DEF ForcedInv
  <2> QED
    BY <1>1, <2>1, <2>3, KeptByCalm DEF MapsInv
<1>3. CASE w = Loop
  <2>1. jobs[w].kind = "force" /\ jobs[w].lang # NoLanguage
    BY <1>1, <1>3 DEF JobsInv, LoopJob
  <2>2. forced' = [forced EXCEPT ![k] = [lang |-> jobs[w].lang, alone |-> ~UnderWay(k)]]
    BY <2>1 DEF Store
  <2>3. \A v \in Workers : jobs'[v] = jobs[v]
    BY <1>3, TranslationAssumption DEF Store, Goes, JobsInv, All
  <2>4. \A i : UnderWay(i)' = UnderWay(i)
    BY <2>3 DEF UnderWay
  <2>5. ASSUME NEW i \in Ids, i # k, forced'[i].alone
        PROVE  /\ translations'[i] = forced'[i].lang /\ translations'[i] # NoLanguage
               /\ ~UnderWay(i)'
    <3>1. forced'[i] = forced[i] /\ translations'[i] = translations[i]
      BY <1>1, <2>2, <2>5 DEF MapsInv
    <3> QED
      BY <2>4, <2>5, <3>1 DEF ForcedInv
  <2>6. ASSUME NEW i \in Ids, i = k, forced'[i].alone
        PROVE  /\ translations'[i] = forced'[i].lang /\ translations'[i] # NoLanguage
               /\ ~UnderWay(i)'
    <3>1. forced'[i] = [lang |-> jobs[w].lang, alone |-> ~UnderWay(i)]
      BY <2>2, <2>6 DEF MapsInv
    <3>2. ~UnderWay(i)
      <4>1. [lang |-> jobs[w].lang, alone |-> ~UnderWay(i)].alone
        BY <2>6, <3>1
      <4> QED
        BY <4>1, Zenon
    <3>3. translations'[i] = jobs[w].lang
      BY <1>1, <2>6 DEF MapsInv
    <3> QED
      BY <2>1, <2>4, <3>1, <3>2, <3>3
  <2> QED
    BY <2>5, <2>6 DEF ForcedInv
<1> QED
  BY <1>2, <1>3 DEF All

LEMMA NextForced ==
    ASSUME JobsInv, MapsInv, ForcedInv, [Next]_vars
    PROVE  ForcedInv'
<1>1. ASSUME NEW w \in All, Step(w) PROVE ForcedInv'
  <2>1. AllCalm
    BY <1>1, StepJobs
  <2>2. UNCHANGED <<translations, forced>> \/ Store(w)
    BY <1>1 DEF Step, TakeNext, Hear, Check, Infer, TranslateFromEnglish, Tell, Save, Write
  <2> QED
    BY <2>1, <2>2, KeptByCalm, StoreForced
<1>2. CASE (\E a \in Arrivals : Receive(a)) \/ Open \/ SendText \/ ChooseTarget \/ Wire
  <2>1. UNCHANGED <<translations, forced>>
    BY <1>2 DEF Receive, Open, SendText, ChooseTarget, Wire
  <2> QED
    BY <1>2, <2>1, EventJobs, KeptByCalm
<1>3. ASSUME NEW i \in Ids, ForceTranslate(i) PROVE ForcedInv'
  <2>1. /\ translations' = [translations EXCEPT ![i] = NoLanguage]
        /\ forced' = [forced EXCEPT ![i] = NotForced]
    BY <1>3 DEF ForceTranslate
  <2>2. \A j \in Ids : forced'[j].alone =>
           forced[j].alone /\ forced'[j] = forced[j] /\ translations'[j] = translations[j]
    BY <2>1 DEF MapsInv, NotForced
  <2> QED
    BY <1>3, <2>2, EventJobs, KeptByCalm
<1>4. CASE LoadModel \/ UNCHANGED vars
  BY <1>4, SameJobs, KeptByCalm DEF LoadModel, vars
<1>5. CASE Restart
  BY <1>5 DEF Restart, NotForced, ForcedInv
<1> QED
  BY <1>1, <1>2, <1>3, <1>4, <1>5 DEF Next, All

\* The user has the final word (translateMessageForce): a forced translation that is in the
\* cache, with no other one of the message under way, stays there for this run of the
\* process, whatever goroutines of translate.go come by.
THEOREM ForcedStays == Spec => []ForcedKept
<1>1. Init => JobsInv /\ MapsInv /\ ForcedInv
  <2>1. Init => MapsInv /\ ForcedInv
    BY DEF Init, MapsInv, ForcedInv, NotForced
  <2> QED
    BY <2>1, InitJobs
<1>2. JobsInv /\ MapsInv /\ ForcedInv /\ [Next]_vars => (JobsInv /\ MapsInv /\ ForcedInv)'
  BY NextJobs, NextMaps, NextForced
<1>3. JobsInv /\ MapsInv /\ ForcedInv => ForcedKept
  BY DEF ForcedInv, ForcedKept
<1> QED
  BY <1>1, <1>2, <1>3, PTL DEF Spec

-----------------------------------------------------------------------------
(* Least numbers *)

\* A finite set of numbers has a least one: otherwise take a least subset without.
LEMMA LeastOfFinite ==
    ASSUME NEW S, IsFiniteSet(S), S \subseteq Nat, S # {}
    PROVE  Min(S) \in S
<1> DEFINE Bad == {T \in SUBSET S : T # {} /\ \A n \in T : \E m \in T : ~ (n <= m)}
<1>1. ASSUME Bad # {} PROVE FALSE
  <2>1. /\ Bad \subseteq FiniteSubsetsOf(S)
        /\ IsWellFoundedOn(StrictSubsetOrdering(S), FiniteSubsetsOf(S))
    BY FS_Subset, FS_StrictSubsetOrderingWellFounded DEF FiniteSubsetsOf
  <2> HIDE DEF Bad
  <2>2. PICK T \in Bad : \A U \in Bad : <<U, T>> \notin StrictSubsetOrdering(S)
    BY <1>1, <2>1, WFMin
  <2>3. T \in SUBSET S /\ T # {} /\ \A n \in T : \E m \in T : ~ (n <= m)
    BY DEF Bad
  <2>4. PICK x \in T : TRUE
    BY <2>3
  <2> DEFINE U == T \ {x}
  <2>5. U # {}
    BY <2>3
  <2>6. U \in SUBSET S /\ U \subseteq T /\ U # T
    BY <2>3
  <2>7. <<U, T>> \in StrictSubsetOrdering(S)
    BY <2>3, <2>6 DEF StrictSubsetOrdering
  <2>8. U \notin Bad
    BY <2>2, <2>7
  <2>9. PICK n \in U : \A m \in U : n <= m
    BY <2>5, <2>6, <2>8 DEF Bad
  <2>10. PICK k \in T : ~ (n <= k)
    BY <2>3, <2>6, <2>9
  <2>11. k = x
    BY <2>9, <2>10
  <2>12. PICK j \in T : ~ (x <= j)
    BY <2>3
  <2> QED
    BY <2>3, <2>9, <2>10, <2>11, <2>12
<1>2. PICK n \in S : \A m \in S : n <= m
  BY <1>1
<1> QED
  BY <1>2 DEF Min

-----------------------------------------------------------------------------
(* Languages *)

LEMMA Labels ==
    /\ NoLanguage \notin Foreign /\ English \notin Foreign /\ NoLanguage # English
    /\ Spanish \in Foreign /\ Foreign \subseteq Languages
    /\ Languages = Foreign \cup {English}
BY LanguagesAssumption DEF Languages, Foreign

\* What a text is identified as is one of the languages, or none.
LEMMA Identified ==
    ASSUME NEW text, IsText(text)
    PROVE  /\ StrongSignals(text) \subseteq Foreign
           /\ IdentifyMessageLanguage(text) \subseteq Languages \cup {NoLanguage}
BY Labels DEF IsText, StrongSignals, IdentifyMessageLanguage

\* A reading gives each text that is not trivial one of the languages it is in.
LEMMA ReadingIsOne ==
    ASSUME NEW texts, NEW reading \in Readings(texts)
    PROVE  /\ DOMAIN reading = Substantial(texts)
           /\ \A i \in DOMAIN reading : reading[i] \in IdentifyMessageLanguage(texts[i])
BY DEF Readings

\* The texts of these that a foreign language may be found in.
ForeignTexts(texts) == {i \in DOMAIN texts : IdentifyMessageLanguage(texts[i]) \cap Foreign # {}}

LEMMA ForeignRead ==
    ASSUME NEW texts, IsFiniteSet(DOMAIN texts), NEW reading \in Readings(texts),
           NEW read, read \subseteq DOMAIN reading, \A i \in read : reading[i] \in Foreign
    PROVE  /\ IsFiniteSet(read) /\ IsFiniteSet(ForeignTexts(texts))
           /\ Cardinality(read) \in Nat /\ Cardinality(ForeignTexts(texts)) \in Nat
           /\ Cardinality(read) <= Cardinality(ForeignTexts(texts))
<1>1. read \subseteq ForeignTexts(texts)
  BY ReadingIsOne DEF ForeignTexts, Substantial
<1>2. IsFiniteSet(ForeignTexts(texts))
  BY FS_Subset DEF ForeignTexts
<1> QED
  BY <1>1, <1>2, FS_Subset, FS_CardinalityType

LEMMA CountOfForeign ==
    ASSUME NEW texts, IsFiniteSet(DOMAIN texts), NEW reading \in Readings(texts), NEW l \in Foreign
    PROVE  /\ CountOf(l, Recent(reading)) \in Nat
           /\ Cardinality(ForeignTexts(texts)) \in Nat
           /\ CountOf(l, Recent(reading)) <= Cardinality(ForeignTexts(texts))
           /\ CountOf(l, Recent(reading)) > 0 =>
                \E i \in DOMAIN texts : l \in IdentifyMessageLanguage(texts[i])
<1> DEFINE codes == Recent(reading)
           found == {i \in DOMAIN codes : codes[i] = l}
<1>1. DOMAIN codes \subseteq DOMAIN reading /\ \A i \in DOMAIN codes : codes[i] = reading[i]
  BY DEF Recent
<1> HIDE DEF codes
<1>2. found \subseteq DOMAIN reading /\ \A i \in found : reading[i] = l
  BY <1>1
<1>3. CountOf(l, codes) = Cardinality(found)
  BY DEF CountOf
<1> HIDE DEF found
<1>4. \A i \in found : reading[i] \in Foreign
  BY <1>2
<1>5. /\ IsFiniteSet(found) /\ Cardinality(found) \in Nat
      /\ Cardinality(ForeignTexts(texts)) \in Nat
      /\ Cardinality(found) <= Cardinality(ForeignTexts(texts))
  BY <1>2, <1>4, ForeignRead
<1>6. ASSUME Cardinality(found) > 0
      PROVE  \E i \in DOMAIN texts : l \in IdentifyMessageLanguage(texts[i])
  <2>1. found # {}
    BY <1>6, FS_EmptySet
  <2>2. PICK i \in found : i \in DOMAIN reading /\ reading[i] = l
    BY <1>2, <2>1
  <2>3. i \in DOMAIN texts /\ l \in IdentifyMessageLanguage(texts[i])
    <3>1. DOMAIN reading = Substantial(texts) /\ reading[i] \in IdentifyMessageLanguage(texts[i])
      BY <2>2, ReadingIsOne
    <3> QED
      BY <2>2, <3>1 DEF Substantial
  <2> QED
    BY <2>3
<1> QED
  BY <1>3, <1>5, <1>6 DEF codes

\* What the thread's language may be: none, or one that a text of it is in, and with
\* confidence only if at least two texts are in a foreign language.
LEMMA DetectedThread ==
    ASSUME NEW texts, IsFiniteSet(DOMAIN texts), NEW thread \in DetectThreadLanguage(texts)
    PROVE  /\ thread.lang \in Foreign \cup {NoLanguage}
           /\ thread.confident \in BOOLEAN
           /\ thread.lang \in Foreign =>
                \E i \in DOMAIN texts : thread.lang \in IdentifyMessageLanguage(texts[i])
           /\ thread.confident => Cardinality(ForeignTexts(texts)) >= 2
<1>1. PICK reading \in Readings(texts) : thread \in Answers(Recent(reading))
  BY DEF DetectThreadLanguage
<1> DEFINE codes == Recent(reading)
<1> HIDE DEF codes
<1>2. CASE Leaders(codes) = {}
  <2>1. thread = [lang |-> NoLanguage, confident |-> FALSE]
    BY <1>1, <1>2 DEF Answers, codes
  <2> QED
    BY <2>1, Labels
<1>3. CASE Leaders(codes) # {}
  <2>1. PICK l \in Leaders(codes) : thread = [lang |-> l, confident |-> Confident(l, codes)]
    BY <1>1, <1>3 DEF Answers, codes
  <2>2. l \in Foreign /\ CountOf(l, codes) > 0
    BY DEF Leaders
  <2>3. thread.lang = l /\ thread.confident = Confident(l, codes)
    BY <2>1, Zenon
  <2>4. Confident(l, codes) => CountOf(l, codes) >= 2
    BY <2>2, CountOfForeign, LanguagesAssumption DEF Confident, codes
  <2>5. Confident(l, codes) \in BOOLEAN
    BY DEF Confident
  <2>6. Confident(l, codes) => Cardinality(ForeignTexts(texts)) >= 2
    BY <2>2, <2>4, CountOfForeign DEF codes
  <2>7. \E i \in DOMAIN texts : l \in IdentifyMessageLanguage(texts[i])
    BY <2>2, CountOfForeign DEF codes
  <2> QED
    BY <2>2, <2>3, <2>5, <2>6, <2>7, Zenon
<1> QED
  BY <1>2, <1>3

\* A message is translated from a foreign language or not at all.
LEMMA Classified ==
    ASSUME NEW text, IsText(text), NEW thread \in Foreign \cup {NoLanguage}
    PROVE  ClassifyMessage(text, thread) \subseteq Foreign \cup {NoLanguage}
<1> DEFINE foreign == {n \in DOMAIN text.scores : text.scores[n][1] # English}
           top == TopForeign(text.scores)
<1>1. top[1] \in Foreign \cup {NoLanguage}
  <2>1. CASE foreign = {}
    BY <2>1 DEF TopForeign
  <2>2. CASE foreign # {}
    <3>1. /\ text.scores \in [1..Len(text.scores) -> Languages \X Nat]
          /\ Len(text.scores) \in Nat
      BY DEF IsText
    <3>2. foreign \subseteq 1..Len(text.scores)
      BY <3>1
    <3>20. IsFiniteSet(1..Len(text.scores))
      <4> DEFINE n == Len(text.scores)
      <4>1. 1 \in Int /\ n \in Int
        BY <3>1
      <4> HIDE DEF n
      <4>2. IsFiniteSet(1..n)
        BY <4>1, FS_Interval
      <4> QED
        BY <4>2 DEF n
    <3>21. IsFiniteSet(foreign) /\ foreign \subseteq Nat
      BY <3>1, <3>2, <3>20, FS_Subset
    <3>3. Min(foreign) \in foreign
      BY <2>2, <3>21, LeastOfFinite
    <3>4. top = text.scores[Min(foreign)]
      BY <2>2 DEF TopForeign
    <3>5. text.scores[Min(foreign)] \in Languages \X Nat
      BY <3>1, <3>3
    <3>6. top[1] # English /\ top[1] \in Languages
      BY <3>3, <3>4, <3>5
    <3> QED
      BY <3>6, Labels
  <2> QED
    BY <2>1, <2>2
<1> HIDE DEF top
<1>2. StrongSignals(text) \subseteq Foreign
  BY Identified
<1> DEFINE a == top[2] >= 10 /\ top[2] >= 5 * Floor(EnglishScore(text.scores))
           b == top[1] = thread /\ top[2] >= 20
           c == EnglishScore(text.scores) >= 3 * Floor(top[2])
<1>3. ClassifyMessage(text, thread) =
          CASE IsTrivialNoOp(text) -> {NoLanguage}
            [] StrongSignals(text) # {} -> StrongSignals(text)
            [] top[1] # NoLanguage /\ (a \/ b) -> {top[1]}
            [] c -> {NoLanguage}
            [] OTHER -> {IF thread = English THEN NoLanguage ELSE thread}
  BY DEF ClassifyMessage, top
<1> HIDE DEF a, b, c
<1> QED
  BY <1>1, <1>2, <1>3

\* Who sends in the contact's language has seen two messages of the contact in a foreign one.
LEMMA DecisionSeesTwo ==
    ASSUME NEW messages, IsFiniteSet(DOMAIN messages),
           \A i \in DOMAIN messages : IsText(messages[i].raw),
           TRUE \in DecideAutoTranslateOutgoing(messages)
    PROVE  Cardinality(ForeignTexts(Raws(messages))) >= 2
<1> DEFINE texts == Raws(messages)
<1>1. PICK reading \in Readings(texts), thread \in DetectThreadLanguage(texts) :
         MostlyForeign(reading) \/ thread.confident
  BY Zenon DEF DecideAutoTranslateOutgoing
<1>2. IsFiniteSet(DOMAIN texts) /\ \A i \in DOMAIN texts : IsText(texts[i])
  BY FS_Subset DEF Raws
<1> HIDE DEF texts
<1>3. CASE thread.confident
  BY <1>2, <1>3, DetectedThread DEF texts
<1>4. CASE MostlyForeign(reading)
  <2> DEFINE N == Cardinality(DOMAIN reading)
             F == Cardinality(ForeignOnes(reading))
  <2>1. N >= 2 /\ 100 * F >= 60 * N
    BY <1>4 DEF MostlyForeign
  <2>2. DOMAIN reading \subseteq DOMAIN texts
    BY ReadingIsOne DEF Substantial
  <2>3. IsFiniteSet(DOMAIN reading) /\ N \in Nat
    BY <1>2, <2>2, FS_Subset, FS_CardinalityType
  <2>4. F \in Nat
    BY <2>3, FS_Subset, FS_CardinalityType DEF ForeignOnes
  <2>5. F >= 2
    BY <2>1, <2>3, <2>4
  <2>6. Cardinality(ForeignTexts(texts)) \in Nat /\ F <= Cardinality(ForeignTexts(texts))
    <3>1. ForeignOnes(reading) \subseteq DOMAIN reading
      BY DEF ForeignOnes
    <3>2. ASSUME NEW i \in ForeignOnes(reading) PROVE reading[i] \in Foreign
      <4>1. i \in DOMAIN texts /\ reading[i] \in IdentifyMessageLanguage(texts[i])
        BY <2>2, <3>1, ReadingIsOne
      <4>2. reading[i] \in Languages \cup {NoLanguage}
        BY <1>2, <4>1, Identified
      <4> QED
        BY <4>2, Labels DEF ForeignOnes
    <3> QED
      BY <1>2, <3>1, <3>2, ForeignRead
  <2> QED
    BY <2>4, <2>5, <2>6 DEF texts
<1> QED
  BY <1>1, <1>3, <1>4

-----------------------------------------------------------------------------
(* The type *)

LEMMA TextsAreTexts == \A text \in Texts : IsText(text)
<1>1. \A a \in Arrivals : IsText(a.raw) /\ IsText(a.body) /\ IsText(a.voice)
  BY TranslationAssumption
<1>2. IsText(Empty)
  BY DEF Empty, IsText
<1>3. ASSUME NEW l \in Languages PROVE IsText(Written(l))
  <2>1. <<<<l, 90>>>> \in Seq(Languages \X Nat)
    OBVIOUS
  <2> QED
    BY <2>1 DEF Written, IsText
<1> QED
  BY <1>1, <1>2, <1>3 DEF Texts

LEMMA MessageTexts ==
    ASSUME NEW messages \in Seq(Message)
    PROVE  /\ IsFiniteSet(DOMAIN messages) /\ DOMAIN messages = 1..Len(messages)
           /\ Len(messages) \in Nat
           /\ \A i \in DOMAIN messages : 
                /\ IsText(messages[i].raw) /\ IsText(messages[i].body) /\ IsText(messages[i].voice)
                /\ messages[i].raw \in Texts /\ messages[i].body \in Texts
                /\ messages[i].voice \in Texts
<1>1. /\ DOMAIN messages = 1..Len(messages) /\ Len(messages) \in Nat
      /\ \A i \in DOMAIN messages : messages[i] \in Message
  OBVIOUS
<1>2. IsFiniteSet(1..Len(messages))
  <2> DEFINE n == Len(messages)
  <2>1. 1 \in Int /\ n \in Int
    BY <1>1
  <2> HIDE DEF n
  <2>2. IsFiniteSet(1..n)
    BY <2>1, FS_Interval
  <2> QED
    BY <2>2 DEF n
<1> QED
  BY <1>1, <1>2, TextsAreTexts DEF Message

\* A job is well-formed, refers to messages that are there, and has no language only
\* if it sends.
JobOK(job, n) ==
    /\ job \in Job /\ job.next <= n
    /\ job.at = "hear" => job.msg <= n
    /\ job.lang = AsTyped => job.kind = "send"

JobsTyped ==
    /\ jobs \in [All -> Job]
    /\ \A w \in All : JobOK(jobs[w], Len(chat))

CachesTyped ==
    /\ translations \in [Ids -> Sources] /\ file \in [Ids -> Sources]
    /\ transcripts \subseteq Ids
    /\ told \in [Ids -> Sources]
    /\ forced \in [Ids -> [lang : Sources, alone : BOOLEAN]]

ChatTyped == chat \in Seq(Message) /\ Len(chat) <= MaxMessages

RestTyped ==
    /\ ready \in BOOLEAN /\ works \in BOOLEAN
    /\ left \in [messages : Nat, opens : Nat, forces : Nat, sends : Nat, restarts : Nat]

TypeInv == JobsInv /\ ChatTyped /\ CachesTyped /\ RestTyped /\ JobsTyped

LEMMA Numbers == MaxMessages \in Nat /\ MaxMessages >= 1 /\ Ids = 1..MaxMessages /\ Ids \subseteq Nat
BY TranslationAssumption DEF Ids

LEMMA Marks ==
    /\ AsTyped \notin Sources /\ Sources = Foreign \cup {NoLanguage} /\ NoLanguage \in Sources
    /\ AsTyped # English /\ Spanish \in Sources
BY TranslationAssumption, Labels DEF Sources

LEMMA NoJobOK == ASSUME NEW n \in Nat PROVE JobOK(NoJob, n)
BY Numbers, Marks DEF JobOK, NoJob, Job, Texts

\* One job changes, and the chat does not get shorter.
LEMMA JobSet ==
    ASSUME Len(chat) \in Nat, Len(chat)' \in Nat, Len(chat) <= Len(chat)',
           JobsTyped, NEW w \in All, NEW job, JobOK(job, Len(chat)'),
           jobs' = [jobs EXCEPT ![w] = job]
    PROVE  JobsTyped'
<1>1. jobs \in [All -> Job] /\ \A v \in All : JobOK(jobs[v], Len(chat))
  BY DEF JobsTyped
<1>2. \A v \in All : jobs'[v] = IF v = w THEN job ELSE jobs[v]
  BY <1>1
<1>3. \A v \in All : JobOK(jobs[v], Len(chat)')
  BY <1>1, Numbers DEF JobOK, Job
<1>4. \A v \in All : JobOK(jobs'[v], Len(chat)')
  BY <1>2, <1>3
<1>5. jobs' \in [All -> Job]
  BY <1>1 DEF JobOK
<1> QED
  BY <1>4, <1>5 DEF JobsTyped

LEMMA JobSetHere ==
    ASSUME UNCHANGED chat, Len(chat) \in Nat, JobsTyped, NEW w \in All, NEW job,
           JobOK(job, Len(chat)), jobs' = [jobs EXCEPT ![w] = job]
    PROVE  JobsTyped'
<1> DEFINE n == Len(chat)
<1>1. Len(chat)' = n /\ n \in Nat /\ n <= n
  OBVIOUS
<1>2. JobOK(job, Len(chat)')
  BY <1>1
<1> QED
  BY <1>1, <1>2, JobSet

LEMMA InitTypes == Init => TypeInv
<1> SUFFICES ASSUME Init PROVE TypeInv
  OBVIOUS
<1>1. ChatTyped /\ Len(chat) = 0
  BY Numbers DEF Init, ChatTyped
<1>2. CachesTyped
  BY Marks DEF Init, CachesTyped, NotForced
<1>3. RestTyped
  BY TranslationAssumption DEF Init, RestTyped
<1>4. JobsTyped
  BY <1>1, NoJobOK DEF Init, JobsTyped, All, JobOK
<1> QED
  BY <1>1, <1>2, <1>3, <1>4, InitJobs DEF TypeInv

\* A place where nothing is asked of the job but that it is one.
Plain == {"next", "check", "store", "tell", "save", "write"}

LEMMA PlaceOK ==
    ASSUME NEW n, NEW job, JobOK(job, n), NEW p \in Plain
    PROVE  JobOK([job EXCEPT !.at = p], n)
BY DEF JobOK, Job, Plain

LEMMA GoesTyped ==
    ASSUME UNCHANGED chat, Len(chat) \in Nat, JobsInv, JobsTyped,
           NEW w \in All, NEW p \in Plain, Goes(w, p)
    PROVE  JobsTyped'
<1> DEFINE job == [jobs[w] EXCEPT !.at = p]
<1>1. jobs' = [jobs EXCEPT ![w] = job]
  BY GoesJob
<1>2. JobOK(jobs[w], Len(chat))
  BY DEF JobsTyped
<1>3. JobOK(job, Len(chat))
  BY <1>2, PlaceOK
<1> HIDE DEF job
<1> QED
  BY <1>1, <1>3, JobSetHere

\* The thread's language, as the texts without markers have it.
LEMMA ThreadOfChat ==
    ASSUME NEW messages \in Seq(Message), NEW thread \in ThreadLanguage(messages)
    PROVE  /\ thread.lang \in Sources
           /\ thread.lang \in Foreign =>
                \E k \in DOMAIN messages :
                    ~messages[k].me /\ thread.lang \in IdentifyMessageLanguage(messages[k].body)
<1> DEFINE texts == Bodies(messages)
<1>1. /\ DOMAIN texts \subseteq DOMAIN messages
      /\ \A i \in DOMAIN texts : texts[i] = messages[i].body /\ ~messages[i].me
  BY DEF Bodies
<1>2. IsFiniteSet(DOMAIN texts)
  BY <1>1, MessageTexts, FS_Subset
<1>3. thread \in DetectThreadLanguage(texts)
  BY DEF ThreadLanguage
<1> HIDE DEF texts
<1>4. /\ thread.lang \in Foreign \cup {NoLanguage}
      /\ thread.lang \in Foreign =>
           \E i \in DOMAIN texts : thread.lang \in IdentifyMessageLanguage(texts[i])
  BY <1>2, <1>3, DetectedThread
<1> QED
  BY <1>1, <1>4, Marks

LEMMA TakeNextTyped ==
    ASSUME TypeInv, NEW w \in All, TakeNext(w)
    PROVE  JobsTyped'
<1> DEFINE n == Len(chat)
           job == jobs[w]
           m == chat[job.next]
           text == IF ~IsVoice(m) THEN m.body
                   ELSE IF job.next \in transcripts THEN m.voice ELSE Empty
           wanted == text # Empty /\ (translations[job.next] # NoLanguage \/ text.lingua # English)
           To(at, worked) == [job EXCEPT !.at = at, !.msg = job.next, !.next = @ - 1,
                                         !.text = text, !.worked = worked]
           New == CASE job.next = 0 /\ job.kind = "screen" /\ job.worked ->
                         [job EXCEPT !.at = "save"]
                    [] job.next = 0 /\ ~(job.kind = "screen" /\ job.worked) -> NoJob
                    [] job.next > 0 /\ job.kind = "screen" /\ wanted ->
                         To("check", job.worked \/ translations[job.next] = NoLanguage)
                    [] job.next > 0 /\ job.kind = "voices" /\ IsVoice(m) -> To("hear", FALSE)
                    [] OTHER -> To("next", job.worked)
<1>1. jobs' = [jobs EXCEPT ![w] = New] /\ chat' = chat
  BY DEF TakeNext
<1>2. JobOK(job, n) /\ n \in Nat /\ chat \in Seq(Message) /\ n <= MaxMessages
  BY DEF TypeInv, JobsTyped, ChatTyped
<1>3. job.next \in Nat /\ job.next <= n /\ job.worked \in BOOLEAN /\ job \in Job
  BY <1>2, Numbers DEF JobOK, Job
<1>4. JobOK(NoJob, n)
  BY <1>2, NoJobOK
<1>5. JobOK([job EXCEPT !.at = "save"], n)
  BY <1>2, PlaceOK DEF Plain
<1>6. ASSUME NEW at \in {"next", "check", "hear"}, NEW worked \in BOOLEAN, job.next > 0
      PROVE  JobOK(To(at, worked), n)
  <2>1. job.next \in DOMAIN chat
    BY <1>2, <1>3, <1>6
  <2>2. text \in Texts
    <3>1. Empty \in Texts
      BY DEF Texts
    <3>2. m.body \in Texts /\ m.voice \in Texts
      BY <1>2, <2>1, MessageTexts
    <3> HIDE DEF m
    <3> QED
      BY <3>1, <3>2
  <2>3. job.next - 1 \in 0..MaxMessages /\ job.next \in Ids /\ job.next - 1 <= n
    BY <1>2, <1>3, <1>6, Numbers
  <2> HIDE DEF text, n, job
  <2> QED
    BY <1>2, <1>3, <2>2, <2>3 DEF JobOK, Job
<1>7. JobOK(New, n)
  <2>1. (job.worked \/ translations[job.next] = NoLanguage) \in BOOLEAN /\ FALSE \in BOOLEAN
    OBVIOUS
  <2>2. job.next = 0 \/ job.next > 0
    BY <1>3
  <2> HIDE DEF To, text, m, n, job, wanted
  <2> QED
    BY <1>3, <1>4, <1>5, <1>6, <2>1, <2>2
<1> HIDE DEF New, n
<1> QED
  BY <1>1, <1>2, <1>7, JobSetHere DEF n, TypeInv

LEMMA HearTyped ==
    ASSUME TypeInv, NEW w \in All, Hear(w)
    PROVE  JobsTyped'
<1>1. /\ JobOK(jobs[w], Len(chat)) /\ Len(chat) \in Nat /\ chat \in Seq(Message) /\ chat' = chat
      /\ JobsInv /\ JobsTyped
  BY DEF TypeInv, JobsTyped, ChatTyped, Hear
<1>2. CASE Goes(w, "next")
  BY <1>1, <1>2, GoesTyped DEF Plain
<1>3. ASSUME NEW worked \in BOOLEAN,
             jobs' = [jobs EXCEPT ![w].at = "check", ![w].text = chat[jobs[w].msg].voice,
                                  ![w].worked = worked]
      PROVE  JobsTyped'
  <2> DEFINE text == chat[jobs[w].msg].voice
             job == [jobs[w] EXCEPT !.at = "check", !.text = text, !.worked = worked]
  <2>1. jobs' = [jobs EXCEPT ![w] = job]
    BY <1>1, <1>3 DEF JobsInv
  <2>2. jobs[w].msg \in DOMAIN chat
    BY <1>1, Numbers DEF Hear, JobOK, Job
  <2>3. text \in Texts
    BY <1>1, <2>2, MessageTexts
  <2> HIDE DEF text
  <2>4. JobOK(job, Len(chat))
    BY <1>1, <2>3 DEF JobOK, Job
  <2> HIDE DEF job
  <2> QED
    BY <1>1, <2>1, <2>4, JobSetHere
<1>4. \/ Goes(w, "next")
      \/ \E worked \in BOOLEAN :
            jobs' = [jobs EXCEPT ![w].at = "check", ![w].text = chat[jobs[w].msg].voice,
                                 ![w].worked = worked]
  BY DEF Hear
<1> QED
  BY <1>2, <1>3, <1>4

LEMMA CheckTyped ==
    ASSUME TypeInv, NEW w \in All, Check(w)
    PROVE  JobsTyped'
<1>1. /\ JobOK(jobs[w], Len(chat)) /\ Len(chat) \in Nat /\ chat \in Seq(Message) /\ chat' = chat
      /\ JobsInv /\ JobsTyped
  BY DEF TypeInv, JobsTyped, ChatTyped, Check
<1>2. CASE Goes(w, After(jobs[w]))
  BY <1>1, <1>2, AfterPlaces, GoesTyped DEF Plain
<1>3. ASSUME NEW p \in {"tell", "infer"}, NEW lang \in Sources,
             jobs' = [jobs EXCEPT ![w].at = p, ![w].lang = lang]
      PROVE  JobsTyped'
  <2> DEFINE job == [jobs[w] EXCEPT !.at = p, !.lang = lang]
  <2>1. jobs' = [jobs EXCEPT ![w] = job]
    BY <1>1, <1>3 DEF JobsInv
  <2>2. JobOK(job, Len(chat))
    BY <1>1, Marks DEF JobOK, Job
  <2> HIDE DEF job
  <2> QED
    BY <1>1, <2>1, <2>2, JobSetHere
<1>4. CASE jobs' = [jobs EXCEPT ![w].at = "tell", ![w].lang = translations[jobs[w].msg]]
  <2>1. translations[jobs[w].msg] \in Sources
    BY <1>1 DEF TypeInv, CachesTyped, JobOK, Job
  <2> QED
    BY <1>3, <1>4, <2>1
<1>5. ASSUME NEW thread \in ThreadLanguage(chat), NEW lang \in ClassifyMessage(jobs[w].text, thread.lang),
             jobs' = [jobs EXCEPT ![w].at = "infer", ![w].lang = lang]
      PROVE  JobsTyped'
  <2>1. IsText(jobs[w].text)
    BY <1>1, TextsAreTexts DEF JobOK, Job
  <2>2. thread.lang \in Sources
    BY <1>1, ThreadOfChat
  <2>3. lang \in Sources
    BY <2>1, <2>2, Classified DEF Sources
  <2> QED
    BY <1>3, <1>5, <2>3
<1>6. \/ Goes(w, After(jobs[w]))
      \/ jobs' = [jobs EXCEPT ![w].at = "tell", ![w].lang = translations[jobs[w].msg]]
      \/ \E thread \in ThreadLanguage(chat) : \E lang \in ClassifyMessage(jobs[w].text, thread.lang) :
           jobs' = [jobs EXCEPT ![w].at = "infer", ![w].lang = lang]
  BY DEF Check
<1> QED
  BY <1>2, <1>4, <1>5, <1>6

LEMMA StepTyped ==
    ASSUME TypeInv, NEW w \in All, Step(w)
    PROVE  JobsTyped'
<1>1. /\ JobOK(jobs[w], Len(chat)) /\ Len(chat) \in Nat /\ chat' = chat
      /\ JobsInv /\ JobsTyped
  BY DEF TypeInv, JobsTyped, ChatTyped, Step, TakeNext, Hear, Check, Infer,
         TranslateFromEnglish, Store, Tell, Save, Write
<1>2. CASE TakeNext(w) \/ Hear(w) \/ Check(w)
  BY <1>2, TakeNextTyped, HearTyped, CheckTyped
<1>3. CASE Infer(w)
  <2>1. Goes(w, IF works THEN "store" ELSE After(jobs[w]))
    BY <1>3 DEF Infer, Goes
  <2>2. (IF works THEN "store" ELSE After(jobs[w])) \in Plain
    BY AfterPlaces DEF Plain
  <2> QED
    BY <1>1, <2>1, <2>2, GoesTyped
<1>4. CASE TranslateFromEnglish(w)
  <2> DEFINE job == [jobs[w] EXCEPT !.at = "wire", !.lang = IF works THEN @ ELSE AsTyped]
  <2>1. jobs' = [jobs EXCEPT ![w] = job]
    BY <1>1, <1>4 DEF TranslateFromEnglish, JobsInv
  <2>2. JobOK(job, Len(chat))
    BY <1>1, <1>4 DEF JobOK, Job, TranslateFromEnglish
  <2> HIDE DEF job
  <2> QED
    BY <1>1, <2>1, <2>2, JobSetHere
<1>5. CASE Store(w)
  <2>1. Goes(w, IF jobs[w].kind = "force" THEN "save" ELSE "tell")
    BY <1>5 DEF Store
  <2>2. (IF jobs[w].kind = "force" THEN "save" ELSE "tell") \in Plain
    BY DEF Plain
  <2> QED
    BY <1>1, <2>1, <2>2, GoesTyped
<1>6. CASE Tell(w)
  <2>1. Goes(w, After(jobs[w])) /\ After(jobs[w]) \in Plain
    BY <1>6, AfterPlaces DEF Tell, Plain
  <2> QED
    BY <1>1, <2>1, GoesTyped
<1>7. CASE Save(w)
  <2> DEFINE job == [jobs[w] EXCEPT !.at = "write", !.snap = translations, !.worked = FALSE]
  <2>1. jobs' = [jobs EXCEPT ![w] = job]
    BY <1>1, <1>7 DEF Save, JobsInv
  <2>2. JobOK(job, Len(chat))
    BY <1>1 DEF JobOK, Job, TypeInv, CachesTyped
  <2> HIDE DEF job
  <2> QED
    BY <1>1, <2>1, <2>2, JobSetHere
<1>8. CASE Write(w)
  <2> DEFINE p == IF jobs[w].kind = "force" THEN "tell" ELSE "next"
             job == [jobs[w] EXCEPT !.at = p, !.snap = NoJob.snap]
  <2>1. jobs' = [jobs EXCEPT ![w] = job]
    BY <1>1, <1>8 DEF Write, JobsInv
  <2>2. NoJob.snap \in [Ids -> Sources]
    BY Marks DEF NoJob
  <2>3. JobOK(job, Len(chat))
    BY <1>1, <2>2 DEF JobOK, Job
  <2> HIDE DEF job
  <2> QED
    BY <1>1, <2>1, <2>3, JobSetHere
<1> QED
  BY <1>2, <1>3, <1>4, <1>5, <1>6, <1>7, <1>8 DEF Step

\* A message is added to the chat.
LEMMA Added ==
    ASSUME ChatTyped, Len(chat) < MaxMessages, NEW m \in Message, chat' = Append(chat, m)
    PROVE  /\ ChatTyped' /\ Len(chat)' = Len(chat) + 1 /\ Len(chat) \in Nat /\ Len(chat)' \in Ids
           /\ \A i \in DOMAIN chat : chat'[i] = chat[i]
           /\ chat'[Len(chat)'] = m
BY Numbers DEF ChatTyped

LEMMA FreshOK ==
    ASSUME NEW kind \in {"live", "echo", "voices"}, NEW i \in Ids, chat'[i].body \in Texts,
           NEW n \in Nat, i <= n
    PROVE  JobOK(Fresh(kind, i), n) /\ JobOK([Fresh(kind, i) EXCEPT !.at = "hear"], n)
<1>1. JobOK(NoJob, n) /\ NoJob.next = 0
  BY NoJobOK DEF NoJob
<1>2. (kind = "live") \in BOOLEAN
  OBVIOUS
<1> QED
  BY <1>1, <1>2, Marks, Numbers DEF JobOK, Job, Fresh, NoJob

LEMMA ReceiveTyped ==
    ASSUME TypeInv, NEW a \in Arrivals, Receive(a)
    PROVE  JobsTyped' /\ ChatTyped'
<1>1. /\ ChatTyped' /\ Len(chat)' = Len(chat) + 1 /\ Len(chat) \in Nat /\ Len(chat)' \in Ids
      /\ chat'[Len(chat)'].body \in Texts /\ JobsTyped
  BY Added, TranslationAssumption DEF TypeInv, Receive, Message
<1> DEFINE i == Len(chat)'
<1>2. PICK w \in Workers :
         \/ jobs' = [jobs EXCEPT ![w] = [Fresh("voices", i) EXCEPT !.at = "hear"]]
         \/ jobs' = [jobs EXCEPT ![w] = Fresh("live", i)]
         \/ jobs' = jobs
  BY DEF Receive
<1>3. i \in Nat /\ i <= i /\ Len(chat) <= i
  BY <1>1
<1>4. JobOK([Fresh("voices", i) EXCEPT !.at = "hear"], i) /\ JobOK(Fresh("live", i), i)
  BY <1>1, <1>3, FreshOK
<1>5. jobs' = [jobs EXCEPT ![w] = jobs[w]] \/ jobs' # jobs
  BY DEF TypeInv, JobsTyped
<1>6. JobOK(jobs[w], i)
  BY <1>1, <1>3, Numbers DEF JobsTyped, JobOK, Job, All
<1>7. w \in All
  BY DEF All
<1> HIDE DEF Fresh
<1> QED
  BY <1>1, <1>2, <1>3, <1>4, <1>5, <1>6, <1>7, JobSet

LEMMA OpenTyped ==
    ASSUME TypeInv, Open
    PROVE  JobsTyped'
<1> DEFINE screen(kind) == [NoJob EXCEPT !.at = "next", !.kind = kind, !.next = Len(chat)]
<1>1. /\ Len(chat) \in Nat /\ Len(chat) <= MaxMessages /\ chat' = chat
      /\ jobs \in [All -> Job] /\ \A u \in All : JobOK(jobs[u], Len(chat))
  BY DEF TypeInv, ChatTyped, JobsTyped, Open
<1>2. ASSUME NEW kind \in {"voices", "screen"} PROVE JobOK(screen(kind), Len(chat))
  <2> DEFINE n == Len(chat)
  <2>0. n \in Nat /\ n <= MaxMessages
    BY <1>1
  <2> HIDE DEF n
  <2>1. n \in 0..MaxMessages /\ n <= n /\ n \in Nat
    BY <2>0, Numbers
  <2>2. JobOK(NoJob, n) /\ NoJob.lang = NoLanguage
    BY <2>1, Numbers, NoJobOK DEF NoJob
  <2>3. JobOK([NoJob EXCEPT !.at = "next", !.kind = kind, !.next = n], n)
    BY <2>1, <2>2, Marks DEF JobOK, Job
  <2> QED
    BY <2>3 DEF n
<1>3. PICK v \in Workers, w \in Workers :
         \/ jobs' = [jobs EXCEPT ![v] = screen("voices"), ![w] = screen("screen")]
         \/ jobs' = [jobs EXCEPT ![v] = screen("voices"), ![w] = @]
  BY DEF Open
<1> HIDE DEF screen
<1>4. /\ jobs' = [u \in All |-> jobs'[u]]
      /\ \A u \in All : jobs'[u] \in {jobs[u], screen("voices"), screen("screen")}
  BY <1>1, <1>3
<1>5. \A u \in All : JobOK(jobs'[u], Len(chat))
  BY <1>1, <1>2, <1>4
<1>6. jobs' \in [All -> Job]
  BY <1>4, <1>5 DEF JobOK
<1> QED
  BY <1>1, <1>5, <1>6 DEF JobsTyped

LEMMA ForceTyped ==
    ASSUME TypeInv, NEW i \in Ids, ForceTranslate(i)
    PROVE  JobsTyped'
<1>1. Len(chat) \in Nat /\ chat \in Seq(Message) /\ chat' = chat /\ JobsTyped /\ Loop \in All
  BY DEF TypeInv, ChatTyped, ForceTranslate, All
<1>2. PICK lang \in Sources :
         jobs' = [jobs EXCEPT ![Loop] = [NoJob EXCEPT
                            !.at = "infer", !.kind = "force", !.msg = i, !.lang = lang]]
  <2> DEFINE label == chat[i].body.lingua
             Choice(thread) == CASE label \in Foreign -> label
                                 [] label \notin Foreign /\ thread.lang # NoLanguage -> thread.lang
                                 [] OTHER -> Spanish
  <2>1. PICK thread \in ThreadLanguage(chat) :
               jobs' = [jobs EXCEPT ![Loop] = [NoJob EXCEPT
                            !.at = "infer", !.kind = "force", !.msg = i, !.lang = Choice(thread)]]
    <3> HIDE DEF NoJob
    <3> QED
      BY DEF ForceTranslate
  <2>2. Choice(thread) \in Sources
    BY <1>1, ThreadOfChat, Marks
  <2> HIDE DEF Choice
  <2> QED
    BY <2>1, <2>2
<1> DEFINE job == [NoJob EXCEPT !.at = "infer", !.kind = "force", !.msg = i, !.lang = lang]
<1>3. JobOK(job, Len(chat))
  BY <1>1, NoJobOK, Marks DEF JobOK, Job, NoJob
<1> HIDE DEF job
<1> QED
  BY <1>1, <1>2, <1>3, JobSetHere DEF job

LEMMA SendTextTyped ==
    ASSUME TypeInv, SendText
    PROVE  JobsTyped'
<1>1. Len(chat) \in Nat /\ chat' = chat /\ JobsTyped /\ Loop \in All
  BY DEF TypeInv, ChatTyped, SendText, All
<1> DEFINE job(translate) == [NoJob EXCEPT !.at = IF translate THEN "target" ELSE "wire",
                                           !.kind = "send", !.lang = AsTyped]
<1>2. PICK translate : jobs' = [jobs EXCEPT ![Loop] = job(translate)]
  BY DEF SendText
<1>3. JobOK(job(translate), Len(chat))
  BY <1>1, NoJobOK DEF JobOK, Job, NoJob
<1> HIDE DEF job
<1> QED
  BY <1>1, <1>2, <1>3, JobSetHere

LEMMA ChooseTargetTyped ==
    ASSUME TypeInv, ChooseTarget
    PROVE  JobsTyped'
<1>1. /\ Len(chat) \in Nat /\ chat \in Seq(Message) /\ chat' = chat /\ JobsTyped
      /\ Loop \in All /\ JobsInv /\ JobOK(jobs[Loop], Len(chat))
  BY DEF TypeInv, ChatTyped, ChooseTarget, All, JobsTyped
<1> DEFINE job(lang) == [jobs[Loop] EXCEPT !.at = "infer", !.lang = lang]
<1>2. PICK thread \in ThreadLanguage(chat) : jobs' = [jobs EXCEPT ![Loop] = job(thread.lang)]
  BY DEF ChooseTarget, TypeInv, JobsInv
<1>3. thread.lang \in Sources
  BY <1>1, ThreadOfChat
<1>4. JobOK(job(thread.lang), Len(chat))
  BY <1>1, <1>3, Marks DEF JobOK, Job
<1> HIDE DEF job
<1> QED
  BY <1>1, <1>2, <1>4, JobSetHere

LEMMA WireTyped ==
    ASSUME TypeInv, Wire
    PROVE  JobsTyped' /\ ChatTyped'
<1>1. /\ Len(chat) \in Nat /\ JobsTyped /\ Loop \in All /\ JobOK(jobs[Loop], Len(chat)) /\ ChatTyped
      /\ JobOK(NoJob, Len(chat)) /\ Len(chat) < MaxMessages
  BY NoJobOK DEF TypeInv, ChatTyped, All, JobsTyped, Wire
<1>2. CASE jobs' = [jobs EXCEPT ![Loop] = NoJob] /\ UNCHANGED chat
  <2>1. JobsTyped'
    BY <1>1, <1>2, JobSetHere
  <2> QED
    BY <1>1, <1>2, <2>1 DEF ChatTyped
<1> DEFINE to == jobs[Loop].lang
           text == Written(IF to \in Foreign THEN to ELSE English)
           m == [me |-> TRUE, raw |-> text, body |-> text, voice |-> Empty, to |-> to]
           i == Len(chat)'
<1>3. ASSUME chat' = Append(chat, m), NEW w \in Workers,
             jobs' = [jobs EXCEPT ![Loop] = NoJob, ![w] = IF to = AsTyped THEN @ ELSE Fresh("echo", i)]
      PROVE  JobsTyped' /\ ChatTyped'
  <2>1. text \in Texts /\ Empty \in Texts
    BY Labels DEF Texts
  <2>2. to \in Foreign \cup {NoLanguage, AsTyped}
    BY <1>1, Marks DEF JobOK, Job
  <2>3. m \in Message
    BY <2>1, <2>2 DEF Message
  <2> HIDE DEF m
  <2>4. /\ ChatTyped' /\ i = Len(chat) + 1 /\ i \in Ids /\ chat'[i] = m
    BY <1>1, <1>3, <2>3, Added
  <2>5. chat'[i].body \in Texts /\ i \in Nat /\ Len(chat) <= i /\ i <= i
    BY <1>1, <2>3, <2>4, Numbers DEF Message
  <2>6. JobOK(Fresh("echo", i), i) /\ JobOK(NoJob, i)
    BY <2>4, <2>5, FreshOK, NoJobOK
  <2> HIDE DEF to, i
  <2>7. /\ jobs' = [u \in All |-> jobs'[u]]
        /\ \A u \in All : jobs'[u] \in {jobs[u], NoJob, Fresh("echo", i)}
    BY <1>1, <1>3 DEF JobsTyped
  <2>8. \A u \in All : JobOK(jobs[u], i)
    BY <1>1, <2>5, Numbers DEF JobsTyped, JobOK, Job
  <2> HIDE DEF Fresh
  <2>9. \A u \in All : JobOK(jobs'[u], i)
    BY <2>6, <2>7, <2>8
  <2>10. jobs' \in [All -> Job]
    BY <2>7, <2>9 DEF JobOK
  <2> QED
    BY <2>4, <2>9, <2>10 DEF JobsTyped, i
<1>4. \/ jobs' = [jobs EXCEPT ![Loop] = NoJob] /\ UNCHANGED chat
      \/ /\ chat' = Append(chat, m)
         /\ \E w \in Workers :
              jobs' = [jobs EXCEPT ![Loop] = NoJob, ![w] = IF to = AsTyped THEN @ ELSE Fresh("echo", i)]
  BY DEF Wire
<1> QED
  BY <1>2, <1>3, <1>4

LEMMA ChatsTyped ==
    ASSUME TypeInv, [Next]_vars
    PROVE  JobsTyped' /\ ChatTyped'
<1>1. CASE (\E w \in All : Step(w)) \/ Open \/ (\E i \in Ids : ForceTranslate(i)) \/ SendText \/ ChooseTarget
  <2>1. UNCHANGED chat
    BY <1>1 DEF Open, ForceTranslate, SendText, ChooseTarget, Step, TakeNext, Hear, Check, Infer,
         TranslateFromEnglish, Store, Tell, Save, Write
  <2>2. ChatTyped'
    BY <2>1 DEF TypeInv, ChatTyped
  <2> QED
    BY <1>1, <2>2, StepTyped, OpenTyped, ForceTyped, SendTextTyped, ChooseTargetTyped
<1>2. CASE (\E a \in Arrivals : Receive(a)) \/ Wire
  BY <1>2, ReceiveTyped, WireTyped
<1>3. CASE LoadModel \/ UNCHANGED vars
  BY <1>3 DEF LoadModel, vars, TypeInv, JobsTyped, ChatTyped
<1>4. CASE Restart
  <2>1. chat' = chat /\ Len(chat) \in Nat /\ ChatTyped
    BY <1>4 DEF Restart, TypeInv, ChatTyped
  <2>2. JobOK(NoJob, Len(chat))
    BY <2>1, NoJobOK
  <2>3. \A w \in All : jobs'[w] = NoJob /\ jobs' = [v \in All |-> NoJob]
    BY <1>4 DEF Restart, All
  <2>4. NoJob \in Job
    BY <2>2 DEF JobOK
  <2>5. jobs' = [v \in All |-> NoJob]
    BY <1>4 DEF Restart, All
  <2>6. JobsTyped'
    BY <2>1, <2>2, <2>3, <2>4, <2>5 DEF JobsTyped
  <2> QED
    BY <2>1, <2>6 DEF ChatTyped
<1> QED
  BY <1>1, <1>2, <1>3, <1>4 DEF Next, All

\* Languages that go into a cache are sources.
LEMMA CachesStay ==
    ASSUME TypeInv, [Next]_vars
    PROVE  CachesTyped'
<1>1. ASSUME NEW w \in All, Step(w) PROVE CachesTyped'
  <2>1. /\ JobsInv /\ CachesTyped /\ JobOK(jobs[w], Len(chat))
    BY <1>1 DEF TypeInv, JobsTyped
  <2>2. jobs[w].msg \in Ids /\ jobs[w].snap \in [Ids -> Sources]
    BY <2>1 DEF JobOK, Job
  <2>3. ASSUME jobs[w].at \in {"store", "tell"} PROVE jobs[w].lang \in Sources
    <3>1. jobs[w].kind # "send"
      BY <2>1, <2>3 DEF JobsInv, LoopJob, WorkerJob, All
    <3> QED
      BY <2>1, <3>1 DEF JobOK, Job
  <2>4. CASE UNCHANGED <<translations, file, transcripts, told, forced>>
    BY <2>1, <2>4 DEF CachesTyped
  <2>5. CASE Hear(w)
    BY <2>1, <2>2, <2>5 DEF Hear, CachesTyped, StoreTranscription
  <2>6. CASE Store(w)
    <3>1. jobs[w].lang \in Sources
      BY <2>3, <2>6 DEF Store
    <3> DEFINE k == jobs[w].msg
    <3>2. /\ translations' = [translations EXCEPT ![k] = jobs[w].lang]
          /\ UNCHANGED <<file, transcripts, told>>
      BY <2>6 DEF Store
    <3>3. \/ forced' = forced
          \/ forced' = [forced EXCEPT ![k] = [lang |-> jobs[w].lang, alone |-> ~UnderWay(k)]]
      BY <2>6 DEF Store
    <3>4. (~UnderWay(k)) \in BOOLEAN
      BY DEF UnderWay
    <3>5. [lang |-> jobs[w].lang, alone |-> ~UnderWay(k)] \in [lang : Sources, alone : BOOLEAN]
      <4> HIDE DEF k
      <4> QED
        BY <3>1, <3>4
    <3>6. forced' \in [Ids -> [lang : Sources, alone : BOOLEAN]]
      BY <2>1, <2>2, <3>3, <3>5 DEF CachesTyped
    <3> QED
      BY <2>1, <2>2, <3>1, <3>2, <3>6 DEF CachesTyped
  <2>7. CASE Tell(w)
    <3>1. jobs[w].lang \in Sources
      BY <2>3, <2>7 DEF Tell
    <3> QED
      BY <2>1, <2>2, <2>7, <3>1 DEF Tell, CachesTyped
  <2>8. CASE Write(w)
    BY <2>1, <2>2, <2>8 DEF Write, CachesTyped
  <2> QED
    BY <1>1, <2>4, <2>5, <2>6, <2>7, <2>8
    DEF Step, TakeNext, Check, Infer, TranslateFromEnglish, Save
<1>2. CASE \/ (\E a \in Arrivals : Receive(a)) \/ Open \/ SendText \/ ChooseTarget \/ Wire
           \/ LoadModel \/ UNCHANGED vars
  BY <1>2 DEF Receive, Open, SendText, ChooseTarget, Wire, LoadModel, vars, TypeInv, CachesTyped
<1>3. NotForced \in [lang : Sources, alone : BOOLEAN]
  BY Marks DEF NotForced
<1>4. CASE (\E i \in Ids : ForceTranslate(i)) \/ Restart
  BY <1>3, <1>4, Marks DEF ForceTranslate, Restart, TypeInv, CachesTyped
<1> QED
  BY <1>1, <1>2, <1>4 DEF Next, All

LEMMA RestStays ==
    ASSUME TypeInv, [Next]_vars
    PROVE  RestTyped'
<1>1. RestTyped
  BY DEF TypeInv
<1>2. ASSUME NEW what \in {"messages", "opens", "forces", "sends", "restarts"}, Spend(what)
      PROVE  left' \in [messages : Nat, opens : Nat, forces : Nat, sends : Nat, restarts : Nat]
  BY <1>1, <1>2 DEF RestTyped, Spend
<1>3. \/ UNCHANGED left
      \/ \E what \in {"messages", "opens", "forces", "sends", "restarts"} : Spend(what)
  BY DEF Next, Receive, Open, ForceTranslate, SendText, ChooseTarget, Wire, LoadModel, Restart, Step,
         TakeNext, Hear, Check, Infer, TranslateFromEnglish, Store, Tell, Save, Write, vars
<1>4. (ready' = ready \/ ready' = TRUE \/ ready' = FALSE) /\ works' = works
  BY DEF Next, Receive, Open, ForceTranslate, SendText, ChooseTarget, Wire, LoadModel, Restart, Step,
         TakeNext, Hear, Check, Infer, TranslateFromEnglish, Store, Tell, Save, Write, vars
<1> QED
  BY <1>1, <1>2, <1>3, <1>4 DEF RestTyped

LEMMA NextTypes == ASSUME TypeInv, [Next]_vars PROVE TypeInv'
<1>1. MapsInv
  BY DEF TypeInv, CachesTyped, MapsInv
<1>2. JobsInv'
  BY <1>1, NextJobs DEF TypeInv
<1> QED
  BY <1>2, ChatsTyped, CachesStay, RestStays DEF TypeInv

\* The state of the goroutines, the caches and the file is well formed.
THEOREM TypeCorrect == Spec => []TypeOK
<1>1. TypeInv => TypeOK
  BY DEF TypeInv, ChatTyped, CachesTyped, RestTyped, JobsTyped, TypeOK, All
<1> QED
  BY <1>1, InitTypes, NextTypes, PTL DEF Spec

-----------------------------------------------------------------------------
(* What a target language is chosen on *)

\* The contact's messages in a foreign language, as the decision to translate reads them.
Grounds(messages) ==
    {k \in DOMAIN messages :
        ~messages[k].me /\ IdentifyMessageLanguage(messages[k].raw) \cap Foreign # {}}
\* The contact wrote in the language l, as the look at the thread reads the messages.
NamedIn(l, messages) ==
    \E k \in DOMAIN messages :
        ~messages[k].me /\ l \in IdentifyMessageLanguage(messages[k].body)

\* A message that is about to go out translated has its grounds in the chat.
GroundsInv ==
    jobs[Loop].kind = "send" =>
        /\ (jobs[Loop].at \in {"target", "infer"} \/ jobs[Loop].lang # AsTyped) =>
              Cardinality(Grounds(chat)) >= 2
        /\ (jobs[Loop].at # "target" /\ jobs[Loop].lang \in Foreign) => NamedIn(jobs[Loop].lang, chat)

LEMMA DecisionHasGrounds ==
    ASSUME NEW messages \in Seq(Message), TRUE \in DecideAutoTranslateOutgoing(messages)
    PROVE  Cardinality(Grounds(messages)) >= 2
<1>1. IsFiniteSet(DOMAIN messages) /\ \A i \in DOMAIN messages : IsText(messages[i].raw)
  BY MessageTexts
<1>2. Cardinality(ForeignTexts(Raws(messages))) >= 2
  BY <1>1, DecisionSeesTwo
<1>3. ForeignTexts(Raws(messages)) \subseteq Grounds(messages)
  BY DEF ForeignTexts, Raws, Grounds
<1>4. IsFiniteSet(Grounds(messages))
  BY <1>1, FS_Subset DEF Grounds
<1> DEFINE f == ForeignTexts(Raws(messages))
           g == Grounds(messages)
<1>5. IsFiniteSet(f) /\ Cardinality(f) \in Nat /\ Cardinality(g) \in Nat /\ Cardinality(f) <= Cardinality(g)
  BY <1>3, <1>4, FS_Subset, FS_CardinalityType
<1> HIDE DEF f, g
<1>6. Cardinality(f) >= 2
  BY <1>2 DEF f
<1>7. Cardinality(g) >= 2
  BY <1>5, <1>6
<1> QED
  BY <1>7 DEF g

LEMMA GroundsStay ==
    ASSUME NEW messages \in Seq(Message), NEW m,
           Cardinality(Grounds(messages)) >= 2
    PROVE  Cardinality(Grounds(Append(messages, m))) >= 2
<1> DEFINE more == Append(messages, m)
           f == Grounds(messages)
           g == Grounds(more)
<1>1. f \subseteq g
  BY DEF Grounds
<1>2. IsFiniteSet(DOMAIN more)
  <2>1. DOMAIN more = DOMAIN messages \cup {Len(messages) + 1}
    OBVIOUS
  <2>2. IsFiniteSet(DOMAIN messages)
    BY MessageTexts
  <2>3. IsFiniteSet(DOMAIN messages \cup {Len(messages) + 1})
    BY <2>2, FS_AddElement
  <2> QED
    BY <2>1, <2>3
<1>3. IsFiniteSet(g)
  BY <1>2, FS_Subset DEF Grounds
<1>4. Cardinality(f) \in Nat /\ Cardinality(g) \in Nat /\ Cardinality(f) <= Cardinality(g)
  BY <1>1, <1>3, FS_Subset, FS_CardinalityType
<1>5. Cardinality(f) >= 2
  OBVIOUS
<1> HIDE DEF f, g
<1>6. Cardinality(g) >= 2
  BY <1>4, <1>5
<1> QED
  BY <1>6 DEF g

LEMMA NamedStays ==
    ASSUME NEW messages \in Seq(Message), NEW m, NEW l, NamedIn(l, messages)
    PROVE  NamedIn(l, Append(messages, m))
BY DEF NamedIn

\* A message that is added with grounds leaves those before it theirs.
LEMMA AddedHasGrounds ==
    ASSUME chat \in Seq(Message), TargetHasGrounds, NEW m, chat' = Append(chat, m),
           m.to \in Foreign => NamedIn(m.to, chat),
           m.to # AsTyped => Cardinality(Grounds(chat)) >= 2
    PROVE  TargetHasGrounds'
<1> DEFINE theirs(i) == {k \in 1..(i - 1) : ~chat[k].me}
           heard(i) == {k \in theirs(i) : IdentifyMessageLanguage(chat[k].raw) \cap Foreign # {}}
           Named(i, l) == \E k \in theirs(i) : l \in IdentifyMessageLanguage(chat[k].body)
           Right(i, to) == (to \in Foreign => Named(i, to)) /\ (to # AsTyped => Cardinality(heard(i)) >= 2)
<1>1. /\ Len(chat) \in Nat /\ DOMAIN chat = 1..Len(chat) /\ DOMAIN chat' = 1..(Len(chat) + 1)
      /\ \A k \in 1..Len(chat) : chat'[k] = chat[k]
      /\ chat'[Len(chat) + 1] = m
  OBVIOUS
<1>2. \A i \in DOMAIN chat : Right(i, chat[i].to)
  BY DEF TargetHasGrounds
<1>3. ASSUME NEW i \in 1..(Len(chat) + 1), Right(i, chat'[i].to)
      PROVE  LET new == {k \in 1..(i - 1) : ~chat'[k].me}
             IN /\ chat'[i].to \in Foreign =>
                     \E k \in new : chat'[i].to \in IdentifyMessageLanguage(chat'[k].body)
                /\ chat'[i].to # AsTyped =>
                     Cardinality({k \in new :
                                    IdentifyMessageLanguage(chat'[k].raw) \cap Foreign # {}}) >= 2
  <2> DEFINE new == {k \in 1..(i - 1) : ~chat'[k].me}
  <2>1. \A k \in 1..(i - 1) : chat'[k] = chat[k]
    BY <1>1
  <2>2. new = theirs(i)
    BY <2>1
  <2>3. {k \in new : IdentifyMessageLanguage(chat'[k].raw) \cap Foreign # {}} = heard(i)
    BY <2>1, <2>2
  <2>4. \A l : Named(i, l) => \E k \in new : l \in IdentifyMessageLanguage(chat'[k].body)
    BY <2>1, <2>2
  <2> HIDE DEF new, heard, Named
  <2> QED
    BY <1>3, <2>3, <2>4 DEF new
<1>4. Right(Len(chat) + 1, m.to)
  <2>1. theirs(Len(chat) + 1) = {k \in DOMAIN chat : ~chat[k].me}
    BY <1>1
  <2>2. heard(Len(chat) + 1) = Grounds(chat)
    BY <2>1 DEF Grounds
  <2>3. \A l : NamedIn(l, chat) => Named(Len(chat) + 1, l)
    BY <2>1 DEF NamedIn
  <2> HIDE DEF heard, Named
  <2> QED
    BY <2>2, <2>3
<1>5. \A i \in 1..(Len(chat) + 1) : Right(i, chat'[i].to)
  <2> HIDE DEF Right
  <2> QED
    BY <1>1, <1>2, <1>4
<1> HIDE DEF Right
<1> QED
  BY <1>1, <1>3, <1>5 DEF TargetHasGrounds

LEMMA SameGrounds ==
    ASSUME TargetHasGrounds, UNCHANGED chat
    PROVE  TargetHasGrounds'
BY DEF TargetHasGrounds

\* The job of the loop, when it sends, is what it was, whoever else takes a step.
LEMMA OthersLeaveSending ==
    ASSUME TypeInv, NEW w \in All, Step(w), ~TranslateFromEnglish(w), jobs'[Loop].kind = "send"
    PROVE  jobs'[Loop] = jobs[Loop]
<1>1. JobsInv /\ jobs \in [All -> Job] /\ Loop \in All
  BY DEF TypeInv, JobsTyped, All
<1>2. CASE w # Loop
  BY <1>1, <1>2 DEF Step, TakeNext, Hear, Check, Infer, Store, Tell, Save, Write, Goes
<1>3. CASE w = Loop
  <2>0. TakeNext(w) \/ Hear(w) \/ Check(w) \/ Infer(w) \/ Store(w) \/ Tell(w) \/ Save(w) \/ Write(w)
    BY DEF Step
  <2>1. jobs[Loop].kind # "send"
    BY <1>1, <1>3, <2>0 DEF TakeNext, Hear, Check, Infer, Store, Tell, Save, Write, JobsInv, LoopJob
  <2>2. jobs'[Loop].kind = jobs[Loop].kind \/ jobs'[Loop] = NoJob
    <3>1. CASE ~TakeNext(w)
      BY <1>1, <1>3, <2>0, <3>1 DEF Hear, Check, Infer, Store, Tell, Save, Write, Goes, Job
    <3>2. CASE TakeNext(w)
      BY <1>1, <1>3, <3>2 DEF TakeNext, Job
    <3> QED
      BY <3>1, <3>2
  <2> QED
    BY <2>1, <2>2 DEF NoJob
<1> QED
  BY <1>2, <1>3

LEMMA GroundsFollow ==
    ASSUME TypeInv, GroundsInv, jobs'[Loop] = jobs[Loop] \/ jobs'[Loop].kind # "send",
           \/ UNCHANGED chat
           \/ \E m : chat' = Append(chat, m)
    PROVE  GroundsInv'
<1>1. chat \in Seq(Message)
  BY DEF TypeInv, ChatTyped
<1>2. Cardinality(Grounds(chat)) >= 2 => Cardinality(Grounds(chat')) >= 2
  BY <1>1, GroundsStay
<1>3. \A l : NamedIn(l, chat) => NamedIn(l, chat')
  BY <1>1, NamedStays
<1> QED
  BY <1>2, <1>3 DEF GroundsInv

LEMMA StepGrounds ==
    ASSUME TypeInv, GroundsInv, TargetHasGrounds, NEW w \in All, Step(w)
    PROVE  GroundsInv' /\ TargetHasGrounds'
<1>1. UNCHANGED chat
  BY DEF Step, TakeNext, Hear, Check, Infer, TranslateFromEnglish, Store, Tell, Save, Write
<1>2. TargetHasGrounds'
  BY <1>1, SameGrounds
<1>3. CASE TranslateFromEnglish(w)
  <2>1. /\ jobs \in [All -> Job] /\ Loop \in All /\ w = Loop
        /\ jobs[Loop].at = "infer" /\ jobs[Loop].kind = "send"
    BY <1>3 DEF TypeInv, JobsTyped, JobsInv, WorkerJob, All, TranslateFromEnglish
  <2>2. /\ jobs'[Loop].at = "wire"
        /\ jobs'[Loop].lang = jobs[Loop].lang \/ jobs'[Loop].lang = AsTyped
    BY <1>3, <2>1 DEF TranslateFromEnglish, Job
  <2> QED
    BY <1>1, <1>2, <2>1, <2>2, TranslationAssumption DEF GroundsInv, Languages
<1>4. CASE ~TranslateFromEnglish(w)
  BY <1>1, <1>2, <1>4, OthersLeaveSending, GroundsFollow
<1> QED
  BY <1>3, <1>4

LEMMA EventGrounds ==
    ASSUME TypeInv, GroundsInv, TargetHasGrounds,
           \/ \E a \in Arrivals : Receive(a)
           \/ Open
           \/ \E i \in Ids : ForceTranslate(i)
           \/ SendText \/ ChooseTarget \/ Wire
    PROVE  GroundsInv' /\ TargetHasGrounds'
<1>1. /\ jobs \in [All -> Job] /\ Loop \in All /\ Loop \notin Workers /\ chat \in Seq(Message)
      /\ JobOK(jobs[Loop], Len(chat)) /\ LoopJob(jobs[Loop])
  BY TranslationAssumption DEF TypeInv, JobsTyped, JobsInv, ChatTyped, All
<1>2. ASSUME NEW a \in Arrivals, Receive(a) PROVE GroundsInv' /\ TargetHasGrounds'
  <2>1. a.to = AsTyped /\ AsTyped \notin Foreign
    BY TranslationAssumption DEF Languages
  <2>2. chat' = Append(chat, a) /\ jobs'[Loop] = jobs[Loop]
    BY <1>1, <1>2 DEF Receive
  <2> QED
    BY <1>1, <2>1, <2>2, GroundsFollow, AddedHasGrounds
<1>3. CASE Open
  <2>1. UNCHANGED chat /\ jobs'[Loop] = jobs[Loop]
    BY <1>1, <1>3 DEF Open
  <2> QED
    BY <2>1, GroundsFollow, SameGrounds
<1>4. ASSUME NEW i \in Ids, ForceTranslate(i) PROVE GroundsInv' /\ TargetHasGrounds'
  <2>1. jobs'[Loop].kind = "force"
    <3>1. PICK lang : jobs' = [jobs EXCEPT ![Loop] = [NoJob EXCEPT
                            !.at = "infer", !.kind = "force", !.msg = i, !.lang = lang]]
      <4> HIDE DEF NoJob
      <4> QED
        BY <1>4 DEF ForceTranslate
    <3> QED
      BY <1>1, <3>1 DEF NoJob
  <2>2. UNCHANGED chat
    BY <1>4 DEF ForceTranslate
  <2> QED
    BY <2>1, <2>2, GroundsFollow, SameGrounds
<1>5. CASE SendText
  <2>1. UNCHANGED chat
    BY <1>5 DEF SendText
  <2>2. PICK translate \in (IF ready THEN DecideAutoTranslateOutgoing(chat) ELSE {FALSE}) :
          jobs' = [jobs EXCEPT ![Loop] = [NoJob EXCEPT
                     !.at = IF translate THEN "target" ELSE "wire",
                     !.kind = "send", !.lang = AsTyped]]
    <3> HIDE DEF NoJob
    <3> QED
      BY <1>5 DEF SendText
  <2>3. /\ jobs'[Loop].lang = AsTyped
        /\ jobs'[Loop].at = IF translate THEN "target" ELSE "wire"
    BY <1>1, <2>2 DEF NoJob
  <2>4. CASE translate
    <3>1. translate = TRUE
      BY <2>4 DEF DecideAutoTranslateOutgoing
    <3>2. TRUE \in DecideAutoTranslateOutgoing(chat)
      BY <2>2, <3>1
    <3>3. Cardinality(Grounds(chat)) >= 2
      BY <1>1, <3>2, DecisionHasGrounds
    <3> QED
      BY <2>1, <2>3, <2>4, <3>3, SameGrounds DEF GroundsInv
  <2>5. CASE ~translate
    BY <2>1, <2>3, <2>5, SameGrounds, TranslationAssumption DEF GroundsInv, Languages
  <2> QED
    BY <2>4, <2>5
<1>6. CASE ChooseTarget
  <2>1. UNCHANGED chat
    BY <1>6 DEF ChooseTarget
  <2>2. PICK thread \in ThreadLanguage(chat) :
          jobs' = [jobs EXCEPT ![Loop].at = "infer", ![Loop].lang = thread.lang]
    BY <1>6 DEF ChooseTarget
  <2>3. jobs'[Loop].at = "infer" /\ jobs'[Loop].lang = thread.lang /\ jobs'[Loop].kind = jobs[Loop].kind
    BY <1>1, <2>2 DEF Job
  <2>4. thread.lang \in Foreign => NamedIn(thread.lang, chat)
    BY <1>1, ThreadOfChat DEF NamedIn
  <2>5. jobs[Loop].at = "target"
    BY <1>6 DEF ChooseTarget
  <2> QED
    BY <2>1, <2>3, <2>4, <2>5, SameGrounds DEF GroundsInv
<1>7. CASE Wire
  <2> DEFINE to == jobs[Loop].lang
             text == Written(IF to \in Foreign THEN to ELSE English)
             m == [me |-> TRUE, raw |-> text, body |-> text, voice |-> Empty, to |-> to]
  <2>1. jobs'[Loop] = NoJob /\ (UNCHANGED chat \/ chat' = Append(chat, m))
    <3>1. CASE jobs' = [jobs EXCEPT ![Loop] = NoJob]
      BY <1>1, <1>7, <3>1 DEF Wire
    <3>2. CASE jobs' # [jobs EXCEPT ![Loop] = NoJob]
      <4>1. chat' = Append(chat, m)
        BY <1>7, <3>2 DEF Wire
      <4>2. PICK w \in Workers : \E job : jobs' = [jobs EXCEPT ![Loop] = NoJob, ![w] = job]
        <5>1. \E w \in Workers :
                jobs' = [jobs EXCEPT ![Loop] = NoJob,
                                     ![w] = IF to = AsTyped THEN @ ELSE Fresh("echo", Len(chat)')]
          BY <1>7, <3>2 DEF Wire
        <5> HIDE DEF Fresh
        <5> QED
          BY <5>1
      <4> QED
        BY <1>1, <4>1, <4>2
    <3> QED
      BY <3>1, <3>2
  <2>2. jobs'[Loop].kind # "send"
    BY <2>1 DEF NoJob
  <2>3. GroundsInv'
    BY <2>1, <2>2 DEF GroundsInv
  <2>4. jobs[Loop].at = "wire" /\ jobs[Loop].kind = "send"
    BY <1>1, <1>7 DEF Wire, LoopJob
  <2>5. /\ to \in Foreign => NamedIn(to, chat)
        /\ to # AsTyped => Cardinality(Grounds(chat)) >= 2
        /\ m.to = to
    BY <2>4 DEF GroundsInv
  <2> HIDE DEF m
  <2> QED
    BY <1>1, <2>1, <2>3, <2>5, AddedHasGrounds, SameGrounds
<1> QED
  BY <1>2, <1>3, <1>4, <1>5, <1>6, <1>7

LEMMA NextGrounds ==
    ASSUME TypeInv, GroundsInv, TargetHasGrounds, [Next]_vars
    PROVE  GroundsInv' /\ TargetHasGrounds'
<1>1. CASE LoadModel \/ UNCHANGED vars
  BY <1>1, GroundsFollow, SameGrounds DEF LoadModel, vars
<1>2. CASE Restart
  <2>1. UNCHANGED chat /\ jobs'[Loop] = NoJob
    BY <1>2 DEF Restart
  <2> QED
    BY <2>1, SameGrounds DEF GroundsInv, NoJob
<1> QED
  BY <1>1, <1>2, StepGrounds, EventGrounds DEF Next, All

\* A message goes out translated only on the grounds that the chat has (sendText,
\* decideAutoTranslateOutgoing, detectThreadLanguage): two messages of the contact in a
\* foreign language before it, and one in the language that it goes out in.
THEOREM TargetGrounded == Spec => []TargetHasGrounds
<1>1. Init => GroundsInv /\ TargetHasGrounds
  <2> SUFFICES ASSUME Init PROVE GroundsInv /\ TargetHasGrounds
    OBVIOUS
  <2>1. jobs[Loop] = NoJob /\ chat = << >>
    BY DEF Init
  <2>2. TargetHasGrounds
    BY <2>1 DEF TargetHasGrounds
  <2> QED
    BY <2>1, <2>2 DEF GroundsInv, NoJob
<1>2. TypeInv /\ GroundsInv /\ TargetHasGrounds /\ [Next]_vars
        => (TypeInv /\ GroundsInv /\ TargetHasGrounds)'
  BY NextTypes, NextGrounds
<1> QED
  BY <1>1, <1>2, InitTypes, PTL DEF Spec
=============================================================================
