---------------------------- MODULE HistoryRefetch ----------------------------
(***************************************************************************)
(* The one-shot backfill of old messages: runRefetch of                    *)
(* backend/cmd/server/refetch.go and RefetchHistory of                     *)
(* backend/messages/history_refetch.go, with the part of handleHistorySync *)
(* that answers them.                                                      *)
(*                                                                         *)
(* The refetch asks the phone for the messages before an anchor, waits for *)
(* the answer or a timeout, and goes on from the oldest message of the     *)
(* answer.  Answers are ordinary history syncs on another goroutine: each  *)
(* is stored, published to the waiter of its chat, and reported as a miss  *)
(* to any other waiter.  Nothing in an answer tells which request it is    *)
(* for, and answers may be late or never come.                             *)
(*                                                                         *)
(* A message is a number; newer messages of a chat have greater numbers.   *)
(***************************************************************************)
EXTENDS Naturals, Sequences, FiniteSets

CONSTANTS
    Chats,          \* chats
    Asked,          \* the chats to refetch, in their order, none twice
    Phone,          \* what the phone has of each chat
    Cached,         \* what the cache file of a chat may hold at first
    Live,           \* new messages that may arrive live
    Secret,         \* the newest message id of each chat in whatsmeow's table, or Blank
    At,             \* the second each message was sent in
    Since,          \* the lower bound that the user gave
    PageSize, MaxPages, SaveEvery, InitialAnchors

Blank == 0                                  \* the id of an anchor without a message
Ids == DOMAIN At
Now == 1 + At[CHOOSE i \in Ids : \A j \in Ids : At[j] <= At[i]]

ASSUME RefetchAssumption ==
    /\ Asked \in Seq(Chats)
    /\ \A i, j \in DOMAIN Asked : Asked[i] = Asked[j] => i = j
    /\ Ids \subseteq Nat \ {Blank} /\ Ids # {} /\ IsFiniteSet(Ids)
    /\ \A i, j \in Ids : At[i] \in Nat /\ (i < j => At[i] <= At[j])
    /\ Phone \in [Chats -> SUBSET Ids] /\ Live \in [Chats -> SUBSET Ids]
    /\ Cached \in [Chats -> SUBSET SUBSET Ids]
    /\ Secret \in [Chats -> Ids \cup {Blank}]
    /\ {PageSize, MaxPages, SaveEvery, InitialAnchors} \subseteq Nat \ {0}
    /\ Since \in Nat

VARIABLES
    stage,          \* of the process: waiting for the session, paging, ended
    loader,         \* loadRecentChats: connecting, loaded, ready
    disk,           \* the message file
    memory,         \* the messages in the store
    flushPending,   \* a cache refresh is scheduled
    interrupted,    \* the context was cancelled
    job,            \* where RefetchHistory stands
    result,         \* its results
    asked,          \* requests that the phone has not answered
    sent,           \* how many requests were sent
    late,           \* how many of them after the interrupt (read by no action)
    waiter,         \* the request that waits, or NoWaiter
    mail,           \* the first page in its channel, or NoPage
    handler         \* what the history goroutine has still to tell

vars == <<stage, loader, disk, memory, flushPending, interrupted, job, result, asked,
          sent, late, waiter, mail, handler>>
process == <<stage, loader, interrupted>>
store == <<disk, memory, flushPending>>
wires == <<asked, sent, late, waiter, mail>>

Anchors == [id : Ids \cup {Blank}, at : Nat]
NoWaiter == 0
NoPage == [chat |-> "none"]
Miss == [returned |-> 0, added |-> 0, oldest |-> Blank]
Reasons == {"none", "interrupted", "timeout", "failed", "empty", "noProgress", "since", "maxPages"}

\* What one answer held for its chat.
Pages == [returned : Nat, added : Nat, oldest : Ids \cup {Blank}]

\* No result yet; start is the oldest message that paging has begun at (read by no
\* action).
Newer == 1 + CHOOSE i \in Ids : \A j \in Ids : j <= i
Fresh == [pages |-> 0, added |-> 0, oldest |-> Now, start |-> Newer, reason |-> "none"]

AtChat(i) == [at |-> "chat", number |-> i, page |-> 1, tries |-> << >>, seen |-> {}]

TypeOK ==
    /\ stage \in {"waiting", "paging", "ended"}
    /\ loader \in {"connecting", "loaded", "ready"}
    /\ disk \in [Chats -> SUBSET Ids] /\ memory \in [Chats -> SUBSET Ids]
    /\ flushPending \in BOOLEAN /\ interrupted \in BOOLEAN
    /\ job.at \in {"chat", "delay", "page", "request", "await", "retry", "over"}
    /\ job.number \in 1..(Len(Asked) + 1)
    /\ job.page \in 1..MaxPages
    /\ job.tries \in Seq(Anchors) /\ job.seen \subseteq Ids \cup {Blank}
    /\ job.at \in {"request", "await", "retry", "page"} =>
         job.tries # << >> /\ job.number <= Len(Asked)
    /\ result \in [Chats -> [pages : 0..MaxPages, added : Nat, oldest : Nat, start : Nat,
                             reason : Reasons]]
    /\ sent \in Nat /\ late \in Nat
    /\ asked \subseteq [number : 1..sent, chat : Chats, anchor : Anchors]
    /\ waiter \in {NoWaiter, sent}
    /\ mail \in Pages \cup {NoPage}
    /\ mail # NoPage => waiter # NoWaiter
    /\ handler.at \in {"idle", "publish", "misses"}

Init ==
    /\ stage = "waiting"
    /\ loader = "connecting"
    /\ disk \in {d \in [Chats -> SUBSET Ids] : \A c \in Chats : d[c] \in Cached[c]}
    /\ memory = [c \in Chats |-> {}]
    /\ flushPending = FALSE
    /\ interrupted = FALSE
    /\ job = AtChat(1)
    /\ result = [c \in Chats |-> Fresh]
    /\ asked = {} /\ sent = 0 /\ late = 0
    /\ waiter = NoWaiter /\ mail = NoPage
    /\ handler = [at |-> "idle"]

-----------------------------------------------------------------------------
(* The session and the process *)

Running == stage # "ended"
Stands(at) == stage = "paging" /\ job.at = at

\* loadRecentChats reads the cache once the session is connected, ...
Load ==
    /\ Running
    /\ loader = "connecting"
    /\ loader' = "loaded"
    /\ memory' = [c \in Chats |-> memory[c] \cup disk[c]]
    /\ UNCHANGED <<stage, disk, flushPending, interrupted, job, result, wires, handler>>

\* ... and says that it has when contacts and settings are there too.
MarkReady ==
    /\ Running
    /\ loader = "loaded"
    /\ loader' = "ready"
    /\ disk' = memory
    /\ UNCHANGED <<stage, memory, flushPending, interrupted, job, result, wires, handler>>

StartPaging ==
    /\ stage = "waiting"
    /\ loader = "ready"
    /\ stage' = "paging"
    /\ UNCHANGED <<loader, interrupted, store, job, result, wires, handler>>

\* Shutdown stops the scheduled refresh and saves what is in memory.
Shutdown ==
    /\ stage' = "ended"
    /\ disk' = memory
    /\ flushPending' = FALSE
    /\ UNCHANGED <<loader, memory, interrupted, job, result, wires, handler>>

\* WaitUntilReady: the deadline, the interrupt, or an unpaired session.
GiveUpWaiting == stage = "waiting" /\ Shutdown

Finish == Stands("over") /\ Shutdown

Interrupt ==
    /\ Running
    /\ ~interrupted
    /\ interrupted' = TRUE
    /\ UNCHANGED <<stage, loader, store, job, result, wires, handler>>

\* A second signal exits at once.
Kill ==
    /\ Running
    /\ interrupted
    /\ stage' = "ended"
    /\ UNCHANGED <<loader, interrupted, store, job, result, wires, handler>>

-----------------------------------------------------------------------------
(* RefetchHistory *)

chat == Asked[job.number]
anchor == Head(job.tries)

\* The i-th newest message of a set.
Newest(S, i) == CHOOSE m \in S : Cardinality({k \in S : k > m}) = i - 1

\* initialRefetchAnchors, or what there is to try for a chat without messages.
Candidates(c) ==
    LET blank == [id |-> Blank, at |-> Now]
        n == Cardinality(memory[c])
    IN IF n > 0
       THEN [i \in 1..(IF n < InitialAnchors THEN n ELSE InitialAnchors) |->
               [id |-> Newest(memory[c], i), at |-> At[Newest(memory[c], i)]]]
       ELSE IF Secret[c] # Blank THEN <<[id |-> Secret[c], at |-> Now], blank>>
       ELSE <<blank>>

\* The chat is over: its result is recorded and the caches are saved.
EndChat(r) ==
    /\ result' = [result EXCEPT ![chat] = r]
    /\ job' = AtChat(job.number + 1)
    /\ disk' = memory
    /\ UNCHANGED <<memory, flushPending>>

Stopped(reason) == EndChat([result[chat] EXCEPT !.reason = reason])

NextChat ==
    /\ Stands("chat")
    /\ IF job.number > Len(Asked)
       THEN job' = [job EXCEPT !.at = "over"] /\ UNCHANGED result
       ELSE IF interrupted
       THEN /\ job' = AtChat(job.number + 1)
            /\ result' = [result EXCEPT ![chat].reason = "interrupted"]
       ELSE job' = [job EXCEPT !.at = "delay"] /\ UNCHANGED result
    /\ UNCHANGED <<process, store, wires, handler>>

\* The pause before a chat ends, or before all but the first is cut short.
BeginChat ==
    /\ Stands("delay")
    /\ \/ /\ job' = [job EXCEPT !.at = "request", !.page = 1, !.tries = Candidates(chat), !.seen = {}]
          /\ UNCHANGED result
       \/ /\ interrupted /\ job.number > 1
          /\ job' = AtChat(job.number + 1)
          /\ result' = [result EXCEPT ![chat].reason = "interrupted"]
    /\ UNCHANGED <<process, store, wires, handler>>

\* sleepCtx before the next page or attempt: a pause that is over when the context
\* is cancelled may end either way.
Pause ==
    /\ Stands("page") \/ Stands("retry")
    /\ \/ job' = [job EXCEPT !.at = "request"] /\ UNCHANGED <<store, result>>
       \/ interrupted /\ Stopped("interrupted")
    /\ UNCHANGED <<process, wires, handler>>

\* requestHistoryPage subscribes, then sends.
Request ==
    /\ Stands("request")
    /\ job' = [job EXCEPT !.at = "await"]
    /\ sent' = sent + 1
    /\ late' = IF interrupted THEN late + 1 ELSE late
    /\ asked' = asked \cup {[number |-> sent + 1, chat |-> chat, anchor |-> anchor]}
    /\ waiter' = sent + 1
    /\ result' = IF job.page = 1 /\ anchor.id # Blank /\ anchor.id < result[chat].start
                 THEN [result EXCEPT ![chat].start = anchor.id]
                 ELSE result
    /\ UNCHANGED <<process, store, mail, handler>>

\* Mutant: the context is not looked at after an attempt.
AttemptFailedRegardless(reason) ==
    IF Len(job.tries) = 1
    THEN Stopped(reason)
    ELSE /\ job' = [job EXCEPT !.at = "retry", !.tries = Tail(@)]
         /\ UNCHANGED <<store, result>>

\* An attempt that failed is followed by the next one, if there is one.
AttemptFailed(reason) ==
    IF interrupted THEN Stopped("interrupted")
    ELSE IF Len(job.tries) = 1 THEN Stopped(reason)
    ELSE /\ job' = [job EXCEPT !.at = "retry", !.tries = Tail(@)]
         /\ UNCHANGED <<store, result>>

SendFails ==
    /\ Stands("request")
    /\ AttemptFailed("failed")
    /\ UNCHANGED <<process, wires, handler>>

\* Mutant: only the first page has a timeout.
TimeOutFirst ==
    /\ Stands("await")
    /\ job.page = 1
    /\ AttemptFailed("timeout")
    /\ waiter' = NoWaiter /\ mail' = NoPage
    /\ UNCHANGED <<process, asked, sent, late, handler>>

\* Mutant: the request that timed out stays subscribed.
TimeOutSubscribed ==
    /\ Stands("await")
    /\ AttemptFailed("timeout")
    /\ waiter' = NoWaiter
    /\ UNCHANGED <<process, asked, sent, late, mail, handler>>

TimeOut ==
    /\ Stands("await")
    /\ AttemptFailed("timeout")
    /\ waiter' = NoWaiter /\ mail' = NoPage
    /\ UNCHANGED <<process, asked, sent, late, handler>>

WaitInterrupted ==
    /\ Stands("await")
    /\ interrupted
    /\ Stopped("interrupted")
    /\ waiter' = NoWaiter /\ mail' = NoPage
    /\ UNCHANGED <<process, asked, sent, late, handler>>

\* What a page adds to the result of its chat.
Counted(got) ==
    [result[chat] EXCEPT
        !.pages = @ + 1,
        !.added = @ + got.added,
        !.oldest = IF got.returned > 0 /\ At[got.oldest] < @ THEN At[got.oldest] ELSE @]

\* Why paging ends with a page, if it does.
ReasonToStop(got) ==
    IF got.returned = 0 THEN "empty"
    ELSE IF got.oldest = anchor.id \/ At[got.oldest] > anchor.at \/ got.oldest \in job.seen
    THEN "noProgress"
    ELSE IF At[got.oldest] < Since THEN "since"
    ELSE IF job.page = MaxPages THEN "maxPages"
    ELSE "none"

TakePage ==
    /\ Stands("await")
    /\ mail # NoPage
    /\ IF interrupted THEN Stopped("interrupted")
       ELSE IF ReasonToStop(mail) # "none"
       THEN EndChat([Counted(mail) EXCEPT !.reason = ReasonToStop(mail)])
       ELSE LET oldest == [id |-> mail.oldest, at |-> At[mail.oldest]]
            IN /\ result' = [result EXCEPT ![chat] = Counted(mail)]
               /\ job' = [job EXCEPT !.at = "page", !.page = @ + 1, !.tries = <<oldest, oldest>>,
                                     !.seen = @ \cup {anchor.id}]
               /\ disk' = IF job.page % SaveEvery = 0 THEN memory ELSE disk
               /\ UNCHANGED <<memory, flushPending>>
    /\ waiter' = NoWaiter /\ mail' = NoPage
    /\ UNCHANGED <<process, asked, sent, late, handler>>

-----------------------------------------------------------------------------
(* The history goroutine *)

\* The messages that the phone sends for an anchor, if it knows it: the newest ones
\* before it.
Before(c, a) == {m \in Phone[c] : a.id = Blank \/ m < a.id}
Answer(c, a) ==
    {m \in Before(c, a) : Cardinality({k \in Before(c, a) : k > m}) < PageSize}
Knows(c, a) == a.id \in Phone[c] \cup {Blank}

\* Mutant: the messages of an answer are counted and not stored.
ReceiveUnstored(r) ==
    /\ Running
    /\ handler.at = "idle"
    /\ Knows(r.chat, r.anchor)
    /\ asked' = asked \ {r}
    /\ LET page == Answer(r.chat, r.anchor)
       IN \E oldest \in {m \in page : \A k \in page : At[m] <= At[k]} :
            handler' = [at |-> "publish", chat |-> r.chat,
              page |-> [returned |-> Cardinality(page), added |-> 0, oldest |-> oldest]]
    /\ UNCHANGED <<process, store, job, result, sent, late, waiter, mail>>

\* handleHistorySync stores the messages and schedules a save.  An answer that holds
\* nothing holds no chat either.
Receive(r) ==
    /\ Running
    /\ handler.at = "idle"
    /\ Knows(r.chat, r.anchor)
    /\ asked' = asked \ {r}
    /\ LET page == Answer(r.chat, r.anchor)
           added == Cardinality(page \ memory[r.chat])
       IN /\ memory' = [memory EXCEPT ![r.chat] = @ \cup page]
          /\ IF page = {}
             THEN handler' = [at |-> "misses", served |-> NoWaiter]
             ELSE \E oldest \in {m \in page : \A k \in page : At[m] <= At[k]} :
                    handler' = [at |-> "publish", chat |-> r.chat,
                      page |-> [returned |-> Cardinality(page), added |-> added, oldest |-> oldest]]
    /\ flushPending' = TRUE
    /\ UNCHANGED <<process, disk, job, result, sent, late, waiter, mail>>

\* A page enters the waiter's channel; what follows the first is never read.
Delivered(page) == IF mail = NoPage THEN page ELSE mail

\* publishHistoryPage tells the waiter of the chat.
Publish ==
    /\ Running
    /\ handler.at = "publish"
    /\ LET served == waiter # NoWaiter /\ chat = handler.chat
       IN /\ mail' = IF served THEN Delivered(handler.page) ELSE mail
          /\ handler' = [at |-> "misses", served |-> IF served THEN waiter ELSE NoWaiter]
    /\ UNCHANGED <<process, store, job, result, asked, sent, late, waiter>>

\* publishHistoryMisses tells the waiter that there is now, unless it was served.
TellMisses ==
    /\ Running
    /\ handler.at = "misses"
    /\ mail' = IF waiter \notin {NoWaiter, handler.served} THEN Delivered(Miss) ELSE mail
    /\ handler' = [at |-> "idle"]
    /\ UNCHANGED <<process, store, job, result, asked, sent, late, waiter>>

\* A live message is stored and saved.
ReceiveLive(c, m) ==
    /\ Running
    /\ m \notin memory[c]
    /\ memory' = [memory EXCEPT ![c] = @ \cup {m}]
    /\ disk' = memory'
    /\ UNCHANGED <<process, flushPending, job, result, wires, handler>>

\* The scheduled refresh saves.
Flush ==
    /\ Running
    /\ flushPending
    /\ flushPending' = FALSE
    /\ disk' = memory
    /\ UNCHANGED <<process, memory, job, result, wires, handler>>

-----------------------------------------------------------------------------

Paging == NextChat \/ BeginChat \/ Pause \/ Request \/ SendFails \/ TimeOut
            \/ WaitInterrupted \/ TakePage
Process == StartPaging \/ GiveUpWaiting \/ Finish
Answering == Publish \/ TellMisses \/ \E r \in asked : Receive(r)
Signals == Interrupt \/ Kill
Session == Load \/ MarkReady \/ Flush \/ \E c \in Chats : \E m \in Live[c] : ReceiveLive(c, m)

Next == Process \/ Signals \/ Session \/ Answering \/ Paging

Spec == Init /\ [][Next]_vars

\* Deadlines and timeouts expire and the refetch goes on when it can.  Nothing is
\* assumed of the phone, the connection or the user.
FairSpec ==
    /\ Spec
    /\ WF_vars(Process) /\ WF_vars(Paging)

-----------------------------------------------------------------------------
(* Properties *)

\* The summary reports how far back a chat was paged.  Whatever the phone has from
\* there to the oldest anchor that paging began at is stored, although answers come
\* late, twice, or for an attempt that was given up.
OldestIsReached ==
    \A c \in Chats : result[c].pages > 0 =>
        {m \in Phone[c] : At[m] > result[c].oldest /\ m < result[c].start} \subseteq memory[c]

\* After the interrupt at most the request that was about to go out goes out.
StopsAfterInterrupt == late <= 1

\* The refetch comes to its end with a phone that never answers and a connection that
\* never comes up.
RefetchEnds == <>(stage = "ended")

\* "phone returned no older messages" is reported of a chat only when everything that
\* the phone has before the first anchor is stored.
EmptyMeansEnd ==
    \A c \in Chats : result[c].reason = "empty" =>
        {m \in Phone[c] : m < result[c].start} \subseteq memory[c]

\* The refetch only adds to the cache: no save removes messages from the file.
FilesOnlyGrow == [][\A c \in Chats : disk[c] \subseteq disk'[c]]_vars

=============================================================================
