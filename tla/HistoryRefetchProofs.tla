------------------------ MODULE HistoryRefetchProofs ------------------------
(***************************************************************************)
(* Theorems about HistoryRefetch, for every list of chats, every history   *)
(* that the phone and the disk may have, and all sizes of pages: the type, *)
(* that nothing that the phone has is missing between where a chat's       *)
(* paging began and the oldest message that the results name, and that the *)
(* interrupt ends the paging.                                              *)
(*                                                                         *)
(* The invariant behind the second, CoverInv, says the same of every place *)
(* that a result can come from: requests on their way, the answer that the *)
(* history goroutine has stored and not told yet, the page in the channel, *)
(* and the anchors still to try.                                           *)
(***************************************************************************)
EXTENDS HistoryRefetch, FiniteSetTheorems, SequenceTheorems, TLAPS

-----------------------------------------------------------------------------
(* Greatest numbers *)

\* A finite set of numbers has a greatest one: otherwise take a least subset without.
LEMMA GreatestOfFinite ==
    ASSUME NEW S, IsFiniteSet(S), S \subseteq Nat, S # {}
    PROVE  \E n \in S : \A m \in S : m <= n
<1> DEFINE Bad == {T \in SUBSET S : T # {} /\ \A n \in T : \E m \in T : ~ (m <= n)}
<1> SUFFICES ASSUME Bad # {} PROVE FALSE
  OBVIOUS
<1>1. /\ Bad \subseteq FiniteSubsetsOf(S)
      /\ IsWellFoundedOn(StrictSubsetOrdering(S), FiniteSubsetsOf(S))
  BY FS_Subset, FS_StrictSubsetOrderingWellFounded DEF FiniteSubsetsOf
<1> HIDE DEF Bad
<1>2. PICK T \in Bad : \A U \in Bad : <<U, T>> \notin StrictSubsetOrdering(S)
  BY <1>1, WFMin
<1>3. T \in SUBSET S /\ T # {} /\ \A n \in T : \E m \in T : ~ (m <= n)
  BY DEF Bad
<1>4. PICK x \in T : TRUE
  BY <1>3
<1> DEFINE U == T \ {x}
<1>5. U # {}
  BY <1>3
<1>6. U \in SUBSET S /\ U \subseteq T /\ U # T
  BY <1>3
<1>7. <<U, T>> \in StrictSubsetOrdering(S)
  BY <1>3, <1>6 DEF StrictSubsetOrdering
<1>8. U \notin Bad
  BY <1>2, <1>7
<1>9. PICK n \in U : \A m \in U : m <= n
  BY <1>5, <1>6, <1>8 DEF Bad
<1>10. PICK k \in T : ~ (k <= n)
  BY <1>3, <1>6, <1>9
<1>11. k = x
  BY <1>9, <1>10
<1>12. PICK j \in T : ~ (j <= x)
  BY <1>3
<1> QED
  BY <1>3, <1>9, <1>10, <1>11, <1>12

\* The i-th newest message of a set is one of it: that before the (i-1)-th one.
LEMMA NewestExists ==
    ASSUME NEW S, IsFiniteSet(S), S \subseteq Nat, NEW i \in 1..Cardinality(S)
    PROVE  Newest(S, i) \in S
<1> DEFINE Later(m) == {k \in S : k > m}
           Has(n) == \E m \in S : Cardinality(Later(m)) = n - 1
           Bad == {n \in 1..Cardinality(S) : ~Has(n)}
<1>1. Cardinality(S) \in Nat /\ S # {}
  BY FS_CardinalityType, FS_EmptySet
<1>2. \A m : IsFiniteSet(Later(m)) /\ Cardinality(Later(m)) \in Nat
  BY FS_Subset, FS_CardinalityType
<1>3. ASSUME NEW n \in 1..Cardinality(S), \A k \in 1..(n - 1) : Has(k) PROVE Has(n)
  <2>1. CASE n = 1
    <3>1. PICK m \in S : \A k \in S : k <= m
      BY <1>1, GreatestOfFinite
    <3>2. Later(m) = {}
      <4>1. \A k \in S : ~ (k > m)
        BY <3>1
      <4> QED
        BY <4>1
    <3> QED
      BY <2>1, <3>2, FS_EmptySet
  <2>2. CASE n > 1
    <3>1. n - 1 \in 1..(n - 1) /\ n \in Nat
      BY <1>1, <2>2
    <3>2. PICK m \in S : Cardinality(Later(m)) = (n - 1) - 1
      BY <1>3, <3>1
    <3> DEFINE Before_ == {k \in S : k < m}
    <3>3. Later(m) \cup {m} \cup Before_ = S /\ m \notin Later(m)
      <4>1. \A k \in S : k > m \/ k = m \/ k < m
        OBVIOUS
      <4>2. ~ (m > m)
        OBVIOUS
      <4> QED
        BY <4>1, <4>2
    <3>4. IsFiniteSet(Later(m) \cup {m}) /\ Cardinality(Later(m) \cup {m}) = n - 1
      <4>1. /\ IsFiniteSet(Later(m) \cup {m})
            /\ Cardinality(Later(m) \cup {m}) = Cardinality(Later(m)) + 1
        BY <1>2, <3>3, FS_AddElement
      <4> HIDE DEF Later
      <4> QED
        BY <3>1, <3>2, <4>1
    <3>5. Before_ # {}
      <4> SUFFICES ASSUME Before_ = {} PROVE FALSE
        OBVIOUS
      <4>1. Later(m) \cup {m} = S
        BY <3>3
      <4> QED
        BY <1>1, <3>4, <4>1
    <3>6. IsFiniteSet(Before_) /\ Before_ \subseteq Nat
      BY FS_Subset
    <3>7. PICK p \in Before_ : \A k \in Before_ : k <= p
      BY <3>5, <3>6, GreatestOfFinite
    <3>8. Later(p) = Later(m) \cup {m}
      <4>1. \A k \in S : k > p <=> k > m \/ k = m
        BY <3>7
      <4> QED
        BY <4>1
    <3> QED
      BY <3>4, <3>7, <3>8
  <2> QED
    BY <1>1, <2>1, <2>2
<1>4. Bad = {}
  <2> SUFFICES ASSUME Bad # {} PROVE FALSE
    OBVIOUS
  <2>1. Bad \subseteq Nat /\ Bad # {}
    BY <1>1
  <2>2. PICK n \in Bad : \A k \in Bad : n <= k
    <3> DEFINE Mirror == {Cardinality(S) - k : k \in Bad}
    <3>1. Mirror \subseteq Nat /\ Mirror # {} /\ \A k \in Mirror : k <= Cardinality(S)
      BY <1>1
    <3>2. IsFiniteSet(Mirror)
      BY <1>1, <3>1, FS_BoundedSetOfNaturals
    <3> HIDE DEF Mirror
    <3>3. PICK g \in Mirror : \A k \in Mirror : k <= g
      BY <3>1, <3>2, GreatestOfFinite
    <3>4. PICK n \in Bad : g = Cardinality(S) - n
      BY DEF Mirror
    <3>5. \A k \in Bad : Cardinality(S) - k <= Cardinality(S) - n
      BY <3>3, <3>4 DEF Mirror
    <3> HIDE DEF Bad
    <3> QED
      BY <1>1, <2>1, <3>5
  <2>3. \A k \in 1..(n - 1) : Has(k)
    <3> SUFFICES ASSUME NEW k \in 1..(n - 1), ~Has(k) PROVE FALSE
      OBVIOUS
    <3>1. k \in Bad
      BY <1>1
    <3> HIDE DEF Bad
    <3>2. n <= k /\ n \in Nat /\ k \in Nat
      BY <2>1, <2>2, <3>1
    <3> QED
      BY <3>2
  <2> QED
    BY <1>3, <2>3
<1>5. Has(i)
  BY <1>4
<1> QED
  BY <1>5 DEF Newest

\* Times and ids of messages, and what is beyond all of them.
LEMMA Beyond ==
    /\ Ids \subseteq Nat /\ Blank \notin Ids /\ Now \in Nat /\ Newer \in Nat
    /\ \A i \in Ids : At[i] \in Nat /\ At[i] < Now /\ i < Newer
<1>1. Ids \subseteq Nat /\ Ids # {} /\ IsFiniteSet(Ids) /\ Blank \notin Ids
  BY RefetchAssumption
<1>2. PICK g \in Ids : \A j \in Ids : j <= g
  BY <1>1, GreatestOfFinite
<1>3. \A j \in Ids : At[j] \in Nat /\ At[j] <= At[g]
  BY <1>1, <1>2, RefetchAssumption
<1>4. Now \in Nat /\ \A j \in Ids : At[j] < Now
  <2> DEFINE Last == CHOOSE i \in Ids : \A j \in Ids : At[j] <= At[i]
  <2>1. Last \in Ids /\ \A j \in Ids : At[j] <= At[Last]
    BY <1>3
  <2>2. Now = 1 + At[Last]
    BY DEF Now
  <2> QED
    BY <1>3, <2>1, <2>2
<1>5. Newer \in Nat /\ \A j \in Ids : j < Newer
  <2> DEFINE Last == CHOOSE i \in Ids : \A j \in Ids : j <= i
  <2>1. Last \in Ids /\ \A j \in Ids : j <= Last
    BY <1>2
  <2>2. Newer = 1 + Last
    BY DEF Newer
  <2> HIDE DEF Last
  <2> QED
    BY <1>1, <2>1, <2>2
<1> QED
  BY <1>1, <1>3, <1>4, <1>5

-----------------------------------------------------------------------------
(* The type *)

Job == [at : {"chat", "delay", "page", "request", "await", "retry", "over"},
        number : 1..(Len(Asked) + 1), page : 1..MaxPages,
        tries : Seq(Anchors), seen : SUBSET (Ids \cup {Blank})]
Result == [pages : 0..MaxPages, added : Nat, oldest : Nat, start : Nat, reason : Reasons]

StoreType ==
    /\ stage \in {"waiting", "paging", "ended"}
    /\ loader \in {"connecting", "loaded", "ready"}
    /\ disk \in [Chats -> SUBSET Ids] /\ memory \in [Chats -> SUBSET Ids]
    /\ flushPending \in BOOLEAN /\ interrupted \in BOOLEAN

\* Where a chat is being paged, its number is one of those asked for.
JobType ==
    /\ job \in Job
    /\ job.at \in {"delay", "request", "await", "retry", "page"} => job.number <= Len(Asked)
    /\ job.at \in {"request", "await", "retry", "page"} => job.tries # << >>
    /\ job.at \in {"chat", "delay", "over"} => job.page = 1

\* The chats that are still to come have no pages, and this one those before the page.
ResultType ==
    /\ result \in [Chats -> Result]
    /\ \A n \in job.number..Len(Asked) :
         result[Asked[n]].pages <= IF n = job.number THEN job.page - 1 ELSE 0

WireType ==
    /\ sent \in Nat
    /\ asked \subseteq [number : 1..sent, chat : Chats, anchor : Anchors]
    /\ waiter \in {NoWaiter, sent}
    /\ waiter # NoWaiter => job.at = "await"
    /\ mail \in Pages \cup {NoPage}
    /\ mail # NoPage => waiter # NoWaiter /\ (mail.returned > 0 => mail.oldest \in Ids)

HandlerType ==
    /\ handler.at \in {"idle", "publish", "misses"}
    /\ handler.at = "publish" =>
         handler.chat \in Chats /\ handler.page \in Pages /\ handler.page.oldest \in Ids

\* After the interrupt no request follows the one that was about to go out.
LateType ==
    /\ late \in 0..1
    /\ late = 1 => interrupted /\ job.at \in {"await", "chat", "over"}

RefetchType == StoreType /\ JobType /\ ResultType /\ WireType /\ HandlerType /\ LateType

-----------------------------------------------------------------------------
(* What is stored *)

\* Everything that the phone has of a chat between a message and the start of its paging.
Covered(c, i) == \A m \in Phone[c] : i <= m /\ m < result[c].start => m \in memory[c]

\* What is newer than where a request, an answer, an anchor to try or a result ends is
\* stored.
AskedCover == \A r \in asked : r.anchor.id # Blank => Covered(r.chat, r.anchor.id)
AnswerCover == handler.at = "publish" => Covered(handler.chat, handler.page.oldest)
MailCover == mail # NoPage /\ mail.returned > 0 => Covered(chat, mail.oldest)
TriesCover ==
    job.page > 1 =>
      \A n \in 1..Len(job.tries) : job.tries[n].id # Blank /\ Covered(chat, job.tries[n].id)
ResultCover ==
    \A c \in Chats : \/ result[c].oldest = Now
                     \/ \E i \in Ids : At[i] = result[c].oldest /\ Covered(c, i)

CoverInv == AskedCover /\ AnswerCover /\ MailCover /\ TriesCover /\ ResultCover

LEMMA Chatting == ASSUME JobType, job.number <= Len(Asked) PROVE chat \in Chats
BY RefetchAssumption DEF JobType, Job, chat

LEMMA TailOfLonger ==
    ASSUME NEW S, NEW s \in Seq(S), s # << >>, Len(s) # 1
    PROVE  /\ Tail(s) \in Seq(S) /\ Tail(s) # << >> /\ Len(Tail(s)) = Len(s) - 1
           /\ \A n \in 1..Len(Tail(s)) : Tail(s)[n] = s[n + 1]
<1>1. Len(s) \in Nat /\ Len(s) # 0
  BY LenProperties, EmptySeq
<1>2. /\ Tail(s) \in Seq(S) /\ Len(Tail(s)) = Len(s) - 1
      /\ \A n \in 1..Len(Tail(s)) : Tail(s)[n] = s[n + 1]
  BY HeadTailProperties
<1>3. Len(Tail(s)) # 0
  BY <1>1, <1>2
<1> DEFINE t == Tail(s)
<1>4. Len(t) # 0
  BY <1>3
<1> HIDE DEF t
<1>5. t # << >>
  BY <1>4, EmptySeq
<1> USE DEF t
<1> QED
  BY <1>2, <1>5

LEMMA AtChatType == ASSUME NEW n \in 1..(Len(Asked) + 1) PROVE AtChat(n) \in Job
<1>1. MaxPages \in Nat \ {0} /\ << >> \in Seq(Anchors)
  BY RefetchAssumption
<1> QED
  BY <1>1 DEF AtChat, Job

\* The anchors that a chat is begun with.
LEMMA CandidatesType ==
    ASSUME StoreType, NEW c \in Chats
    PROVE  Candidates(c) \in Seq(Anchors) /\ Candidates(c) # << >>
<1> DEFINE blank == [id |-> Blank, at |-> Now]
           n == Cardinality(memory[c])
           most == IF n < InitialAnchors THEN n ELSE InitialAnchors
           newest(i) == [id |-> Newest(memory[c], i), at |-> At[Newest(memory[c], i)]]
<1>1. memory[c] \subseteq Ids /\ memory[c] \subseteq Nat /\ IsFiniteSet(memory[c])
  BY Beyond, FS_Subset, RefetchAssumption DEF StoreType
<1>2. n \in Nat /\ InitialAnchors \in Nat \ {0}
  BY <1>1, FS_CardinalityType, RefetchAssumption
<1>3. blank \in Anchors
  BY Beyond DEF Anchors
<1>4. CASE n > 0
  <2> HIDE DEF n
  <2>1. most \in Nat \ {0} /\ most <= n
    BY <1>2, <1>4
  <2>2. \A i \in 1..most : newest(i) \in Anchors
    <3> SUFFICES ASSUME NEW i \in 1..most PROVE newest(i) \in Anchors
      OBVIOUS
    <3>1. i \in 1..Cardinality(memory[c])
      BY <1>2, <2>1 DEF n
    <3>2. Newest(memory[c], i) \in memory[c]
      BY <1>1, <3>1, NewestExists
    <3> HIDE DEF most
    <3> QED
      BY <1>1, <3>2, Beyond DEF Anchors
  <2>3. Candidates(c) = [i \in 1..most |-> newest(i)]
    BY <1>4 DEF Candidates, n
  <2> HIDE DEF most, newest
  <2>4. Candidates(c) \in Seq(Anchors) /\ Len(Candidates(c)) = most
    BY <2>1, <2>2, <2>3
  <2> QED
    BY <2>1, <2>4
<1>5. CASE ~(n > 0) /\ Secret[c] # Blank
  <2>1. Candidates(c) = <<[id |-> Secret[c], at |-> Now], blank>>
    BY <1>5 DEF Candidates
  <2>2. [id |-> Secret[c], at |-> Now] \in Anchors
    BY Beyond, RefetchAssumption DEF Anchors
  <2> HIDE DEF blank
  <2> QED
    BY <1>3, <2>1, <2>2
<1>6. CASE ~(n > 0) /\ Secret[c] = Blank
  <2>1. Candidates(c) = <<blank>>
    BY <1>6 DEF Candidates
  <2> HIDE DEF blank
  <2> QED
    BY <1>3, <2>1
<1> QED
  BY <1>4, <1>5, <1>6

\* Where a chat ends, the next one is to come.
LEMMA SkippingType ==
    ASSUME RefetchType, job.number <= Len(Asked), NEW r \in Result,
           job' = AtChat(job.number + 1), result' = [result EXCEPT ![chat] = r]
    PROVE  JobType' /\ ResultType' /\ job'.at = "chat" /\ job'.number = job.number + 1
<1>1. chat \in Chats /\ Len(Asked) \in Nat /\ job.number \in 1..Len(Asked)
  BY Chatting, RefetchAssumption DEF RefetchType, JobType, Job
<1>3. job' \in Job
  BY <1>1, AtChatType
<1>4. job'.at = "chat" /\ job'.number = job.number + 1 /\ job'.page = 1
  BY DEF AtChat
<1>5. result' \in [Chats -> Result]
  BY <1>1 DEF RefetchType, ResultType
<1>6. ASSUME NEW n \in job'.number..Len(Asked) PROVE result'[Asked[n]].pages <= 0
  <2>1. n \in job.number..Len(Asked) /\ n # job.number
    BY <1>1, <1>4
  <2>2. Asked[n] # chat /\ Asked[n] \in Chats
    BY <1>1, <2>1, RefetchAssumption DEF chat
  <2>3. result[Asked[n]].pages <= 0
    BY <2>1 DEF RefetchType, ResultType
  <2> QED
    BY <1>1, <2>2, <2>3 DEF RefetchType, ResultType
<1> QED
  BY <1>1, <1>3, <1>4, <1>5, <1>6 DEF JobType, ResultType

LEMMA EndingType ==
    ASSUME RefetchType, job.number <= Len(Asked), NEW r \in Result, EndChat(r)
    PROVE  /\ JobType' /\ ResultType' /\ job'.at = "chat" /\ job'.number = job.number + 1
           /\ disk' \in [Chats -> SUBSET Ids] /\ UNCHANGED <<memory, flushPending>>
<1>1. job' = AtChat(job.number + 1) /\ result' = [result EXCEPT ![chat] = r]
  BY DEF EndChat
<1> QED
  BY <1>1, SkippingType DEF EndChat, RefetchType, StoreType

LEMMA StoppingType ==
    ASSUME RefetchType, job.number <= Len(Asked), NEW reason \in Reasons, Stopped(reason)
    PROVE  /\ JobType' /\ ResultType' /\ job'.at = "chat" /\ job'.number = job.number + 1
           /\ disk' \in [Chats -> SUBSET Ids] /\ UNCHANGED <<memory, flushPending>>
<1>1. result[chat] \in Result
  BY Chatting DEF RefetchType, ResultType
<1>2. [result[chat] EXCEPT !.reason = reason] \in Result
  BY <1>1 DEF Result
<1> QED
  BY <1>2, EndingType DEF Stopped

LEMMA FailingType ==
    ASSUME RefetchType, job.number <= Len(Asked), job.tries # << >>,
           NEW reason \in Reasons, AttemptFailed(reason)
    PROVE  /\ JobType' /\ ResultType'
           /\ disk' \in [Chats -> SUBSET Ids] /\ UNCHANGED <<memory, flushPending>>
           /\ job'.at \in {"chat", "retry"} /\ (interrupted => job'.at = "chat")
<1>1. CASE interrupted
  BY <1>1, StoppingType DEF AttemptFailed, Reasons
<1>2. CASE ~interrupted /\ Len(job.tries) = 1
  BY <1>2, StoppingType DEF AttemptFailed, Reasons
<1>3. CASE ~interrupted /\ Len(job.tries) # 1
  <2>1. /\ job' = [job EXCEPT !.at = "retry", !.tries = Tail(@)]
        /\ UNCHANGED <<store, result>>
    BY <1>3 DEF AttemptFailed
  <2>2. job.tries \in Seq(Anchors) /\ job \in Job
    BY DEF RefetchType, JobType, Job
  <2>3. Tail(job.tries) \in Seq(Anchors) /\ Tail(job.tries) # << >>
    BY <1>3, <2>2, TailOfLonger
  <2>4. job' \in Job
    BY <2>1, <2>2, <2>3 DEF Job
  <2>5. job'.at = "retry" /\ job'.tries = Tail(job.tries) /\ job'.number = job.number
          /\ job'.page = job.page
    BY <2>1, <2>2 DEF Job
  <2> QED
    BY <1>3, <2>1, <2>3, <2>4, <2>5 DEF RefetchType, JobType, ResultType, StoreType, store
<1> QED
  BY <1>1, <1>2, <1>3

-----------------------------------------------------------------------------
(* The type, step by step *)

LEMMA NextChatType == ASSUME RefetchType, NextChat PROVE RefetchType'
<1>1. job \in Job /\ job.at = "chat" /\ stage = "paging" /\ job.page = 1
  BY DEF NextChat, Stands, RefetchType, JobType
<1>2. StoreType' /\ HandlerType' /\ waiter = NoWaiter /\ WireType'
  BY <1>1 DEF NextChat, RefetchType, StoreType, HandlerType, WireType, process, store, wires
<1>3. Len(Asked) \in Nat
  BY RefetchAssumption
<1>4. CASE job.number > Len(Asked)
  <2>1. job' = [job EXCEPT !.at = "over"] /\ result' = result
    BY <1>4 DEF NextChat
  <2>2. job' \in Job /\ job'.at = "over" /\ job'.page = 1 /\ job'.number = job.number
    BY <1>1, <2>1 DEF Job
  <2> QED
    BY <1>1, <1>2, <2>1, <2>2 DEF RefetchType, JobType, ResultType, LateType, NextChat, process, wires
<1>5. CASE job.number <= Len(Asked) /\ interrupted
  <2>1. /\ job' = AtChat(job.number + 1)
        /\ result' = [result EXCEPT ![chat] = [result[chat] EXCEPT !.reason = "interrupted"]]
    BY <1>1, <1>3, <1>5 DEF NextChat, Job
  <2>2. result[chat] \in Result
    BY <1>5, Chatting DEF RefetchType, ResultType
  <2>3. [result[chat] EXCEPT !.reason = "interrupted"] \in Result
    BY <2>2 DEF Result, Reasons
  <2> QED
    BY <1>1, <1>2, <1>3, <1>5, <2>1, <2>3, SkippingType DEF RefetchType, LateType, NextChat, process, wires
<1>6. CASE job.number <= Len(Asked) /\ ~interrupted
  <2>1. job' = [job EXCEPT !.at = "delay"] /\ result' = result
    BY <1>1, <1>3, <1>6 DEF NextChat, Job
  <2>2. job' \in Job /\ job'.at = "delay" /\ job'.page = 1 /\ job'.number = job.number
    BY <1>1, <2>1 DEF Job
  <2> QED
    BY <1>1, <1>2, <1>6, <2>1, <2>2 DEF RefetchType, JobType, ResultType, LateType, NextChat, process, wires
<1> QED
  BY <1>1, <1>3, <1>4, <1>5, <1>6 DEF Job

LEMMA BeginChatType == ASSUME RefetchType, BeginChat PROVE RefetchType'
<1>1. job \in Job /\ job.at = "delay" /\ stage = "paging" /\ job.page = 1 /\ job.number <= Len(Asked)
  BY DEF BeginChat, Stands, RefetchType, JobType
<1>2. StoreType' /\ HandlerType' /\ waiter = NoWaiter /\ WireType' /\ late = 0 /\ late' = late
  BY <1>1 DEF BeginChat, RefetchType, StoreType, HandlerType, WireType, LateType, process, store, wires
<1>3. CASE /\ job' = [job EXCEPT !.at = "request", !.page = 1, !.tries = Candidates(chat), !.seen = {}]
           /\ UNCHANGED result
  <2>1. Candidates(chat) \in Seq(Anchors) /\ Candidates(chat) # << >>
    BY <1>1, Chatting, CandidatesType DEF RefetchType
  <2>2. MaxPages \in Nat \ {0}
    BY RefetchAssumption
  <2>3. job' \in Job
    BY <1>1, <1>3, <2>1, <2>2 DEF Job
  <2>4. job'.at = "request" /\ job'.page = 1 /\ job'.number = job.number /\ job'.tries = Candidates(chat)
    BY <1>1, <1>3 DEF Job
  <2> QED
    BY <1>1, <1>2, <1>3, <2>1, <2>3, <2>4 DEF RefetchType, JobType, ResultType, LateType
<1>4. CASE /\ interrupted
           /\ job' = AtChat(job.number + 1)
           /\ result' = [result EXCEPT ![chat].reason = "interrupted"]
  <2>1. result' = [result EXCEPT ![chat] = [result[chat] EXCEPT !.reason = "interrupted"]]
    BY <1>4
  <2>2. result[chat] \in Result
    BY <1>1, Chatting DEF RefetchType, ResultType
  <2>3. [result[chat] EXCEPT !.reason = "interrupted"] \in Result
    BY <2>2 DEF Result, Reasons
  <2> QED
    BY <1>1, <1>2, <1>4, <2>1, <2>3, SkippingType DEF RefetchType, LateType
<1> QED
  BY <1>3, <1>4 DEF BeginChat

LEMMA PauseType == ASSUME RefetchType, Pause PROVE RefetchType'
<1>1. /\ job \in Job /\ job.at \in {"page", "retry"} /\ stage = "paging" /\ job.number <= Len(Asked)
      /\ job.tries # << >>
  BY DEF Pause, Stands, RefetchType, JobType
<1>2. HandlerType' /\ waiter = NoWaiter /\ WireType' /\ late = 0 /\ late' = late
  BY <1>1 DEF Pause, RefetchType, HandlerType, WireType, LateType, process, wires
<1>3. CASE job' = [job EXCEPT !.at = "request"] /\ UNCHANGED <<store, result>>
  <2>1. job' \in Job
    BY <1>1, <1>3 DEF Job
  <2>2. job'.at = "request" /\ job'.page = job.page /\ job'.number = job.number /\ job'.tries = job.tries
    BY <1>1, <1>3 DEF Job
  <2> QED
    BY <1>1, <1>2, <1>3, <2>1, <2>2
       DEF RefetchType, StoreType, JobType, ResultType, LateType, Pause, process, store
<1>4. CASE Stopped("interrupted")
  BY <1>1, <1>2, <1>4, StoppingType DEF RefetchType, StoreType, LateType, Pause, process, Reasons
<1> QED
  BY <1>3, <1>4 DEF Pause

LEMMA RequestType == ASSUME RefetchType, Request PROVE RefetchType'
<1>1. /\ job \in Job /\ job.at = "request" /\ stage = "paging" /\ job.number <= Len(Asked)
      /\ job.tries # << >> /\ job.tries \in Seq(Anchors) /\ sent \in Nat /\ late = 0
  BY DEF Request, Stands, RefetchType, JobType, WireType, LateType, Job
<1>2. /\ job' = [job EXCEPT !.at = "await"] /\ sent' = sent + 1 /\ waiter' = sent + 1
      /\ late' = IF interrupted THEN late + 1 ELSE late
      /\ asked' = asked \cup {[number |-> sent + 1, chat |-> chat, anchor |-> anchor]}
      /\ mail' = mail
  BY DEF Request
<1>3. job' \in Job
  BY <1>1, <1>2 DEF Job
<1>4. job'.at = "await" /\ job'.page = job.page /\ job'.number = job.number /\ job'.tries = job.tries
  BY <1>1, <1>2 DEF Job
<1>5. anchor \in Anchors /\ chat \in Chats
  BY <1>1, Chatting DEF anchor, RefetchType
<1>6. WireType'
  <2>1. asked \subseteq [number : 1..sent, chat : Chats, anchor : Anchors]
    BY DEF RefetchType, WireType
  <2>2. 1..sent \subseteq 1..(sent + 1) /\ sent + 1 \in 1..(sent + 1)
    BY <1>1
  <2>3. asked' \subseteq [number : 1..(sent + 1), chat : Chats, anchor : Anchors]
    BY <1>2, <1>5, <2>1, <2>2
  <2> QED
    BY <1>1, <1>2, <1>4, <2>3 DEF RefetchType, WireType
<1>7. ResultType'
  <2>1. result[chat] \in Result
    BY <1>5 DEF RefetchType, ResultType
  <2>2. CASE result' = result
    BY <1>4, <2>2 DEF RefetchType, ResultType
  <2>3. CASE anchor.id # Blank /\ result' = [result EXCEPT ![chat].start = anchor.id]
    <3>1. anchor.id \in Nat
      BY <1>5, <2>3, Beyond DEF Anchors
    <3> DEFINE r == [result[chat] EXCEPT !.start = anchor.id]
    <3>2. r \in Result /\ r.pages = result[chat].pages /\ result' = [result EXCEPT ![chat] = r]
      BY <2>1, <2>3, <3>1 DEF Result
    <3> HIDE DEF r
    <3>3. result' \in [Chats -> Result] /\ \A c \in Chats : result'[c].pages = result[c].pages
      BY <1>5, <3>2 DEF RefetchType, ResultType
    <3>4. \A n \in job.number..Len(Asked) : Asked[n] \in Chats
      BY <1>1, RefetchAssumption DEF Job
    <3> QED
      BY <1>4, <3>3, <3>4 DEF RefetchType, ResultType
  <2> QED
    BY <2>2, <2>3 DEF Request
<1> QED
  BY <1>1, <1>2, <1>3, <1>4, <1>6, <1>7
     DEF RefetchType, StoreType, JobType, HandlerType, LateType, Request, process, store

LEMMA SendFailsType == ASSUME RefetchType, SendFails PROVE RefetchType'
<1>1. job.at = "request" /\ job.number <= Len(Asked) /\ job.tries # << >> /\ late = 0 /\ late' = late
  BY DEF SendFails, Stands, RefetchType, JobType, LateType, wires
<1> QED
  BY <1>1, FailingType
     DEF RefetchType, StoreType, HandlerType, WireType, LateType, SendFails, process, wires, Reasons

LEMMA TimeOutType == ASSUME RefetchType, TimeOut PROVE RefetchType'
<1>1. job.at = "await" /\ job.number <= Len(Asked) /\ job.tries # << >> /\ AttemptFailed("timeout")
  BY DEF TimeOut, Stands, RefetchType, JobType
<1>2. /\ JobType' /\ ResultType' /\ disk' \in [Chats -> SUBSET Ids] /\ UNCHANGED <<memory, flushPending>>
      /\ interrupted => job'.at = "chat"
  BY <1>1, FailingType DEF Reasons
<1> QED
  BY <1>2 DEF RefetchType, StoreType, HandlerType, WireType, LateType, TimeOut, process

LEMMA WaitInterruptedType == ASSUME RefetchType, WaitInterrupted PROVE RefetchType'
<1>1. job.at = "await" /\ job.number <= Len(Asked) /\ Stopped("interrupted")
  BY DEF WaitInterrupted, Stands, RefetchType, JobType
<1>2. /\ JobType' /\ ResultType' /\ disk' \in [Chats -> SUBSET Ids] /\ UNCHANGED <<memory, flushPending>>
      /\ job'.at = "chat"
  BY <1>1, StoppingType DEF Reasons
<1> QED
  BY <1>2 DEF RefetchType, StoreType, HandlerType, WireType, LateType, WaitInterrupted, process

\* What a page adds, and whether there is a next one.
LEMMA CountedType ==
    ASSUME RefetchType, mail # NoPage, job.number <= Len(Asked)
    PROVE  /\ Counted(mail) \in Result /\ Counted(mail).pages = result[chat].pages + 1
           /\ Counted(mail).start = result[chat].start
           /\ Counted(mail).oldest = IF mail.returned > 0 /\ At[mail.oldest] < result[chat].oldest
                                     THEN At[mail.oldest] ELSE result[chat].oldest
<1>1. chat \in Chats /\ result[chat] \in Result /\ job \in Job /\ mail \in Pages
  BY Chatting DEF RefetchType, ResultType, JobType, WireType
<1>2. result[chat].pages <= job.page - 1
  <2>1. job.number \in job.number..Len(Asked)
    BY <1>1, RefetchAssumption DEF Job
  <2> QED
    BY <2>1 DEF RefetchType, ResultType, chat
<1>3. result[chat].pages + 1 \in 0..MaxPages
  <2>1. MaxPages \in Nat /\ job.page \in 1..MaxPages /\ result[chat].pages \in 0..MaxPages
    BY <1>1, RefetchAssumption DEF Job, Result
  <2> QED
    BY <1>2, <2>1
<1>4. mail.returned > 0 => At[mail.oldest] \in Nat
  BY Beyond DEF RefetchType, WireType
<1> DEFINE r == result[chat]
           oldest == IF mail.returned > 0 /\ At[mail.oldest] < r.oldest
                     THEN At[mail.oldest] ELSE r.oldest
<1>5. oldest \in Nat /\ r.added + mail.added \in Nat
  BY <1>1, <1>4 DEF Result, Pages
<1>6. Counted(mail) = [r EXCEPT !.pages = r.pages + 1, !.added = r.added + mail.added, !.oldest = oldest]
  BY <1>1 DEF Counted, Result
<1>7. r \in Result /\ r.pages + 1 \in 0..MaxPages
  BY <1>1, <1>3
<1> HIDE DEF r, oldest
<1>8. Counted(mail) \in Result /\ Counted(mail).pages = r.pages + 1 /\ Counted(mail).oldest = oldest
        /\ Counted(mail).start = r.start
  BY <1>5, <1>6, <1>7 DEF Result
<1> QED
  BY <1>8 DEF r, oldest

LEMMA TakePageType == ASSUME RefetchType, TakePage PROVE RefetchType'
<1>1. /\ job \in Job /\ job.at = "await" /\ stage = "paging" /\ job.number <= Len(Asked)
      /\ job.tries # << >> /\ job.tries \in Seq(Anchors) /\ mail # NoPage /\ mail \in Pages
  BY DEF TakePage, Stands, RefetchType, JobType, WireType, Job
<1>2. HandlerType' /\ waiter' = NoWaiter /\ WireType'
  BY <1>1 DEF TakePage, RefetchType, HandlerType, WireType, NoWaiter
<1>3. CASE interrupted
  BY <1>1, <1>2, <1>3, StoppingType DEF RefetchType, StoreType, LateType, TakePage, process, Reasons
<1>4. late' = late /\ (~interrupted => late = 0)
  BY DEF TakePage, RefetchType, LateType
<1>5. CASE ~interrupted /\ ReasonToStop(mail) # "none"
  <2>1. Counted(mail) \in Result
    BY <1>1, CountedType
  <2>2. ReasonToStop(mail) \in Reasons
    BY DEF ReasonToStop, Reasons
  <2>3. [Counted(mail) EXCEPT !.reason = ReasonToStop(mail)] \in Result
    BY <2>1, <2>2 DEF Result
  <2>4. EndChat([Counted(mail) EXCEPT !.reason = ReasonToStop(mail)])
    BY <1>5 DEF TakePage
  <2>5. /\ JobType' /\ ResultType' /\ disk' \in [Chats -> SUBSET Ids]
        /\ UNCHANGED <<memory, flushPending>>
    BY <1>1, <2>3, <2>4, EndingType
  <2> QED
    BY <1>2, <1>4, <1>5, <2>5 DEF RefetchType, StoreType, LateType, TakePage, process
<1>6. CASE ~interrupted /\ ReasonToStop(mail) = "none"
  <2> DEFINE oldest == [id |-> mail.oldest, at |-> At[mail.oldest]]
  <2>1. /\ result' = [result EXCEPT ![chat] = Counted(mail)]
        /\ job' = [job EXCEPT !.at = "page", !.page = job.page + 1, !.tries = <<oldest, oldest>>,
                              !.seen = job.seen \cup {anchor.id}]
        /\ disk' = IF job.page % SaveEvery = 0 THEN memory ELSE disk
        /\ UNCHANGED <<memory, flushPending>>
    BY <1>1, <1>6 DEF TakePage, Job
  <2>2. Counted(mail) \in Result /\ Counted(mail).pages = result[chat].pages + 1
    BY <1>1, CountedType
  <2>3. mail.returned # 0 /\ job.page # MaxPages
    BY <1>6 DEF ReasonToStop
  <2>4. mail.oldest \in Ids /\ oldest \in Anchors
    <3>1. mail.returned > 0
      BY <1>1, <2>3 DEF Pages
    <3>2. mail.oldest \in Ids
      BY <1>1, <3>1 DEF RefetchType, WireType
    <3> QED
      BY <3>2, Beyond DEF Anchors
  <2>5. <<oldest, oldest>> \in Seq(Anchors) /\ <<oldest, oldest>> # << >>
    BY <2>4
  <2>6. anchor.id \in Ids \cup {Blank}
    <3>1. anchor \in Anchors
      BY <1>1, HeadTailProperties DEF anchor
    <3> QED
      BY <3>1 DEF Anchors
  <2>7. job.page + 1 \in 1..MaxPages
    BY <1>1, <2>3, RefetchAssumption DEF Job
  <2> HIDE DEF oldest
  <2>8. job' \in Job
    BY <1>1, <2>1, <2>5, <2>6, <2>7 DEF Job
  <2>9. /\ job'.at = "page" /\ job'.page = job.page + 1 /\ job'.number = job.number
        /\ job'.tries = <<oldest, oldest>>
    BY <1>1, <2>1 DEF Job
  <2>10. ResultType'
    <3>1. chat \in Chats /\ result \in [Chats -> Result] /\ job.number \in 1..Len(Asked)
            /\ Len(Asked) \in Nat
      BY <1>1, Chatting, RefetchAssumption DEF RefetchType, ResultType, Job
    <3>2. result' \in [Chats -> Result]
      BY <2>1, <2>2, <3>1
    <3>3. ASSUME NEW n \in job.number..Len(Asked)
          PROVE  result'[Asked[n]].pages <= IF n = job.number THEN job.page ELSE 0
      <4>1. Asked[n] \in Chats /\ (n # job.number => Asked[n] # chat)
        BY <3>1, RefetchAssumption DEF chat
      <4>2. result[Asked[n]].pages <= IF n = job.number THEN job.page - 1 ELSE 0
        BY DEF RefetchType, ResultType
      <4>3. CASE n = job.number
        BY <1>1, <2>1, <2>2, <3>1, <4>2, <4>3 DEF chat, Job, Result
      <4>4. CASE n # job.number
        BY <2>1, <3>1, <4>1, <4>2, <4>4
      <4> QED
        BY <4>3, <4>4
    <3> QED
      BY <1>1, <2>9, <3>2, <3>3 DEF ResultType, Job
  <2> QED
    BY <1>1, <1>2, <1>4, <1>6, <2>1, <2>5, <2>8, <2>9, <2>10
       DEF RefetchType, StoreType, JobType, LateType, TakePage, process
<1> QED
  BY <1>3, <1>5, <1>6

\* An answer is of messages that the phone has, the oldest of them among them.
LEMMA AnswerType ==
    ASSUME NEW c \in Chats, NEW a \in Anchors
    PROVE  /\ Before(c, a) \subseteq Ids /\ IsFiniteSet(Before(c, a))
           /\ Answer(c, a) \subseteq Before(c, a) /\ Before(c, a) \subseteq Phone[c]
           /\ IsFiniteSet(Answer(c, a)) /\ Cardinality(Answer(c, a)) \in Nat
<1>1. Before(c, a) \subseteq Phone[c] /\ Phone[c] \subseteq Ids /\ IsFiniteSet(Ids)
  BY RefetchAssumption DEF Before
<1>2. Answer(c, a) \subseteq Before(c, a)
  BY DEF Answer
<1>3. Before(c, a) \subseteq Ids /\ Answer(c, a) \subseteq Ids
  BY <1>1, <1>2
<1> QED
  BY <1>1, <1>2, <1>3, FS_Subset, FS_CardinalityType

LEMMA ReceiveType == ASSUME RefetchType, NEW r \in asked, Receive(r) PROVE RefetchType'
<1> DEFINE page == Answer(r.chat, r.anchor)
           added == Cardinality(page \ memory[r.chat])
<1>1. r.chat \in Chats /\ r.anchor \in Anchors
  BY DEF RefetchType, WireType
<1>2. page \subseteq Ids /\ Cardinality(page) \in Nat /\ added \in Nat
  <2>1. page \subseteq Ids /\ IsFiniteSet(page) /\ Cardinality(page) \in Nat
    BY <1>1, AnswerType
  <2> QED
    BY <2>1, FS_Subset, FS_CardinalityType
<1>3. /\ memory' = [memory EXCEPT ![r.chat] = memory[r.chat] \cup page]
      /\ flushPending' = TRUE /\ asked' = asked \ {r}
      /\ UNCHANGED <<process, disk, job, result, sent, late, waiter, mail>>
  BY DEF Receive
<1>4. StoreType'
  <2> HIDE DEF page
  <2> QED
    BY <1>1, <1>2, <1>3 DEF RefetchType, StoreType, process
<1>5. HandlerType'
  <2>1. CASE page = {}
    BY <2>1 DEF Receive, HandlerType
  <2>2. CASE page # {}
    <3>1. PICK oldest \in page :
            handler' = [at |-> "publish", chat |-> r.chat,
                        page |-> [returned |-> Cardinality(page), added |-> added, oldest |-> oldest]]
      BY <2>2 DEF Receive
    <3> HIDE DEF page, added
    <3> QED
      BY <1>1, <1>2, <3>1 DEF HandlerType, Pages
  <2> QED
    BY <2>1, <2>2
<1>6. JobType' /\ ResultType' /\ LateType' /\ WireType'
  BY <1>3 DEF RefetchType, JobType, ResultType, LateType, WireType, process
<1> QED
  BY <1>4, <1>5, <1>6 DEF RefetchType

LEMMA PublishType == ASSUME RefetchType, Publish PROVE RefetchType'
<1>1. handler.page \in Pages /\ handler.page.oldest \in Ids
  BY DEF Publish, RefetchType, HandlerType
<1>2. WireType'
  <2>1. mail' = mail \/ (waiter # NoWaiter /\ mail' = handler.page)
    BY DEF Publish, Delivered
  <2> QED
    BY <1>1, <2>1 DEF Publish, RefetchType, WireType
<1>3. HandlerType'
  BY DEF Publish, HandlerType
<1> QED
  BY <1>2, <1>3 DEF Publish, RefetchType, StoreType, JobType, ResultType, LateType, process, store

LEMMA TellMissesType == ASSUME RefetchType, TellMisses PROVE RefetchType'
<1>1. Miss \in Pages /\ ~(Miss.returned > 0)
  BY DEF Miss, Pages
<1>2. WireType'
  <2>1. mail' = mail \/ (waiter # NoWaiter /\ mail' = Miss)
    BY DEF TellMisses, Delivered
  <2> QED
    BY <1>1, <2>1 DEF TellMisses, RefetchType, WireType
<1>3. HandlerType'
  BY DEF TellMisses, HandlerType
<1> QED
  BY <1>2, <1>3 DEF TellMisses, RefetchType, StoreType, JobType, ResultType, LateType, process, store

LEMMA SessionType == ASSUME RefetchType, Session PROVE RefetchType'
<1>1. CASE Load
  BY <1>1 DEF Load, RefetchType, StoreType, JobType, ResultType, WireType, HandlerType, LateType, wires
<1>2. CASE MarkReady
  BY <1>2 DEF MarkReady, RefetchType, StoreType, JobType, ResultType, WireType, HandlerType, LateType, wires
<1>3. CASE Flush
  BY <1>3 DEF Flush, RefetchType, StoreType, JobType, ResultType, WireType, HandlerType, LateType, wires, process
<1>4. ASSUME NEW c \in Chats, NEW m \in Live[c], ReceiveLive(c, m) PROVE RefetchType'
  <2>1. m \in Ids
    BY RefetchAssumption
  <2> QED
    BY <1>4, <2>1 DEF ReceiveLive, RefetchType, StoreType, JobType, ResultType, WireType, HandlerType,
       LateType, wires, process
<1> QED
  BY <1>1, <1>2, <1>3, <1>4 DEF Session

LEMMA ProcessType == ASSUME RefetchType, Process \/ Signals PROVE RefetchType'
<1> USE DEF RefetchType, StoreType, JobType, ResultType, WireType, HandlerType, LateType, wires, store, process
<1>1. CASE StartPaging
  BY <1>1 DEF StartPaging
<1>2. CASE GiveUpWaiting \/ Finish
  BY <1>2 DEF GiveUpWaiting, Finish, Shutdown
<1>3. CASE Interrupt
  <2>1. interrupted' \in BOOLEAN /\ (late' = 1 => interrupted')
    BY <1>3 DEF Interrupt
  <2> QED
    BY <1>3, <2>1 DEF Interrupt
<1>4. CASE Kill
  BY <1>4 DEF Kill
<1> QED
  BY <1>1, <1>2, <1>3, <1>4 DEF Process, Signals

LEMMA InitType == Init => RefetchType
<1> SUFFICES ASSUME Init PROVE RefetchType
  OBVIOUS
<1>1. StoreType
  <2>1. \A c \in Chats : Cached[c] \subseteq SUBSET Ids
    BY RefetchAssumption
  <2> QED
    BY <2>1 DEF Init, StoreType
<1>2. JobType
  <2>1. Len(Asked) \in Nat
    BY RefetchAssumption
  <2>2. job \in Job /\ job.at = "chat" /\ job.page = 1
    BY <2>1, AtChatType DEF Init, AtChat
  <2> QED
    BY <2>2 DEF JobType
<1>3. ResultType
  <2>1. Fresh \in Result /\ Fresh.pages = 0
    BY Beyond, RefetchAssumption DEF Fresh, Result, Reasons
  <2>2. \A n \in 1..Len(Asked) : Asked[n] \in Chats
    BY RefetchAssumption
  <2> QED
    BY <2>1, <2>2 DEF Init, ResultType, AtChat
<1>4. WireType /\ HandlerType /\ LateType
  BY DEF Init, WireType, HandlerType, LateType, NoWaiter
<1> QED
  BY <1>1, <1>2, <1>3, <1>4 DEF RefetchType

LEMMA TypeStep == RefetchType /\ [Next]_vars => RefetchType'
<1> SUFFICES ASSUME RefetchType, [Next]_vars PROVE RefetchType'
  OBVIOUS
<1>1. CASE Process \/ Signals
  BY <1>1, ProcessType
<1>2. CASE Session
  BY <1>2, SessionType
<1>3. CASE Answering
  BY <1>3, ReceiveType, PublishType, TellMissesType DEF Answering
<1>4. CASE Paging
  BY <1>4, NextChatType, BeginChatType, PauseType, RequestType, SendFailsType, TimeOutType,
     WaitInterruptedType, TakePageType DEF Paging
<1>5. CASE UNCHANGED vars
  BY <1>5 DEF vars, RefetchType, StoreType, JobType, ResultType, WireType, HandlerType, LateType
<1> QED
  BY <1>1, <1>2, <1>3, <1>4, <1>5 DEF Next

\* Everything that RefetchHistory, its session and the history goroutine keep has its type:
\* what is told, stored and anchored consists of messages of the chats, at most the request
\* sent last waits for an answer, and at most one request follows an interrupt.
THEOREM TypeCorrect == Spec => []TypeOK
<1>1. RefetchType => TypeOK
  BY DEF RefetchType, StoreType, JobType, ResultType, WireType, HandlerType, LateType, TypeOK, Job, Result
<1> QED
  BY <1>1, InitType, TypeStep, PTL DEF Spec

\* After the interrupt RefetchHistory sends at most the request that it was about to send,
\* however many chats and pages are left.
THEOREM InterruptStops == Spec => []StopsAfterInterrupt
<1>1. RefetchType => StopsAfterInterrupt
  BY DEF RefetchType, LateType, StopsAfterInterrupt
<1> QED
  BY <1>1, InitType, TypeStep, PTL DEF Spec

-----------------------------------------------------------------------------
(* What is stored, step by step *)

\* What covers a message still does.
Keeps == \A c \in Chats : memory[c] \subseteq memory'[c] /\ result'[c].start <= result[c].start

LEMMA CoveredKept ==
    ASSUME RefetchType, RefetchType', Keeps, NEW c \in Chats, NEW i \in Nat, Covered(c, i)
    PROVE  Covered(c, i)'
<1>1. ASSUME NEW m \in Phone[c], i <= m, m < result'[c].start PROVE m \in memory'[c]
  <2>1. /\ m \in Nat /\ result[c].start \in Nat /\ result'[c].start \in Nat
        /\ result'[c].start <= result[c].start
    BY Beyond, RefetchAssumption DEF RefetchType, ResultType, Result, Keeps
  <2>2. m < result[c].start
    BY <1>1, <2>1
  <2>3. m \in memory[c]
    BY <1>1, <2>2 DEF Covered
  <2> QED
    BY <2>3 DEF Keeps
<1> QED
  BY <1>1 DEF Covered

\* A chat that ends keeps how far it is covered.
LEMMA EndingKeeps ==
    ASSUME RefetchType, job.number <= Len(Asked), NEW r \in Result,
           result' = [result EXCEPT ![chat] = r], memory' = memory,
           r.start <= result[chat].start
    PROVE  Keeps
<1>1. chat \in Chats /\ result \in [Chats -> Result]
  BY Chatting DEF RefetchType, ResultType
<1>2. \A c \in Chats : result[c].start \in Nat
  BY <1>1 DEF Result
<1> QED
  BY <1>1, <1>2 DEF Keeps

LEMMA AskedKept ==
    ASSUME RefetchType, RefetchType', Keeps, AskedCover, asked' \subseteq asked
    PROVE  AskedCover'
<1>1. ASSUME NEW r \in asked', r.anchor.id # Blank PROVE Covered(r.chat, r.anchor.id)'
  <2>1. r \in asked /\ r.chat \in Chats /\ r.anchor \in Anchors
    BY DEF RefetchType, WireType
  <2>2. r.anchor.id \in Nat
    BY <1>1, <2>1, Beyond DEF Anchors
  <2>3. Covered(r.chat, r.anchor.id)
    BY <1>1, <2>1 DEF AskedCover
  <2> QED
    BY <2>1, <2>2, <2>3, CoveredKept
<1> QED
  BY <1>1 DEF AskedCover

LEMMA AnswerKept ==
    ASSUME RefetchType, RefetchType', Keeps, AnswerCover, handler' = handler
    PROVE  AnswerCover'
<1> SUFFICES ASSUME handler.at = "publish"
             PROVE  Covered(handler.chat, handler.page.oldest)'
  BY DEF AnswerCover
<1>1. PICK c \in Chats : c = handler.chat
  BY DEF RefetchType, HandlerType
<1>2. PICK i \in Nat : i = handler.page.oldest
  BY Beyond DEF RefetchType, HandlerType
<1>3. Covered(c, i)'
  BY <1>1, <1>2, CoveredKept DEF AnswerCover
<1> QED
  BY <1>1, <1>2, <1>3 DEF Covered

LEMMA MailKept ==
    ASSUME RefetchType, RefetchType', Keeps, MailCover,
           mail' # NoPage => mail' = mail /\ job' = job
    PROVE  MailCover'
<1> SUFFICES ASSUME mail' # NoPage, mail'.returned > 0 PROVE Covered(chat, mail.oldest)'
  BY DEF MailCover
<1>1. job.number <= Len(Asked) /\ mail = mail' /\ job = job'
  BY DEF RefetchType, WireType, JobType
<1>2. PICK c \in Chats : c = chat
  BY <1>1, Chatting DEF RefetchType
<1>3. PICK i \in Nat : i = mail.oldest
  BY <1>1, Beyond DEF RefetchType, WireType
<1>4. Covered(c, i)'
  BY <1>1, <1>2, <1>3, CoveredKept DEF MailCover
<1> QED
  BY <1>1, <1>2, <1>3, <1>4 DEF Covered, chat

LEMMA TriesKept ==
    ASSUME RefetchType, RefetchType', Keeps, TriesCover,
           \/ job'.page = 1
           \/ /\ job'.page = job.page /\ job'.number = job.number /\ job.number <= Len(Asked)
              /\ \A n \in 1..Len(job'.tries) : \E k \in 1..Len(job.tries) : job'.tries[n] = job.tries[k]
    PROVE  TriesCover'
<1> SUFFICES ASSUME job'.page # 1, NEW n \in 1..Len(job'.tries)
             PROVE  job'.tries[n].id # Blank /\ Covered(chat, job.tries[n].id)'
  BY DEF TriesCover, RefetchType, JobType, Job
<1>1. PICK c \in Chats : c = chat /\ c = chat'
  BY Chatting DEF RefetchType, chat
<1>2. PICK k \in 1..Len(job.tries) : job'.tries[n] = job.tries[k]
  OBVIOUS
<1>3. job.page > 1 /\ job.tries[k] \in Anchors
  BY RefetchAssumption DEF RefetchType, JobType, Job
<1>4. job.tries[k].id # Blank /\ Covered(c, job.tries[k].id)
  BY <1>1, <1>3 DEF TriesCover
<1>5. PICK i \in Nat : i = job.tries[k].id
  BY <1>3, <1>4, Beyond DEF Anchors
<1>6. Covered(c, i)'
  BY <1>4, <1>5, CoveredKept
<1> QED
  BY <1>1, <1>2, <1>4, <1>5, <1>6 DEF Covered

LEMMA ResultKept ==
    ASSUME RefetchType, RefetchType', Keeps, ResultCover, NEW c \in Chats,
           result'[c].oldest = result[c].oldest
    PROVE  \/ result'[c].oldest = Now
           \/ \E i \in Ids : At[i] = result'[c].oldest /\ Covered(c, i)'
<1>1. CASE result[c].oldest = Now
  BY <1>1
<1>2. CASE result[c].oldest # Now
  <2>1. PICK i \in Ids : At[i] = result[c].oldest /\ Covered(c, i)
    BY <1>2 DEF ResultCover
  <2>2. Covered(c, i)'
    BY <2>1, CoveredKept, Beyond
  <2> QED
    BY <2>1, <2>2
<1> QED
  BY <1>1, <1>2

\* A chat's result changes to one that is covered as far, or as the mail is.
LEMMA RecordingCover ==
    ASSUME RefetchType, RefetchType', CoverInv, job.number <= Len(Asked), NEW r \in Result,
           result' = [result EXCEPT ![chat] = r], memory' = memory,
           r.start = result[chat].start,
           r.oldest = result[chat].oldest \/ \E i \in Ids : At[i] = r.oldest /\ Covered(chat, i)
    PROVE  ResultCover' /\ Keeps
<1>1. chat \in Chats /\ result \in [Chats -> Result]
  BY Chatting DEF RefetchType, ResultType
<1>2. r.start <= result[chat].start
  BY <1>1 DEF Result
<1>3. Keeps
  BY <1>2, EndingKeeps
<1>4. ASSUME NEW c \in Chats
      PROVE  \/ result'[c].oldest = Now
             \/ \E i \in Ids : At[i] = result'[c].oldest /\ Covered(c, i)'
  <2>1. CASE result'[c].oldest = result[c].oldest
    BY <1>3, <2>1, ResultKept DEF CoverInv
  <2>2. CASE result'[c].oldest # result[c].oldest
    <3>1. c = chat /\ result'[c] = r
      BY <1>1, <2>2
    <3>2. PICK i \in Ids : At[i] = r.oldest /\ Covered(c, i)
      BY <2>2, <3>1
    <3>3. Covered(c, i)'
      BY <1>3, <3>2, CoveredKept, Beyond
    <3> QED
      BY <3>1, <3>2, <3>3
  <2> QED
    BY <2>1, <2>2
<1> QED
  BY <1>3, <1>4 DEF ResultCover

LEMMA EndingCover ==
    ASSUME RefetchType, RefetchType', CoverInv, job.number <= Len(Asked), NEW r \in Result,
           result' = [result EXCEPT ![chat] = r], memory' = memory,
           r.start = result[chat].start,
           r.oldest = result[chat].oldest \/ \E i \in Ids : At[i] = r.oldest /\ Covered(chat, i),
           job'.page = 1, asked' = asked, handler' = handler, mail' = NoPage
    PROVE  CoverInv'
<1>1. ResultCover' /\ Keeps
  BY RecordingCover
<1> QED
  BY <1>1, AskedKept, AnswerKept, MailKept, TriesKept DEF CoverInv

LEMMA StoppingCover ==
    ASSUME RefetchType, RefetchType', CoverInv, job.number <= Len(Asked), NEW reason \in Reasons,
           Stopped(reason), asked' = asked, handler' = handler, mail' = NoPage
    PROVE  CoverInv'
<1> DEFINE r == [result[chat] EXCEPT !.reason = reason]
<1>1. result[chat] \in Result
  BY Chatting DEF RefetchType, ResultType
<1>2. r \in Result /\ r.start = result[chat].start /\ r.oldest = result[chat].oldest
  BY <1>1 DEF Result
<1>3. result' = [result EXCEPT ![chat] = r] /\ job' = AtChat(job.number + 1) /\ memory' = memory
  BY DEF Stopped, EndChat
<1>4. job'.page = 1
  BY <1>3 DEF AtChat
<1> HIDE DEF r
<1> QED
  BY <1>2, <1>3, <1>4, EndingCover

\* Nothing but the place within the chat, and the mail, is another.
LEMMA StayingCover ==
    ASSUME RefetchType, RefetchType', CoverInv, memory' = memory, result' = result, asked' = asked,
           handler' = handler, mail' # NoPage => mail' = mail /\ job' = job,
           \/ job'.page = 1
           \/ /\ job'.page = job.page /\ job'.number = job.number /\ job.number <= Len(Asked)
              /\ \A n \in 1..Len(job'.tries) : \E k \in 1..Len(job.tries) : job'.tries[n] = job.tries[k]
    PROVE  CoverInv'
<1>1. \A c \in Chats : result[c].start \in Nat
  BY DEF RefetchType, ResultType, Result
<1>2. Keeps
  BY <1>1 DEF Keeps
<1>3. ResultCover'
  BY <1>2, ResultKept DEF CoverInv, ResultCover
<1> QED
  BY <1>2, <1>3, AskedKept, AnswerKept, MailKept, TriesKept DEF CoverInv

LEMMA FailingCover ==
    ASSUME RefetchType, RefetchType', CoverInv, job.number <= Len(Asked), job.tries # << >>,
           NEW reason \in Reasons, AttemptFailed(reason),
           asked' = asked, handler' = handler, mail' = NoPage
    PROVE  CoverInv'
<1>1. CASE Stopped("interrupted") \/ Stopped(reason)
  BY <1>1, StoppingCover DEF Reasons
<1>2. CASE /\ Len(job.tries) # 1 /\ job' = [job EXCEPT !.at = "retry", !.tries = Tail(@)]
           /\ UNCHANGED <<store, result>>
  <2>1. job \in Job /\ job.tries \in Seq(Anchors)
    BY DEF RefetchType, JobType, Job
  <2>2. /\ job'.page = job.page /\ job'.number = job.number /\ job'.tries = Tail(job.tries)
    BY <1>2, <2>1 DEF Job
  <2>3. ASSUME NEW n \in 1..Len(Tail(job.tries))
        PROVE  n + 1 \in 1..Len(job.tries) /\ Tail(job.tries)[n] = job.tries[n + 1]
    <3>1. /\ Len(job.tries) \in Nat /\ Len(Tail(job.tries)) = Len(job.tries) - 1
          /\ Tail(job.tries)[n] = job.tries[n + 1]
      BY <1>2, <2>1, TailOfLonger, LenProperties
    <3> QED
      BY <3>1
  <2>4. \A n \in 1..Len(job'.tries) : \E k \in 1..Len(job.tries) : job'.tries[n] = job.tries[k]
    BY <2>2, <2>3
  <2>5. memory' = memory /\ result' = result
    BY <1>2 DEF store
  <2> QED
    BY <2>2, <2>4, <2>5, StayingCover
<1> QED
  BY <1>1, <1>2 DEF AttemptFailed

LEMMA SkippingCover ==
    ASSUME RefetchType, RefetchType', CoverInv, job.number <= Len(Asked),
           result' = [result EXCEPT ![chat].reason = "interrupted"], job' = AtChat(job.number + 1),
           memory' = memory, asked' = asked, handler' = handler, mail' = NoPage
    PROVE  CoverInv'
<1> DEFINE r == [result[chat] EXCEPT !.reason = "interrupted"]
<1>1. result[chat] \in Result
  BY Chatting DEF RefetchType, ResultType
<1>2. r \in Result /\ r.start = result[chat].start /\ r.oldest = result[chat].oldest
  BY <1>1 DEF Result, Reasons
<1>3. result' = [result EXCEPT ![chat] = r]
  OBVIOUS
<1>4. job'.page = 1
  BY DEF AtChat
<1> HIDE DEF r
<1> QED
  BY <1>2, <1>3, <1>4, EndingCover

LEMMA NextChatCover == ASSUME RefetchType, RefetchType', CoverInv, NextChat PROVE CoverInv'
<1>1. job \in Job /\ job.at = "chat" /\ job.page = 1 /\ mail = NoPage /\ mail' = NoPage
  BY DEF NextChat, Stands, RefetchType, JobType, WireType, wires
<1>2. memory' = memory /\ asked' = asked /\ handler' = handler
  BY DEF NextChat, store, wires
<1>3. CASE job.number <= Len(Asked) /\ result' = [result EXCEPT ![chat].reason = "interrupted"]
        /\ job' = AtChat(job.number + 1)
  BY <1>1, <1>2, <1>3, SkippingCover
<1>4. CASE result' = result /\ \E at \in {"over", "delay"} : job' = [job EXCEPT !.at = at]
  <2>1. job'.page = 1
    BY <1>1, <1>4 DEF Job
  <2> QED
    BY <1>1, <1>2, <1>4, <2>1, StayingCover
<1>5. Len(Asked) \in Nat /\ job.number \in Nat
  BY <1>1, RefetchAssumption DEF Job
<1> QED
  BY <1>3, <1>4, <1>5 DEF NextChat

LEMMA BeginChatCover == ASSUME RefetchType, RefetchType', CoverInv, BeginChat PROVE CoverInv'
<1>1. job \in Job /\ job.at = "delay" /\ mail = NoPage /\ mail' = NoPage /\ job.number <= Len(Asked)
  BY DEF BeginChat, Stands, RefetchType, JobType, WireType, wires
<1>2. memory' = memory /\ asked' = asked /\ handler' = handler
  BY DEF BeginChat, store, wires
<1>3. CASE result' = [result EXCEPT ![chat].reason = "interrupted"] /\ job' = AtChat(job.number + 1)
  BY <1>1, <1>2, <1>3, SkippingCover
<1>4. CASE /\ job' = [job EXCEPT !.at = "request", !.page = 1, !.tries = Candidates(chat), !.seen = {}]
           /\ UNCHANGED result
  <2>1. job'.page = 1
    BY <1>1, <1>4 DEF Job
  <2> QED
    BY <1>1, <1>2, <1>4, <2>1, StayingCover
<1> QED
  BY <1>3, <1>4 DEF BeginChat

LEMMA PauseCover == ASSUME RefetchType, RefetchType', CoverInv, Pause PROVE CoverInv'
<1>1. /\ job \in Job /\ job.at \in {"page", "retry"} /\ mail = NoPage /\ mail' = NoPage
      /\ job.number <= Len(Asked)
  BY DEF Pause, Stands, RefetchType, JobType, WireType, wires
<1>2. asked' = asked /\ handler' = handler
  BY DEF Pause, wires
<1>3. CASE job' = [job EXCEPT !.at = "request"] /\ UNCHANGED <<store, result>>
  <2>1. job'.page = job.page /\ job'.number = job.number /\ job'.tries = job.tries
    BY <1>1, <1>3 DEF Job
  <2>2. memory' = memory /\ result' = result
    BY <1>3 DEF store
  <2> QED
    BY <1>1, <1>2, <2>1, <2>2, StayingCover
<1>4. CASE Stopped("interrupted")
  BY <1>1, <1>2, <1>4, StoppingCover DEF Reasons
<1> QED
  BY <1>3, <1>4 DEF Pause

LEMMA WaitCover ==
    ASSUME RefetchType, RefetchType', CoverInv, SendFails \/ TimeOut \/ WaitInterrupted
    PROVE  CoverInv'
<1>1. /\ job.at \in {"request", "await"} /\ job.number <= Len(Asked) /\ job.tries # << >>
      /\ job.at = "request" => mail = NoPage
  BY DEF SendFails, TimeOut, WaitInterrupted, Stands, RefetchType, JobType, WireType
<1>2. CASE SendFails
  BY <1>1, <1>2, FailingCover DEF SendFails, Stands, wires, Reasons
<1>3. CASE TimeOut
  BY <1>1, <1>3, FailingCover DEF TimeOut, Reasons
<1>4. CASE WaitInterrupted
  BY <1>1, <1>4, StoppingCover DEF WaitInterrupted, Reasons
<1> QED
  BY <1>2, <1>3, <1>4

LEMMA TakePageCover == ASSUME RefetchType, RefetchType', CoverInv, TakePage PROVE CoverInv'
<1>1. /\ job \in Job /\ job.number <= Len(Asked) /\ mail # NoPage /\ mail \in Pages
      /\ job.at = "await" /\ asked' = asked /\ handler' = handler /\ mail' = NoPage
  BY DEF TakePage, Stands, RefetchType, JobType, WireType
<1>2. CASE interrupted
  BY <1>1, <1>2, StoppingCover DEF TakePage, Reasons
<1>3. /\ Counted(mail) \in Result /\ Counted(mail).start = result[chat].start
      /\ \/ Counted(mail).oldest = result[chat].oldest
         \/ \E i \in Ids : At[i] = Counted(mail).oldest /\ Covered(chat, i)
  <2>1. mail.returned > 0 => mail.oldest \in Ids /\ Covered(chat, mail.oldest)
    BY <1>1 DEF CoverInv, MailCover, RefetchType, WireType
  <2> QED
    BY <1>1, <2>1, CountedType
<1>4. CASE ~interrupted /\ ReasonToStop(mail) # "none"
  <2> DEFINE r == [Counted(mail) EXCEPT !.reason = ReasonToStop(mail)]
  <2>1. ReasonToStop(mail) \in Reasons
    BY DEF ReasonToStop, Reasons
  <2>2. r \in Result /\ r.start = Counted(mail).start /\ r.oldest = Counted(mail).oldest
    BY <1>3, <2>1 DEF Result
  <2>3. EndChat(r)
    BY <1>4 DEF TakePage
  <2> HIDE DEF r
  <2>4. /\ result' = [result EXCEPT ![chat] = r] /\ job' = AtChat(job.number + 1)
        /\ memory' = memory
    BY <2>3 DEF EndChat
  <2>5. job'.page = 1
    BY <2>4 DEF AtChat
  <2>6. r.oldest = result[chat].oldest \/ \E i \in Ids : At[i] = r.oldest /\ Covered(chat, i)
    BY <1>3, <2>2
  <2> QED
    BY <1>1, <1>3, <2>2, <2>4, <2>5, <2>6, EndingCover
<1>5. CASE ~interrupted /\ ReasonToStop(mail) = "none"
  <2> DEFINE oldest == [id |-> mail.oldest, at |-> At[mail.oldest]]
  <2>1. /\ result' = [result EXCEPT ![chat] = Counted(mail)]
        /\ job' = [job EXCEPT !.at = "page", !.page = job.page + 1, !.tries = <<oldest, oldest>>,
                              !.seen = job.seen \cup {anchor.id}]
        /\ memory' = memory
    BY <1>1, <1>5 DEF TakePage, Job
  <2>2. job'.number = job.number /\ job'.tries = <<oldest, oldest>>
    BY <1>1, <2>1 DEF Job
  <2>3. ResultCover' /\ Keeps
    BY <1>1, <1>3, <2>1, RecordingCover
  <2>4. mail.returned > 0
    BY <1>1, <1>5 DEF ReasonToStop, Pages
  <2>5. mail.oldest \in Ids /\ Covered(chat, mail.oldest)
    BY <1>1, <2>4 DEF CoverInv, MailCover, RefetchType, WireType
  <2>6. PICK c \in Chats : c = chat /\ c = chat'
    BY <1>1, <2>2, Chatting DEF RefetchType, chat
  <2>7. PICK i \in Ids : i = mail.oldest
    BY <2>5
  <2>8. Covered(c, i)'
    BY <2>3, <2>5, <2>6, <2>7, CoveredKept, Beyond
  <2>9. TriesCover'
    <3>1. \A n \in 1..Len(job'.tries) : job'.tries[n] = oldest
      BY <2>2
    <3>2. \A n \in 1..Len(job'.tries) : job'.tries[n].id = i
      BY <2>7, <3>1
    <3> QED
      BY <2>6, <2>8, <3>2, Beyond DEF TriesCover
  <2> QED
    BY <1>1, <2>3, <2>9, AskedKept, AnswerKept, MailKept DEF CoverInv
<1> QED
  BY <1>2, <1>4, <1>5

LEMMA RequestCover == ASSUME RefetchType, RefetchType', CoverInv, Request PROVE CoverInv'
<1>1. /\ job \in Job /\ job.number <= Len(Asked) /\ job.tries # << >> /\ job.tries \in Seq(Anchors)
      /\ mail = NoPage
  BY DEF Request, Stands, RefetchType, JobType, WireType, Job
<1>2. /\ job' = [job EXCEPT !.at = "await"] /\ memory' = memory /\ handler' = handler /\ mail' = mail
      /\ asked' = asked \cup {[number |-> sent + 1, chat |-> chat, anchor |-> anchor]}
  BY DEF Request, store
<1>3. job'.page = job.page /\ job'.number = job.number /\ job'.tries = job.tries
  BY <1>1, <1>2 DEF Job
<1>4. /\ chat \in Chats /\ result \in [Chats -> Result] /\ anchor = job.tries[1] /\ anchor \in Anchors
      /\ 1 \in 1..Len(job.tries)
  <2>1. Len(job.tries) \in Nat /\ Len(job.tries) # 0
    BY <1>1, LenProperties, EmptySeq
  <2>2. 1 \in 1..Len(job.tries)
    BY <2>1
  <2>3. anchor = job.tries[1]
    BY <1>1 DEF anchor
  <2> QED
    BY <1>1, <2>2, <2>3, Chatting DEF RefetchType, ResultType
<1>5. anchor.id # Blank => anchor.id \in Nat
  BY <1>4, Beyond DEF Anchors
<1>6. /\ \A c \in Chats : result[c].start \in Nat /\ result'[c].oldest = result[c].oldest
      /\ \A c \in Chats : result'[c].start <= result[c].start
      /\ job.page = 1 /\ anchor.id # Blank => result'[chat].start <= anchor.id
  <2>1. \A c \in Chats : result[c].start \in Nat
    BY <1>4 DEF Result
  <2>2. CASE job.page = 1 /\ anchor.id # Blank /\ anchor.id < result[chat].start
    <3> DEFINE r == [result[chat] EXCEPT !.start = anchor.id]
    <3>1. result' = [result EXCEPT ![chat] = r]
      BY <2>2 DEF Request
    <3>2. r.start = anchor.id /\ r.oldest = result[chat].oldest
      BY <1>4 DEF Result
    <3> HIDE DEF r
    <3>3. \A c \in Chats : result'[c] = IF c = chat THEN r ELSE result[c]
      BY <1>4, <3>1
    <3> QED
      BY <1>4, <1>5, <2>1, <2>2, <3>2, <3>3
  <2>3. CASE ~(job.page = 1 /\ anchor.id # Blank /\ anchor.id < result[chat].start)
    <3>1. result' = result
      BY <2>3 DEF Request
    <3> QED
      BY <1>4, <1>5, <2>1, <2>3, <3>1
  <2> QED
    BY <2>2, <2>3
<1>7. Keeps
  BY <1>2, <1>6 DEF Keeps
<1>8. AskedCover'
  <2>1. ASSUME anchor.id # Blank PROVE Covered(chat, anchor.id)'
    <3>1. PICK c \in Chats : c = chat
      BY <1>4
    <3>2. PICK i \in Nat : i = anchor.id
      BY <1>5, <2>1
    <3>3. Covered(c, i)'
      <4>1. CASE job.page = 1
        <5>1. result'[c].start <= i
          BY <1>6, <2>1, <3>1, <3>2, <4>1
        <5>2. \A m \in Phone[c] : m \in Nat
          BY Beyond, RefetchAssumption
        <5>3. result'[c].start \in Nat
          BY DEF RefetchType, ResultType, Result
        <5> QED
          BY <5>1, <5>2, <5>3 DEF Covered
      <4>2. CASE job.page > 1
        <5>1. Covered(c, i)
          BY <1>4, <3>1, <3>2, <4>2 DEF CoverInv, TriesCover
        <5> QED
          BY <1>7, <5>1, CoveredKept
      <4> QED
        BY <1>1, <4>1, <4>2 DEF Job
    <3>4. chat' = chat /\ anchor' = anchor
      BY <1>3 DEF chat, anchor
    <3> QED
      BY <3>1, <3>2, <3>3, <3>4 DEF Covered
  <2>2. ASSUME NEW r \in asked', r.anchor.id # Blank PROVE Covered(r.chat, r.anchor.id)'
    <3>1. CASE r \in asked
      <4>1. r.chat \in Chats /\ r.anchor \in Anchors
        BY <3>1 DEF RefetchType, WireType
      <4>2. r.anchor.id \in Nat
        BY <2>2, <4>1, Beyond DEF Anchors
      <4>3. Covered(r.chat, r.anchor.id)
        BY <2>2, <3>1 DEF CoverInv, AskedCover
      <4> QED
        BY <1>7, <4>1, <4>2, <4>3, CoveredKept
    <3>2. CASE r \notin asked
      <4>1. r.chat = chat /\ r.anchor = anchor
        BY <1>2, <3>2
      <4>2. chat' = chat /\ anchor' = anchor
        BY <1>3 DEF chat, anchor
      <4> QED
        BY <2>1, <2>2, <4>1, <4>2 DEF Covered
    <3> QED
      BY <3>1, <3>2
  <2> QED
    BY <2>2 DEF AskedCover
<1>9. ResultCover'
  BY <1>6, <1>7, ResultKept DEF CoverInv, ResultCover
<1> QED
  BY <1>1, <1>2, <1>3, <1>7, <1>8, <1>9, AnswerKept, MailKept, TriesKept DEF CoverInv

\* An answer holds all that the phone has between its oldest message and its anchor.
LEMMA AnswerReaches ==
    ASSUME NEW c \in Chats, NEW a \in Anchors, NEW o \in Answer(c, a),
           NEW m \in Before(c, a), o <= m
    PROVE  m \in Answer(c, a)
<1> DEFINE B == Before(c, a)
           Later(n) == {k \in B : k > n}
<1>1. B \subseteq Nat /\ IsFiniteSet(B) /\ o \in B
  BY AnswerType, Beyond
<1>2. Cardinality(Later(o)) < PageSize
  BY DEF Answer
<1>3. Later(m) \subseteq Later(o)
  <2>1. \A k \in B : k > m => k > o
    BY <1>1
  <2> QED
    BY <2>1
<1>4. IsFiniteSet(Later(o)) /\ IsFiniteSet(Later(m))
  BY <1>1, FS_Subset
<1>5. /\ Cardinality(Later(m)) \in Nat /\ Cardinality(Later(o)) \in Nat
      /\ Cardinality(Later(m)) <= Cardinality(Later(o))
  BY <1>3, <1>4, FS_Subset, FS_CardinalityType
<1>6. Cardinality(Later(m)) < PageSize
  <2> HIDE DEF Later
  <2>1. PageSize \in Nat
    BY RefetchAssumption
  <2> QED
    BY <1>2, <1>5, <2>1 DEF Later
<1> QED
  BY <1>6 DEF Answer

LEMMA ReceiveCover ==
    ASSUME RefetchType, RefetchType', CoverInv, NEW r \in asked, Receive(r)
    PROVE  CoverInv'
<1> DEFINE page == Answer(r.chat, r.anchor)
           added == Cardinality(page \ memory[r.chat])
<1>1. r.chat \in Chats /\ r.anchor \in Anchors /\ page \subseteq Ids
  <2>1. r.chat \in Chats /\ r.anchor \in Anchors
    BY DEF RefetchType, WireType
  <2> QED
    BY <2>1, AnswerType
<1>2. /\ memory' = [memory EXCEPT ![r.chat] = memory[r.chat] \cup page] /\ asked' \subseteq asked
      /\ job' = job /\ result' = result /\ mail' = mail
  BY DEF Receive
<1>3. Keeps
  <2>1. memory \in [Chats -> SUBSET Ids] /\ \A c \in Chats : result[c].start \in Nat
    BY DEF RefetchType, StoreType, ResultType, Result
  <2> HIDE DEF page
  <2> QED
    BY <1>2, <2>1 DEF Keeps
<1>4. AnswerCover'
  <2>1. CASE page = {}
    <3>1. handler'.at = "misses"
      BY <2>1 DEF Receive
    <3> QED
      BY <3>1 DEF AnswerCover
  <2>2. CASE page # {}
    <3>1. PICK o \in page :
            handler' = [at |-> "publish", chat |-> r.chat,
                        page |-> [returned |-> Cardinality(page), added |-> added, oldest |-> o]]
      BY <2>2 DEF Receive
    <3>2. handler'.chat = r.chat /\ handler'.page.oldest = o
      BY <3>1
    <3>3. ASSUME NEW m \in Phone[r.chat], o <= m, m < result'[r.chat].start
          PROVE  m \in memory'[r.chat]
      <4>1. CASE r.anchor.id # Blank /\ r.anchor.id <= m
        <5>1. Covered(r.chat, r.anchor.id)
          BY <4>1 DEF CoverInv, AskedCover
        <5>2. m \in memory[r.chat]
          BY <1>2, <3>3, <4>1, <5>1 DEF Covered
        <5> QED
          BY <1>1, <1>3, <5>2 DEF Keeps
      <4>2. CASE r.anchor.id = Blank \/ m < r.anchor.id
        <5>1. m \in Before(r.chat, r.anchor)
          BY <4>2 DEF Before
        <5>2. m \in page
          BY <1>1, <3>3, <5>1, AnswerReaches
        <5> HIDE DEF page
        <5> QED
          BY <1>1, <1>2, <5>2 DEF RefetchType, StoreType
      <4>3. m \in Nat /\ (r.anchor.id # Blank => r.anchor.id \in Nat)
        <5>1. Phone[r.chat] \subseteq Ids
          BY <1>1, RefetchAssumption
        <5>2. r.anchor.id \in Ids \cup {Blank}
          BY <1>1 DEF Anchors
        <5> QED
          BY <5>1, <5>2, Beyond
      <4>4. r.anchor.id = Blank \/ r.anchor.id <= m \/ m < r.anchor.id
        BY <4>3
      <4> QED
        BY <4>1, <4>2, <4>4
    <3> HIDE DEF page
    <3>4. Covered(r.chat, o)'
      BY <3>3 DEF Covered
    <3> QED
      BY <3>2, <3>4 DEF AnswerCover, Covered
  <2> QED
    BY <2>1, <2>2
<1>5. ResultCover'
  BY <1>2, <1>3, ResultKept DEF CoverInv, ResultCover
<1>6. TriesCover'
  <2>1. CASE job.page = 1
    BY <1>2, <1>3, <2>1, TriesKept DEF CoverInv
  <2>2. CASE job.page # 1
    <3>1. job.number <= Len(Asked)
      BY <2>2, RefetchAssumption DEF RefetchType, JobType, Job
    <3> QED
      BY <1>2, <1>3, <3>1, TriesKept DEF CoverInv
  <2> QED
    BY <2>1, <2>2
<1> QED
  BY <1>2, <1>3, <1>4, <1>5, <1>6, AskedKept, MailKept DEF CoverInv

\* Steps that take no place in the refetch.
LEMMA AsideCover ==
    ASSUME RefetchType, RefetchType', CoverInv, AnswerCover', MailCover',
           \A c \in Chats : memory[c] \subseteq memory'[c], asked' = asked,
           job' = job, result' = result
    PROVE  CoverInv'
<1>1. Keeps
  BY DEF Keeps, RefetchType, ResultType, Result
<1>2. TriesCover'
  <2>1. CASE job.page = 1
    BY <1>1, <2>1, TriesKept DEF CoverInv
  <2>2. CASE job.page # 1
    <3>1. job.number <= Len(Asked)
      BY <2>2, RefetchAssumption DEF RefetchType, JobType, Job
    <3> QED
      BY <1>1, <3>1, TriesKept DEF CoverInv
  <2> QED
    BY <2>1, <2>2
<1>3. ResultCover'
  BY <1>1, ResultKept DEF CoverInv, ResultCover
<1> QED
  BY <1>1, <1>2, <1>3, AskedKept DEF CoverInv

LEMMA TellingCover ==
    ASSUME RefetchType, RefetchType', CoverInv, Publish \/ TellMisses
    PROVE  CoverInv'
<1>1. /\ memory' = memory /\ asked' = asked /\ job' = job /\ result' = result
      /\ handler'.at # "publish"
  BY DEF Publish, TellMisses, store
<1>2. AnswerCover'
  BY <1>1 DEF AnswerCover
<1>3. CASE mail' = mail
  <2>1. MailCover'
    BY <1>1, <1>3 DEF CoverInv, MailCover, Covered, chat
  <2> QED
    BY <1>1, <1>2, <2>1, AsideCover
<1>4. CASE mail' = Miss
  <2>1. MailCover'
    BY <1>4 DEF MailCover, Miss
  <2> QED
    BY <1>1, <1>2, <2>1, AsideCover
<1>5. CASE Publish /\ chat = handler.chat /\ mail' = handler.page
  <2>1. Covered(handler.chat, handler.page.oldest)
    BY <1>5 DEF CoverInv, AnswerCover, Publish
  <2>2. Covered(chat, mail.oldest)'
    BY <1>1, <1>5, <2>1 DEF Covered, chat
  <2>3. MailCover'
    BY <2>2 DEF MailCover
  <2> QED
    BY <1>1, <1>2, <2>3, AsideCover
<1> QED
  BY <1>3, <1>4, <1>5 DEF Publish, TellMisses, Delivered

LEMMA SessionCover ==
    ASSUME RefetchType, RefetchType', CoverInv,
           Session \/ Process \/ Signals \/ UNCHANGED vars
    PROVE  CoverInv'
<1>1. asked' = asked /\ job' = job /\ result' = result /\ handler' = handler /\ mail' = mail
  BY DEF Session, Load, MarkReady, Flush, ReceiveLive, Process, StartPaging, GiveUpWaiting, Finish,
     Shutdown, Signals, Interrupt, Kill, vars, wires
<1>2. memory \in [Chats -> SUBSET Ids]
  BY DEF RefetchType, StoreType
<1>3. \A c \in Chats : memory[c] \subseteq memory'[c]
  <2>1. CASE Load
    BY <1>2, <2>1 DEF Load
  <2>2. ASSUME NEW c \in Chats, NEW m \in Live[c], ReceiveLive(c, m)
        PROVE  \A d \in Chats : memory[d] \subseteq memory'[d]
    BY <1>2, <2>2 DEF ReceiveLive
  <2>3. CASE memory' = memory
    BY <2>3
  <2> QED
    BY <2>1, <2>2, <2>3 DEF Session, MarkReady, Flush, Process, StartPaging, GiveUpWaiting, Finish,
       Shutdown, Signals, Interrupt, Kill, vars, store
<1>4. \A c \in Chats : result[c].start \in Nat
  BY DEF RefetchType, ResultType, Result
<1>5. Keeps
  BY <1>1, <1>3, <1>4 DEF Keeps
<1> QED
  BY <1>1, <1>3, <1>5, AnswerKept, MailKept, AsideCover DEF CoverInv

LEMMA CoverStep == RefetchType /\ CoverInv /\ [Next]_vars => CoverInv'
<1> SUFFICES ASSUME RefetchType, CoverInv, [Next]_vars PROVE CoverInv'
  OBVIOUS
<1>1. RefetchType'
  BY TypeStep
<1>2. CASE Session \/ Process \/ Signals \/ UNCHANGED vars
  BY <1>1, <1>2, SessionCover
<1>3. CASE Answering
  BY <1>1, <1>3, ReceiveCover, TellingCover DEF Answering
<1>4. CASE Paging
  BY <1>1, <1>4, NextChatCover, BeginChatCover, PauseCover, RequestCover, WaitCover, TakePageCover
     DEF Paging
<1> QED
  BY <1>2, <1>3, <1>4 DEF Next

LEMMA CoverInit == Init => CoverInv
<1> SUFFICES ASSUME Init PROVE CoverInv
  OBVIOUS
<1>1. job.page = 1
  BY DEF Init, AtChat
<1>2. \A c \in Chats : result[c].oldest = Now
  BY DEF Init, Fresh
<1> QED
  BY <1>1, <1>2 DEF Init, CoverInv, AskedCover, AnswerCover, MailCover, TriesCover, ResultCover

\* The result of a chat is honest: what the phone has of it, and is older than the start of
\* its paging and newer than the oldest message that the result names, is in the store,
\* whichever answers were late, lost, repeated or about another chat.
THEOREM OldestReached == Spec => []OldestIsReached
<1>1. RefetchType /\ CoverInv => OldestIsReached
  <2> SUFFICES ASSUME RefetchType, CoverInv, NEW c \in Chats, NEW m \in Phone[c],
                      At[m] > result[c].oldest, m < result[c].start
               PROVE  m \in memory[c]
    BY DEF OldestIsReached
  <2>1. m \in Ids /\ At[m] \in Nat /\ At[m] < Now /\ Now \in Nat /\ m \in Nat
    BY Beyond, RefetchAssumption
  <2>2. result[c].oldest # Now
    BY <2>1
  <2>3. PICK i \in Ids : At[i] = result[c].oldest /\ Covered(c, i)
    BY <2>2 DEF CoverInv, ResultCover
  <2>4. i <= m
    <3>1. i \in Nat /\ At[i] \in Nat /\ (m < i => At[m] <= At[i])
      BY <2>1, Beyond, RefetchAssumption
    <3> QED
      BY <2>1, <2>3, <3>1
  <2> QED
    BY <2>3, <2>4 DEF Covered
<1> QED
  BY <1>1, InitType, TypeStep, CoverInit, CoverStep, PTL DEF Spec

=============================================================================
