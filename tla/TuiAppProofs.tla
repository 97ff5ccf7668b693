---------------------------- MODULE TuiAppProofs ----------------------------
(***************************************************************************)
(* Theorems about TuiApp, for every set of chats and messages and every    *)
(* use: the type, that the pane never mixes chats, that a text goes to the *)
(* chat that was shown, that a cursor which points at nothing is soon put  *)
(* right, and that the open chat's pane lacks only what was overtaken.     *)
(*                                                                         *)
(* Each needs an invariant about what is on its way: the pane about the    *)
(* chat of every screen and message in the backend and on the stream       *)
(* (PaneInv), a text about the commands (TextInv), the cursor about the    *)
(* selection that made it stale, which the client's commands, the loop or  *)
(* the stream still hold (CursorInv), and what the pane lacks about the    *)
(* screens in the goroutines' hands and about what the stream leaves in    *)
(* the pane once it is handled (FillInv).                                  *)
(***************************************************************************)
EXTENDS TuiApp, SequenceTheorems, TLAPS

AllIds == Live \cup Old \cup Own
Places == {"idle", "stored", "telling", "reading", "checking", "showing", "begun", "synced"}
Jobs == [at : Places, chat : Chats \cup {NoChat}, msg : AllIds \cup {NoMsg}, screen : Seq(Messages)]
Commands ==
    {k \in [kind : {"select", "send", "upload", "revoke"}, chat : Chats \cup {NoChat},
            id : AllIds \cup {NoMsg}] :
        /\ k.kind # "revoke" => k.chat \in Chats
        /\ k.kind \in {"send", "upload"} => k.id \in Own}
EventsOfApp == [kind : {"message", "screen"}, chat : Chats \cup {NoChat}, messages : Seq(Messages)]

BackendOK ==
    /\ use \in Uses /\ receiver \in Chats \cup {NoChat} /\ others \in 0..use.others
    /\ stored \in [Chats -> Seq(Messages)]
    /\ unannounced \subseteq AllIds

\* What a goroutine has in its hands at each place.
JobOK(job) ==
    /\ job \in Jobs
    /\ job.at \in Places \ {"idle", "begun"} => job.chat \in Chats
    /\ job.at \in {"stored", "telling"} => job.msg \in AllIds
WorkOK == work \in [Goroutines -> Jobs] /\ \A g \in Goroutines : JobOK(work[g])

WiresOK == up \in Seq(Commands) /\ down \in Seq(EventsOfApp)

AppOK ==
    /\ current \in Chats \cup {NoChat} /\ messages \in Seq(Messages) /\ cursor \in Nat
    /\ revoke \in AllIds \cup {NoMsg}

TypingOK ==
    /\ focus \in {"list", "pane"} /\ draft \in BOOLEAN /\ keys \in 0..use.keys
    /\ DOMAIN meant \subseteq Own
    /\ \A i \in DOMAIN meant : meant[i] \in [kind : {"send", "upload"}, chat : Chats]

TypeInv == BackendOK /\ WorkOK /\ WiresOK /\ AppOK /\ TypingOK

LEMMA TypeFollows == TypeInv => TypeOK
<1> SUFFICES ASSUME TypeInv PROVE TypeOK
  OBVIOUS
<1> DEFINE AnyCommand == [kind : {"select", "send", "upload", "revoke"}, chat : Chats \cup {NoChat},
                          id : AllIds \cup {NoMsg}]
<1>1. Commands \subseteq AnyCommand
  BY DEF Commands
<1>2. up \in Seq(AnyCommand)
  BY <1>1, SeqMonotonic DEF TypeInv, WiresOK
<1> QED
  BY <1>2 DEF TypeInv, BackendOK, WorkOK, WiresOK, AppOK, TypingOK, TypeOK, Jobs, Places,
     EventsOfApp, AllIds

-----------------------------------------------------------------------------
(* The type *)

LEMMA IdleType == JobOK(Idle)
BY EmptySeq DEF JobOK, Jobs, Idle, Places

LEMMA MessageType == ASSUME NEW i \in AllIds, NEW c \in Chats PROVE Message(i, c) \in Messages
BY DEF Message, Messages, AllIds

LEMMA ScreenType ==
    ASSUME NEW s \in Seq(Messages) PROVE Screen(s) \in EventsOfApp
<1>1. s # << >> => s[1] \in Messages
  BY EmptySeq, ElementOfSeq
<1> QED
  BY <1>1 DEF Screen, EventsOfApp, Messages

LEMMA NewMessageType ==
    ASSUME NEW m \in Messages PROVE NewMessage(m) \in EventsOfApp
BY DEF NewMessage, EventsOfApp, Messages

\* A goroutine takes up another job.
LEMMA JobChange ==
    ASSUME WorkOK, NEW g \in Goroutines, NEW job, JobOK(job), work' = [work EXCEPT ![g] = job]
    PROVE  WorkOK'
BY DEF WorkOK, JobOK

LEMMA StoreType ==
    ASSUME BackendOK, UNCHANGED <<use, receiver, others>>, NEW m \in Messages,
           NEW s \in Seq(Messages), Store(m, s)
    PROVE  BackendOK'
BY DEF BackendOK, Store, Messages, AllIds

LEMMA InitType == Init => TypeInv
<1> SUFFICES ASSUME Init PROVE TypeInv
  OBVIOUS
<1>1. BackendOK
  <2>1. ASSUME NEW c \in Chats
        PROVE  [n \in 1..Len(use.start[c]) |-> Message(use.start[c][n], c)] \in Seq(Messages)
    <3>1. use.start[c] \in Seq(Live \cup Old)
      BY TuiAssumption DEF Init
    <3>2. \A n \in 1..Len(use.start[c]) : Message(use.start[c][n], c) \in Messages
      BY <3>1, ElementOfSeq, MessageType DEF AllIds
    <3>3. Len(use.start[c]) \in Nat
      BY <3>1, LenProperties
    <3>4. \A n \in Nat : \A f \in [1..n -> Messages] : f \in Seq(Messages)
      BY SeqDef
    <3> QED
      BY <3>2, <3>3, <3>4
  <2>2. use.others \in Nat
    BY TuiAssumption DEF Init
  <2> QED
    BY <2>1, <2>2 DEF Init, BackendOK
<1>2. WorkOK
  BY IdleType DEF Init, WorkOK, JobOK
<1>3. WiresOK /\ AppOK
  BY EmptySeq DEF Init, WiresOK, AppOK
<1>4. TypingOK
  <2>1. use.keys \in Nat
    BY TuiAssumption DEF Init
  <2>2. meant \in Seq(Own) /\ Len(meant) = 0
    BY EmptySeq DEF Init
  <2>3. DOMAIN meant = {}
    BY <2>2, LenProperties
  <2>4. draft \in BOOLEAN
    BY DEF Init
  <2> QED
    BY <2>1, <2>3, <2>4 DEF Init, TypingOK
<1> QED
  BY <1>1, <1>2, <1>3, <1>4 DEF TypeInv

\* Steps of the goroutines.
LEMMA GoesType == ASSUME TypeInv, NEW g \in Goroutines, Goes(g) PROVE TypeInv'
<1> USE DEF TypeInv
<1>1. UNCHANGED <<use, stored, receiver, others, unannounced, up, app, typing>>
  BY DEF Goes, Look, Tell, Read, NewScreen
<1>2. BackendOK' /\ AppOK' /\ TypingOK' /\ up' \in Seq(Commands)
  BY <1>1 DEF BackendOK, AppOK, TypingOK, WiresOK, app, typing
<1>3. JobOK(work[g]) /\ work[g] \in Jobs
  BY DEF WorkOK
<1>4. CASE Look(g)
  <2>1. JobOK([work[g] EXCEPT !.at = "telling"])
    BY <1>3, <1>4 DEF Look, JobOK, Jobs, Places
  <2>2. WorkOK'
    <3>1. \/ work' = [work EXCEPT ![g] = [work[g] EXCEPT !.at = "telling"]]
          \/ work' = [work EXCEPT ![g] = Idle]
      BY <1>4 DEF Look, WorkOK
    <3> QED
      BY <3>1, <2>1, IdleType, JobChange
  <2> QED
    BY <1>2, <1>4, <2>2 DEF Look, WiresOK
<1>5. CASE Tell(g)
  <2>1. NewMessage(Message(work[g].msg, work[g].chat)) \in EventsOfApp
    BY <1>3, <1>5, MessageType, NewMessageType DEF Tell, JobOK, Places
  <2>2. down' \in Seq(EventsOfApp)
    BY <1>5, <2>1, AppendProperties DEF Tell, WiresOK
  <2>3. WorkOK'
    BY <1>5, IdleType, JobChange DEF Tell
  <2> QED
    BY <1>2, <2>2, <2>3 DEF WiresOK
<1>6. CASE Read(g)
  <2>1. work[g].chat \in Chats /\ stored[work[g].chat] \in Seq(Messages)
    BY <1>3, <1>6 DEF Read, JobOK, Places, BackendOK
  <2>2. JobOK([work[g] EXCEPT !.at = "showing", !.screen = stored[work[g].chat]])
    BY <1>3, <2>1 DEF JobOK, Jobs, Places
  <2>3. WorkOK'
    <3>1. work' = [work EXCEPT ![g] = [work[g] EXCEPT !.at = "showing", !.screen = stored[work[g].chat]]]
      BY <1>6 DEF Read, WorkOK
    <3> QED
      BY <3>1, <2>2, JobChange
  <2> QED
    BY <1>2, <1>6, <2>3 DEF Read, WiresOK
<1>7. CASE NewScreen(g)
  <2>1. Screen(work[g].screen) \in EventsOfApp
    BY <1>3, ScreenType DEF Jobs
  <2>2. down' \in Seq(EventsOfApp)
    BY <1>7, <2>1, AppendProperties DEF NewScreen, WiresOK
  <2>3. WorkOK'
    BY <1>7, IdleType, JobChange DEF NewScreen
  <2> QED
    BY <1>2, <2>2, <2>3 DEF WiresOK
<1> QED
  BY <1>4, <1>5, <1>6, <1>7 DEF Goes

\* The loop begins to open a chat.
LEMMA OpensType ==
    ASSUME WorkOK, NEW c \in Chats, Opens(c)
    PROVE  WorkOK' /\ receiver' = c
<1>1. JobOK([Idle EXCEPT !.at = "reading", !.chat = c])
  BY IdleType DEF JobOK, Jobs, Idle, Places
<1> QED
  BY <1>1, JobChange DEF Opens, Goroutines

LEMMA SelectionsType ==
    ASSUME WiresOK, NEW k \in 0..Len(up), Selections(k)
    PROVE  /\ SubSeq(up, k + 1, Len(up)) \in Seq(Commands)
           /\ k > 0 => up[k].chat \in Chats
<1>1. up \in Seq(Commands) /\ Len(up) \in Nat
  BY LenProperties DEF WiresOK
<1>2. \A i \in k + 1 .. Len(up) : up[i] \in Commands
  BY <1>1, ElementOfSeq
<1>3. SubSeq(up, k + 1, Len(up)) \in Seq(Commands)
  BY <1>1, <1>2, SubSeqProperties
<1>4. k > 0 => up[k] \in Commands
  BY <1>1, ElementOfSeq
<1> QED
  BY <1>1, <1>3, <1>4 DEF Commands, Selections

LEMMA TakesType ==
    ASSUME TypeInv, NEW kinds, Takes(kinds)
    PROVE  /\ Head(up) \in Commands /\ Head(up).kind \in kinds
           /\ WiresOK' /\ AppOK' /\ TypingOK'
           /\ UNCHANGED <<use, receiver, others>>
<1>1. Head(up) \in Commands /\ Tail(up) \in Seq(Commands)
  BY HeadTailProperties DEF TypeInv, WiresOK, Takes
<1> QED
  BY <1>1 DEF TypeInv, Takes, WiresOK, AppOK, TypingOK, app, typing

LEMMA SendToType ==
    ASSUME BackendOK, WorkOK, NEW c \in Chats, NEW i \in Own, SendTo(c, i),
           UNCHANGED <<use, receiver, others>>
    PROVE  BackendOK' /\ WorkOK'
<1>1. Message(i, c) \in Messages /\ i \in AllIds
  BY MessageType DEF AllIds
<1>2. Append(stored[c], Message(i, c)) \in Seq(Messages)
  BY <1>1, AppendProperties DEF BackendOK
<1>3. JobOK([Idle EXCEPT !.at = "stored", !.chat = c, !.msg = i])
  BY <1>1, IdleType DEF JobOK, Jobs, Idle, Places
<1> QED
  BY <1>1, <1>2, <1>3, StoreType, JobChange DEF SendTo, Goroutines

LEMMA LoopType == ASSUME TypeInv, LoopTakes \/ OpenForOther PROVE TypeInv'
<1> USE DEF TypeInv
<1>1. CASE OpenChat \/ OpenForOther
  <2>1. PICK k \in 0..Len(up), c \in Chats :
          /\ Selections(k) /\ Opens(c) /\ up' = SubSeq(up, k + 1, Len(up))
    <3>1. CASE OpenChat
      <4>1. PICK k \in 1..Len(up) :
              Selections(k) /\ Opens(up[k].chat) /\ up' = SubSeq(up, k + 1, Len(up))
        BY <3>1 DEF OpenChat
      <4>2. k \in 0..Len(up) /\ k > 0
        BY LenProperties DEF WiresOK
      <4> QED
        BY <4>1, <4>2, SelectionsType
    <3>2. CASE OpenForOther
      BY <3>2 DEF OpenForOther
    <3> QED
      BY <1>1, <3>1, <3>2
  <2>2. /\ UNCHANGED <<use, stored, unannounced, down, app, typing>>
        /\ others' \in 0..use.others
    <3>1. use.others \in Nat
      BY TuiAssumption DEF BackendOK
    <3> QED
      BY <1>1, <3>1 DEF OpenChat, OpenForOther, BackendOK
  <2>3. WiresOK'
    BY <2>1, <2>2, SelectionsType DEF WiresOK
  <2>4. WorkOK' /\ receiver' = c
    BY <2>1, OpensType
  <2> QED
    BY <2>2, <2>3, <2>4 DEF BackendOK, AppOK, TypingOK, app, typing
<1>2. CASE LoopGivesUp
  BY <1>2, TakesType DEF LoopGivesUp, BackendOK, WorkOK
<1>3. CASE LoopSends \/ LoopUploads
  <2>1. Takes({"send"}) \/ Takes({"upload"})
    BY <1>3 DEF LoopSends, LoopUploads
  <2>2. /\ WiresOK' /\ AppOK' /\ TypingOK' /\ UNCHANGED <<use, receiver, others>>
        /\ Head(up).chat \in Chats /\ Head(up).id \in Own
    BY <2>1, TakesType DEF Commands
  <2>3. \E c \in Chats : SendTo(c, Head(up).id)
    BY <1>3, <2>2 DEF LoopSends, LoopUploads, SendTo, BackendOK
  <2> QED
    BY <2>2, <2>3, SendToType
<1>4. CASE LoopRevokes
  <2>1. PICK c \in Chats :
          work' = IF receiver = c
                  THEN [work EXCEPT ![Loop] = [Idle EXCEPT !.at = "reading", !.chat = c]]
                  ELSE work
    BY <1>4 DEF LoopRevokes
  <2>2. JobOK([Idle EXCEPT !.at = "reading", !.chat = c])
    BY IdleType DEF JobOK, Jobs, Idle, Places
  <2>3. WorkOK'
    <3>1. CASE receiver = c
      BY <2>1, <2>2, <3>1, JobChange DEF Goroutines
    <3>2. CASE receiver # c
      BY <2>1, <3>2 DEF WorkOK
    <3> QED
      BY <3>1, <3>2
  <2> QED
    BY <1>4, <2>3, TakesType DEF LoopRevokes, BackendOK
<1> QED
  BY <1>1, <1>2, <1>3, <1>4 DEF LoopTakes

\* Live events and history syncs.
LEMMA EventsType ==
    ASSUME TypeInv, (\E i \in Live : Deliver(i)) \/ MessageChanges \/ SyncBegins \/ SyncGoes
    PROVE  TypeInv'
<1> USE DEF TypeInv
<1>1. /\ UNCHANGED <<use, receiver, others, up, down, app, typing>>
      /\ WiresOK' /\ AppOK' /\ TypingOK'
  BY DEF Deliver, MessageChanges, SyncBegins, SyncGoes, SyncAdds, SyncReads, SyncChecks,
     WiresOK, AppOK, TypingOK, app, typing
<1>2. ASSUME NEW i \in Live \cup Old
      PROVE  /\ i \in AllIds /\ First[i] \in Chats /\ Message(i, First[i]) \in Messages
             /\ stored[First[i]] \in Seq(Messages)
  BY TuiAssumption, MessageType DEF AllIds, BackendOK
<1>3. CASE \E i \in Live : Deliver(i)
  <2>1. PICK i \in Live : Deliver(i)
    BY <1>3
  <2> DEFINE m == Message(i, First[i])
  <2>2. m \in Messages /\ m.chat = First[i] /\ First[i] \in Chats
    BY <1>2 DEF Message
  <2>3. Append(stored[m.chat], m) \in Seq(Messages)
    BY <1>2, <2>2, AppendProperties
  <2>4. BackendOK'
    BY <1>1, <2>1, <2>2, <2>3, StoreType DEF Deliver
  <2>5. JobOK([Idle EXCEPT !.at = "stored", !.chat = First[i], !.msg = i])
    BY <1>2, IdleType DEF JobOK, Jobs, Idle, Places
  <2>6. WorkOK'
    BY <2>1, <2>2, <2>5, JobChange DEF Deliver, Goroutines
  <2> QED
    BY <1>1, <2>4, <2>6
<1>4. CASE MessageChanges
  <2>1. JobOK([Idle EXCEPT !.at = "reading", !.chat = receiver])
    BY <1>4, IdleType DEF MessageChanges, JobOK, Jobs, Idle, Places, BackendOK
  <2>2. WorkOK'
    BY <1>4, <2>1, JobChange DEF MessageChanges, Goroutines
  <2> QED
    BY <1>1, <1>4, <2>2 DEF MessageChanges, BackendOK
<1>5. CASE SyncBegins
  <2>1. JobOK([Idle EXCEPT !.at = "begun", !.chat = receiver])
    BY IdleType DEF JobOK, Jobs, Idle, Places, BackendOK
  <2>2. WorkOK'
    BY <1>5, <2>1, JobChange DEF SyncBegins, Goroutines
  <2> QED
    BY <1>1, <1>5, <2>2 DEF SyncBegins, BackendOK
<1>6. JobOK(work[History]) /\ work \in [Goroutines -> Jobs] /\ History \in Goroutines
  BY DEF WorkOK, Goroutines
<1>7. CASE \E i \in Old : SyncAdds(i)
  <2>1. PICK i \in Old : SyncAdds(i)
    BY <1>7
  <2> DEFINE m == Message(i, First[i])
  <2>2. m \in Messages /\ m.chat = First[i] /\ First[i] \in Chats /\ i \in AllIds
    BY <1>2 DEF Message
  <2>3. <<m>> \o stored[m.chat] \in Seq(Messages)
    <3>1. <<m>> \in Seq(Messages)
      BY <2>2
    <3> QED
      BY <1>2, <2>2, <3>1, ConcatProperties
  <2>4. /\ stored' = [stored EXCEPT ![m.chat] = <<m>> \o @]
        /\ unannounced' \subseteq unannounced \cup {i}
    BY <2>1 DEF SyncAdds
  <2>5. BackendOK'
    BY <1>1, <2>2, <2>3, <2>4 DEF BackendOK
  <2>6. WorkOK'
    <3>1. CASE work[History].chat = m.chat
      <4>1. work' = [work EXCEPT ![History] = [work[History] EXCEPT !.at = "synced"]]
        BY <1>6, <2>1, <3>1 DEF SyncAdds
      <4>2. JobOK([work[History] EXCEPT !.at = "synced"])
        BY <1>6, <2>2, <3>1 DEF JobOK, Jobs, Places
      <4> QED
        BY <1>6, <4>1, <4>2, JobChange
    <3>2. CASE work[History].chat # m.chat
      BY <1>6, <2>1, <3>2, IdleType, JobChange DEF SyncAdds
    <3> QED
      BY <3>1, <3>2
  <2> QED
    BY <1>1, <2>5, <2>6
<1>8. CASE SyncReads
  <2>1. stored[work[History].chat] \in Seq(Messages) /\ work[History].chat \in Chats
    BY <1>6, <1>8 DEF SyncReads, JobOK, Places, BackendOK
  <2>2. JobOK([work[History] EXCEPT !.at = "checking", !.screen = stored[work[History].chat]])
    BY <1>6, <2>1 DEF JobOK, Jobs, Places
  <2>3. work' = [work EXCEPT ![History] = [work[History] EXCEPT !.at = "checking", !.screen = stored[work[History].chat]]]
    BY <1>6, <1>8 DEF SyncReads
  <2>4. WorkOK'
    BY <1>6, <2>2, <2>3, JobChange
  <2> QED
    BY <1>1, <1>8, <2>4 DEF SyncReads, BackendOK
<1>9. CASE SyncChecks
  <2>1. JobOK([work[History] EXCEPT !.at = "showing"])
    BY <1>6, <1>9 DEF SyncChecks, JobOK, Jobs, Places
  <2>2. \/ work' = [work EXCEPT ![History] = [work[History] EXCEPT !.at = "showing"]]
        \/ work' = [work EXCEPT ![History] = Idle]
    BY <1>6, <1>9 DEF SyncChecks
  <2>3. WorkOK'
    BY <1>6, <2>1, <2>2, IdleType, JobChange
  <2> QED
    BY <1>1, <1>9, <2>3 DEF SyncChecks, BackendOK
<1> QED
  BY <1>3, <1>4, <1>5, <1>7, <1>8, <1>9 DEF SyncGoes

LEMMA HeadOfDown ==
    ASSUME WiresOK, down # << >>
    PROVE  /\ Head(down) = down[1] /\ 1 \in 1..Len(down) /\ Head(down) \in EventsOfApp
           /\ Tail(down) \in Seq(EventsOfApp)
           /\ Len(Tail(down)) = Len(down) - 1 /\ Len(down) \in Nat
           /\ \A n \in 1..Len(Tail(down)) : n + 1 \in 1..Len(down) /\ Tail(down)[n] = down[n + 1]
BY HeadTailProperties, LenProperties, EmptySeq DEF WiresOK

LEMMA HandleEventType == ASSUME TypeInv, HandleEvent PROVE TypeInv'
<1> USE DEF TypeInv
<1> DEFINE e == Head(down)
<1>1. e \in EventsOfApp /\ Tail(down) \in Seq(EventsOfApp)
  BY HeadOfDown DEF HandleEvent
<1>2. BackendOK' /\ WorkOK' /\ WiresOK' /\ TypingOK'
  BY <1>1 DEF HandleEvent, BackendOK, WorkOK, WiresOK, TypingOK, backend, typing
<1>3. e.messages \in Seq(Messages) /\ Len(e.messages) \in Nat /\ e.chat \in Chats \cup {NoChat}
  BY <1>1, LenProperties DEF EventsOfApp
<1>4. CASE ShowMessage(e)
  <2>1. messages \o e.messages \in Seq(Messages)
    BY <1>3, ConcatProperties DEF AppOK
  <2> QED
    BY <1>2, <1>4, <2>1 DEF ShowMessage, AppOK
<1>5. CASE ShowScreen(e)
  BY <1>2, <1>3, <1>5 DEF ShowScreen, AppOK
<1> QED
  BY <1>4, <1>5 DEF HandleEvent

LEMMA KeyType == ASSUME TypeInv, KeyPressed PROVE TypeInv'
<1> USE DEF TypeInv
<1>1. \E k \in Keys : Press(k)
  BY DEF KeyPressed, Select, Tab, Pass, Arrow, Delete, Answer, Type, Enter, Keys
<1>2. /\ BackendOK' /\ WorkOK' /\ UNCHANGED <<use, down>>
      /\ keys' \in 0..use'.keys
  <2>1. use.keys \in Nat
    BY TuiAssumption DEF BackendOK
  <2> QED
    BY <1>1, <2>1 DEF Press, BackendOK, WorkOK, TypingOK, backend
<1>3. \A k \in Commands : Append(up, k) \in Seq(Commands)
  BY AppendProperties DEF WiresOK
<1>4. Len(messages) \in Nat /\ (messages # << >> => Len(messages) > 0)
  BY LenProperties, EmptySeq DEF AppOK
<1>5. CASE \E c \in Chats : Select(c)
  <2>1. PICK c \in Chats : Select(c)
    BY <1>5
  <2>2. Command("select", c, NoMsg) \in Commands
    BY DEF Command, Commands
  <2>3. WiresOK'
    BY <1>2, <1>3, <2>1, <2>2 DEF Select, WiresOK
  <2>4. AppOK'
    BY <2>1, EmptySeq DEF Select, AppOK
  <2>5. TypingOK'
    BY <1>2, <2>1 DEF Select, TypingOK
  <2> QED
    BY <1>2, <2>3, <2>4, <2>5
<1>6. CASE Tab \/ Pass
  BY <1>2, <1>6 DEF Tab, Pass, WiresOK, AppOK, TypingOK, app
<1>7. CASE Arrow
  <2>1. cursor' \in Nat
    BY <1>4, <1>7 DEF Arrow, ArrowUp, ArrowDown, AppOK
  <2> QED
    BY <1>2, <1>7, <2>1 DEF Arrow, WiresOK, AppOK, TypingOK
<1>8. CASE Delete
  <2>1. Target \in Messages
    BY <1>4, <1>8, ElementOfSeq DEF Delete, Target, AppOK
  <2>2. revoke' \in AllIds
    BY <1>8, <2>1 DEF Delete, Messages, AllIds
  <2> QED
    BY <1>2, <1>8, <2>2 DEF Delete, WiresOK, AppOK, TypingOK
<1>9. CASE Answer
  <2>1. Command("revoke", NoChat, revoke) \in Commands
    BY DEF Command, Commands, AppOK
  <2>2. WiresOK'
    BY <1>2, <1>3, <1>9, <2>1 DEF Answer, WiresOK
  <2> QED
    BY <1>2, <1>9, <2>2 DEF Answer, AppOK, TypingOK
<1>10. CASE Type
  BY <1>2, <1>10 DEF Type, WiresOK, AppOK, TypingOK, app
<1>11. CASE \E k \in {"send", "upload"}, i \in Own : Enter(k, i)
  <2>1. PICK k \in {"send", "upload"}, i \in Own : Enter(k, i)
    BY <1>11
  <2>2. current \in Chats
    BY <2>1 DEF Enter, AppOK
  <2>3. Command(k, current, i) \in Commands
    BY <2>2 DEF Command, Commands, AllIds
  <2>4. WiresOK' /\ AppOK'
    BY <1>2, <1>3, <2>1, <2>3 DEF Enter, WiresOK, AppOK, app
  <2>5. DOMAIN meant' \subseteq Own /\ \A j \in DOMAIN meant' : meant'[j] \in [kind : {"send", "upload"}, chat : Chats]
    BY <2>1, <2>2 DEF Enter, TypingOK
  <2>6. draft' \in BOOLEAN
    BY <2>1 DEF Enter
  <2>7. focus' \in {"list", "pane"}
    BY <2>1 DEF Enter, TypingOK
  <2> QED
    BY <1>2, <2>4, <2>5, <2>6, <2>7 DEF TypingOK
<1> QED
  BY <1>5, <1>6, <1>7, <1>8, <1>9, <1>10, <1>11 DEF KeyPressed

LEMMA NextType == TypeInv /\ [Next]_vars => TypeInv'
<1> SUFFICES ASSUME TypeInv, [Next]_vars PROVE TypeInv'
  OBVIOUS
<1>1. CASE UNCHANGED vars
  BY <1>1 DEF TypeInv, BackendOK, WorkOK, WiresOK, AppOK, TypingOK, vars, backend, app, typing
<1> QED
  BY <1>1, GoesType, LoopType, EventsType, HandleEventType, KeyType DEF Next

LEMMA TypeInvariance == Spec => []TypeInv
BY InitType, NextType, PTL DEF Spec

\* Every command and event on the wires is one that the other end understands, and the
\* cursor, the question and the draft are what their types say.
THEOREM TypeCorrect == Spec => []TypeOK
BY TypeInvariance, TypeFollows, PTL

-----------------------------------------------------------------------------
(* One chat at a time *)

OfChat(s, c) == \A n \in 1..Len(s) : s[n].chat = c

\* Every list of messages is of one chat, from the store to the pane.
Held(job) == job.at \in {"checking", "showing"} => OfChat(job.screen, job.chat)
StoreOne == \A c \in Chats : OfChat(stored[c], c)
WorkOne == \A g \in Goroutines : Held(work[g])
DownOne == \A n \in 1..Len(down) : OfChat(down[n].messages, down[n].chat)
PaneInv == StoreOne /\ WorkOne /\ DownOne /\ OfChat(messages, current)

LEMMA OfChatConcat ==
    ASSUME NEW c, NEW s \in Seq(Messages), NEW t \in Seq(Messages), OfChat(s, c), OfChat(t, c)
    PROVE  OfChat(s \o t, c)
BY ConcatProperties, LenProperties DEF OfChat

LEMMA OfChatOne ==
    ASSUME NEW m \in Messages
    PROVE  <<m>> \in Seq(Messages) /\ OfChat(<<m>>, m.chat)
BY DEF OfChat

LEMMA OfChatAppend ==
    ASSUME NEW s \in Seq(Messages), NEW m \in Messages, OfChat(s, m.chat)
    PROVE  OfChat(Append(s, m), m.chat)
BY AppendProperties, LenProperties DEF OfChat

LEMMA ScreenOne ==
    ASSUME NEW c, NEW s \in Seq(Messages), OfChat(s, c)
    PROVE  OfChat(Screen(s).messages, Screen(s).chat)
BY EmptySeq, LenProperties DEF OfChat, Screen

LEMMA WorkChange ==
    ASSUME WorkOK, WorkOne, NEW g \in Goroutines, NEW job, Held(job), work' = [work EXCEPT ![g] = job]
    PROVE  WorkOne'
BY DEF WorkOne, WorkOK

LEMMA IdleHolds ==
    Held(Idle) /\ \A at, c, i : at \notin {"checking", "showing"} =>
        Held([Idle EXCEPT !.at = at, !.chat = c, !.msg = i]) /\ Held([Idle EXCEPT !.at = at, !.chat = c])
BY DEF Held, Idle

LEMMA DownAppend ==
    ASSUME WiresOK, DownOne, NEW e \in EventsOfApp, OfChat(e.messages, e.chat), down' = Append(down, e)
    PROVE  DownOne'
BY AppendProperties, LenProperties DEF DownOne, WiresOK

LEMMA StoreOneKept ==
    ASSUME BackendOK, StoreOne, NEW m \in Messages, OfChat(stored[m.chat], m.chat)
    PROVE  /\ stored' = [stored EXCEPT ![m.chat] = Append(stored[m.chat], m)] => StoreOne'
           /\ stored' = [stored EXCEPT ![m.chat] = <<m>> \o @] => StoreOne'
<1>1. m.chat \in Chats /\ stored[m.chat] \in Seq(Messages)
  BY DEF Messages, BackendOK
<1>2. OfChat(Append(stored[m.chat], m), m.chat) /\ OfChat(<<m>> \o stored[m.chat], m.chat)
  BY <1>1, OfChatAppend, OfChatOne, OfChatConcat
<1> QED
  BY <1>1, <1>2 DEF StoreOne, BackendOK

LEMMA GoesPane == ASSUME TypeInv, PaneInv, NEW g \in Goroutines, Goes(g) PROVE PaneInv'
<1> USE DEF TypeInv, PaneInv
<1>1. StoreOne' /\ OfChat(messages, current)'
  BY DEF Goes, Look, Tell, Read, NewScreen, StoreOne, app
<1>2. JobOK(work[g]) /\ work[g] \in Jobs
  BY DEF WorkOK
<1>3. CASE Look(g)
  <2>1. Held([work[g] EXCEPT !.at = "telling"])
    BY <1>2 DEF Held, Jobs
  <2>2. \/ work' = [work EXCEPT ![g] = [work[g] EXCEPT !.at = "telling"]]
        \/ work' = [work EXCEPT ![g] = Idle]
    BY <1>3 DEF Look, WorkOK
  <2>3. WorkOne'
    BY <2>1, <2>2, IdleHolds, WorkChange
  <2> QED
    BY <1>1, <1>3, <2>3 DEF Look, DownOne
<1>4. CASE Tell(g)
  <2> DEFINE m == Message(work[g].msg, work[g].chat)
  <2>1. m \in Messages /\ NewMessage(m) \in EventsOfApp
    BY <1>2, <1>4, MessageType, NewMessageType DEF Tell, JobOK, Places
  <2>2. OfChat(NewMessage(m).messages, NewMessage(m).chat)
    BY <2>1, OfChatOne DEF NewMessage
  <2>3. DownOne'
    BY <1>4, <2>1, <2>2, DownAppend DEF Tell
  <2>4. WorkOne'
    BY <1>4, IdleHolds, WorkChange DEF Tell
  <2> QED
    BY <1>1, <2>3, <2>4
<1>5. CASE Read(g)
  <2>1. work[g].chat \in Chats
    BY <1>2, <1>5 DEF Read, JobOK, Places
  <2>2. Held([work[g] EXCEPT !.at = "showing", !.screen = stored[work[g].chat]])
    BY <1>2, <2>1 DEF Held, Jobs, StoreOne
  <2>3. work' = [work EXCEPT ![g] = [work[g] EXCEPT !.at = "showing", !.screen = stored[work[g].chat]]]
    BY <1>5 DEF Read, WorkOK
  <2>4. WorkOne'
    BY <2>2, <2>3, WorkChange
  <2> QED
    BY <1>1, <1>5, <2>4 DEF Read, DownOne
<1>6. CASE NewScreen(g)
  <2>1. work[g].screen \in Seq(Messages) /\ OfChat(work[g].screen, work[g].chat)
    BY <1>2, <1>6 DEF Jobs, NewScreen, WorkOne, Held
  <2>2. Screen(work[g].screen) \in EventsOfApp
    BY <2>1, ScreenType
  <2>3. DownOne'
    BY <1>6, <2>1, <2>2, ScreenOne, DownAppend DEF NewScreen
  <2>4. WorkOne'
    BY <1>6, IdleHolds, WorkChange DEF NewScreen
  <2> QED
    BY <1>1, <2>3, <2>4
<1> QED
  BY <1>3, <1>4, <1>5, <1>6 DEF Goes

LEMMA LoopPane == ASSUME TypeInv, PaneInv, LoopTakes \/ OpenForOther PROVE PaneInv'
<1> USE DEF TypeInv, PaneInv
<1>1. DownOne' /\ OfChat(messages, current)'
  BY DEF LoopTakes, OpenChat, OpenForOther, LoopGivesUp, LoopSends, LoopUploads, LoopRevokes, Takes,
     DownOne, app
<1>2. CASE OpenChat \/ OpenForOther
  <2>1. PICK c : Opens(c)
    BY <1>2 DEF OpenChat, OpenForOther
  <2>2. WorkOne'
    BY <2>1, IdleHolds, WorkChange DEF Opens, Goroutines
  <2> QED
    BY <1>1, <1>2, <2>2 DEF OpenChat, OpenForOther, StoreOne
<1>3. CASE LoopGivesUp
  BY <1>1, <1>3 DEF LoopGivesUp, StoreOne, WorkOne
<1>4. CASE LoopSends \/ LoopUploads
  <2>1. Takes({"send"}) \/ Takes({"upload"})
    BY <1>4 DEF LoopSends, LoopUploads
  <2>2. Head(up).id \in Own /\ Head(up).chat \in Chats
    BY <2>1, TakesType DEF Commands
  <2>3. PICK c \in Chats : SendTo(c, Head(up).id)
    BY <1>4, <2>2 DEF LoopSends, LoopUploads, SendTo, BackendOK
  <2> DEFINE m == Message(Head(up).id, c)
  <2>4. m \in Messages /\ m.chat = c
    BY <2>2, MessageType DEF Message, AllIds
  <2>5. StoreOne'
    BY <2>3, <2>4, StoreOneKept DEF SendTo, Store, StoreOne
  <2>6. WorkOne'
    BY <2>3, IdleHolds, WorkChange DEF SendTo, Goroutines
  <2> QED
    BY <1>1, <2>5, <2>6
<1>5. CASE LoopRevokes
  <2>1. \/ work' = work
        \/ \E c : work' = [work EXCEPT ![Loop] = [Idle EXCEPT !.at = "reading", !.chat = c]]
    BY <1>5 DEF LoopRevokes
  <2>2. WorkOne'
    BY <2>1, IdleHolds, WorkChange DEF Goroutines, WorkOne
  <2> QED
    BY <1>1, <1>5, <2>2 DEF LoopRevokes, StoreOne
<1> QED
  BY <1>2, <1>3, <1>4, <1>5 DEF LoopTakes

LEMMA EventsPane ==
    ASSUME TypeInv, PaneInv,
           (\E i \in Live : Deliver(i)) \/ MessageChanges \/ SyncBegins \/ SyncGoes
    PROVE  PaneInv'
<1> USE DEF TypeInv, PaneInv
<1>1. DownOne' /\ OfChat(messages, current)'
  BY DEF Deliver, MessageChanges, SyncBegins, SyncGoes, SyncAdds, SyncReads, SyncChecks, DownOne, app
<1>2. ASSUME NEW i \in Live \cup Old
      PROVE  /\ Message(i, First[i]) \in Messages /\ Message(i, First[i]).chat = First[i]
             /\ First[i] \in Chats
  BY TuiAssumption, MessageType DEF AllIds, Message
<1>3. CASE \E i \in Live : Deliver(i)
  <2>1. PICK i \in Live : Deliver(i)
    BY <1>3
  <2>2. StoreOne'
    BY <1>2, <2>1, StoreOneKept DEF Deliver, Store, StoreOne
  <2>3. WorkOne'
    BY <2>1, IdleHolds, WorkChange DEF Deliver, Goroutines
  <2> QED
    BY <1>1, <2>2, <2>3
<1>4. CASE MessageChanges \/ SyncBegins
  <2>1. WorkOne'
    BY <1>4, IdleHolds, WorkChange DEF MessageChanges, SyncBegins, Goroutines
  <2> QED
    BY <1>1, <1>4, <2>1 DEF MessageChanges, SyncBegins, StoreOne
<1>5. JobOK(work[History]) /\ work[History] \in Jobs /\ work \in [Goroutines -> Jobs] /\ History \in Goroutines
  BY DEF WorkOK, Goroutines
<1>6. CASE \E i \in Old : SyncAdds(i)
  <2>1. PICK i \in Old : SyncAdds(i)
    BY <1>6
  <2>2. stored' = [stored EXCEPT ![First[i]] = <<Message(i, First[i])>> \o @]
    BY <2>1 DEF SyncAdds, Message
  <2>3. StoreOne'
    BY <1>2, <2>2, StoreOneKept DEF StoreOne
  <2>4. Held([work[History] EXCEPT !.at = "synced"])
    BY <1>5 DEF Held, Jobs
  <2>5. \/ work' = [work EXCEPT ![History] = [work[History] EXCEPT !.at = "synced"]]
        \/ work' = [work EXCEPT ![History] = Idle]
    BY <1>5, <2>1 DEF SyncAdds
  <2>6. WorkOne'
    BY <1>5, <2>4, <2>5, IdleHolds, WorkChange
  <2> QED
    BY <1>1, <2>3, <2>6
<1>7. CASE SyncReads
  <2>1. work[History].chat \in Chats
    BY <1>5, <1>7 DEF SyncReads, JobOK, Places
  <2>2. Held([work[History] EXCEPT !.at = "checking", !.screen = stored[work[History].chat]])
    BY <1>5, <2>1 DEF Held, Jobs, StoreOne
  <2>3. work' = [work EXCEPT ![History] = [work[History] EXCEPT !.at = "checking", !.screen = stored[work[History].chat]]]
    BY <1>5, <1>7 DEF SyncReads
  <2>4. WorkOne'
    BY <1>5, <2>2, <2>3, WorkChange
  <2> QED
    BY <1>1, <1>7, <2>4 DEF SyncReads, StoreOne
<1>8. CASE SyncChecks
  <2>1. Held([work[History] EXCEPT !.at = "showing"])
    BY <1>5, <1>8 DEF SyncChecks, Held, WorkOne, Jobs
  <2>2. \/ work' = [work EXCEPT ![History] = [work[History] EXCEPT !.at = "showing"]]
        \/ work' = [work EXCEPT ![History] = Idle]
    BY <1>5, <1>8 DEF SyncChecks
  <2>3. WorkOne'
    BY <1>5, <2>1, <2>2, IdleHolds, WorkChange
  <2> QED
    BY <1>1, <1>8, <2>3 DEF SyncChecks, StoreOne
<1> QED
  BY <1>3, <1>4, <1>6, <1>7, <1>8 DEF SyncGoes

LEMMA HandleEventPane == ASSUME TypeInv, PaneInv, HandleEvent PROVE PaneInv'
<1> USE DEF TypeInv, PaneInv
<1> DEFINE e == Head(down)
<1>1. /\ e \in EventsOfApp /\ OfChat(e.messages, e.chat)
      /\ DownOne'
  BY HeadOfDown DEF HandleEvent, DownOne
<1>2. StoreOne' /\ WorkOne'
  BY DEF HandleEvent, backend, StoreOne, WorkOne
<1>3. e.messages \in Seq(Messages) /\ e.chat \in Chats \cup {NoChat} /\ Len(e.messages) \in Nat
  BY <1>1, LenProperties DEF EventsOfApp
<1>4. OfChat(messages, current)'
  <2>1. CASE ShowMessage(e)
    BY <1>1, <1>3, <2>1, OfChatConcat DEF ShowMessage, AppOK
  <2>2. CASE ShowScreen(e)
    <3>1. e.chat = NoChat => e.messages = << >>
      <4>1. e.messages # << >> => 1 \in 1..Len(e.messages) /\ e.messages[1] \in Messages
        BY <1>3, EmptySeq, ElementOfSeq
      <4>2. \A m \in Messages : m.chat # NoChat
        BY TuiAssumption DEF Messages
      <4> QED
        BY <1>1, <4>1, <4>2 DEF OfChat
    <3>2. OfChat(<< >>, current)
      BY EmptySeq DEF OfChat
    <3> QED
      BY <1>1, <2>2, <3>1, <3>2 DEF ShowScreen
  <2> QED
    BY <2>1, <2>2 DEF HandleEvent
<1> QED
  BY <1>1, <1>2, <1>4

LEMMA KeyPane == ASSUME TypeInv, PaneInv, KeyPressed PROVE PaneInv'
<1> USE DEF TypeInv, PaneInv
<1>1. UNCHANGED <<backend, down>>
  BY DEF KeyPressed, Select, Tab, Pass, Arrow, Delete, Answer, Type, Enter, Press
<1>2. UNCHANGED <<messages, current>> \/ messages' = << >>
  BY DEF KeyPressed, Select, Tab, Pass, Arrow, Delete, Answer, Type, Enter, app
<1>3. messages' = << >> => OfChat(messages, current)'
  BY EmptySeq DEF OfChat
<1> QED
  BY <1>1, <1>2, <1>3 DEF backend, StoreOne, WorkOne, DownOne

LEMMA NextPane == TypeInv /\ PaneInv /\ [Next]_vars => PaneInv'
<1> SUFFICES ASSUME TypeInv, PaneInv, [Next]_vars PROVE PaneInv'
  OBVIOUS
<1>1. CASE UNCHANGED vars
  BY <1>1 DEF PaneInv, StoreOne, WorkOne, DownOne, vars, backend, app
<1> QED
  BY <1>1, GoesPane, LoopPane, EventsPane, HandleEventPane, KeyPane DEF Next

LEMMA InitPane == Init => PaneInv
<1> SUFFICES ASSUME Init PROVE PaneInv
  OBVIOUS
<1>1. StoreOne
  <2> SUFFICES ASSUME NEW c \in Chats PROVE OfChat(stored[c], c)
    BY DEF StoreOne
  <2>1. use.start[c] \in Seq(Live \cup Old)
    BY TuiAssumption DEF Init
  <2>2. stored[c] = [n \in 1..Len(use.start[c]) |-> Message(use.start[c][n], c)]
    BY DEF Init
  <2>3. Len(stored[c]) = Len(use.start[c])
    BY <2>1, <2>2, LenProperties
  <2> QED
    BY <2>2, <2>3 DEF OfChat, Message
<1>2. WorkOne
  BY IdleHolds DEF Init, WorkOne
<1>3. DownOne /\ OfChat(messages, current)
  BY EmptySeq DEF Init, DownOne, OfChat
<1> QED
  BY <1>1, <1>2, <1>3 DEF PaneInv

LEMMA PaneInvariance == Spec => []PaneInv
BY InitPane, NextPane, TypeInvariance, PTL DEF Spec

\* Whatever screens and messages arrive late, and of whatever chat: the pane holds messages
\* of the chat that it names, where texts go (handle_server_event, on_chat_select).
THEOREM PaneIsOfOneChat == Spec => []OneChatAtATime
<1>1. PaneInv => OneChatAtATime
  BY DEF PaneInv, OfChat, OneChatAtATime
<1> QED
  BY <1>1, PaneInvariance, PTL

-----------------------------------------------------------------------------
(* Texts *)

\* A command to send names the chat that was shown when it was given.
CommandMeant(k) ==
    k.kind \in {"send", "upload"} =>
        k.id \in DOMAIN meant /\ meant[k.id].kind = k.kind /\ meant[k.id].chat = k.chat
UpMeant == \A n \in 1..Len(up) : CommandMeant(up[n])

\* What is stored of our own was sent, and a text is in the chat that was meant.
IdMeant(i, c) ==
    i \in Own => i \in DOMAIN meant /\ (meant[i].kind = "send" => meant[i].chat = c)
StoreMeant == \A c \in Chats : \A n \in 1..Len(stored[c]) : IdMeant(stored[c][n].id, c)
TextInv == UpMeant /\ StoreMeant

LEMMA HeadOfUp ==
    ASSUME WiresOK, up # << >>
    PROVE  /\ Head(up) = up[1] /\ 1 \in 1..Len(up)
           /\ Tail(up) \in Seq(Commands) /\ Len(Tail(up)) = Len(up) - 1 /\ Len(up) \in Nat
           /\ \A n \in 1..Len(Tail(up)) : n + 1 \in 1..Len(up) /\ Tail(up)[n] = up[n + 1]
BY HeadTailProperties, LenProperties, EmptySeq DEF WiresOK

LEMMA RestOfUp ==
    ASSUME WiresOK, NEW k \in 0..Len(up)
    PROVE  LET s == SubSeq(up, k + 1, Len(up))
           IN /\ Len(s) = Len(up) - k /\ Len(up) \in Nat
              /\ \A n \in 1..Len(s) : k + n \in 1..Len(up) /\ s[n] = up[k + n]
<1>1. up \in Seq(Commands) /\ Len(up) \in Nat
  BY LenProperties DEF WiresOK
<1>2. \A i \in k + 1 .. Len(up) : up[i] \in Commands
  BY <1>1, ElementOfSeq
<1> QED
  BY <1>1, <1>2, SubSeqProperties

\* A message is added to its chat.
LEMMA StoreMeantKept ==
    ASSUME BackendOK, StoreMeant, NEW m \in Messages, IdMeant(m.id, m.chat), UNCHANGED meant,
           \/ stored' = [stored EXCEPT ![m.chat] = Append(stored[m.chat], m)]
           \/ stored' = [stored EXCEPT ![m.chat] = <<m>> \o @]
    PROVE  StoreMeant'
<1>1. m.chat \in Chats /\ stored[m.chat] \in Seq(Messages)
  BY DEF Messages, BackendOK
<1>2. <<m>> \in Seq(Messages) /\ Len(<<m>>) = 1 /\ <<m>>[1] = m
  BY OfChatOne
<1>3. \A n \in 1..Len(Append(stored[m.chat], m)) : IdMeant(Append(stored[m.chat], m)[n].id, m.chat)
  BY <1>1, AppendProperties, LenProperties DEF StoreMeant
<1>4. \A n \in 1..Len(<<m>> \o stored[m.chat]) : IdMeant((<<m>> \o stored[m.chat])[n].id, m.chat)
  BY <1>1, <1>2, ConcatProperties, LenProperties DEF StoreMeant
<1>5. \A c \in Chats \ {m.chat} : stored'[c] = stored[c]
  BY <1>1 DEF BackendOK
<1>6. \/ stored'[m.chat] = Append(stored[m.chat], m)
      \/ stored'[m.chat] = <<m>> \o stored[m.chat]
  BY <1>1 DEF BackendOK
<1>7. \A c \in Chats : \A n \in 1..Len(stored'[c]) : IdMeant(stored'[c][n].id, c)
  <2>1. \A n \in 1..Len(stored'[m.chat]) : IdMeant(stored'[m.chat][n].id, m.chat)
    BY <1>3, <1>4, <1>6
  <2> QED
    BY <1>5, <2>1 DEF StoreMeant
<1> QED
  BY <1>7 DEF StoreMeant, IdMeant

LEMMA LoopText == ASSUME TypeInv, TextInv, LoopTakes \/ OpenForOther PROVE TextInv'
<1> USE DEF TypeInv, TextInv
<1>1. UNCHANGED meant
  BY DEF LoopTakes, OpenChat, OpenForOther, LoopGivesUp, LoopSends, LoopUploads, LoopRevokes, Takes, typing
<1>2. UpMeant'
  <2>1. CASE OpenChat \/ OpenForOther
    <3>1. PICK k \in 0..Len(up) : up' = SubSeq(up, k + 1, Len(up))
      BY <2>1, LenProperties DEF OpenChat, OpenForOther, WiresOK
    <3> QED
      BY <1>1, <3>1, RestOfUp DEF UpMeant, CommandMeant
  <2>2. CASE LoopGivesUp \/ LoopSends \/ LoopUploads \/ LoopRevokes
    <3>1. up # << >> /\ up' = Tail(up)
      BY <2>2 DEF LoopGivesUp, LoopSends, LoopUploads, LoopRevokes, Takes
    <3> QED
      BY <1>1, <3>1, HeadOfUp DEF UpMeant, CommandMeant
  <2> QED
    BY <2>1, <2>2 DEF LoopTakes
<1>3. CASE OpenChat \/ OpenForOther \/ LoopGivesUp \/ LoopRevokes
  BY <1>1, <1>2, <1>3 DEF OpenChat, OpenForOther, LoopGivesUp, LoopRevokes, StoreMeant, IdMeant
<1>4. CASE LoopSends \/ LoopUploads
  <2>1. Takes({"send"}) \/ Takes({"upload"})
    BY <1>4 DEF LoopSends, LoopUploads
  <2>2. Head(up).id \in Own /\ Head(up).chat \in Chats /\ CommandMeant(Head(up))
    BY <2>1, TakesType, HeadOfUp DEF Commands, UpMeant, Takes
  <2>3. PICK c \in Chats : SendTo(c, Head(up).id) /\ (Head(up).kind = "send" => c = Head(up).chat)
    BY <1>4, <2>2 DEF LoopSends, LoopUploads, Takes, SendTo, BackendOK
  <2> DEFINE m == Message(Head(up).id, c)
  <2>4. m \in Messages /\ m.chat = c /\ m.id = Head(up).id
    BY <2>2, MessageType DEF Message, AllIds
  <2>5. IdMeant(m.id, m.chat)
    BY <2>1, <2>2, <2>3, <2>4 DEF IdMeant, CommandMeant, Takes
  <2>6. stored' = [stored EXCEPT ![m.chat] = Append(stored[m.chat], m)]
    BY <2>3, <2>4 DEF SendTo, Store
  <2> QED
    BY <1>1, <1>2, <2>4, <2>5, <2>6, StoreMeantKept
<1> QED
  BY <1>3, <1>4 DEF LoopTakes

LEMMA EventsText ==
    ASSUME TypeInv, TextInv,
           (\E i \in Live : Deliver(i)) \/ MessageChanges \/ SyncBegins \/ SyncGoes
    PROVE  TextInv'
<1> USE DEF TypeInv, TextInv
<1>1. UNCHANGED <<up, meant>> /\ UpMeant'
  BY DEF Deliver, MessageChanges, SyncBegins, SyncGoes, SyncAdds, SyncReads, SyncChecks, typing,
     UpMeant, CommandMeant
<1>2. CASE UNCHANGED stored
  BY <1>1, <1>2 DEF StoreMeant, IdMeant
<1>3. CASE \E i \in Live \cup Old : Deliver(i) \/ SyncAdds(i)
  <2>1. PICK i \in Live \cup Old : Deliver(i) \/ SyncAdds(i)
    BY <1>3
  <2> DEFINE m == Message(i, First[i])
  <2>2. m \in Messages /\ m.chat = First[i] /\ m.id = i
    BY TuiAssumption, MessageType DEF AllIds, Message
  <2>3. IdMeant(m.id, m.chat)
    BY <2>2, TuiAssumption DEF IdMeant
  <2>4. \/ stored' = [stored EXCEPT ![m.chat] = Append(stored[m.chat], m)]
        \/ stored' = [stored EXCEPT ![m.chat] = <<m>> \o @]
    BY <2>1 DEF Deliver, Store, SyncAdds
  <2> QED
    BY <1>1, <2>2, <2>3, <2>4, StoreMeantKept
<1> QED
  BY <1>2, <1>3 DEF MessageChanges, SyncBegins, SyncGoes, SyncReads, SyncChecks

LEMMA KeyText == ASSUME TypeInv, TextInv, KeyPressed PROVE TextInv'
<1> USE DEF TypeInv, TextInv
<1>1. UNCHANGED stored
  BY DEF KeyPressed, Select, Tab, Pass, Arrow, Delete, Answer, Type, Enter, Press, backend
<1>2. CASE UNCHANGED meant
  <2>1. up' = up \/ \E k \in Commands : up' = Append(up, k) /\ k.kind \notin {"send", "upload"}
    <3>1. ASSUME NEW c \in Chats PROVE Command("select", c, NoMsg) \in Commands
      BY DEF Command, Commands
    <3>2. Command("revoke", NoChat, revoke) \in Commands
      BY DEF Command, Commands, AppOK
    <3>3. ~\E k \in {"send", "upload"}, i \in Own : Enter(k, i)
      <4> SUFFICES ASSUME NEW k \in {"send", "upload"}, NEW i \in Own, Enter(k, i) PROVE FALSE
        OBVIOUS
      <4>1. i \in DOMAIN meant' /\ i \notin DOMAIN meant
        BY DEF Enter
      <4> QED
        BY <1>2, <4>1
    <3>4. CASE \E c \in Chats : Select(c)
      BY <3>1, <3>4 DEF Select, Command
    <3>5. CASE Answer
      <4>1. Command("revoke", NoChat, revoke).kind = "revoke"
        BY DEF Command
      <4> QED
        BY <3>2, <3>5, <4>1 DEF Answer
    <3>6. CASE Tab \/ Pass \/ Arrow \/ Delete \/ Type
      BY <3>6 DEF Tab, Pass, Arrow, Delete, Type
    <3>7. (\E c \in Chats : Select(c)) \/ Answer \/ (Tab \/ Pass \/ Arrow \/ Delete \/ Type)
      BY <3>3 DEF KeyPressed
    <3> QED
      BY <3>4, <3>5, <3>6, <3>7
  <2>2. UpMeant'
    <3>1. CASE up' = up
      BY <1>2, <3>1 DEF UpMeant, CommandMeant
    <3>2. CASE \E k \in Commands : up' = Append(up, k) /\ k.kind \notin {"send", "upload"}
      <4>1. PICK k \in Commands : up' = Append(up, k) /\ k.kind \notin {"send", "upload"}
        BY <3>2
      <4>2. /\ Len(up') = Len(up) + 1 /\ up'[Len(up) + 1] = k /\ Len(up) \in Nat
            /\ \A n \in 1..Len(up) : up'[n] = up[n]
        BY <4>1, AppendProperties, LenProperties DEF WiresOK
      <4>3. \A n \in 1..Len(up') : CommandMeant(up'[n])
        BY <4>1, <4>2 DEF UpMeant, CommandMeant
      <4> QED
        BY <1>2, <4>3 DEF UpMeant, CommandMeant
    <3> QED
      BY <2>1, <3>1, <3>2
  <2> QED
    BY <1>1, <1>2, <2>2 DEF StoreMeant, IdMeant
<1>3. CASE \E k \in {"send", "upload"}, i \in Own : Enter(k, i)
  <2>1. PICK k \in {"send", "upload"}, i \in Own : Enter(k, i)
    BY <1>3
  <2>2. /\ DOMAIN meant' = DOMAIN meant \cup {i} /\ i \notin DOMAIN meant
        /\ meant'[i].kind = k /\ meant'[i].chat = current
        /\ \A j \in DOMAIN meant : meant'[j] = meant[j]
    BY <2>1 DEF Enter
  <2>3. up' = Append(up, Command(k, current, i)) /\ current \in Chats
    BY <2>1 DEF Enter, AppOK
  <2>4. Command(k, current, i) \in Commands
    BY <2>3 DEF Command, Commands, AllIds
  <2>5. \A n \in 1..Len(up) : CommandMeant(up[n])'
    <3>1. \A n \in 1..Len(up) : up[n].kind \in {"send", "upload"} =>
            up[n].id \in DOMAIN meant /\ meant[up[n].id].kind = up[n].kind /\ meant[up[n].id].chat = up[n].chat
      BY DEF UpMeant, CommandMeant
    <3>2. ASSUME NEW n \in 1..Len(up) PROVE up'[n] = up[n]
      BY <2>3, <2>4, AppendProperties DEF WiresOK
    <3> QED
      BY <2>2, <3>1, <3>2 DEF CommandMeant
  <2>6. UpMeant'
    <3> SUFFICES ASSUME NEW n \in 1..Len(up') PROVE CommandMeant(up[n])'
      BY DEF UpMeant
    <3>1. Len(up') = Len(up) + 1 /\ Len(up) \in Nat /\ up'[Len(up) + 1] = Command(k, current, i)
      BY <2>3, <2>4, AppendProperties, LenProperties DEF WiresOK
    <3>2. CASE n \in 1..Len(up)
      BY <2>5, <3>2
    <3>3. CASE n = Len(up) + 1
      BY <2>2, <3>1, <3>3 DEF CommandMeant, Command
    <3> QED
      BY <3>1, <3>2, <3>3
  <2>7. StoreMeant'
    BY <1>1, <2>2 DEF StoreMeant, IdMeant
  <2> QED
    BY <2>6, <2>7
<1> QED
  BY <1>2, <1>3 DEF KeyPressed, Select, Tab, Pass, Arrow, Delete, Answer, Type

LEMMA NextText == TypeInv /\ TextInv /\ [Next]_vars => TextInv'
<1> SUFFICES ASSUME TypeInv, TextInv, [Next]_vars PROVE TextInv'
  OBVIOUS
<1>1. CASE UNCHANGED <<stored, up, meant>>
  BY <1>1 DEF TextInv, UpMeant, StoreMeant, CommandMeant, IdMeant
<1>2. CASE (\E g \in Goroutines : Goes(g)) \/ HandleEvent \/ UNCHANGED vars
  BY <1>1, <1>2 DEF Goes, Look, Tell, Read, NewScreen, HandleEvent, vars, backend, typing
<1> QED
  BY <1>2, LoopText, EventsText, KeyText DEF Next

LEMMA InitText == Init => TextInv
<1> SUFFICES ASSUME Init PROVE TextInv
  OBVIOUS
<1>1. UpMeant
  BY EmptySeq DEF Init, UpMeant
<1>2. StoreMeant
  <2> SUFFICES ASSUME NEW c \in Chats, NEW n \in 1..Len(stored[c]) PROVE IdMeant(stored[c][n].id, c)
    BY DEF StoreMeant
  <2>1. use.start[c] \in Seq(Live \cup Old)
    BY TuiAssumption DEF Init
  <2>2. stored[c] = [k \in 1..Len(use.start[c]) |-> Message(use.start[c][k], c)]
    BY DEF Init
  <2>3. n \in 1..Len(use.start[c])
    BY <2>1, <2>2, LenProperties
  <2>4. stored[c][n].id \in Live \cup Old
    BY <2>1, <2>2, <2>3, ElementOfSeq DEF Message
  <2> QED
    BY <2>4, TuiAssumption DEF IdMeant
<1> QED
  BY <1>1, <1>2 DEF TextInv

\* Whatever other clients open, and whatever screens come meanwhile: a text is stored in the
\* chat that its user saw (sendText).  Commands keep their chat on the way.
THEOREM TextsHit == Spec => []TextGoesToItsChat
<1>1. TypeInv /\ TextInv => TextGoesToItsChat
  BY DEF TypeInv, BackendOK, TypingOK, TextInv, StoreMeant, IdMeant, TextGoesToItsChat, Ids
<1>2. Spec => []TextInv
  BY InitText, NextText, TypeInvariance, PTL DEF Spec
<1> QED
  BY <1>1, <1>2, TypeInvariance, PTL

-----------------------------------------------------------------------------
(* The cursor *)

ScreenComes == \E n \in 1..Len(down) : down[n].kind = "screen"
ScreenWillCome ==
    \/ \E n \in 1..Len(up) : up[n].kind = "select"
    \/ work[Loop].at \in {"reading", "showing"}
    \/ ScreenComes
CursorInv == cursor > Len(messages) => ScreenWillCome

LEMMA KeptCursor ==
    ASSUME CursorInv, UNCHANGED <<messages, cursor>>, ScreenWillCome => ScreenWillCome'
    PROVE  CursorInv'
BY DEF CursorInv

LEMMA ScreensStay ==
    ASSUME WiresOK, ScreenComes, NEW e \in EventsOfApp, down' \in {down, Append(down, e)}
    PROVE  ScreenComes'
BY AppendProperties, LenProperties DEF ScreenComes, WiresOK

LEMMA GoesCursor == ASSUME TypeInv, CursorInv, NEW g \in Goroutines, Goes(g) PROVE CursorInv'
<1> USE DEF TypeInv
<1>1. UNCHANGED <<messages, cursor, up>>
  BY DEF Goes, Look, Tell, Read, NewScreen, app
<1>2. work \in [Goroutines -> Jobs] /\ work[g] \in Jobs /\ JobOK(work[g]) /\ Loop \in Goroutines
  BY DEF WorkOK, Goroutines
<1>3. PICK e \in EventsOfApp :
        /\ down' \in {down, Append(down, e)}
        /\ NewScreen(g) => e.kind = "screen" /\ down' = Append(down, e)
  <2>1. Screen(work[g].screen) \in EventsOfApp
    BY <1>2, ScreenType DEF Jobs
  <2>2. CASE Tell(g)
    <3>1. NewMessage(Message(work[g].msg, work[g].chat)) \in EventsOfApp
      BY <1>2, <2>2, MessageType, NewMessageType DEF Tell, JobOK, Places
    <3> QED
      BY <2>2, <3>1 DEF Tell, NewScreen
  <2>3. CASE NewScreen(g)
    BY <2>1, <2>3 DEF NewScreen, Screen
  <2>4. CASE Look(g) \/ Read(g)
    BY <2>1, <2>4 DEF Look, Read, NewScreen
  <2> QED
    BY <2>2, <2>3, <2>4 DEF Goes
<1>4. ScreenWillCome => ScreenWillCome'
  <2>1. CASE ScreenComes
    BY <1>3, <2>1, ScreensStay DEF ScreenWillCome
  <2>2. CASE \E n \in 1..Len(up) : up[n].kind = "select"
    BY <1>1, <2>2 DEF ScreenWillCome
  <2>3. CASE work[Loop].at \in {"reading", "showing"} /\ NewScreen(g) /\ g = Loop
    <3>1. ScreenComes'
      BY <1>3, <2>3, AppendProperties, LenProperties DEF ScreenComes, WiresOK
    <3> QED
      BY <3>1 DEF ScreenWillCome
  <2>4. CASE work[Loop].at \in {"reading", "showing"} /\ ~(NewScreen(g) /\ g = Loop)
    <3>1. work'[Loop].at \in {"reading", "showing"}
      BY <1>2, <2>4 DEF Goes, Look, Tell, Read, NewScreen, Jobs
    <3> QED
      BY <3>1 DEF ScreenWillCome
  <2> QED
    BY <2>1, <2>2, <2>3, <2>4 DEF ScreenWillCome
<1> QED
  BY <1>1, <1>4, KeptCursor

LEMMA LoopCursor == ASSUME TypeInv, CursorInv, LoopTakes \/ OpenForOther PROVE CursorInv'
<1> USE DEF TypeInv
<1>1. UNCHANGED <<messages, cursor, down>> /\ work[Loop].at = "idle"
  BY DEF LoopTakes, OpenChat, OpenForOther, LoopGivesUp, LoopSends, LoopUploads, LoopRevokes, Takes, app
<1>2. ScreenWillCome => ScreenWillCome'
  <2>1. CASE OpenChat \/ OpenForOther
    <3>1. PICK c : Opens(c)
      BY <2>1 DEF OpenChat, OpenForOther
    <3>2. work'[Loop].at = "reading"
      BY <3>1 DEF Opens, WorkOK, Goroutines, Idle
    <3> QED
      BY <3>2 DEF ScreenWillCome
  <2>2. CASE LoopGivesUp \/ LoopSends \/ LoopUploads \/ LoopRevokes
    <3>1. up # << >> /\ up' = Tail(up) /\ Head(up).kind # "select"
      BY <2>2 DEF LoopGivesUp, LoopSends, LoopUploads, LoopRevokes, Takes
    <3>2. ASSUME NEW n \in 1..Len(up), up[n].kind = "select"
          PROVE  \E k \in 1..Len(up') : up'[k].kind = "select"
      <4>1. n # 1 /\ n - 1 \in 1..Len(up') /\ n \in Int
        BY <3>1, <3>2, HeadOfUp
      <4>2. up'[n - 1] = up[n]
        BY <3>1, <4>1, HeadOfUp
      <4> QED
        BY <3>2, <4>1, <4>2
    <3> QED
      BY <1>1, <3>2 DEF ScreenWillCome, ScreenComes
  <2> QED
    BY <2>1, <2>2 DEF LoopTakes
<1> QED
  BY <1>1, <1>2, KeptCursor

LEMMA EventsCursor ==
    ASSUME TypeInv, CursorInv,
           (\E i \in Live : Deliver(i)) \/ MessageChanges \/ SyncBegins \/ SyncGoes
    PROVE  CursorInv'
<1> USE DEF TypeInv
<1>1. UNCHANGED <<messages, cursor, up, down>> /\ work'[Loop] = work[Loop]
  BY DEF Deliver, MessageChanges, SyncBegins, SyncGoes, SyncAdds, SyncReads, SyncChecks, app,
     WorkOK, Goroutines, Loop, Events, History
<1> QED
  BY <1>1, KeptCursor DEF ScreenWillCome, ScreenComes

LEMMA HandleEventCursor == ASSUME TypeInv, CursorInv, HandleEvent PROVE CursorInv'
<1> USE DEF TypeInv
<1> DEFINE e == Head(down)
<1>1. /\ e = down[1] /\ e \in EventsOfApp
      /\ UNCHANGED <<work, up>>
  BY HeadOfDown DEF HandleEvent, backend
<1>2. e.messages \in Seq(Messages) /\ Len(e.messages) \in Nat /\ Len(messages) \in Nat
  BY <1>1, LenProperties DEF EventsOfApp, AppOK
<1>3. CASE e.kind = "message"
  <2>1. cursor' = cursor /\ Len(messages') >= Len(messages)
    BY <1>2, <1>3, ConcatProperties DEF HandleEvent, ShowMessage, AppOK
  <2>2. ASSUME NEW n \in 1..Len(down), down[n].kind = "screen" PROVE ScreenComes'
    <3>1. n # 1 /\ n - 1 \in 1..Len(down') /\ down' = Tail(down)
      BY <1>1, <1>3, <2>2, HeadOfDown DEF HandleEvent
    <3>2. down'[n - 1] = down[n]
      BY <3>1, HeadOfDown DEF HandleEvent
    <3> QED
      BY <2>2, <3>1, <3>2 DEF ScreenComes
  <2>3. ScreenWillCome => ScreenWillCome'
    BY <1>1, <2>2 DEF ScreenWillCome, ScreenComes
  <2>4. Len(messages') \in Nat
    BY <1>2, <1>3, ConcatProperties DEF HandleEvent, ShowMessage, AppOK
  <2> QED
    BY <1>2, <2>1, <2>3, <2>4 DEF CursorInv, AppOK
<1>4. CASE e.kind # "message"
  <2>1. cursor' <= Len(messages')
    BY <1>2, <1>4 DEF HandleEvent, ShowScreen, AppOK
  <2>2. cursor' \in Nat /\ Len(messages') \in Nat
    BY <1>2, <1>4 DEF HandleEvent, ShowScreen, AppOK
  <2> QED
    BY <2>1, <2>2 DEF CursorInv
<1> QED
  BY <1>3, <1>4

LEMMA KeyCursor == ASSUME TypeInv, CursorInv, KeyPressed PROVE CursorInv'
<1> USE DEF TypeInv
<1>1. UNCHANGED <<work, down>>
  BY DEF KeyPressed, Select, Tab, Pass, Arrow, Delete, Answer, Type, Enter, Press, backend
<1>2. Len(messages) \in Nat /\ Len(up) \in Nat /\ up \in Seq(Commands)
  BY LenProperties DEF AppOK, WiresOK
<1>3. \A k \in Commands : up' = Append(up, k) =>
        /\ Len(up') = Len(up) + 1 /\ up'[Len(up) + 1] = k
        /\ \A n \in 1..Len(up) : up'[n] = up[n]
  BY <1>2, AppendProperties
<1>4. CASE \E c \in Chats : Select(c)
  <2>1. PICK c \in Chats : Select(c)
    BY <1>4
  <2>2. Command("select", c, NoMsg) \in Commands /\ Command("select", c, NoMsg).kind = "select"
    BY DEF Command, Commands
  <2>3. Len(up') = Len(up) + 1 /\ up'[Len(up) + 1].kind = "select"
    BY <1>3, <2>1, <2>2 DEF Select
  <2> QED
    BY <1>2, <2>3 DEF CursorInv, ScreenWillCome
<1>5. CASE Arrow
  <2>1. cursor' <= Len(messages') /\ cursor' \in Nat /\ Len(messages') \in Nat
    BY <1>2, <1>5, EmptySeq DEF Arrow, ArrowUp, ArrowDown, AppOK
  <2> QED
    BY <2>1 DEF CursorInv
<1>6. CASE UNCHANGED up /\ UNCHANGED <<messages, cursor>>
  BY <1>1, <1>6, KeptCursor DEF ScreenWillCome, ScreenComes
<1>7. CASE UNCHANGED <<messages, cursor>> /\ \E k \in Commands : up' = Append(up, k)
  <2>1. ASSUME NEW n \in 1..Len(up), up[n].kind = "select"
        PROVE  n \in 1..Len(up') /\ up'[n].kind = "select"
    BY <1>2, <1>3, <1>7, <2>1
  <2>2. ScreenWillCome => ScreenWillCome'
    BY <1>1, <2>1 DEF ScreenWillCome, ScreenComes
  <2> QED
    BY <1>7, <2>2, KeptCursor
<1>8. CASE Answer
  <2>1. Command("revoke", NoChat, revoke) \in Commands
    BY DEF Command, Commands, AppOK
  <2> QED
    BY <1>6, <1>7, <1>8, <2>1 DEF Answer
<1>9. CASE \E k \in {"send", "upload"}, i \in Own : Enter(k, i)
  <2>1. PICK k \in {"send", "upload"}, i \in Own : Enter(k, i)
    BY <1>9
  <2>2. Command(k, current, i) \in Commands
    BY <2>1 DEF Command, Commands, AllIds, Enter, AppOK
  <2> QED
    BY <1>7, <2>1, <2>2 DEF Enter, app
<1>10. CASE Tab \/ Pass \/ Delete \/ Type
  BY <1>6, <1>10 DEF Tab, Pass, Delete, Type, app
<1> QED
  BY <1>4, <1>5, <1>8, <1>9, <1>10 DEF KeyPressed

LEMMA NextCursor == TypeInv /\ CursorInv /\ [Next]_vars => CursorInv'
<1> SUFFICES ASSUME TypeInv, CursorInv, [Next]_vars PROVE CursorInv'
  OBVIOUS
<1>1. CASE UNCHANGED vars
  BY <1>1 DEF CursorInv, ScreenWillCome, ScreenComes, vars, backend, app
<1> QED
  BY <1>1, GoesCursor, LoopCursor, EventsCursor, HandleEventCursor, KeyCursor DEF Next

LEMMA InitCursor == Init => CursorInv
BY EmptySeq DEF Init, CursorInv

\* A cursor that a selection left behind its messages does not stay there: the selection, the
\* loop that serves it, or the stream still hold the screen that puts it right.
THEOREM CursorIsPutRight == Spec => []StaleCursorIsBrief
<1>1. TypeInv /\ CursorInv => StaleCursorIsBrief
  <2> SUFFICES ASSUME TypeInv, CursorInv, Quiet PROVE cursor <= Len(messages)
    BY DEF StaleCursorIsBrief
  <2>1. Len(up) = 0 /\ Len(down) = 0 /\ work[Loop].at = "idle"
    BY EmptySeq DEF Quiet, Goroutines
  <2>2. ~ScreenWillCome
    BY <2>1 DEF ScreenWillCome, ScreenComes
  <2>3. cursor \in Nat /\ Len(messages) \in Nat
    BY LenProperties DEF TypeInv, AppOK
  <2> QED
    BY <2>2, <2>3 DEF CursorInv
<1>2. Spec => []CursorInv
  BY InitCursor, NextCursor, TypeInvariance, PTL DEF Spec
<1> QED
  BY <1>1, <1>2, TypeInvariance, PTL

-----------------------------------------------------------------------------
(* What the open chat's pane is going to show *)

InHands == {"checking", "showing"}
OnTheWay == {"reading", "synced", "checking", "showing"}

\* A screen in somebody's hands lacks only what was overtaken.  Only the loop shows an empty
\* one, and only of the chat that is open.
Complete(job, st, un) ==
    job.at \in InHands => Ids(st[job.chat]) \ un \subseteq Ids(job.screen)
Full(g, job, st) ==
    g # Loop /\ job.at \in OnTheWay =>
        st[job.chat] # << >> /\ (job.at \in InHands => job.screen # << >>)
ScreensInv ==
    /\ \A g \in Goroutines : Complete(work[g], stored, unannounced) /\ Full(g, work[g], stored)
    /\ work[Loop].at \in {"reading", "showing"} => work[Loop].chat = receiver

\* Once the stream d has been handled by a client that shows ms of the chat cur, it shows
\* another chat than c or i is there: an event with i comes after the last screen, or is it,
\* or that screen is of another chat, or no screen is left.
Settled(d, n) == \A k \in 1..Len(d) : k > n => d[k].kind = "message"
Reaches(c, i, d, cur, ms) ==
    \/ \E n \in 1..Len(d) : Settled(d, n) /\ d[n].chat = c /\ i \in Ids(d[n].messages)
    \/ \E n \in 1..Len(d) : Settled(d, n) /\ d[n].kind = "screen" /\ d[n].chat \notin {c, NoChat}
    \/ Settled(d, 0) /\ (cur # c \/ i \in Ids(ms))

\* The open chat is asked for, or a goroutine has it in hand, or each of its messages is
\* about to be told or gets to the pane.
Asked == \E n \in 1..Len(up) : up[n].kind = "select"
BeingRead == \E g \in Goroutines : work[g].at \in OnTheWay /\ work[g].chat = receiver
BeingTold(i) ==
    \E g \in Goroutines : work[g].at \in {"stored", "telling"} /\ work[g].chat = receiver /\ work[g].msg = i
Shown ==
    receiver # NoChat /\ ~Asked /\ ~BeingRead =>
        \A i \in Ids(stored[receiver]) \ unannounced :
            BeingTold(i) \/ Reaches(receiver, i, down, current, messages)
FillInv == ScreensInv /\ Shown

LEMMA IdsAdded ==
    ASSUME NEW s \in Seq(Messages), NEW m \in Messages
    PROVE  /\ Ids(Append(s, m)) = Ids(s) \cup {m.id} /\ Append(s, m) # << >>
           /\ Ids(<<m>> \o s) = Ids(s) \cup {m.id} /\ <<m>> \o s # << >>
<1>1. Len(s) \in Nat /\ <<m>> \in Seq(Messages) /\ Len(<<m>>) = 1 /\ <<m>>[1] = m
  BY LenProperties, OfChatOne
<1>2. /\ Len(Append(s, m)) = Len(s) + 1 /\ Append(s, m)[Len(s) + 1] = m
      /\ \A n \in 1..Len(s) : Append(s, m)[n] = s[n]
  BY <1>1, AppendProperties
<1>3. /\ Len(<<m>> \o s) = Len(s) + 1 /\ (<<m>> \o s)[1] = m
      /\ \A n \in 1..Len(s) : (<<m>> \o s)[n + 1] = s[n]
  BY <1>1, ConcatProperties
<1>4. Append(s, m) # << >> /\ <<m>> \o s # << >>
  BY <1>1, <1>2, <1>3, EmptySeq
<1>5. Ids(Append(s, m)) = Ids(s) \cup {m.id}
  BY <1>1, <1>2 DEF Ids
<1>6. Ids(<<m>> \o s) = Ids(s) \cup {m.id}
  <2>1. \A n \in 1..Len(s) + 1 : n = 1 \/ (n - 1 \in 1..Len(s) /\ (<<m>> \o s)[n] = s[n - 1])
    BY <1>1, <1>3
  <2>2. Ids(<<m>> \o s) \subseteq Ids(s) \cup {m.id}
    BY <1>3, <2>1 DEF Ids
  <2>3. 1 \in 1..Len(s) + 1 /\ \A n \in 1..Len(s) : n + 1 \in 1..Len(s) + 1
    BY <1>1
  <2>4. \A n \in 1..Len(s) : s[n].id \in Ids(<<m>> \o s)
    BY <1>3, <2>3 DEF Ids
  <2>5. m.id \in Ids(<<m>> \o s)
    BY <1>3, <2>3 DEF Ids
  <2>6. Ids(s) \cup {m.id} \subseteq Ids(<<m>> \o s)
    BY <2>4, <2>5 DEF Ids
  <2> QED
    BY <2>2, <2>6
<1> QED
  BY <1>4, <1>5, <1>6

LEMMA IdsConcat ==
    ASSUME NEW s \in Seq(Messages), NEW t \in Seq(Messages)
    PROVE  Ids(s) \subseteq Ids(s \o t) /\ Ids(t) \subseteq Ids(s \o t)
<1>1. Len(s) \in Nat /\ Len(t) \in Nat
  BY LenProperties
<1>2. \A n \in 1..Len(s) : n \in 1..Len(s \o t) /\ (s \o t)[n] = s[n]
  BY <1>1, ConcatProperties
<1>3. \A n \in 1..Len(t) : Len(s) + n \in 1..Len(s \o t) /\ (s \o t)[Len(s) + n] = t[n]
  BY <1>1, ConcatProperties
<1> QED
  BY <1>2, <1>3 DEF Ids

\* What a stream brings, it brings with another message at its end.
LEMMA ReachesMessage ==
    ASSUME NEW d \in Seq(EventsOfApp), NEW e \in EventsOfApp, e.kind = "message",
           NEW c, NEW i, NEW cur, NEW ms, Reaches(c, i, d, cur, ms)
    PROVE  Reaches(c, i, Append(d, e), cur, ms)
<1>1. /\ Len(d) \in Nat /\ Len(Append(d, e)) = Len(d) + 1 /\ Append(d, e)[Len(d) + 1] = e
      /\ \A n \in 1..Len(d) : Append(d, e)[n] = d[n]
  BY LenProperties, AppendProperties
<1>2. \A n : Settled(d, n) => Settled(Append(d, e), n)
  BY <1>1 DEF Settled
<1>3. \A n \in 1..Len(d) : n \in 1..Len(Append(d, e))
  BY <1>1
<1> QED
  BY <1>1, <1>2, <1>3 DEF Reaches

\* An event at the end of the stream that has i, or is a screen of another chat.
LEMMA ReachesNew ==
    ASSUME NEW d \in Seq(EventsOfApp), NEW e \in EventsOfApp, NEW c, NEW i, NEW cur, NEW ms,
           (e.chat = c /\ i \in Ids(e.messages)) \/ (e.kind = "screen" /\ e.chat \notin {c, NoChat})
    PROVE  Reaches(c, i, Append(d, e), cur, ms)
<1>1. /\ Len(d) \in Nat /\ Len(Append(d, e)) = Len(d) + 1 /\ Append(d, e)[Len(d) + 1] = e
  BY LenProperties, AppendProperties
<1>2. Len(d) + 1 \in 1..Len(Append(d, e)) /\ Settled(Append(d, e), Len(d) + 1)
  BY <1>1 DEF Settled
<1> QED
  BY <1>1, <1>2 DEF Reaches

\* The client handles the first event of the stream.
LEMMA ReachesHandled ==
    ASSUME NEW d \in Seq(EventsOfApp), d # << >>, NEW c, c # NoChat, NEW i,
           NEW cur, NEW ms \in Seq(Messages), Reaches(c, i, d, cur, ms), NEW cur2, NEW ms2,
           Head(d).kind = "message" =>
             cur2 = cur /\ ms2 = IF Head(d).chat = cur THEN ms \o Head(d).messages ELSE ms,
           Head(d).kind # "message" =>
             cur2 = (IF Head(d).chat = NoChat THEN cur ELSE Head(d).chat) /\ ms2 = Head(d).messages
    PROVE  Reaches(c, i, Tail(d), cur2, ms2)
<1> DEFINE e == Head(d)
           t == Tail(d)
<1>1. /\ e = d[1] /\ e \in EventsOfApp /\ Len(d) \in Nat /\ Len(d) > 0
      /\ t \in Seq(EventsOfApp) /\ Len(t) = Len(d) - 1
      /\ \A n \in 1..Len(t) : t[n] = d[n + 1]
  BY HeadTailProperties, LenProperties, EmptySeq
<1>2. e.messages \in Seq(Messages) /\ e.kind \in {"message", "screen"}
  BY <1>1 DEF EventsOfApp
<1> HIDE DEF e, t
<1>3. \A n \in 1..Len(d) : Settled(d, n) => n - 1 \in 0..Len(t) /\ Settled(t, n - 1)
  BY <1>1 DEF Settled
<1>4. \A n \in 1..Len(d) : n > 1 => n - 1 \in 1..Len(t) /\ t[n - 1] = d[n]
  BY <1>1
<1>5. Settled(d, 0) => Settled(t, 0) /\ e.kind = "message"
  BY <1>1 DEF Settled
<1>6. ASSUME NEW n \in 1..Len(d), Settled(d, n), d[n].chat = c, i \in Ids(d[n].messages)
      PROVE  Reaches(c, i, t, cur2, ms2)
  <2>1. CASE n = 1
    <3>1. Settled(t, 0) /\ e.chat = c /\ i \in Ids(e.messages)
      BY <1>1, <1>3, <1>6, <2>1
    <3>2. e.kind = "message" => cur2 # c \/ i \in Ids(ms2)
      BY <1>2, <3>1, IdsConcat DEF e
    <3>3. e.kind # "message" => i \in Ids(ms2)
      BY <3>1 DEF e
    <3> QED
      BY <3>1, <3>2, <3>3 DEF Reaches
  <2>2. CASE n > 1
    BY <1>3, <1>4, <1>6, <2>2 DEF Reaches
  <2>3. n = 1 \/ n > 1
    BY <1>1
  <2> QED
    BY <2>1, <2>2, <2>3
<1>7. ASSUME NEW n \in 1..Len(d), Settled(d, n), d[n].kind = "screen", d[n].chat \notin {c, NoChat}
      PROVE  Reaches(c, i, t, cur2, ms2)
  <2>1. CASE n = 1
    <3>1. Settled(t, 0) /\ e.kind = "screen" /\ e.chat \notin {c, NoChat}
      BY <1>1, <1>3, <1>7, <2>1
    <3>2. cur2 # c
      BY <3>1 DEF e
    <3> QED
      BY <3>1, <3>2 DEF Reaches
  <2>2. CASE n > 1
    BY <1>3, <1>4, <1>7, <2>2 DEF Reaches
  <2>3. n = 1 \/ n > 1
    BY <1>1
  <2> QED
    BY <2>1, <2>2, <2>3
<1>8. ASSUME Settled(d, 0), cur # c \/ i \in Ids(ms)
      PROVE  Reaches(c, i, t, cur2, ms2)
  <2>1. Settled(t, 0) /\ cur2 = cur /\ ms2 \in {ms, ms \o e.messages}
    BY <1>5, <1>8 DEF e
  <2>2. cur2 # c \/ i \in Ids(ms2)
    BY <1>2, <1>8, <2>1, IdsConcat
  <2> QED
    BY <2>1, <2>2 DEF Reaches
<1> QED
  BY <1>6, <1>7, <1>8 DEF Reaches, t

-----------------------------------------------------------------------------
(* Nothing is missing that was not overtaken *)

AllScreens(st, un) == \A g \in Goroutines : Complete(work[g], st, un) /\ Full(g, work[g], st)

\* A message goes into the store, and whoever holds a screen of its chat overtakes it.
Adds(m) ==
    /\ \E s \in {Append(stored[m.chat], m), <<m>> \o stored[m.chat]} :
         stored' = [stored EXCEPT ![m.chat] = s]
    /\ unannounced \subseteq unannounced'
    /\ m.id \in unannounced' \/ \A g \in Goroutines : ~Holds(g, m.chat)

LEMMA AddsIds ==
    ASSUME BackendOK, NEW m \in Messages, Adds(m)
    PROVE  /\ Ids(stored'[m.chat]) = Ids(stored[m.chat]) \cup {m.id} /\ stored'[m.chat] # << >>
           /\ \A c \in Chats \ {m.chat} : stored'[c] = stored[c]
           /\ m.chat \in Chats
<1>1. m.chat \in Chats /\ stored[m.chat] \in Seq(Messages)
  BY DEF BackendOK, Messages
<1>2. PICK s \in {Append(stored[m.chat], m), <<m>> \o stored[m.chat]} :
        stored' = [stored EXCEPT ![m.chat] = s]
  BY DEF Adds
<1>3. Ids(s) = Ids(stored[m.chat]) \cup {m.id} /\ s # << >>
  BY <1>1, <1>2, IdsAdded
<1> QED
  BY <1>1, <1>2, <1>3 DEF BackendOK

LEMMA AddsScreens ==
    ASSUME BackendOK, WorkOK, AllScreens(stored, unannounced), NEW m \in Messages, Adds(m)
    PROVE  AllScreens(stored', unannounced')
<1> SUFFICES ASSUME NEW g \in Goroutines
             PROVE  Complete(work[g], stored', unannounced') /\ Full(g, work[g], stored')
  BY DEF AllScreens
<1>1. JobOK(work[g]) /\ Complete(work[g], stored, unannounced) /\ Full(g, work[g], stored)
  BY DEF WorkOK, AllScreens
<1>2. unannounced \subseteq unannounced'
  BY DEF Adds
<1>3. Complete(work[g], stored', unannounced')
  <2> SUFFICES ASSUME work[g].at \in InHands
               PROVE  Ids(stored'[work[g].chat]) \ unannounced' \subseteq Ids(work[g].screen)
    BY DEF Complete
  <2>1. Ids(stored[work[g].chat]) \ unannounced \subseteq Ids(work[g].screen) /\ work[g].chat \in Chats
    BY <1>1 DEF Complete, JobOK, InHands, Places
  <2>2. CASE work[g].chat = m.chat
    <3>1. m.id \in unannounced'
      BY <2>2 DEF Adds, Holds, InHands
    <3> QED
      BY <1>2, <2>1, <2>2, <3>1, AddsIds
  <2>3. CASE work[g].chat # m.chat
    BY <1>2, <2>1, <2>3, AddsIds
  <2> QED
    BY <2>2, <2>3
<1>4. Full(g, work[g], stored')
  <2> SUFFICES ASSUME g # Loop, work[g].at \in OnTheWay
               PROVE  stored'[work[g].chat] # << >>
    BY <1>1 DEF Full
  <2>1. stored[work[g].chat] # << >> /\ work[g].chat \in Chats
    BY <1>1 DEF Full, JobOK, OnTheWay, Places
  <2> QED
    BY <2>1, AddsIds
<1> QED
  BY <1>3, <1>4

\* A goroutine takes up another job.
LEMMA ScreensChange ==
    ASSUME WorkOK, AllScreens(stored', unannounced'), NEW g \in Goroutines, NEW job,
           Complete(job, stored', unannounced'), Full(g, job, stored'),
           work' = [work EXCEPT ![g] = job],
           work'[Loop].at \in {"reading", "showing"} => work'[Loop].chat = receiver'
    PROVE  ScreensInv'
<1>1. work'[g] = job /\ \A h \in Goroutines \ {g} : work'[h] = work[h]
  BY DEF WorkOK
<1>2. ASSUME NEW h \in Goroutines
      PROVE  Complete(work'[h], stored', unannounced') /\ Full(h, work'[h], stored')
  BY <1>1 DEF AllScreens
<1> QED
  BY <1>2 DEF ScreensInv

LEMMA NothingOnTheWay ==
    ASSUME NEW job, job.at \notin OnTheWay, NEW g, NEW st, NEW un
    PROVE  Complete(job, st, un) /\ Full(g, job, st)
BY DEF Complete, Full, OnTheWay, InHands

\* What a goroutine was about to read or to tell it is still about to.
Reads(job) == job.at \in OnTheWay /\ job.chat = receiver
Tells(job) == job.at \in {"stored", "telling"} /\ job.chat = receiver
LEMMA JobStays ==
    ASSUME WorkOK, NEW g \in Goroutines, NEW job, work' = [work EXCEPT ![g] = job], receiver' = receiver
    PROVE  /\ (Reads(work[g]) => Reads(job)) => (BeingRead => BeingRead')
           /\ (Tells(work[g]) => Tells(job) /\ job.msg = work[g].msg) =>
                \A i : BeingTold(i) => BeingTold(i)'
           /\ Reads(job) => BeingRead'
           /\ Tells(job) => BeingTold(job.msg)'
<1>1. work'[g] = job /\ \A h \in Goroutines \ {g} : work'[h] = work[h]
  BY DEF WorkOK
<1>2. ASSUME Reads(work[g]) => Reads(job), BeingRead PROVE BeingRead'
  <2>1. PICK h \in Goroutines : Reads(work[h])
    BY <1>2 DEF BeingRead, Reads
  <2>2. Reads(work'[h])
    BY <1>1, <1>2, <2>1
  <2> QED
    BY <2>2 DEF BeingRead, Reads
<1>3. ASSUME Tells(work[g]) => Tells(job) /\ job.msg = work[g].msg, NEW i, BeingTold(i)
      PROVE  BeingTold(i)'
  <2>1. PICK h \in Goroutines : Tells(work[h]) /\ work[h].msg = i
    BY <1>3 DEF BeingTold, Tells
  <2>2. Tells(work'[h]) /\ work'[h].msg = i
    BY <1>1, <1>3, <2>1
  <2> QED
    BY <2>2 DEF BeingTold, Tells
<1>4. Reads(job) => BeingRead'
  BY <1>1 DEF Reads, BeingRead
<1>5. Tells(job) => BeingTold(job.msg)'
  BY <1>1 DEF Tells, BeingTold
<1> QED
  BY <1>2, <1>3, <1>4, <1>5

\* The stream and the pane stay as they are.
LEMMA ShownKept ==
    ASSUME Shown, UNCHANGED <<receiver, down, current, messages>>,
           Asked => Asked', BeingRead => BeingRead', \A i : BeingTold(i) => BeingTold(i)',
           receiver # NoChat =>
             \A i \in Ids(stored'[receiver]) \ unannounced' :
                BeingTold(i)' \/ i \in Ids(stored[receiver]) \ unannounced
    PROVE  Shown'
<1> SUFFICES ASSUME receiver # NoChat, ~Asked', ~BeingRead',
                    NEW i \in Ids(stored'[receiver]) \ unannounced', ~BeingTold(i)'
             PROVE  Reaches(receiver, i, down, current, messages)
  BY DEF Shown
<1>1. i \in Ids(stored[receiver]) \ unannounced /\ ~BeingTold(i)
  OBVIOUS
<1> QED
  BY <1>1 DEF Shown

LEMMA GoesFill == ASSUME TypeInv, PaneInv, FillInv, NEW g \in Goroutines, Goes(g) PROVE FillInv'
<1> USE DEF TypeInv, FillInv
<1>1. UNCHANGED <<stored, receiver, unannounced, up, current, messages>>
  BY DEF Goes, Look, Tell, Read, NewScreen, app
<1>2. AllScreens(stored', unannounced')
  BY <1>1 DEF ScreensInv, AllScreens
<1>3. JobOK(work[g]) /\ work[g] \in Jobs /\ Loop \in Goroutines /\ work \in [Goroutines -> Jobs]
  BY DEF WorkOK, Goroutines
<1>4. Asked => Asked'
  BY <1>1 DEF Asked
<1>5. CASE Look(g)
  <2> DEFINE job == IF receiver = work[g].chat THEN [work[g] EXCEPT !.at = "telling"] ELSE Idle
  <2>1. /\ job.at \in {"telling", "idle"} /\ (Tells(work[g]) => Tells(job) /\ job.msg = work[g].msg)
        /\ work' = [work EXCEPT ![g] = job] /\ work[g].at = "stored" /\ UNCHANGED down
    BY <1>3, <1>5 DEF Look, Idle, Jobs, Tells
  <2> HIDE DEF job
  <2>2. ScreensInv'
    <3>1. work'[Loop].at \in {"reading", "showing"} => work'[Loop].chat = receiver'
      BY <1>1, <1>3, <2>1 DEF ScreensInv
    <3> QED
      BY <1>2, <2>1, <3>1, NothingOnTheWay, ScreensChange DEF OnTheWay
  <2>3. ~Reads(work[g])
    BY <2>1 DEF Reads, OnTheWay
  <2>4. /\ BeingRead => BeingRead'
        /\ \A i : BeingTold(i) => BeingTold(i)'
    BY <1>1, <2>1, <2>3, JobStays
  <2> QED
    BY <1>1, <1>4, <2>1, <2>2, <2>4, ShownKept
<1>6. CASE Read(g)
  <2> DEFINE job == [work[g] EXCEPT !.at = "showing", !.screen = stored[work[g].chat]]
  <2>1. /\ job.at = "showing" /\ job.chat = work[g].chat /\ job.screen = stored[work[g].chat]
        /\ work' = [work EXCEPT ![g] = job] /\ work[g].at = "reading" /\ UNCHANGED down
    BY <1>3, <1>6 DEF Read, Jobs
  <2> HIDE DEF job
  <2>2. ScreensInv'
    <3>1. work'[Loop].at \in {"reading", "showing"} => work'[Loop].chat = receiver'
      BY <1>1, <1>3, <2>1 DEF ScreensInv
    <3>2. Complete(job, stored', unannounced')
      BY <1>1, <2>1 DEF Complete
    <3>3. Full(g, job, stored')
      BY <1>1, <2>1 DEF ScreensInv, Full, OnTheWay
    <3> QED
      BY <1>2, <2>1, <3>1, <3>2, <3>3, ScreensChange
  <2>3. (Reads(work[g]) => Reads(job)) /\ ~Tells(work[g])
    BY <2>1 DEF Reads, Tells, OnTheWay
  <2>4. /\ BeingRead => BeingRead'
        /\ \A i : BeingTold(i) => BeingTold(i)'
    BY <1>1, <2>1, <2>3, JobStays
  <2> QED
    BY <1>1, <1>4, <2>1, <2>2, <2>4, ShownKept
<1>7. CASE Tell(g)
  <2> DEFINE m == Message(work[g].msg, work[g].chat)
             e == NewMessage(m)
  <2>1. /\ e \in EventsOfApp /\ e.kind = "message" /\ e.chat = work[g].chat /\ work[g].msg \in Ids(e.messages)
        /\ down' = Append(down, e) /\ work' = [work EXCEPT ![g] = Idle] /\ work[g].at = "telling"
    <3>1. m \in Messages /\ e \in EventsOfApp /\ m.id = work[g].msg /\ m.chat = work[g].chat
      BY <1>3, <1>7, MessageType, NewMessageType DEF Tell, JobOK, Places, Message
    <3>2. e.messages = <<m>> /\ e.kind = "message" /\ e.chat = m.chat
      BY DEF NewMessage
    <3>3. m.id \in Ids(<<m>>)
      BY DEF Ids
    <3> QED
      BY <1>7, <3>1, <3>2, <3>3 DEF Tell
  <2> HIDE DEF e, m
  <2>2. ScreensInv'
    <3>1. work'[Loop].at \in {"reading", "showing"} => work'[Loop].chat = receiver'
      BY <1>1, <1>3, <2>1 DEF ScreensInv, Idle
    <3> QED
      BY <1>2, <2>1, <3>1, NothingOnTheWay, ScreensChange DEF OnTheWay, Idle
  <2>3. ~Reads(work[g])
    BY <2>1 DEF Reads, OnTheWay
  <2>4. BeingRead => BeingRead'
    BY <1>1, <2>1, <2>3, JobStays
  <2>5. Shown'
    <3> SUFFICES ASSUME receiver # NoChat, ~Asked, ~BeingRead, NEW i \in Ids(stored[receiver]) \ unannounced
                 PROVE  BeingTold(i)' \/ Reaches(receiver, i, down', current, messages)
      BY <1>1, <1>4, <2>4 DEF Shown
    <3>1. down \in Seq(EventsOfApp) /\ (BeingTold(i) \/ Reaches(receiver, i, down, current, messages))
      BY DEF Shown, WiresOK
    <3>2. CASE Reaches(receiver, i, down, current, messages)
      BY <2>1, <3>1, <3>2, ReachesMessage
    <3>3. CASE BeingTold(i) /\ Tells(work[g]) /\ work[g].msg = i
      BY <2>1, <3>1, <3>3, ReachesNew DEF Tells
    <3>4. CASE BeingTold(i) /\ ~(Tells(work[g]) /\ work[g].msg = i)
      <4>1. PICK h \in Goroutines : Tells(work[h]) /\ work[h].msg = i
        BY <3>4 DEF BeingTold, Tells
      <4>2. h # g /\ work'[h] = work[h]
        BY <1>3, <2>1, <3>4, <4>1
      <4> QED
        BY <1>1, <4>1, <4>2 DEF BeingTold, Tells
    <3> QED
      BY <3>1, <3>2, <3>3, <3>4
  <2> QED
    BY <2>2, <2>5
<1>8. CASE NewScreen(g)
  <2> DEFINE job == work[g]
             e == Screen(job.screen)
  <2>1. /\ job.screen \in Seq(Messages) /\ e \in EventsOfApp /\ job.at = "showing" /\ job.chat \in Chats
        /\ down' = Append(down, e) /\ work' = [work EXCEPT ![g] = Idle]
        /\ e.kind = "screen" /\ e.messages = job.screen
    BY <1>3, <1>8, ScreenType DEF NewScreen, Jobs, JobOK, Places, Screen
  <2>2. ScreensInv'
    <3>1. work'[Loop].at \in {"reading", "showing"} => work'[Loop].chat = receiver'
      BY <1>1, <1>3, <2>1 DEF ScreensInv, Idle
    <3> QED
      BY <1>2, <2>1, <3>1, NothingOnTheWay, ScreensChange DEF OnTheWay, Idle
  <2>3. Ids(stored[job.chat]) \ unannounced \subseteq Ids(job.screen)
    BY <2>1 DEF ScreensInv, Complete, InHands
  <2>4. CASE job.screen # << >>
    <3>1. e.chat = job.chat
      <4>1. 1 \in 1..Len(job.screen)
        BY <2>1, <2>4, EmptySeq
      <4> QED
        BY <2>1, <2>4, <4>1 DEF PaneInv, WorkOne, Held, OfChat, Screen
    <3>2. ASSUME receiver # NoChat, NEW i \in Ids(stored[receiver]) \ unannounced
          PROVE  Reaches(receiver, i, down', current, messages)
      <4>1. job.chat # NoChat /\ down \in Seq(EventsOfApp)
        BY <2>1, TuiAssumption DEF WiresOK
      <4>2. (e.chat = receiver /\ i \in Ids(e.messages)) \/ (e.kind = "screen" /\ e.chat \notin {receiver, NoChat})
        BY <2>1, <2>3, <3>1, <3>2, <4>1
      <4> QED
        BY <2>1, <4>1, <4>2, ReachesNew
    <3> QED
      BY <1>1, <2>2, <3>2 DEF Shown
  <2>5. CASE job.screen = << >>
    <3>1. g = Loop /\ job.chat = receiver
      BY <2>1, <2>5 DEF ScreensInv, Full, OnTheWay, InHands
    <3>2. Ids(job.screen) = {}
      BY <2>5, EmptySeq DEF Ids
    <3> QED
      BY <1>1, <2>2, <2>3, <3>1, <3>2 DEF Shown
  <2> QED
    BY <2>4, <2>5
<1> QED
  BY <1>5, <1>6, <1>7, <1>8 DEF Goes

\* A selection is on its way still unless it was taken.
LEMMA AskedStays ==
    ASSUME WiresOK, up # << >>, up' = Tail(up), Head(up).kind # "select"
    PROVE  Asked => Asked'
<1> SUFFICES ASSUME NEW n \in 1..Len(up), up[n].kind = "select"
             PROVE  \E k \in 1..Len(up') : up'[k].kind = "select"
  BY DEF Asked
<1>1. n # 1 /\ n - 1 \in 1..Len(up') /\ n \in Int
  BY HeadOfUp
<1>2. up'[n - 1] = up[n]
  BY <1>1, HeadOfUp
<1> QED
  BY <1>1, <1>2

\* A goroutine that read nothing stores a message that it is going to tell.
LEMMA AddsFill ==
    ASSUME BackendOK, WorkOK, FillInv, NEW g \in Goroutines, NEW m \in Messages, NEW job, Adds(m),
           work[g].at = "idle", job.at = "stored", job.chat = m.chat, job.msg = m.id,
           work' = [work EXCEPT ![g] = job],
           UNCHANGED <<receiver, down, current, messages>>, Asked => Asked'
    PROVE  FillInv'
<1>1. AllScreens(stored, unannounced)
  BY DEF FillInv, ScreensInv, AllScreens
<1>2. AllScreens(stored', unannounced')
  BY <1>1, AddsScreens
<1>3. ScreensInv'
  <2>1. work'[Loop].at \in {"reading", "showing"} => work'[Loop].chat = receiver'
    BY DEF FillInv, ScreensInv, WorkOK, Goroutines
  <2>2. Complete(job, stored', unannounced') /\ Full(g, job, stored')
    BY NothingOnTheWay DEF OnTheWay
  <2> QED
    BY <1>2, <2>1, <2>2, ScreensChange
<1>4. ~Reads(work[g]) /\ ~Tells(work[g])
  BY DEF Reads, Tells, OnTheWay
<1>5. (BeingRead => BeingRead') /\ \A i : BeingTold(i) => BeingTold(i)'
  BY <1>4, JobStays
<1>6. ASSUME receiver # NoChat, NEW i \in Ids(stored'[receiver]) \ unannounced'
      PROVE  BeingTold(i)' \/ i \in Ids(stored[receiver]) \ unannounced
  <2>1. unannounced \subseteq unannounced' /\ receiver \in Chats
    BY <1>6 DEF Adds, BackendOK
  <2>2. CASE receiver # m.chat
    BY <2>1, <2>2, AddsIds
  <2>3. CASE receiver = m.chat /\ i = m.id
    <3>1. Tells(job)
      BY <2>3 DEF Tells
    <3>2. BeingTold(job.msg)'
      BY <3>1, JobStays
    <3> QED
      BY <2>3, <3>2 DEF BeingTold
  <2>4. CASE receiver = m.chat /\ i # m.id
    BY <2>1, <2>4, AddsIds
  <2> QED
    BY <2>2, <2>3, <2>4
<1>7. Shown'
  BY <1>5, <1>6, ShownKept DEF FillInv
<1> QED
  BY <1>3, <1>7 DEF FillInv

\* A goroutine takes up the open chat.
LEMMA ReadsFill ==
    ASSUME WorkOK, FillInv, NEW g \in Goroutines, UNCHANGED <<stored, unannounced>>,
           work' = [work EXCEPT ![g] = [Idle EXCEPT !.at = "reading", !.chat = receiver']],
           g # Loop => receiver' = receiver /\ stored[receiver] # << >>
    PROVE  FillInv'
<1> DEFINE job == [Idle EXCEPT !.at = "reading", !.chat = receiver']
<1>1. job.at = "reading" /\ job.chat = receiver'
  BY DEF Idle
<1> HIDE DEF job
<1>2. work'[g] = job /\ \A h \in Goroutines \ {g} : work'[h] = work[h]
  BY DEF WorkOK, job
<1>3. AllScreens(stored', unannounced')
  BY DEF FillInv, ScreensInv, AllScreens
<1>4. Complete(job, stored', unannounced') /\ Full(g, job, stored')
  BY <1>1 DEF Complete, Full, InHands, OnTheWay
<1>5. work'[Loop].at \in {"reading", "showing"} => work'[Loop].chat = receiver'
  BY <1>1, <1>2 DEF FillInv, ScreensInv, Goroutines
<1>6. ScreensInv'
  BY <1>3, <1>4, <1>5, ScreensChange DEF job
<1>7. BeingRead'
  BY <1>1, <1>2 DEF BeingRead, OnTheWay
<1> QED
  BY <1>6, <1>7 DEF FillInv, Shown

LEMMA LoopFill == ASSUME TypeInv, FillInv, LoopTakes \/ OpenForOther PROVE FillInv'
<1> USE DEF TypeInv
<1>1. UNCHANGED <<down, current, messages>> /\ work[Loop].at = "idle" /\ Loop \in Goroutines
  BY DEF LoopTakes, OpenChat, OpenForOther, LoopGivesUp, LoopSends, LoopUploads, LoopRevokes, Takes, app,
     Goroutines
<1>2. CASE OpenChat \/ OpenForOther
  <2>1. PICK c : Opens(c)
    BY <1>2 DEF OpenChat, OpenForOther
  <2>2. UNCHANGED <<stored, unannounced>>
    BY <1>2 DEF OpenChat, OpenForOther
  <2> QED
    BY <1>1, <2>1, <2>2, ReadsFill DEF Opens
<1>3. ASSUME LoopGivesUp \/ LoopSends \/ LoopUploads \/ LoopRevokes
      PROVE  (Asked => Asked') /\ UNCHANGED receiver
  <2>1. up # << >> /\ up' = Tail(up) /\ Head(up).kind # "select" /\ UNCHANGED receiver
    BY <1>3 DEF LoopGivesUp, LoopSends, LoopUploads, LoopRevokes, Takes
  <2> QED
    BY <2>1, AskedStays
<1>4. ASSUME UNCHANGED <<receiver, stored, unannounced, work>>, Asked => Asked'
      PROVE  FillInv'
  <2>1. ScreensInv'
    BY <1>4 DEF FillInv, ScreensInv
  <2>2. (BeingRead => BeingRead') /\ \A i : BeingTold(i) => BeingTold(i)'
    BY <1>4 DEF BeingRead, BeingTold
  <2>3. Shown'
    BY <1>1, <1>4, <2>2, ShownKept DEF FillInv
  <2> QED
    BY <2>1, <2>3 DEF FillInv
<1>5. CASE LoopGivesUp
  BY <1>3, <1>4, <1>5 DEF LoopGivesUp
<1>6. CASE LoopSends \/ LoopUploads
  <2>1. Takes({"send"}) \/ Takes({"upload"})
    BY <1>6 DEF LoopSends, LoopUploads
  <2>2. Head(up).id \in Own /\ Head(up).chat \in Chats
    BY <2>1, TakesType DEF Commands
  <2>3. PICK c \in Chats : SendTo(c, Head(up).id)
    BY <1>6, <2>2 DEF LoopSends, LoopUploads, SendTo, BackendOK
  <2> DEFINE m == Message(Head(up).id, c)
             job == [Idle EXCEPT !.at = "stored", !.chat = c, !.msg = Head(up).id]
  <2>4. m \in Messages /\ m.chat = c /\ m.id = Head(up).id
    BY <2>2, MessageType DEF Message, AllIds
  <2>5. job.at = "stored" /\ job.chat = m.chat /\ job.msg = m.id
    BY <2>4 DEF Idle
  <2>6. Store(m, Append(stored[c], m)) /\ work' = [work EXCEPT ![Loop] = job]
    BY <2>3 DEF SendTo
  <2> HIDE DEF m, job
  <2>7. Adds(m)
    BY <2>4, <2>6 DEF Store, Adds
  <2> QED
    BY <1>1, <1>3, <1>6, <2>4, <2>5, <2>6, <2>7, AddsFill
<1>7. CASE LoopRevokes
  <2>1. UNCHANGED <<stored, unannounced, receiver>> /\ (Asked => Asked')
    BY <1>3, <1>7 DEF LoopRevokes
  <2>2. \/ work' = work
        \/ work' = [work EXCEPT ![Loop] = [Idle EXCEPT !.at = "reading", !.chat = receiver']]
    BY <1>7, <2>1 DEF LoopRevokes
  <2> QED
    BY <1>1, <1>4, <2>1, <2>2, ReadsFill
<1> QED
  BY <1>2, <1>5, <1>6, <1>7 DEF LoopTakes

LEMMA EventsFill ==
    ASSUME TypeInv, FillInv, (\E i \in Live : Deliver(i)) \/ MessageChanges \/ SyncBegins \/ SyncGoes
    PROVE  FillInv'
<1> USE DEF TypeInv
<1>1. UNCHANGED <<receiver, up, down, current, messages>> /\ (Asked => Asked')
  BY DEF Deliver, MessageChanges, SyncBegins, SyncGoes, SyncAdds, SyncReads, SyncChecks, app, Asked
<1>2. ASSUME NEW i \in Live \cup Old
      PROVE  /\ Message(i, First[i]) \in Messages /\ Message(i, First[i]).chat = First[i]
             /\ Message(i, First[i]).id = i /\ First[i] \in Chats
  BY TuiAssumption, MessageType DEF AllIds, Message
<1>3. CASE \E i \in Live : Deliver(i)
  <2>1. PICK i \in Live : Deliver(i)
    BY <1>3
  <2> DEFINE m == Message(i, First[i])
             job == [Idle EXCEPT !.at = "stored", !.chat = m.chat, !.msg = i]
  <2>2. /\ m \in Messages /\ m.id = i /\ job.at = "stored" /\ job.chat = m.chat /\ job.msg = i
        /\ Store(m, Append(stored[m.chat], m)) /\ work' = [work EXCEPT ![Events] = job]
        /\ work[Events].at = "idle" /\ Events \in Goroutines
    BY <1>2, <2>1 DEF Deliver, Idle, Goroutines
  <2> HIDE DEF m, job
  <2>3. Adds(m)
    BY <2>2 DEF Store, Adds
  <2> QED
    BY <1>1, <2>2, <2>3, AddsFill
<1>4. CASE MessageChanges
  BY <1>1, <1>4, ReadsFill DEF MessageChanges, Goroutines
<1>5. /\ JobOK(work[History]) /\ work[History] \in Jobs /\ work \in [Goroutines -> Jobs]
      /\ History \in Goroutines /\ Loop \in Goroutines /\ History # Loop
  BY DEF WorkOK, Goroutines, History, Loop
<1>6. ASSUME NEW job, work' = [work EXCEPT ![History] = job]
      PROVE  work'[Loop].at \in {"reading", "showing"} => work'[Loop].chat = receiver'
  BY <1>1, <1>5, <1>6 DEF FillInv, ScreensInv
<1>7. ASSUME NEW job, UNCHANGED <<stored, unannounced>>, work' = [work EXCEPT ![History] = job],
             Complete(job, stored, unannounced), Full(History, job, stored),
             Reads(work[History]) => Reads(job), ~Tells(work[History])
      PROVE  FillInv'
  <2>1. AllScreens(stored', unannounced') /\ Complete(job, stored', unannounced') /\ Full(History, job, stored')
    BY <1>7 DEF FillInv, ScreensInv, AllScreens
  <2>2. ScreensInv'
    BY <1>5, <1>6, <1>7, <2>1, ScreensChange
  <2>3. (BeingRead => BeingRead') /\ \A i : BeingTold(i) => BeingTold(i)'
    BY <1>1, <1>5, <1>7, JobStays
  <2>4. Shown'
    BY <1>1, <1>7, <2>3, ShownKept DEF FillInv
  <2> QED
    BY <2>2, <2>4 DEF FillInv
<1>8. CASE SyncBegins
  <2> DEFINE job == [Idle EXCEPT !.at = "begun", !.chat = receiver]
  <2>1. job.at = "begun"
    BY DEF Idle
  <2>2. work' = [work EXCEPT ![History] = job] /\ UNCHANGED <<stored, unannounced>> /\ work[History].at = "idle"
    BY <1>8 DEF SyncBegins
  <2> HIDE DEF job
  <2>3. Complete(job, stored, unannounced) /\ Full(History, job, stored)
    BY <2>1, NothingOnTheWay DEF OnTheWay
  <2>4. ~Reads(work[History]) /\ ~Tells(work[History])
    BY <2>2 DEF Reads, Tells, OnTheWay
  <2> QED
    BY <1>7, <2>2, <2>3, <2>4
<1>9. CASE \E i \in Old : SyncAdds(i)
  <2>1. PICK i \in Old : SyncAdds(i)
    BY <1>9
  <2> DEFINE m == Message(i, First[i])
             open == work[History].chat = m.chat
             job == IF open THEN [work[History] EXCEPT !.at = "synced"] ELSE Idle
  <2>2. m \in Messages /\ m.id = i
    BY <1>2
  <2>3. /\ stored' = [stored EXCEPT ![m.chat] = <<m>> \o stored[m.chat]]
        /\ unannounced \subseteq unannounced' /\ (~open => i \in unannounced')
        /\ i \in unannounced' \/ \A g \in Goroutines : ~Holds(g, m.chat)
        /\ work' = [work EXCEPT ![History] = job] /\ work[History].at = "begun"
    BY <1>5, <2>1 DEF SyncAdds
  <2>4. job.at \in {"synced", "idle"} /\ (job.at = "synced" => open /\ job.chat = m.chat)
        /\ (open => job.at = "synced")
    BY <1>5 DEF Jobs, Idle
  <2> HIDE DEF m, open, job
  <2>5. Adds(m)
    BY <2>2, <2>3 DEF Adds
  <2>6. AllScreens(stored', unannounced')
    BY <2>2, <2>5, AddsScreens DEF FillInv, ScreensInv, AllScreens
  <2>7. Complete(job, stored', unannounced') /\ Full(History, job, stored')
    BY <2>2, <2>4, <2>5, AddsIds DEF Complete, Full, InHands, OnTheWay
  <2>8. ScreensInv'
    BY <1>5, <1>6, <2>3, <2>6, <2>7, ScreensChange
  <2>9. ~Reads(work[History]) /\ ~Tells(work[History])
    BY <2>3 DEF Reads, Tells, OnTheWay
  <2>10. /\ (BeingRead => BeingRead') /\ \A j : BeingTold(j) => BeingTold(j)'
         /\ Reads(job) => BeingRead'
    BY <1>1, <1>5, <2>3, <2>9, JobStays
  <2>11. Shown'
    <3>1. CASE open /\ receiver = m.chat
      <4>1. Reads(job)
        BY <2>4, <3>1 DEF Reads, OnTheWay
      <4> QED
        BY <2>10, <4>1 DEF Shown
    <3>2. CASE ~open \/ receiver # m.chat
      <4>1. ASSUME receiver # NoChat, NEW j \in Ids(stored'[receiver]) \ unannounced'
            PROVE  j \in Ids(stored[receiver]) \ unannounced
        <5>1. receiver \in Chats /\ j \notin unannounced
          BY <2>3, <4>1 DEF BackendOK
        <5>2. receiver # m.chat => stored'[receiver] = stored[receiver]
          BY <2>2, <2>5, <5>1, AddsIds
        <5>3. receiver = m.chat => j # i /\ Ids(stored'[receiver]) = Ids(stored[receiver]) \cup {i}
          BY <2>2, <2>3, <2>5, <3>2, <4>1, AddsIds
        <5> QED
          BY <4>1, <5>1, <5>2, <5>3
      <4> QED
        BY <1>1, <2>10, <4>1, ShownKept DEF FillInv
    <3> QED
      BY <3>1, <3>2
  <2> QED
    BY <2>8, <2>11 DEF FillInv
<1>10. CASE SyncReads
  <2> DEFINE job == [work[History] EXCEPT !.at = "checking", !.screen = stored[work[History].chat]]
  <2>1. /\ work' = [work EXCEPT ![History] = job] /\ UNCHANGED <<stored, unannounced>>
        /\ work[History].at = "synced" /\ job.at = "checking"
        /\ job.chat = work[History].chat /\ job.screen = stored[job.chat]
    BY <1>5, <1>10 DEF SyncReads, Jobs
  <2> HIDE DEF job
  <2>2. Complete(job, stored, unannounced) /\ Full(History, job, stored)
    BY <1>5, <2>1 DEF FillInv, ScreensInv, Complete, Full, InHands, OnTheWay
  <2>3. (Reads(work[History]) => Reads(job)) /\ ~Tells(work[History])
    BY <2>1 DEF Reads, Tells, OnTheWay
  <2> QED
    BY <1>7, <2>1, <2>2, <2>3
<1>11. CASE SyncChecks
  <2> DEFINE job == IF receiver = work[History].chat THEN [work[History] EXCEPT !.at = "showing"] ELSE Idle
  <2>1. /\ work' = [work EXCEPT ![History] = job] /\ UNCHANGED <<stored, unannounced>>
        /\ work[History].at = "checking"
    BY <1>11 DEF SyncChecks
  <2>2. \/ job.at = "idle" /\ receiver # work[History].chat
        \/ job.at = "showing" /\ job.chat = work[History].chat /\ job.screen = work[History].screen
    BY <1>5 DEF Jobs, Idle
  <2> HIDE DEF job
  <2>3. Complete(job, stored, unannounced) /\ Full(History, job, stored)
    BY <1>5, <2>1, <2>2 DEF FillInv, ScreensInv, Complete, Full, InHands, OnTheWay
  <2>4. (Reads(work[History]) => Reads(job)) /\ ~Tells(work[History])
    BY <2>1, <2>2 DEF Reads, Tells, OnTheWay
  <2> QED
    BY <1>7, <2>1, <2>3, <2>4
<1> QED
  BY <1>3, <1>4, <1>8, <1>9, <1>10, <1>11 DEF SyncGoes

LEMMA HandleEventFill == ASSUME TypeInv, FillInv, HandleEvent PROVE FillInv'
<1> USE DEF TypeInv, FillInv
<1>1. UNCHANGED <<stored, receiver, work, unannounced, up>>
  BY DEF HandleEvent, backend
<1>2. ScreensInv'
  BY <1>1 DEF ScreensInv
<1>3. (Asked => Asked') /\ (BeingRead => BeingRead') /\ \A i : BeingTold(i) => BeingTold(i)'
  BY <1>1 DEF Asked, BeingRead, BeingTold
<1>4. /\ down \in Seq(EventsOfApp) /\ down # << >> /\ down' = Tail(down) /\ messages \in Seq(Messages)
      /\ Head(down).kind = "message" =>
           current' = current
           /\ messages' = IF Head(down).chat = current THEN messages \o Head(down).messages ELSE messages
      /\ Head(down).kind # "message" =>
           current' = (IF Head(down).chat = NoChat THEN current ELSE Head(down).chat)
           /\ messages' = Head(down).messages
  BY DEF HandleEvent, ShowMessage, ShowScreen, WiresOK, AppOK
<1>5. Shown'
  <2> SUFFICES ASSUME receiver # NoChat, ~Asked, ~BeingRead, NEW i \in Ids(stored[receiver]) \ unannounced,
                      ~BeingTold(i)
               PROVE  Reaches(receiver, i, down', current', messages')
    BY <1>1, <1>3 DEF Shown
  <2>1. Reaches(receiver, i, down, current, messages)
    BY DEF Shown
  <2> QED
    BY <1>4, <2>1, ReachesHandled
<1> QED
  BY <1>2, <1>5

LEMMA KeyFill == ASSUME TypeInv, FillInv, KeyPressed PROVE FillInv'
<1> USE DEF TypeInv, FillInv
<1>1. UNCHANGED <<stored, receiver, work, unannounced, down>>
  BY DEF KeyPressed, Select, Tab, Pass, Arrow, Delete, Answer, Type, Enter, Press, backend
<1>2. ScreensInv'
  BY <1>1 DEF ScreensInv
<1>3. (BeingRead => BeingRead') /\ \A i : BeingTold(i) => BeingTold(i)'
  BY <1>1 DEF BeingRead, BeingTold
<1>4. \A k \in Commands : up' = Append(up, k) =>
        /\ Len(up') = Len(up) + 1 /\ up'[Len(up) + 1] = k /\ Len(up) \in Nat
        /\ \A n \in 1..Len(up) : up'[n] = up[n]
  BY AppendProperties, LenProperties DEF WiresOK
<1>5. CASE \E c \in Chats : Select(c)
  <2>1. PICK c \in Chats : Select(c)
    BY <1>5
  <2>2. Command("select", c, NoMsg) \in Commands /\ Command("select", c, NoMsg).kind = "select"
    BY DEF Command, Commands
  <2>3. Len(up) \in Nat /\ Len(up') = Len(up) + 1 /\ up'[Len(up) + 1].kind = "select"
    BY <1>4, <2>1, <2>2 DEF Select
  <2>4. Asked'
    BY <2>3 DEF Asked
  <2> QED
    BY <1>2, <2>4 DEF Shown
<1>6. ASSUME UNCHANGED <<current, messages>>, Asked => Asked' PROVE FillInv'
  <2>1. Shown'
    BY <1>1, <1>3, <1>6, ShownKept
  <2> QED
    BY <1>2, <2>1
<1>7. ASSUME NEW k \in Commands, up' = Append(up, k) PROVE Asked => Asked'
  <2>1. ASSUME NEW n \in 1..Len(up), up[n].kind = "select"
        PROVE  n \in 1..Len(up') /\ up'[n].kind = "select"
    BY <1>4, <1>7, <2>1
  <2> QED
    BY <2>1 DEF Asked
<1>8. CASE Answer
  <2>1. Command("revoke", NoChat, revoke) \in Commands
    BY DEF Command, Commands, AppOK
  <2>2. Asked => Asked'
    BY <1>7, <1>8, <2>1 DEF Answer, Asked
  <2> QED
    BY <1>6, <1>8, <2>2 DEF Answer
<1>9. CASE \E k \in {"send", "upload"}, i \in Own : Enter(k, i)
  <2>1. PICK k \in {"send", "upload"}, i \in Own : Enter(k, i)
    BY <1>9
  <2>2. Command(k, current, i) \in Commands
    BY <2>1 DEF Command, Commands, AllIds, Enter, AppOK
  <2> QED
    BY <1>6, <1>7, <2>1, <2>2 DEF Enter, app
<1>10. CASE Tab \/ Pass \/ Arrow \/ Delete \/ Type
  <2>1. UNCHANGED <<current, messages, up>>
    BY <1>10 DEF Tab, Pass, Arrow, Delete, Type, app
  <2> QED
    BY <1>6, <2>1 DEF Asked
<1> QED
  BY <1>5, <1>8, <1>9, <1>10 DEF KeyPressed

LEMMA NextFill == TypeInv /\ PaneInv /\ FillInv /\ [Next]_vars => FillInv'
<1> SUFFICES ASSUME TypeInv, PaneInv, FillInv, [Next]_vars PROVE FillInv'
  OBVIOUS
<1>1. CASE UNCHANGED vars
  BY <1>1 DEF FillInv, ScreensInv, Shown, Asked, BeingRead, BeingTold, vars, backend, app
<1> QED
  BY <1>1, GoesFill, LoopFill, EventsFill, HandleEventFill, KeyFill DEF Next

LEMMA InitFill == Init => FillInv
<1> SUFFICES ASSUME Init PROVE FillInv
  OBVIOUS
<1>1. ScreensInv
  BY DEF Init, ScreensInv, Complete, Full, InHands, OnTheWay, Idle, Goroutines
<1>2. Len(down) = 0 /\ current = NoChat
  BY EmptySeq DEF Init
<1>3. Settled(down, 0)
  BY <1>2 DEF Settled
<1> QED
  BY <1>1, <1>2, <1>3 DEF FillInv, Shown, Reaches

\* A client on the open chat ends up with all its messages but for the overtaken ones, whatever
\* the loop, live events, history syncs, other clients and its own selections do meanwhile
\* (printChatScreen, NewMessage, handleHistorySync).
THEOREM NothingElseMissing == Spec => []MissingWereOvertaken
<1>1. TypeInv /\ FillInv => MissingWereOvertaken
  <2> SUFFICES ASSUME TypeInv, FillInv, Quiet, current = receiver, current # NoChat,
                      NEW i \in Ids(stored[current]) \ unannounced
               PROVE  i \in Ids(messages)
    BY DEF MissingWereOvertaken
  <2>1. Len(up) = 0 /\ Len(down) = 0 /\ \A g \in Goroutines : work[g].at = "idle"
    BY EmptySeq DEF Quiet
  <2>2. ~Asked /\ ~BeingRead /\ ~BeingTold(i)
    BY <2>1 DEF Asked, BeingRead, BeingTold, OnTheWay
  <2>3. Reaches(current, i, down, current, messages)
    BY <2>2 DEF FillInv, Shown
  <2> QED
    BY <2>1, <2>3 DEF Reaches
<1>2. Spec => []FillInv
  BY InitFill, NextFill, TypeInvariance, PaneInvariance, PTL DEF Spec
<1> QED
  BY <1>1, <1>2, TypeInvariance, PTL

=============================================================================
