------------------------------- MODULE TuiApp -------------------------------
(***************************************************************************)
(* The terminal UI's App (tui/src/state.rs, main.rs) at one end of a       *)
(* stream, and at the other the parts of the backend that write what it    *)
(* shows: the command loop, the goroutine of live events, and the one of   *)
(* history syncs (session_manager.go).                                     *)
(*                                                                         *)
(* A screen is read in one step and sent in a later one, and a message is  *)
(* stored, then announced if its chat is open.  The stream keeps the order *)
(* of what was sent.  What a full buffer drops is the subject of           *)
(* GrpcServer; here there is always room.  The chat list is reduced to the *)
(* fact that the user can get to any chat.                                 *)
(***************************************************************************)
EXTENDS Naturals, Sequences

CONSTANTS
    Chats, NoChat,  \* chats; none of them
    Live, Old, Own, \* ids of messages that arrive live, by history, and that the user sends
    First,          \* chat of each id that arrives
    NoMsg,          \* no message
    Uses,           \* what there is to begin with, and what the users do
    MaxEvents       \* bound on the events on their way to the client

Keys == {"select", "tab", "pass", "arrow", "d", "answer", "type", "send", "upload"}

Message(i, c) == [id |-> i, chat |-> c]
Messages == [id : Live \cup Old \cup Own, chat : Chats]

ASSUME TuiAssumption ==
    /\ NoChat \notin Chats /\ NoMsg \notin Live \cup Old \cup Own
    /\ First \in [Live \cup Old -> Chats] /\ Own \cap (Live \cup Old) = {}
    /\ \A u \in Uses :
         /\ u.start \in [Chats -> Seq(Live \cup Old)]
         /\ \A c \in Chats : \A n \in 1..Len(u.start[c]) : First[u.start[c][n]] = c
         /\ u.arrives \subseteq Live \cup Old
         /\ u.keyboard \subseteq Keys /\ u.keys \in Nat /\ u.others \in Nat
    /\ MaxEvents \in Nat

VARIABLES
    use,            \* the use of this run: what the backend has of each chat (start), what
                    \* arrives, the keys that the user uses (keyboard), and the bounds on
                    \* keystrokes and on selections of other clients
    stored,         \* the messages of each chat in the backend
    receiver,       \* currentReceiver
    work,           \* what each goroutine is doing
    others,         \* number of selections of other clients
    up, down,       \* commands and events on their way
    current,        \* current_chat
    messages,       \* the messages in the pane
    cursor,         \* message_cursor, counted from 1; 0 for None
    revoke,         \* pending_revoke
    focus,          \* the pane that gets the keys
    draft,          \* whether there is text in the composer
    keys,           \* number of keystrokes
    meant,          \* of each own message: its command, and the chat shown then (history)
    unannounced     \* messages stored while a screen without them was about to be sent (history)

backend == <<use, stored, receiver, work, others, unannounced>>
typing == <<focus, draft, keys, meant>>
app == <<current, messages, cursor, revoke>>
vars == <<backend, up, down, app, typing>>

Loop == "loop"
Events == "events"
History == "history"
Goroutines == {Loop, Events, History}

Idle == [at |-> "idle", chat |-> NoChat, msg |-> NoMsg, screen |-> << >>]
Command(k, c, i) == [kind |-> k, chat |-> c, id |-> i]
NewMessage(m) == [kind |-> "message", chat |-> m.chat, messages |-> <<m>>]
\* A screen is named after its first message: that of an empty chat names none.
Screen(s) == [kind |-> "screen", chat |-> IF s = << >> THEN NoChat ELSE s[1].chat, messages |-> s]

TypeOK ==
    /\ use \in Uses
    /\ stored \in [Chats -> Seq(Messages)]
    /\ receiver \in Chats \cup {NoChat}
    /\ work \in [Goroutines ->
                    [at : {"idle", "stored", "telling", "reading", "checking", "showing", "begun", "synced"},
                     chat : Chats \cup {NoChat}, msg : Live \cup Old \cup Own \cup {NoMsg},
                     screen : Seq(Messages)]]
    /\ others \in 0..use.others
    /\ up \in Seq([kind : {"select", "send", "upload", "revoke"}, chat : Chats \cup {NoChat},
                   id : Live \cup Old \cup Own \cup {NoMsg}])
    /\ down \in Seq([kind : {"message", "screen"}, chat : Chats \cup {NoChat},
                     messages : Seq(Messages)])
    /\ current \in Chats \cup {NoChat} /\ messages \in Seq(Messages) /\ cursor \in Nat
    /\ revoke \in Live \cup Old \cup Own \cup {NoMsg}
    /\ focus \in {"list", "pane"} /\ draft \in BOOLEAN /\ keys \in 0..use.keys
    /\ DOMAIN meant \subseteq Own
    /\ \A i \in DOMAIN meant : meant[i] \in [kind : {"send", "upload"}, chat : Chats]
    /\ unannounced \subseteq Live \cup Old \cup Own

Init ==
    /\ use \in Uses
    /\ stored = [c \in Chats |-> [n \in 1..Len(use.start[c]) |-> Message(use.start[c][n], c)]]
    /\ receiver \in Chats \cup {NoChat}
    /\ work = [g \in Goroutines |-> Idle]
    /\ others = 0 /\ up = << >> /\ down = << >>
    /\ current = NoChat /\ messages = << >> /\ cursor = 0 /\ revoke = NoMsg
    /\ focus = "list" /\ draft = FALSE /\ keys = 0
    /\ meant = << >> /\ unannounced = {}

Ids(s) == {s[n].id : n \in 1..Len(s)}

-----------------------------------------------------------------------------
(* Steps of all goroutines of the backend *)

\* A goroutine has a screen of c in its hands.
Holds(g, c) == work[g].at \in {"checking", "showing"} /\ work[g].chat = c

\* m goes into the store, at the end or, if older than the others, at the beginning.
Store(m, s) ==
    /\ stored' = [stored EXCEPT ![m.chat] = s]
    /\ unannounced' = IF \E g \in Goroutines : Holds(g, m.chat)
                      THEN unannounced \cup {m.id} ELSE unannounced

\* After a message was stored: it is told if its chat is open.
Look(g) ==
    /\ work[g].at = "stored"
    /\ work' = [work EXCEPT ![g] = IF receiver = @.chat THEN [@ EXCEPT !.at = "telling"] ELSE Idle]
    /\ UNCHANGED <<use, stored, receiver, others, unannounced, up, down, app, typing>>

Tell(g) ==
    /\ work[g].at = "telling" /\ Len(down) < MaxEvents
    /\ down' = Append(down, NewMessage(Message(work[g].msg, work[g].chat)))
    /\ work' = [work EXCEPT ![g] = Idle]
    /\ UNCHANGED <<use, stored, receiver, others, unannounced, up, app, typing>>

Read(g) ==
    /\ work[g].at = "reading"
    /\ work' = [work EXCEPT ![g].at = "showing", ![g].screen = stored[work[g].chat]]
    /\ UNCHANGED <<use, stored, receiver, others, unannounced, up, down, app, typing>>

NewScreen(g) ==
    /\ work[g].at = "showing" /\ Len(down) < MaxEvents
    /\ down' = Append(down, Screen(work[g].screen))
    /\ work' = [work EXCEPT ![g] = Idle]
    /\ UNCHANGED <<use, stored, receiver, others, unannounced, up, app, typing>>

-----------------------------------------------------------------------------
(* The command loop *)

Opens(c) ==
    /\ receiver' = c
    /\ work' = [work EXCEPT ![Loop] = [Idle EXCEPT !.at = "reading", !.chat = c]]

\* Selections at the front of the channel are coalesced, the last one wins.
Selections(k) == k <= Len(up) /\ \A n \in 1..k : up[n].kind = "select"

\* Mutant: nothing is done for a chat that is open already.
OpenChatIfOther ==
    /\ work[Loop].at = "idle"
    /\ \E k \in 1..Len(up) :
         /\ Selections(k)
         /\ IF up[k].chat = receiver THEN UNCHANGED <<receiver, work>> ELSE Opens(up[k].chat)
         /\ up' = SubSeq(up, k + 1, Len(up))
    /\ UNCHANGED <<use, stored, others, unannounced, down, app, typing>>

OpenChat ==
    /\ work[Loop].at = "idle"
    /\ \E k \in 1..Len(up) :
         /\ Selections(k)
         /\ Opens(up[k].chat)
         /\ up' = SubSeq(up, k + 1, Len(up))
    /\ UNCHANGED <<use, stored, others, unannounced, down, app, typing>>

\* The last one may as well be another client's.
OpenForOther ==
    /\ work[Loop].at = "idle" /\ others < use.others
    /\ others' = others + 1
    /\ \E k \in 0..Len(up), c \in Chats :
         /\ Selections(k)
         /\ Opens(c)
         /\ up' = SubSeq(up, k + 1, Len(up))
    /\ UNCHANGED <<use, stored, unannounced, down, app, typing>>

Takes(kinds) ==
    /\ work[Loop].at = "idle" /\ up # << >> /\ Head(up).kind \in kinds
    /\ up' = Tail(up)
    /\ UNCHANGED <<use, receiver, others, down, app, typing>>

\* Not connected, or the network refuses.
LoopGivesUp ==
    /\ Takes({"send", "upload", "revoke"})
    /\ UNCHANGED <<stored, work, unannounced>>

SendTo(c, i) ==
    /\ c # NoChat
    /\ Store(Message(i, c), Append(stored[c], Message(i, c)))
    /\ work' = [work EXCEPT ![Loop] = [Idle EXCEPT !.at = "stored", !.chat = c, !.msg = i]]

\* Mutant: a text goes to the open chat.
LoopSendsToOpen ==
    /\ Takes({"send"})
    /\ SendTo(receiver, Head(up).id)

\* sendText: the command names the chat.
LoopSends ==
    /\ Takes({"send"})
    /\ SendTo(Head(up).chat, Head(up).id)

\* sendMediaCommand: the chat that the client named is not passed on, the file goes to the
\* chat that is open.
LoopUploads ==
    /\ Takes({"upload"})
    /\ SendTo(receiver, Head(up).id)

\* revokeMessage: the chat of the message is shown anew if it is open.
LoopRevokes ==
    /\ Takes({"revoke"})
    /\ \E c \in Chats :
         /\ Head(up).id \in Ids(stored[c])
         /\ work' = IF receiver = c
                    THEN [work EXCEPT ![Loop] = [Idle EXCEPT !.at = "reading", !.chat = c]]
                    ELSE work
    /\ UNCHANGED <<stored, unannounced>>

-----------------------------------------------------------------------------
(* Live events and history syncs *)

Known(i) == \E c \in Chats : i \in Ids(stored[c])

Deliver(i) ==
    /\ work[Events].at = "idle" /\ i \in use.arrives /\ ~Known(i)
    /\ LET m == Message(i, First[i]) IN
         /\ Store(m, Append(stored[m.chat], m))
         /\ work' = [work EXCEPT ![Events] = [Idle EXCEPT !.at = "stored", !.chat = m.chat, !.msg = i]]
    /\ UNCHANGED <<use, receiver, others, up, down, app, typing>>

\* A revocation, a reaction or a second copy of a message of the open chat.
MessageChanges ==
    /\ work[Events].at = "idle" /\ receiver # NoChat /\ stored[receiver] # << >>
    /\ work' = [work EXCEPT ![Events] = [Idle EXCEPT !.at = "reading", !.chat = receiver]]
    /\ UNCHANGED <<use, stored, receiver, others, unannounced, up, down, app, typing>>

\* handleHistorySync keeps in mind which chat was open when it began.
SyncBegins ==
    /\ work[History].at = "idle" /\ \E i \in Old \cap use.arrives : ~Known(i)
    /\ work' = [work EXCEPT ![History] = [Idle EXCEPT !.at = "begun", !.chat = receiver]]
    /\ UNCHANGED <<use, stored, receiver, others, unannounced, up, down, app, typing>>

\* A message of another chat than that one is not told to anybody.
SyncAdds(i) ==
    /\ work[History].at = "begun" /\ i \in use.arrives /\ ~Known(i)
    /\ LET m == Message(i, First[i])
           open == work[History].chat = m.chat
       IN /\ stored' = [stored EXCEPT ![m.chat] = <<m>> \o @]
          /\ unannounced' = IF ~open \/ \E g \in Goroutines : Holds(g, m.chat)
                            THEN unannounced \cup {i} ELSE unannounced
          /\ work' = [work EXCEPT ![History] = IF open THEN [@ EXCEPT !.at = "synced"] ELSE Idle]
    /\ UNCHANGED <<use, receiver, others, up, down, app, typing>>

SyncReads ==
    /\ work[History].at = "synced"
    /\ work' = [work EXCEPT ![History].at = "checking", ![History].screen = stored[work[History].chat]]
    /\ UNCHANGED <<use, stored, receiver, others, unannounced, up, down, app, typing>>

\* The screen is sent if that chat is open still.
SyncChecks ==
    /\ work[History].at = "checking"
    /\ work' = [work EXCEPT ![History] =
                    IF receiver = @.chat THEN [@ EXCEPT !.at = "showing"] ELSE Idle]
    /\ UNCHANGED <<use, stored, receiver, others, unannounced, up, down, app, typing>>

-----------------------------------------------------------------------------
(* The client's end: events *)

\* Mutant: a message is shown whatever chat it is of.
ShowMessageOfAny(e) ==
    /\ messages' = messages \o e.messages
    /\ UNCHANGED <<current, cursor, revoke>>

ShowMessage(e) ==
    /\ messages' = IF e.chat = current THEN messages \o e.messages ELSE messages
    /\ UNCHANGED <<current, cursor, revoke>>

\* Mutant: the cursor of the same chat stays where it is.
ShowScreenKeepingCursor(e) ==
    LET changed == e.chat # current
    IN /\ current' = IF e.chat = NoChat THEN current ELSE e.chat
       /\ messages' = e.messages
       /\ cursor' = IF changed THEN 0 ELSE cursor
       /\ revoke' = IF changed THEN NoMsg ELSE revoke

\* A screen replaces the pane.  The cursor and the question whether to delete are dropped if
\* the screen is of another chat than the current one.
ShowScreen(e) ==
    LET changed == e.chat # current
        last == Len(e.messages)
    IN /\ current' = IF e.chat = NoChat THEN current ELSE e.chat
       /\ messages' = e.messages
       /\ cursor' = IF changed THEN 0 ELSE IF cursor > last THEN last ELSE cursor
       /\ revoke' = IF changed THEN NoMsg ELSE revoke

HandleEvent ==
    /\ down # << >>
    /\ IF Head(down).kind = "message" THEN ShowMessage(Head(down)) ELSE ShowScreen(Head(down))
    /\ down' = Tail(down)
    /\ UNCHANGED <<backend, up, typing>>

-----------------------------------------------------------------------------
(* The client's end: keys *)

Press(k) ==
    /\ k \in use.keyboard /\ keys < use.keys
    /\ keys' = keys + 1
    /\ UNCHANGED <<backend, down>>

\* Mutant: the backend is not asked for the chat that is shown already.
SelectOther(c) ==
    /\ Press("select")
    /\ current' = c /\ messages' = << >>
    /\ up' = IF c = current THEN up ELSE Append(up, Command("select", c, NoMsg))
    /\ focus' \in {focus, IF focus = "list" THEN "pane" ELSE focus}
    /\ UNCHANGED <<cursor, revoke, draft, meant>>

\* Ctrl+N and Ctrl+P anywhere, in the list also arrows, letters of a filter, and Enter, which
\* goes on in the pane.
Select(c) ==
    /\ Press("select")
    /\ current' = c /\ messages' = << >>
    /\ up' = Append(up, Command("select", c, NoMsg))
    /\ focus' \in {focus, IF focus = "list" THEN "pane" ELSE focus}
    /\ UNCHANGED <<cursor, revoke, draft, meant>>

Tab ==
    /\ Press("tab")
    /\ focus' = IF focus = "list" THEN "pane" ELSE "list"
    /\ UNCHANGED <<up, app, draft, meant>>

\* Esc, PageUp and PageDown in the pane do not get as far as the composer.
Pass ==
    /\ Press("pass") /\ focus = "pane"
    /\ UNCHANGED <<up, app, focus, draft, meant>>

\* Mutant: without a cursor there is nothing to start from.
ArrowUpBlind == cursor - 1

ArrowUp == IF cursor = 0 THEN Len(messages) ELSE IF cursor = 1 THEN 1 ELSE cursor - 1
ArrowDown == IF cursor = 0 THEN 1 ELSE cursor + 1

\* With an empty composer an arrow moves the cursor, and never out of the messages.
Arrow ==
    /\ Press("arrow") /\ focus = "pane" /\ ~draft /\ revoke = NoMsg /\ messages # << >>
    /\ \E n \in {ArrowUp, ArrowDown} :
         cursor' = IF n > Len(messages) THEN Len(messages) ELSE n
    /\ UNCHANGED <<up, current, messages, revoke, focus, draft, meant>>

\* The message under the cursor, or the last one.
Target == messages[IF cursor \in 1..Len(messages) THEN cursor ELSE Len(messages)]

Delete ==
    /\ Press("d") /\ focus = "pane" /\ ~draft /\ revoke = NoMsg /\ messages # << >>
    /\ revoke' = Target.id
    /\ UNCHANGED <<up, current, messages, cursor, focus, draft, meant>>

\* resolve_pending_revoke: y deletes, any other key that gets there does not.
Answer ==
    /\ Press("answer") /\ focus = "pane" /\ revoke # NoMsg
    /\ up' \in {up, Append(up, Command("revoke", NoChat, revoke))}
    /\ revoke' = NoMsg
    /\ UNCHANGED <<current, messages, cursor, focus, draft, meant>>

\* What is typed may also be erased.
Type ==
    /\ Press("type") /\ focus = "pane" /\ revoke = NoMsg
    /\ draft' \in BOOLEAN
    /\ UNCHANGED <<up, app, focus, meant>>

\* Enter: the draft is a text, or the command /upload.
Enter(k, i) ==
    /\ Press(k) /\ focus = "pane" /\ revoke = NoMsg /\ draft /\ current # NoChat
    /\ i \notin DOMAIN meant
    /\ draft' = FALSE
    /\ up' = Append(up, Command(k, current, i))
    /\ meant' = [j \in DOMAIN meant \cup {i} |->
                    IF j = i THEN [kind |-> k, chat |-> current] ELSE meant[j]]
    /\ UNCHANGED <<app, focus>>

-----------------------------------------------------------------------------

Goes(g) == Look(g) \/ Tell(g) \/ Read(g) \/ NewScreen(g)
LoopTakes == OpenChat \/ LoopGivesUp \/ LoopSends \/ LoopUploads \/ LoopRevokes
SyncGoes == (\E i \in Old : SyncAdds(i)) \/ SyncReads \/ SyncChecks
KeyPressed ==
    \/ \E c \in Chats : Select(c)
    \/ Tab \/ Pass \/ Arrow \/ Delete \/ Answer \/ Type
    \/ \E k \in {"send", "upload"}, i \in Own : Enter(k, i)

Next ==
    \/ \E g \in Goroutines : Goes(g)
    \/ LoopTakes \/ OpenForOther
    \/ \E i \in Live : Deliver(i)
    \/ MessageChanges \/ SyncBegins \/ SyncGoes
    \/ HandleEvent
    \/ KeyPressed

Spec == Init /\ [][Next]_vars

FairSpec ==
    /\ Spec
    /\ \A g \in Goroutines : WF_vars(Goes(g))
    /\ WF_vars(LoopTakes) /\ WF_vars(SyncGoes) /\ WF_vars(HandleEvent)

-----------------------------------------------------------------------------
(* Properties *)

\* The pane never mixes chats: what it shows is of the chat that it names, and that texts are
\* sent to.  Selections, late screens and announcements of other chats all write it.
OneChatAtATime == \A n \in 1..Len(messages) : messages[n].chat = current

\* A text ends up in the chat that was shown when it was sent, whatever chat other clients
\* or late screens open in the meantime.
TextGoesToItsChat ==
    \A c \in Chats : \A i \in Ids(stored[c]) \cap DOMAIN meant :
        meant[i].kind = "send" => meant[i].chat = c

Quiet == up = << >> /\ down = << >> /\ \A g \in Goroutines : work[g].at = "idle"

\* When all is quiet, a client on the open chat shows all its messages.  The exceptions are
\* those that a screen overtook, read before they were stored and sent after, and
\* those that history brought to a chat which was opened during the sync.
MissingWereOvertaken ==
    Quiet /\ current = receiver /\ current # NoChat =>
        Ids(stored[current]) \ Ids(messages) \subseteq unannounced

\* A cursor that points past the last message, at what was there before a selection, does not
\* outlast the screen that the selection brings.
StaleCursorIsBrief == Quiet => cursor <= Len(messages)

\* A pane that was emptied by a selection does not stay empty while its chat is open, unless
\* there is nothing to show or what there is was overtaken.
Blank ==
    current # NoChat /\ current = receiver /\ messages = << >> /\ ~(Ids(stored[current]) \subseteq unannounced)
PaneFills == Blank ~> ~Blank

\* state.rs of pending_revoke: "when set, the next keystroke is interpreted as a
\* confirmation", "Any non-y/Y keystroke cancels".
ConfirmIsNextKey == [][keys' # keys /\ revoke # NoMsg => revoke' = NoMsg]_vars

\* state.rs: "Don't carry a stale cursor / pending revoke from a previous chat into a fresh
\* backlog".
RevokeOfShownChat ==
    revoke # NoMsg /\ messages # << >> =>
        \A c \in Chats : revoke \in Ids(stored[c]) => c = current

\* Stronger than what the code keeps; see the README.
NothingMissing ==
    Quiet /\ current = receiver /\ current # NoChat => Ids(stored[current]) \subseteq Ids(messages)
NothingTwice == \A n, o \in 1..Len(messages) : messages[n].id = messages[o].id => n = o
UploadGoesToItsChat ==
    \A c \in Chats : \A i \in Ids(stored[c]) \cap DOMAIN meant : meant[i].chat = c
=============================================================================
