----------------------------- MODULE AutoMarkRead -----------------------------
(***************************************************************************)
(* When a chat that is opened counts as read:                              *)
(* backend/messages/session_manager.go, setCurrentReceiver and the timer   *)
(* around it.                                                              *)
(*                                                                         *)
(* Enter on a chat (COMMIT) marks it read at once; arrowing onto it        *)
(* (PROBE) arms a timer, and leaving the chat before it fires leaves the   *)
(* chat unread.  The goroutines are the manager, which executes commands,  *)
(* the event handler, which decides whether an arriving message is unread, *)
(* one per timer that has expired, and one per mark on its way.            *)
(* markReadMu guards the two timer fields; currentReceiver is a plain      *)
(* field that the manager writes and everybody reads.                      *)
(*                                                                         *)
(* Of the store only the reasons remain for which a chat shows as unread:  *)
(* flagged messages, and the user's wish (/unread).                        *)
(***************************************************************************)
EXTENDS Naturals, FiniteSets

CONSTANTS
    Chats,      \* chats of the list
    NoChat,     \* no chat, the empty string of the code
    Arrivals,   \* chats that live messages arrive in
    MaxTimers   \* bound on the timers armed in one run

ASSUME ChatAssumption ==
    /\ NoChat \notin Chats
    /\ Arrivals \subseteq Chats
    /\ MaxTimers \in Nat

TimerIds == 1..MaxTimers
NoTimer == 0

VARIABLES
    currentReceiver,    \* the open chat
    markReadTimer,      \* the pending timer, or NoTimer
    markReadTimerChat,  \* the chat it was armed for, or NoChat
    timers,             \* every timer armed so far: its chat and its state
    marking,            \* calls of autoMarkRead on their way: for which chat, and what
                        \* selection they are of; and (read by no action) whether they
                        \* were on their way when the user last asked for unread
    manager,            \* the command that the manager executes
    handler,            \* the arriving message that the handler processes
    unread,             \* why each chat shows as unread
    wished              \* chats that the user marked unread after selecting them
                        \* last (read by no action)

markVars == <<currentReceiver, markReadTimer, markReadTimerChat, timers, marking, manager,
          handler, unread, wished>>

Reasons == {"message", "wish"}
Intents == {"probe", "commit"}

IsManager(m) ==
    \/ m \in [at : {"idle", "cancelled"}]
    \/ m \in [at : {"opened"}, intent : Intents]

IsHandler(h) ==
    \/ h \in [at : {"idle"}]
    \/ h \in [at : {"looked"}, chat : Chats, inDwell : BOOLEAN]
    \/ h \in [at : {"decided"}, chat : Chats, markUnread : BOOLEAN]

MarkTypeOK ==
    /\ currentReceiver \in Chats \cup {NoChat}
    /\ markReadTimer \in TimerIds \cup {NoTimer}
    /\ markReadTimerChat \in Chats \cup {NoChat}
    /\ markReadTimer = NoTimer <=> markReadTimerChat = NoChat
    /\ DOMAIN timers \subseteq TimerIds
    /\ \A i \in DOMAIN timers :
         timers[i] \in [chat : Chats, state : {"armed", "expired", "stopped", "over"}]
    /\ marking \subseteq [chat : Chats, by : Intents, early : BOOLEAN]
    /\ IsManager(manager)
    /\ IsHandler(handler)
    /\ unread \in [Chats -> SUBSET Reasons]
    /\ wished \subseteq Chats

MarkInit ==
    /\ currentReceiver = NoChat
    /\ markReadTimer = NoTimer
    /\ markReadTimerChat = NoChat
    /\ timers = << >>
    /\ marking = {}
    /\ manager = [at |-> "idle"]
    /\ handler = [at |-> "idle"]
    /\ unread \in [Chats -> {{}, {"message"}}]
    /\ wished = {}

-----------------------------------------------------------------------------
(* Timers *)

\* Stop has no effect on a timer whose goroutine has started.
Stopped(i) ==
    IF i # NoTimer /\ timers[i].state = "armed"
    THEN [timers EXCEPT ![i].state = "stopped"]
    ELSE timers

\* The delay is over and the timer's goroutine starts.
Expire(i) ==
    /\ timers[i].state = "armed"
    /\ timers' = [timers EXCEPT ![i].state = "expired"]
    /\ UNCHANGED <<currentReceiver, markReadTimer, markReadTimerChat, marking, manager,
                   handler, unread, wished>>

\* Mutant: a timer that the user has not moved away from gives up as well.
GiveUp(i) ==
    /\ timers[i].state = "expired"
    /\ timers' = [timers EXCEPT ![i].state = "over"]
    /\ UNCHANGED <<currentReceiver, markReadTimer, markReadTimerChat, marking, manager,
                   handler, unread, wished>>

\* A call of autoMarkRead on a goroutine of its own, of a commit or of a timer.
Mark(c, intent) == [chat |-> c, by |-> intent, early |-> FALSE]

\* Under markReadMu it checks that its chat is open still, and wanted still.  The mark
\* itself comes after the unlock.
Check(i) ==
    LET chat == timers[i].chat
        wanted == currentReceiver = chat /\ markReadTimerChat = chat
    IN /\ timers[i].state = "expired"
       /\ timers' = [timers EXCEPT ![i].state = "over"]
       /\ markReadTimer' = IF wanted THEN NoTimer ELSE markReadTimer
       /\ markReadTimerChat' = IF wanted THEN NoChat ELSE markReadTimerChat
       /\ marking' = IF wanted THEN marking \cup {Mark(chat, "probe")} ELSE marking
       /\ UNCHANGED <<currentReceiver, manager, handler, unread, wished>>

\* autoMarkRead marks the chat read.
FinishMark(m) ==
    /\ m \in marking
    /\ marking' = marking \ {m}
    /\ unread' = [unread EXCEPT ![m.chat] = {}]
    /\ UNCHANGED <<currentReceiver, markReadTimer, markReadTimerChat, timers, manager,
                   handler, wished>>

-----------------------------------------------------------------------------
(* The manager *)

\* setCurrentReceiver opens the chat; what follows on the screen takes a while.
Select(c, intent) ==
    /\ manager.at = "idle"
    /\ Cardinality(DOMAIN timers) < MaxTimers
    /\ currentReceiver' = c
    /\ manager' = [at |-> "opened", intent |-> intent]
    /\ wished' = wished \ {c}
    /\ UNCHANGED <<markReadTimer, markReadTimerChat, timers, marking, handler, unread>>

\* Mutant: a commit stops the pending timer but leaves it in the fields.
ScheduleKeepingFields ==
    /\ manager.at = "opened"
    /\ manager' = [at |-> "idle"]
    /\ IF manager.intent = "commit"
       THEN /\ timers' = Stopped(markReadTimer)
            /\ marking' = marking \cup {Mark(currentReceiver, "commit")}
            /\ UNCHANGED <<markReadTimer, markReadTimerChat>>
       ELSE LET i == Cardinality(DOMAIN timers) + 1
                old == Stopped(markReadTimer)
            IN /\ markReadTimer' = i
               /\ markReadTimerChat' = currentReceiver
               /\ timers' = [j \in DOMAIN timers \cup {i} |->
                    IF j = i THEN [chat |-> currentReceiver, state |-> "armed"] ELSE old[j]]
               /\ UNCHANGED marking
    /\ UNCHANGED <<currentReceiver, handler, unread, wished>>

\* scheduleAutoMarkRead, under markReadMu: the pending timer is stopped; then a
\* COMMIT marks at once and a PROBE arms a new timer.
Schedule ==
    /\ manager.at = "opened"
    /\ manager' = [at |-> "idle"]
    /\ IF manager.intent = "commit"
       THEN /\ markReadTimer' = NoTimer
            /\ markReadTimerChat' = NoChat
            /\ timers' = Stopped(markReadTimer)
            /\ marking' = marking \cup {Mark(currentReceiver, "commit")}
       ELSE LET i == Cardinality(DOMAIN timers) + 1
                old == Stopped(markReadTimer)
            IN /\ markReadTimer' = i
               /\ markReadTimerChat' = currentReceiver
               /\ timers' = [j \in DOMAIN timers \cup {i} |->
                    IF j = i THEN [chat |-> currentReceiver, state |-> "armed"] ELSE old[j]]
               /\ UNCHANGED marking
    /\ UNCHANGED <<currentReceiver, handler, unread, wished>>

\* The marks that are on their way to the open chat already.
MarkedEarly ==
    {IF m.chat = currentReceiver THEN [m EXCEPT !.early = TRUE] ELSE m : m \in marking}

\* Mutant: the timer is stopped but stays in the fields.
CancelStopOnly ==
    /\ manager.at = "idle"
    /\ currentReceiver # NoChat
    /\ manager' = [at |-> "cancelled"]
    /\ timers' = Stopped(markReadTimer)
    /\ marking' = MarkedEarly
    /\ UNCHANGED <<currentReceiver, markReadTimer, markReadTimerChat, handler, unread, wished>>

\* markCurrentChatUnread drops the pending timer, ...
CancelTimer ==
    /\ manager.at = "idle"
    /\ currentReceiver # NoChat
    /\ manager' = [at |-> "cancelled"]
    /\ timers' = Stopped(markReadTimer)
    /\ markReadTimer' = NoTimer
    /\ markReadTimerChat' = NoChat
    /\ marking' = MarkedEarly
    /\ UNCHANGED <<currentReceiver, handler, unread, wished>>

\* ... then raises the counter of the chat.
MarkUnread ==
    /\ manager.at = "cancelled"
    /\ manager' = [at |-> "idle"]
    /\ unread' = [unread EXCEPT ![currentReceiver] = @ \cup {"wish"}]
    /\ wished' = wished \cup {currentReceiver}
    /\ UNCHANGED <<currentReceiver, markReadTimer, markReadTimerChat, timers, marking, handler>>

\* markCurrentChatRead: /read marks the open chat at once and leaves the timer.
MarkRead ==
    /\ manager.at = "idle"
    /\ currentReceiver # NoChat
    /\ unread' = [unread EXCEPT ![currentReceiver] = {}]
    /\ UNCHANGED <<currentReceiver, markReadTimer, markReadTimerChat, timers, marking,
                   manager, handler, wished>>

-----------------------------------------------------------------------------
(* The event handler *)

\* handleLiveMessage asks hasPendingMarkRead whether the delay is running, ...
Arrive(c) ==
    /\ handler.at = "idle"
    /\ handler' = [at |-> "looked", chat |-> c,
                   inDwell |-> markReadTimer # NoTimer /\ markReadTimerChat = c]
    /\ UNCHANGED <<currentReceiver, markReadTimer, markReadTimerChat, timers, marking,
                   manager, unread, wished>>

\* ... compares currentReceiver, ...
Decide ==
    /\ handler.at = "looked"
    /\ handler' = [at |-> "decided", chat |-> handler.chat,
                   markUnread |-> handler.chat # currentReceiver \/ handler.inDwell]
    /\ UNCHANGED <<currentReceiver, markReadTimer, markReadTimerChat, timers, marking,
                   manager, unread, wished>>

\* ... and stores the message, flagged, ...
StoreFlagged ==
    /\ handler.at = "decided"
    /\ handler.markUnread
    /\ unread' = [unread EXCEPT ![handler.chat] = @ \cup {"message"}]
    /\ handler' = [at |-> "idle"]
    /\ UNCHANGED <<currentReceiver, markReadTimer, markReadTimerChat, timers, marking,
                   manager, wished>>

\* ... or not flagged, and then a read receipt tells the sender.
StoreRead ==
    /\ handler.at = "decided"
    /\ ~handler.markUnread
    /\ handler' = [at |-> "idle"]
    /\ UNCHANGED <<currentReceiver, markReadTimer, markReadTimerChat, timers, marking,
                   manager, unread, wished>>

\* A message of our own, from any device, means that the chat was read up to its
\* time: the counter becomes the number of flagged messages after it.
OwnMessage(c) ==
    /\ handler.at = "idle"
    /\ \E left \in SUBSET (unread[c] \cap {"message"}) :
         unread' = [unread EXCEPT ![c] = left]
    /\ UNCHANGED <<currentReceiver, markReadTimer, markReadTimerChat, timers, marking,
                   manager, handler, wished>>

-----------------------------------------------------------------------------

TimerStep == \E i \in DOMAIN timers : Expire(i) \/ Check(i)
MarkStep == \E m \in marking : FinishMark(m)
ManagerStep == Schedule \/ MarkUnread
MessageStep == Decide \/ StoreFlagged \/ StoreRead
Command == CancelTimer \/ MarkRead \/ \E c \in Chats, intent \in Intents : Select(c, intent)
Event == \E c \in Arrivals : Arrive(c) \/ OwnMessage(c)

MarkNext == TimerStep \/ MarkStep \/ ManagerStep \/ MessageStep \/ Command \/ Event

MarkSpec == MarkInit /\ [][MarkNext]_markVars

\* Timers expire, goroutines that were started run, and a command or an event that
\* was begun is finished.  No fairness is assumed of the user or of arrivals.
MarkFairSpec ==
    /\ MarkSpec
    /\ WF_markVars(TimerStep) /\ WF_markVars(MarkStep)
    /\ WF_markVars(ManagerStep) /\ WF_markVars(MessageStep)

-----------------------------------------------------------------------------
(* Properties *)

\* While a selection is not under way, the pending timer is running, and it is for
\* the open chat: else hasPendingMarkRead would flag messages in an open chat that
\* nothing marks read any more.
PendingTimerRuns ==
    markReadTimer # NoTimer /\ manager.at # "opened" =>
        /\ timers[markReadTimer].state \in {"armed", "expired"}
        /\ timers[markReadTimer].chat = markReadTimerChat
        /\ markReadTimerChat = currentReceiver

\* A timer whose Stop came too late gives up: only the timer that is pending marks
\* its chat.
SupersededGivesUp ==
    [][\A i \in DOMAIN timers :
         Check(i) /\ marking' # marking => i = markReadTimer]_markVars

\* What the user marked unread, and has not selected again, is undone only by what the
\* user does (/read, or a message of one's own from any device) and by marks that were on
\* their way already when /unread dropped the timer.  Whatever timer is armed, expires or
\* is stopped too late, no later mark does it.
WishStands ==
    [][\A c \in wished :
         "wish" \in unread[c] /\ "wish" \notin unread'[c] =>
             MarkRead \/ OwnMessage(c)
                 \/ \E m \in marking : m.chat = c /\ m.early /\ FinishMark(m)]_markVars

\* As the comments at cancelPendingAutoMarkRead and in markCurrentChatUnread have it, no
\* timer undoes /unread.  The code lets a mark do so whose timer has passed its check.
TimerSparesWish ==
    [][\A m \in marking : FinishMark(m) /\ m.by = "probe" => "wish" \notin unread[m.chat]]_markVars

\* Staying on a chat reads it: a chat that is open and has flagged messages while
\* its delay runs, or while its mark is on its way, does not stay so, unless the
\* user leaves it or wishes it unread.
Underway(c) ==
    \/ manager.at = "opened"
    \/ markReadTimer # NoTimer /\ markReadTimerChat = c
    \/ \E m \in marking : m.chat = c

OpenChatGetsRead ==
    \A c \in Chats :
        (currentReceiver = c /\ "message" \in unread[c] /\ Underway(c))
            ~> (currentReceiver # c \/ "message" \notin unread[c] \/ c \in wished)

=============================================================================
