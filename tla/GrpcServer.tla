----------------------------- MODULE GrpcServer -----------------------------
(***************************************************************************)
(* The gRPC server: backend/server (broadcaster.go, handler.go and         *)
(* grpc_server.go), with the client at the other end of a stream           *)
(* (tui/src/state.rs).                                                     *)
(*                                                                         *)
(* Whatever the session manager tells the UI is an event that the          *)
(* broadcaster puts into the buffer of every subscribed client, and drops  *)
(* for a client whose buffer is full.  A new client gets a snapshot first. *)
(* Two kinds of events matter here: chat lists, of which a client shows    *)
(* the last, and screens, which switch it to the chat they are of.  A      *)
(* status update goes the way of a chat list.  The events of a login go to *)
(* a sink of their own, the channel of the Login call that was made last.  *)
(*                                                                         *)
(* A run is about event streams or about logins: what it is not about does *)
(* not begin.                                                              *)
(***************************************************************************)
EXTENDS Naturals, Sequences, SequencesExt

CONSTANTS
    About,          \* what a run may be about: whether there are streams, whether there are
                    \* logins, a bound on the changes of the list, and one on the number of
                    \* selections and what chats are selected
    Clients, Away,  \* clients of the event stream; none of them
    Chats, NoChat,  \* chats; none of them
    Empty,          \* chats without messages, whose screen names no chat
    Publishers,     \* goroutines that list the chats and send the list
    Buffer,         \* capacity of a client's channel (256 in the code)
    CommandCap,     \* capacity of CommandChannel (10 in the code)
    Logins,         \* Login calls
    NoLogin,        \* none of them
    SinkCap,        \* capacity of the channel of a Login call (16 in the code)
    MaxEvents,      \* bound on the events after which nothing new is read to be sent; what
                    \* was read, and the screens of chats that are opened, come on top
    MaxCodes        \* bound on the QR codes

ASSUME ServerAssumption ==
    /\ Away \notin Nat /\ NoChat \notin Chats /\ NoLogin \notin Logins
    /\ Empty \subseteq Chats
    /\ About \subseteq [streams : BOOLEAN, logins : BOOLEAN, lists : Nat, selects : Nat,
                 chats : SUBSET Chats]
    /\ MaxEvents \in Nat /\ MaxCodes \in Nat
    /\ Buffer \in Nat \ {0} /\ CommandCap \in Nat \ {0} /\ SinkCap \in Nat \ {0}

VARIABLES
    about,          \* what this run is about
    queue,          \* the broadcaster's clients: numbers of the events in their buffers
    rpc,            \* where the handler of each client's stream stands
    snapshot,       \* the chat list that it is about to send
    log,            \* every event published, and whether it was a screen of a chat that was
                    \* no longer open (history; the buffers hold numbers of it)
    heard,          \* of each client: the last event that it got, or Away
    lost,           \* of each client: an event was dropped for it (history)
    list,           \* the chat list, as the number of its changes
    held,           \* lists that publishers have read and not sent yet
    receiver,       \* currentReceiver
    screens,        \* chats whose screens have been read and not sent yet, by goroutine
    stuck,          \* the command loop waits for itself (LoopHangs)
    up,             \* selections on their way from each client
    carried,        \* of each client: the command that its handler has for CommandChannel
    selects,        \* number of selections so far
    commands,       \* CommandChannel
    shownList,      \* the list that each client shows
    shownChat       \* the chat that each client shows, and sends texts to

streamVars == <<queue, rpc, snapshot, heard, lost, up, carried, shownList, shownChat>>
sessionVars == <<list, held, receiver, screens, stuck>>

VARIABLES
    sink,           \* loginSink
    latestQR,       \* the last code, 0 before the first
    call,           \* where each Login call stands
    channel,        \* of each Login call: its channel
    got,            \* of each Login call: the events that its client got
    wanted,         \* login commands in CommandChannel
    qr,             \* where the QR login on the command loop stands
    holding         \* the sink that it has read, and the event for it

loginVars == <<sink, latestQR, call, channel, got, wanted, qr, holding>>
vars == <<about, streamVars, selects, sessionVars, log, commands, loginVars>>

\* The events of a login: a code, or the last event, success or timeout.
End == 0
LoginEvents == {End} \cup 1..MaxCodes
Nothing == [sink |-> NoLogin, event |-> End]

List(n) == [kind |-> "list", list |-> n, chat |-> NoChat, late |-> FALSE]
Screen(c) ==
    [kind |-> "screen", list |-> 0, chat |-> IF c \in Empty THEN NoChat ELSE c, late |-> c # receiver]
Loop == "loop"
Handlers == "events"

TypeOK ==
    /\ about \in About
    /\ DOMAIN queue \subseteq Clients
    /\ \A c \in DOMAIN queue : queue[c] \in Seq(1..Len(log)) /\ Len(queue[c]) <= Buffer
    /\ rpc \in [Clients -> {"none", "begun", "subscribed", "listed", "open", "gone"}]
    /\ snapshot \in [Clients -> 0..about.lists] /\ shownList \in [Clients -> 0..about.lists]
    /\ log \in Seq([kind : {"list", "screen"}, list : 0..about.lists, chat : Chats \cup {NoChat},
                     late : BOOLEAN])
    /\ heard \in [Clients -> {Away} \cup 0..Len(log)]
    /\ lost \in [Clients -> BOOLEAN]
    /\ list \in 0..about.lists
    /\ held \in [Publishers -> {Away} \cup 0..about.lists]
    /\ receiver \in Chats \cup {NoChat} /\ shownChat \in [Clients -> Chats \cup {NoChat}]
    /\ screens \in [{Loop, Handlers} -> Chats \cup {NoChat}]
    /\ stuck \in BOOLEAN
    /\ up \in [Clients -> Seq(Chats)] /\ carried \in [Clients -> Chats \cup {NoChat}]
    /\ selects \in 0..about.selects
    /\ commands \in Seq(Chats) /\ wanted \in Nat /\ Len(commands) + wanted <= CommandCap
    /\ sink \in Logins \cup {NoLogin} /\ latestQR \in 0..MaxCodes
    /\ call \in [Logins -> {"none", "begun", "open", "left", "ending", "done"}]
    /\ channel \in [Logins -> [queue : Seq(LoginEvents), closed : BOOLEAN]]
    /\ \A l \in Logins : Len(channel[l].queue) <= SinkCap
    /\ got \in [Logins -> Seq(LoginEvents)]
    /\ qr \in {"idle", "scanning", "sending", "crashed"}
    /\ holding \in [sink : Logins \cup {NoLogin}, event : LoginEvents]

\* runManager logs in before its loop begins: a device that is not paired starts with a
\* QR login that nobody has asked for.
Init ==
    /\ about \in About
    /\ queue = << >>
    /\ rpc = [c \in Clients |-> "none"]
    /\ snapshot = [c \in Clients |-> 0] /\ shownList = [c \in Clients |-> 0]
    /\ log = << >> /\ heard = [c \in Clients |-> Away] /\ lost = [c \in Clients |-> FALSE]
    /\ list = 0 /\ held = [p \in Publishers |-> Away]
    /\ receiver = NoChat /\ shownChat = [c \in Clients |-> NoChat]
    /\ screens = [g \in {Loop, Handlers} |-> NoChat] /\ stuck = FALSE
    /\ carried = [c \in Clients |-> NoChat]
    /\ up = [c \in Clients |-> << >>] /\ commands = << >> /\ selects = 0
    /\ sink = NoLogin /\ latestQR = 0
    /\ call = [l \in Logins |-> "none"]
    /\ channel = [l \in Logins |-> [queue |-> << >>, closed |-> FALSE]]
    /\ got = [l \in Logins |-> << >>]
    /\ wanted = 0 /\ holding = Nothing
    /\ qr \in IF about.logins THEN {"idle", "scanning"} ELSE {"idle"}

-----------------------------------------------------------------------------
(* The broadcaster *)

Full(c) == Len(queue[c]) = Buffer

\* Mutant: one full buffer, and nobody gets the event.
SendToAllOrNone(event) ==
    LET full == \E c \in DOMAIN queue : Full(c) IN
    /\ log' = Append(log, event)
    /\ queue' = [c \in DOMAIN queue |-> IF full THEN queue[c] ELSE Append(queue[c], Len(log'))]
    /\ lost' = [c \in Clients |-> lost[c] \/ (c \in DOMAIN queue /\ Full(c))]

\* Send: into every buffer that has room.
Send(event) ==
    /\ log' = Append(log, event)
    /\ queue' = [c \in DOMAIN queue |->
                    IF Full(c) THEN queue[c] ELSE Append(queue[c], Len(log'))]
    /\ lost' = [c \in Clients |-> lost[c] \/ (c \in DOMAIN queue /\ Full(c))]

Subscribe(c) ==
    /\ queue' = [d \in DOMAIN queue \cup {c} |-> IF d = c THEN << >> ELSE queue[d]]
    /\ heard' = [heard EXCEPT ![c] = Len(log)]

Unsubscribe(c) ==
    /\ queue' = [d \in DOMAIN queue \ {c} |-> queue[d]]
    /\ heard' = [heard EXCEPT ![c] = Away]

-----------------------------------------------------------------------------
(* The session manager, as far as it sends events *)

sessionRest == <<about, selects, rpc, snapshot, heard, up, carried, shownList, shownChat, loginVars>>

ListChanges ==
    /\ list < about.lists
    /\ list' = list + 1
    /\ UNCHANGED <<sessionRest, queue, lost, log, commands, held, receiver, screens, stuck>>

\* Listing the chats and sending the list are two steps.
ReadList(p) ==
    /\ about.lists > 0
    /\ held[p] = Away /\ Len(log) < MaxEvents
    /\ held' = [held EXCEPT ![p] = list]
    /\ UNCHANGED <<sessionRest, queue, lost, log, commands, list, receiver, screens, stuck>>

SetChats(p) ==
    /\ held[p] # Away
    /\ Send(List(held[p]))
    /\ held' = [held EXCEPT ![p] = Away]
    /\ UNCHANGED <<sessionRest, commands, list, receiver, screens, stuck>>

\* The command loop is between two commands.
LoopIsFree == screens[Loop] = NoChat /\ qr = "idle" /\ ~stuck

\* The command loop opens the chat that was selected last among those queued.
OpenChat ==
    /\ LoopIsFree /\ commands # << >>
    /\ receiver' = Last(commands)
    /\ commands' = << >>
    /\ screens' = [screens EXCEPT ![Loop] = receiver']
    /\ UNCHANGED <<sessionRest, queue, lost, log, list, held, stuck>>

\* Another command (a login, a disconnection) reports a status on StatusChannel, of which
\* the loop itself is the only receiver, and finds its buffer full: the loop is gone for
\* good.  When that can happen is the subject of SessionManager; here it may at any time.
LoopHangs ==
    /\ LoopIsFree
    /\ stuck' = TRUE
    /\ UNCHANGED <<sessionRest, queue, lost, log, commands, list, held, receiver, screens>>

\* An event handler has changed a message of the open chat (a revocation, a reaction).
ReadScreen ==
    /\ screens[Handlers] = NoChat /\ receiver # NoChat /\ Len(log) < MaxEvents
    /\ screens' = [screens EXCEPT ![Handlers] = receiver]
    /\ UNCHANGED <<sessionRest, queue, lost, log, commands, list, held, receiver, stuck>>

\* The screen that was read is sent, be its chat still open or not.
NewScreen(g) ==
    /\ screens[g] # NoChat
    /\ Send(Screen(screens[g]))
    /\ screens' = [screens EXCEPT ![g] = NoChat]
    /\ UNCHANGED <<sessionRest, commands, list, held, receiver, stuck>>

-----------------------------------------------------------------------------
(* EventStream, and the client at its other end *)

streamRest == <<about, log, sessionVars, loginVars>>

Connect(c) ==
    /\ about.streams
    /\ rpc[c] = "none"
    /\ rpc' = [rpc EXCEPT ![c] = "begun"]
    /\ UNCHANGED <<streamRest, selects, commands, queue, snapshot, heard, lost, up, carried, shownList, shownChat>>

\* After the handshake the client is subscribed, then the snapshot is taken and sent.
StreamSubscribes(c) ==
    /\ rpc[c] = "begun"
    /\ rpc' = [rpc EXCEPT ![c] = "subscribed"]
    /\ Subscribe(c)
    /\ UNCHANGED <<streamRest, selects, commands, snapshot, lost, up, carried, shownList, shownChat>>

StreamLists(c) ==
    /\ rpc[c] = "subscribed"
    /\ rpc' = [rpc EXCEPT ![c] = "listed"]
    /\ snapshot' = [snapshot EXCEPT ![c] = list]
    /\ UNCHANGED <<streamRest, selects, commands, queue, heard, lost, up, carried, shownList, shownChat>>

\* Mutant: subscribing after the snapshot was sent, with what came meanwhile lost.
GreetThenSubscribe(c) ==
    /\ rpc[c] = "listed"
    /\ rpc' = [rpc EXCEPT ![c] = "open"]
    /\ shownList' = [shownList EXCEPT ![c] = snapshot[c]]
    /\ Subscribe(c)
    /\ UNCHANGED <<streamRest, selects, commands, snapshot, lost, up, carried, shownChat>>

StreamGreets(c) ==
    /\ rpc[c] = "listed"
    /\ rpc' = [rpc EXCEPT ![c] = "open"]
    /\ shownList' = [shownList EXCEPT ![c] = snapshot[c]]
    /\ UNCHANGED <<streamRest, selects, commands, queue, snapshot, heard, lost, up, carried, shownChat>>

\* Mutant: a screen does not take the client away from the chat that it shows.
ForwardIfNoChat(c) ==
    /\ rpc[c] = "open" /\ queue[c] # << >>
    /\ LET n == Head(queue[c])
           event == log[n]
       IN /\ heard' = [heard EXCEPT ![c] = n]
          /\ queue' = [queue EXCEPT ![c] = Tail(@)]
          /\ shownList' = IF event.kind = "list"
                          THEN [shownList EXCEPT ![c] = event.list] ELSE shownList
          /\ shownChat' = IF event.kind = "screen" /\ shownChat[c] = NoChat
                          THEN [shownChat EXCEPT ![c] = event.chat] ELSE shownChat
    /\ UNCHANGED <<streamRest, selects, commands, rpc, snapshot, lost, up, carried>>

\* The sending goroutine takes the next event, and the client handles it.  A list
\* replaces the list, a screen that names a chat switches to it.
Forward(c) ==
    /\ rpc[c] = "open" /\ queue[c] # << >>
    /\ LET n == Head(queue[c])
           event == log[n]
       IN /\ heard' = [heard EXCEPT ![c] = n]
          /\ queue' = [queue EXCEPT ![c] = Tail(@)]
          /\ shownList' = IF event.kind = "list"
                          THEN [shownList EXCEPT ![c] = event.list] ELSE shownList
          /\ shownChat' = IF event.kind = "screen" /\ event.chat # NoChat
                          THEN [shownChat EXCEPT ![c] = event.chat] ELSE shownChat
    /\ UNCHANGED <<streamRest, selects, commands, rpc, snapshot, lost, up, carried>>

\* The client selects a chat, and shows it at once, without messages.
Select(c) ==
    /\ rpc[c] = "open"
    /\ selects < about.selects
    /\ selects' = selects + 1
    /\ \E chat \in about.chats :
         /\ up' = [up EXCEPT ![c] = Append(@, chat)]
         /\ shownChat' = [shownChat EXCEPT ![c] = chat]
    /\ UNCHANGED <<streamRest, commands, queue, rpc, snapshot, heard, lost, carried, shownList>>

\* Recv: a message becomes a command (handleClientMessage).  What a client has sent may
\* still be read after it has gone.
StreamReceives(c) ==
    /\ rpc[c] \in {"open", "gone"} /\ carried[c] = NoChat /\ up[c] # << >>
    /\ carried' = [carried EXCEPT ![c] = Head(up[c])]
    /\ up' = [up EXCEPT ![c] = Tail(@)]
    /\ UNCHANGED <<streamRest, selects, commands, queue, rpc, snapshot, heard, lost, shownList, shownChat>>

\* CommandChannel, which logins share, has room.
Room == Len(commands) + wanted < CommandCap

\* The command waits for room, and its handler with it.  There is room, too, when the loop
\* takes the first of the queued selections, which the next one then takes over.
StreamPasses(c) ==
    /\ carried[c] # NoChat
    /\ \/ Room /\ commands' = Append(commands, carried[c])
       \/ /\ ~Room /\ LoopIsFree /\ commands # << >>
          /\ commands' = Append(Tail(commands), carried[c])
    /\ carried' = [carried EXCEPT ![c] = NoChat]
    /\ UNCHANGED <<streamRest, selects, queue, rpc, snapshot, heard, lost, up, shownList, shownChat>>

\* The client goes away at any time.  It may come back when its handler has returned.
ClientLeaves(c) ==
    /\ rpc[c] \in {"begun", "subscribed", "listed", "open"}
    /\ rpc' = [rpc EXCEPT ![c] = "gone"]
    /\ shownList' = [shownList EXCEPT ![c] = 0]
    /\ shownChat' = [shownChat EXCEPT ![c] = NoChat]
    /\ UNCHANGED <<streamRest, selects, commands, queue, snapshot, heard, lost, up, carried>>

\* Mutant: the handler waits till the buffer has been sent.
StreamReturnsDrained(c) ==
    /\ rpc[c] = "gone" /\ carried[c] = NoChat /\ (c \in DOMAIN queue => queue[c] = << >>)
    /\ rpc' = [rpc EXCEPT ![c] = "none"]
    /\ Unsubscribe(c)
    /\ lost' = [lost EXCEPT ![c] = FALSE]
    /\ snapshot' = [snapshot EXCEPT ![c] = 0]
    /\ up' = [up EXCEPT ![c] = << >>]
    /\ UNCHANGED <<streamRest, selects, commands, carried, shownList, shownChat>>

\* Then sending and receiving fail, and the handler returns, unless it is waiting for room
\* in CommandChannel: it learns of the end of its stream only between two messages.
StreamReturns(c) ==
    /\ rpc[c] = "gone" /\ carried[c] = NoChat
    /\ rpc' = [rpc EXCEPT ![c] = "none"]
    /\ Unsubscribe(c)
    /\ lost' = [lost EXCEPT ![c] = FALSE]
    /\ snapshot' = [snapshot EXCEPT ![c] = 0]
    /\ up' = [up EXCEPT ![c] = << >>]
    /\ UNCHANGED <<streamRest, selects, commands, carried, shownList, shownChat>>

-----------------------------------------------------------------------------
(* Login, and the QR login on the command loop *)

loginRest == <<about, streamVars, selects, sessionVars, log, commands>>

\* Mutant: a new call waits for the next code.
SetLoginSinkOnly(l) ==
    /\ sink' = l
    /\ UNCHANGED channel

\* The call becomes the sink, and is given the last code.
SetLoginSink(l) ==
    /\ sink' = l
    /\ channel' = IF l # NoLogin /\ latestQR # 0
                  THEN [channel EXCEPT ![l].queue = Append(@, latestQR)] ELSE channel

LoginBegins(l) ==
    /\ about.logins
    /\ call[l] = "none"
    /\ call' = [call EXCEPT ![l] = "begun"]
    /\ SetLoginSink(l)
    /\ UNCHANGED <<loginRest, latestQR, got, wanted, qr, holding>>

LoginAsks(l) ==
    /\ call[l] = "begun" /\ Room
    /\ call' = [call EXCEPT ![l] = "open"]
    /\ wanted' = wanted + 1
    /\ UNCHANGED <<loginRest, sink, latestQR, channel, got, qr, holding>>

\* The next event goes to the client; the last one, or a client that has left, ends the
\* call, and so does the end of the channel.
LoginForwards(l) ==
    /\ call[l] \in {"open", "left"} /\ channel[l].queue # << >>
    /\ LET event == Head(channel[l].queue)
       IN /\ got' = IF call[l] = "left" THEN got ELSE [got EXCEPT ![l] = Append(@, event)]
          /\ call' = IF call[l] = "left" \/ event = End
                     THEN [call EXCEPT ![l] = "ending"] ELSE call
    /\ channel' = [channel EXCEPT ![l].queue = Tail(@)]
    /\ UNCHANGED <<loginRest, sink, latestQR, wanted, qr, holding>>

LoginClientLeaves(l) ==
    /\ call[l] = "open"
    /\ call' = [call EXCEPT ![l] = "left"]
    /\ UNCHANGED <<loginRest, sink, latestQR, channel, got, wanted, qr, holding>>

\* The deferred SetLoginSink(nil), whoever is the sink by now.
LoginReturns(l) ==
    /\ call[l] = "ending"
    /\ call' = [call EXCEPT ![l] = "done"]
    /\ SetLoginSink(NoLogin)
    /\ UNCHANGED <<loginRest, latestQR, got, wanted, qr, holding>>

\* The loop executes a login.  A device that is paired needs no code and reports nothing.
LoopLogsIn ==
    /\ LoopIsFree /\ wanted > 0
    /\ wanted' = wanted - 1
    /\ qr' \in {"scanning", "idle"}
    /\ UNCHANGED <<loginRest, sink, latestQR, call, channel, got, holding>>

\* A code, or the end of the attempt: the sink is read, and then sent to.
QRCode ==
    /\ qr = "scanning" /\ latestQR < MaxCodes
    /\ latestQR' = latestQR + 1
    /\ holding' = [sink |-> sink, event |-> latestQR']
    /\ qr' = "sending"
    /\ UNCHANGED <<loginRest, sink, call, channel, got, wanted>>

LoginEnds ==
    /\ qr = "scanning"
    /\ holding' = [sink |-> sink, event |-> End]
    /\ qr' = "sending"
    /\ UNCHANGED <<loginRest, sink, latestQR, call, channel, got, wanted>>

\* Any other event of the QR channel ends the attempt, and no sink is told.
LoginFails ==
    /\ qr = "scanning"
    /\ qr' = "idle"
    /\ UNCHANGED <<loginRest, sink, latestQR, call, channel, got, wanted, holding>>

\* The event waits for room in the channel; the last one closes it.  Sending on a closed
\* channel ends the program.
LoopSends ==
    /\ qr = "sending"
    /\ holding' = Nothing
    /\ LET l == holding.sink
           last == holding.event = End
       IN \/ /\ l = NoLogin
             /\ UNCHANGED channel
             /\ qr' = IF last THEN "idle" ELSE "scanning"
          \/ /\ l # NoLogin /\ channel[l].closed
             /\ UNCHANGED channel
             /\ qr' = "crashed"
          \/ /\ l # NoLogin /\ ~channel[l].closed /\ Len(channel[l].queue) < SinkCap
             /\ channel' = [channel EXCEPT ![l] = [queue |-> Append(@.queue, holding.event),
                                                   closed |-> last]]
             /\ qr' = IF last THEN "idle" ELSE "scanning"
    /\ UNCHANGED <<loginRest, sink, latestQR, call, got, wanted>>

-----------------------------------------------------------------------------
SessionStep ==
    \/ ListChanges \/ OpenChat \/ LoopHangs \/ ReadScreen
    \/ \E p \in Publishers : ReadList(p) \/ SetChats(p)
    \/ \E g \in {Loop, Handlers} : NewScreen(g)

StreamStep(c) ==
    \/ StreamSubscribes(c) \/ StreamLists(c) \/ StreamGreets(c)
    \/ Forward(c) \/ StreamReceives(c) \/ StreamPasses(c) \/ StreamReturns(c)

ClientStep(c) == Connect(c) \/ Select(c) \/ ClientLeaves(c)

LoginStep(l) == LoginAsks(l) \/ LoginForwards(l) \/ LoginReturns(l)

LoopStep == LoopLogsIn \/ LoopSends

Next ==
    \/ SessionStep
    \/ \E c \in Clients : StreamStep(c) \/ ClientStep(c)
    \/ \E l \in Logins : LoginBegins(l) \/ LoginStep(l) \/ LoginClientLeaves(l)
    \/ LoopStep \/ QRCode \/ LoginEnds \/ LoginFails

Spec == Init /\ [][Next]_vars

\* What a handler does without a client that reads.
HandlerStep(c) ==
    \/ StreamSubscribes(c) \/ StreamLists(c)
    \/ StreamReceives(c) \/ StreamPasses(c) \/ StreamReturns(c)

\* A stream's handler, a Login call and the command loop go on, but for the loop's wait for
\* itself; a QR attempt comes to one of its ends.  Nothing is assumed of clients, and a
\* client that does not read holds up only its own stream (Forward).
FairSpec ==
    /\ Spec
    /\ WF_vars(OpenChat \/ NewScreen(Loop) \/ LoopStep) /\ WF_vars(LoginEnds \/ LoginFails)
    /\ \A c \in Clients : WF_vars(HandlerStep(c))
    /\ \A l \in Logins : WF_vars(LoginStep(l))

-----------------------------------------------------------------------------
(* Properties *)

\* The broadcaster and EventStream implement the feed: a client begins with the chat list
\* of one moment and has every event from an earlier moment on, each once and in order,
\* but for those that its full buffer refused when they were published.
Streams == {c \in Clients : rpc[c] \in {"listed", "open"}}
Published == [n \in 1..Len(log) |-> IF log[n].kind = "list" THEN log[n].list ELSE Away]
Due == [c \in Streams |-> queue[c]]
View == [c \in Streams |-> IF rpc[c] = "listed" THEN snapshot[c] ELSE shownList[c]]

FeedOf == INSTANCE Feed WITH Other <- Away, log <- Published, due <- Due, view <- View
FeedIsKept == FeedOf!Spec

\* Of the events of one kind the last; a screen of a chat without messages names none.
LastList(n) ==
    /\ log[n].kind = "list"
    /\ \A m \in 1..Len(log) : m > n => log[m].kind # "list"
LastNamed(n) ==
    /\ log[n].chat # NoChat
    /\ \A m \in 1..Len(log) : m > n => log[m].chat = NoChat

\* A client for which no event was dropped misses nothing: when its buffer is empty it
\* shows no older list than the one published last, however snapshot and events
\* interleave, and however slow other clients are.
Drained(c) == rpc[c] = "open" /\ queue[c] = << >> /\ ~lost[c]
NothingMissed ==
    \A c \in Clients : Drained(c) =>
        \A n \in 1..Len(log) : LastList(n) => shownList[c] >= log[n].list

\* In the end all clients show the open chat, and send their texts to it: a client for
\* which no event was dropped, with no selection on its way, shows the chat that is open,
\* or none when it came after that chat's screen.  There are two exceptions.  The screen of
\* a chat without messages switches nobody, and of two selections that were coalesced one
\* client may be left with the other one.  And an event handler may have read the screen
\* of the chat before: when it sends it last, the clients go back to that chat.
Quiet ==
    /\ commands = << >> /\ screens[Loop] = NoChat
    /\ \A c \in Clients : up[c] = << >> /\ carried[c] = NoChat
LastScreenWins ==
    Quiet /\ receiver \notin Empty =>
        \A c \in Clients : Drained(c) =>
            \/ shownChat[c] \in {NoChat, receiver}
            \/ \E n \in 1..Len(log) : LastNamed(n) /\ log[n].late /\ shownChat[c] = log[n].chat

\* The same without the second exception: the code breaks it in just that way.
OpenChatShown ==
    Quiet /\ receiver \notin Empty =>
        \A c \in Clients : Drained(c) => shownChat[c] \in {NoChat, receiver}

\* The sink knows the last code, or is about to: a call that comes after the code was
\* shown, or between two steps of showing it, does not wait for the next one.
SinkKnowsCode ==
    sink # NoLogin /\ latestQR # 0 /\ call[sink] \in {"begun", "open"} =>
        \/ Contains(got[sink] \o channel[sink].queue, latestQR)
        \/ holding = [sink |-> sink, event |-> latestQR]
        \/ qr = "crashed"

\* Nothing is left behind: a client that has gone away is forgotten, buffer and all, and
\* a call whose channel was closed ends, be its client still there or not.  The exception
\* is a handler or a call that waits for room in CommandChannel, with a loop that has
\* stopped for good.
LoopIsLost == stuck \/ qr \in {"sending", "crashed"}
HandlersEnd ==
    /\ \A c \in Clients : rpc[c] = "gone" ~>
           (c \notin DOMAIN queue \/ [](carried[c] # NoChat /\ ~Room /\ LoopIsLost))
    /\ \A l \in Logins : channel[l].closed ~>
           (call[l] = "done" \/ [](call[l] = "begun" /\ ~Room /\ LoopIsLost))

\* A call streams the codes "until the device is paired or the timeout expires"
\* (whatscli.proto): when the attempt of the loop ends one way or the other, every call
\* that was open gets to know.
LoginIsAnswered ==
    \A l \in Logins : (call[l] = "open" /\ qr = "sending" /\ holding.event = End)
                            ~> (call[l] # "open" \/ qr = "crashed")

=============================================================================
