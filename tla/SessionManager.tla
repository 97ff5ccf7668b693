--------------------------- MODULE SessionManager ---------------------------
(***************************************************************************)
(* The session manager: backend/messages/session_manager.go, runManager,   *)
(* login, connectionWatchdog and execCommand.                              *)
(*                                                                         *)
(* One goroutine, the loop, executes the commands of the UI and takes the  *)
(* status messages; logging in, scanning the QR code and every command     *)
(* that waits for the network happen on it.  The watchdog, the goroutines  *)
(* on which whatsmeow delivers its events, and the loop itself send status *)
(* messages, over a channel that only the loop receives from.              *)
(*                                                                         *)
(* What a status message says is of no consequence: the loop shows what    *)
(* the client says when it takes one.  So StatusChannel is a number.  No   *)
(* one sends on BatteryChannel, and started is never reset.                *)
(***************************************************************************)
EXTENDS Naturals, Sequences, FiniteSetsExt

CONSTANTS
    Chats,          \* chats of the list
    Groups,         \* those that are groups
    NoChat,         \* no chat, the empty string of the code
    Repertoires,    \* what a run is about: the commands that the user uses, how many at
                    \* most, and whether the network does anything
    StatusCap,      \* capacity of StatusChannel (10 in the code)
    CommandCap,     \* capacity of CommandChannel (10 in the code)
    MaxClients,     \* bound on the clients made in one run
    MaxPosts        \* bound on events and loaders that wait at the same time

Names == {"login", "disconnect", "logout", "reset", "select", "read", "send", "media",
          "download", "revoke", "backlog", "create", "leave", "participants", "subject"}

ASSUME SessionAssumption ==
    /\ NoChat \notin Chats
    /\ Groups \subseteq Chats
    /\ StatusCap \in Nat \ {0} /\ CommandCap \in Nat \ {0}
    /\ \A r \in Repertoires : r.most \in Nat /\ r.commands \subseteq Names
    /\ MaxClients \in Nat \ {0} /\ MaxPosts \in Nat \ {0}

VARIABLES
    paired,             \* the database holds a paired device
    clients,            \* every client made so far: its socket is up, its Store has an
                        \* identity, whatsmeow's reconnection is under way
    client,             \* the one in the field, 0 for nil
    userDisconnected,   \* the user asked for the disconnection
    status,             \* messages in StatusChannel
    commands,           \* messages in CommandChannel
    at,                 \* where the loop stands
    doing,              \* the command that it executes
    then,               \* what follows the status message that it sends
    currentReceiver,    \* the open chat
    watch,              \* where the watchdog stands, and the client it looks at
    posts,              \* events on their way to StatusChannel
    loads,              \* loadRecentChats calls that wait for the connection
    loaded,             \* one of them has loaded the caches
    shown,              \* statusInfo.Connected
    repertoire,         \* what this run is about
    screen,             \* the chat that the user selected last (read by no code)
    sent                \* number of commands sent

connVars == <<paired, clients, client, userDisconnected>>
loopVars == <<at, doing, then, currentReceiver>>
userVars == <<repertoire, screen, sent>>
vars == <<connVars, status, commands, loopVars, watch, posts, loads, loaded, shown, userVars>>

Intents == {"probe", "commit"}
Command == [name : Names, chat : Chats \cup {NoChat}, intent : Intents]
Idle == [name |-> "read", chat |-> NoChat, intent |-> "probe"]
Clients == DOMAIN clients

TypeOK ==
    /\ paired \in BOOLEAN /\ userDisconnected \in BOOLEAN
    /\ clients \in Seq([up : BOOLEAN, own : BOOLEAN, retry : BOOLEAN])
    /\ Len(clients) <= MaxClients
    /\ client \in Clients \cup {0}
    /\ status \in 0..StatusCap
    /\ commands \in Seq(Command) /\ Len(commands) <= CommandCap
    /\ at \in {"start", "login", "connect", "qr", "send", "idle", "exec", "coalesce", "waiting",
               "gone", "crashed"}
    /\ doing \in Command
    /\ then \in {"idle", "load", "connect"}
    /\ currentReceiver \in Chats \cup {NoChat}
    /\ watch \in [at : {"asleep", "tell", "connect"}, client : Clients \cup {0}]
    /\ posts \in 0..MaxPosts /\ loads \in 0..MaxPosts
    /\ loaded \in BOOLEAN /\ shown \in BOOLEAN
    /\ repertoire \in Repertoires /\ screen \in Chats \cup {NoChat} /\ sent \in 0..repertoire.most

Init ==
    /\ paired \in BOOLEAN
    /\ clients = << >> /\ client = 0 /\ userDisconnected = FALSE
    /\ status = 0 /\ commands = << >>
    /\ at = "start" /\ doing = Idle /\ then = "idle"
    /\ currentReceiver = NoChat
    /\ watch = [at |-> "asleep", client |-> 0]
    /\ posts = 0 /\ loads = 0 /\ loaded = FALSE /\ shown = FALSE
    /\ repertoire \in Repertoires /\ screen = NoChat /\ sent = 0

-----------------------------------------------------------------------------
(* The connection *)

Running == at # "crashed"
Connected == client # 0 /\ clients[client].up
Down(c) == [clients EXCEPT ![c].up = FALSE, ![c].retry = FALSE]
Up(c) == [clients EXCEPT ![c].up = TRUE, ![c].retry = FALSE]
Forgotten(c) == [clients EXCEPT ![c] = [up |-> FALSE, own |-> FALSE, retry |-> FALSE]]
Another(n) == Min({n + 1, MaxPosts})

\* A new client reads its identity from the database.
MakeClient(cs) ==
    /\ Len(cs) < MaxClients
    /\ clients' = Append(cs, [up |-> FALSE, own |-> paired', retry |-> FALSE])
    /\ client' = Len(cs) + 1

\* whatsmeow: the connection breaks, which it tells and tries to repair, or which nobody
\* notices; its repair succeeds; the phone unlinks the device; the server closes a
\* connection of the same device for another one.
Drop(c) ==
    /\ clients[c].up
    /\ \/ /\ clients' = [clients EXCEPT ![c].up = FALSE, ![c].retry = clients[c].own]
          /\ posts' = Another(posts)
       \/ clients' = Down(c) /\ UNCHANGED posts
    /\ UNCHANGED <<paired, client, userDisconnected>>

Reconnect(c) ==
    /\ clients[c].retry /\ clients[c].own /\ ~clients[c].up
    /\ clients' = Up(c)
    /\ posts' = Another(posts)
    /\ UNCHANGED <<paired, client, userDisconnected>>

Unlink(c) ==
    /\ clients[c].up /\ clients[c].own
    /\ clients' = Forgotten(c)
    /\ paired' = FALSE
    /\ posts' = Another(posts)
    /\ UNCHANGED <<client, userDisconnected>>

Replace(c) ==
    /\ clients[c].up
    /\ \E d \in Clients : d # c /\ clients[d].up
    /\ clients' = Down(c)
    /\ UNCHANGED <<paired, client, userDisconnected, posts>>

Network ==
    /\ Running /\ repertoire.network
    /\ \E c \in Clients : Drop(c) \/ Reconnect(c) \/ Unlink(c) \/ Replace(c)
    /\ UNCHANGED <<status, commands, loopVars, watch, loads, loaded, shown, userVars>>

\* Handle posts what happened to the connection.
PostStatus ==
    /\ Running
    /\ posts > 0 /\ status < StatusCap
    /\ posts' = posts - 1
    /\ status' = status + 1
    /\ UNCHANGED <<connVars, commands, loopVars, watch, loads, loaded, shown, userVars>>

-----------------------------------------------------------------------------
(* Logging in, on the loop *)

\* The start of runManager; without a database the loop is over before it begins.
Start ==
    /\ at = "start"
    /\ UNCHANGED <<paired, userDisconnected>>
    /\ \/ MakeClient(clients) /\ at' = "login"
       \/ at' = "gone" /\ UNCHANGED <<clients, client>>
    /\ UNCHANGED <<status, commands, doing, then, currentReceiver, watch, posts, loads,
                   loaded, shown, userVars>>

SendThen(next) == at' = "send" /\ then' = next

\* A client is new when it logs in, but if it is paired the watchdog may have seen it
\* already, and connected it: it is disconnected first.
LoginBegins ==
    /\ at = "login"
    /\ IF clients[client].up
       THEN clients' = Down(client) /\ SendThen("connect")
       ELSE at' = "connect" /\ UNCHANGED <<clients, then>>
    /\ UNCHANGED <<paired, client, userDisconnected, status, commands, doing, currentReceiver,
                   watch, posts, loads, loaded, shown, userVars>>

\* Connect to a paired session.  It may fail, and does when the watchdog was faster, or
\* find that the session has expired, and then a new client goes on with the QR code.
Login ==
    /\ at = "connect" /\ clients[client].own
    /\ \/ /\ ~clients[client].up
          /\ clients' = Up(client)
          /\ posts' = Another(posts)
          /\ SendThen("load")
          /\ UNCHANGED <<paired, client>>
       \/ /\ at' = "idle"
          /\ UNCHANGED <<paired, clients, client, posts, then>>
       \/ /\ ~clients[client].up
          /\ paired' = FALSE
          /\ \/ MakeClient(Forgotten(client)) /\ UNCHANGED at
             \/ clients' = Forgotten(client) /\ client' = 0 /\ at' = "idle"
          /\ UNCHANGED <<posts, then>>
    /\ UNCHANGED <<userDisconnected, status, commands, doing, currentReceiver, watch,
                   loads, loaded, shown, userVars>>

\* Without an identity: connect, and wait for the QR code to be scanned.
ShowQR ==
    /\ at = "connect" /\ ~clients[client].own
    /\ \/ /\ clients' = Up(client)
          /\ at' = "qr"
       \/ at' = "idle" /\ UNCHANGED clients
    /\ UNCHANGED <<paired, client, userDisconnected, status, commands, doing, then,
                   currentReceiver, watch, posts, loads, loaded, shown, userVars>>

QRSuccess ==
    /\ at = "qr" /\ clients[client].up
    /\ clients' = [clients EXCEPT ![client].own = TRUE]
    /\ paired' = TRUE
    /\ posts' = Another(posts)
    /\ SendThen("load")
    /\ UNCHANGED <<client, userDisconnected, status, commands, doing, currentReceiver,
                   watch, loads, loaded, shown, userVars>>

\* Mutant: after a timeout the loop goes on reading the QR channel.
QRTimeoutGoesOn ==
    /\ at = "qr"
    /\ clients' = Down(client)
    /\ UNCHANGED <<paired, client, userDisconnected, status, commands, loopVars, watch, posts,
                   loads, loaded, shown, userVars>>

\* The QR channel reports a timeout and closes; whatsmeow closes the socket.
QRTimeout ==
    /\ at = "qr"
    /\ clients' = Down(client)
    /\ at' = "idle"
    /\ UNCHANGED <<paired, client, userDisconnected, status, commands, doing, then,
                   currentReceiver, watch, posts, loads, loaded, shown, userVars>>

\* The loop sends on the channel of which it is the only receiver.
SendStatus ==
    /\ at = "send" /\ status < StatusCap
    /\ status' = status + 1
    /\ at' = IF then = "connect" THEN "connect" ELSE "idle"
    /\ loads' = IF then = "load" THEN Another(loads) ELSE loads
    /\ UNCHANGED <<connVars, commands, doing, then, currentReceiver, watch, posts, loaded,
                   shown, userVars>>

\* loadRecentChats waits ten seconds for the connection, and gives up.
Load ==
    /\ Running /\ loads > 0
    /\ loads' = loads - 1
    /\ loaded' = (loaded \/ Connected)
    /\ UNCHANGED <<connVars, status, commands, loopVars, watch, posts, shown, userVars>>

-----------------------------------------------------------------------------
(* The watchdog *)

\* Once a minute: a paired session that is down against the user's will.
Dead(c) == c # 0 /\ ~clients[c].up /\ clients[c].own

\* Mutant: only a session that is shown as up gets repaired.
TickIfShown ==
    /\ Running
    /\ watch.at = "asleep"
    /\ Dead(client) /\ ~userDisconnected /\ shown
    /\ watch' = [at |-> "tell", client |-> client]
    /\ UNCHANGED <<connVars, status, commands, loopVars, posts, loads, loaded, shown, userVars>>

\* Mutant: the watchdog connects without a word.
TickSilently ==
    /\ Running
    /\ watch.at = "asleep"
    /\ Dead(client) /\ ~userDisconnected
    /\ watch' = [at |-> "connect", client |-> client]
    /\ UNCHANGED <<connVars, status, commands, loopVars, posts, loads, loaded, shown, userVars>>

Tick ==
    /\ Running
    /\ watch.at = "asleep"
    /\ Dead(client) /\ ~userDisconnected
    /\ watch' = [at |-> "tell", client |-> client]
    /\ UNCHANGED <<connVars, status, commands, loopVars, posts, loads, loaded, shown, userVars>>

WatchTells ==
    /\ Running
    /\ watch.at = "tell" /\ status < StatusCap
    /\ status' = status + 1
    /\ watch' = [watch EXCEPT !.at = "connect"]
    /\ UNCHANGED <<connVars, commands, loopVars, posts, loads, loaded, shown, userVars>>

\* It connects the client that it saw a moment ago; or that fails.
WatchConnects ==
    /\ Running
    /\ watch.at = "connect"
    /\ watch' = [at |-> "asleep", client |-> 0]
    /\ \/ /\ ~clients[watch.client].up
          /\ clients' = Up(watch.client)
          /\ posts' = Another(posts)
       \/ UNCHANGED <<clients, posts>>
    /\ UNCHANGED <<paired, client, userDisconnected, status, commands, loopVars, loads,
                   loaded, shown, userVars>>

-----------------------------------------------------------------------------
(* Commands *)

\* The user sends a command over the stream, which waits while the channel is full.
\* Commands about the open chat carry the chat that the user sees (read by no code).
UserSends ==
    /\ Running
    /\ sent < repertoire.most /\ Len(commands) < CommandCap
    /\ sent' = sent + 1
    /\ \E n \in repertoire.commands :
         \/ /\ n = "select"
            /\ \E c \in Chats, i \in Intents :
                 /\ screen' = c
                 /\ commands' = Append(commands, [name |-> n, chat |-> c, intent |-> i])
         \/ /\ n # "select"
            /\ screen' = screen
            /\ commands' = Append(commands, [name |-> n, intent |-> "probe",
                                             chat |-> IF n = "read" THEN screen ELSE NoChat])
    /\ UNCHANGED <<connVars, status, loopVars, watch, posts, loads, loaded, shown, repertoire>>

loopRest == <<watch, posts, loads, loaded, userVars>>

TakeStatus ==
    /\ at = "idle" /\ status > 0
    /\ status' = status - 1
    /\ shown' = Connected
    /\ UNCHANGED <<connVars, commands, loopVars, loopRest>>

TakeCommand ==
    /\ at = "idle" /\ commands # << >>
    /\ doing' = Head(commands)
    /\ commands' = Tail(commands)
    /\ at' = IF doing'.name = "select" THEN "coalesce" ELSE "exec"
    /\ UNCHANGED <<connVars, status, then, currentReceiver, shown, loopRest>>

\* Mutant: the first chat of a burst stays.
OverKeepingChat(old, new) ==
    [old EXCEPT !.intent = IF new.intent = "commit" THEN "commit" ELSE @]

\* A select takes over every select that is queued directly behind it; a commit among
\* them makes it a commit.
Over(old, new) == [new EXCEPT !.intent = IF old.intent = "commit" THEN "commit" ELSE @]

CoalesceNext ==
    /\ at = "coalesce" /\ commands # << >> /\ Head(commands).name = "select"
    /\ doing' = Over(doing, Head(commands))
    /\ commands' = Tail(commands)
    /\ UNCHANGED <<connVars, status, at, then, currentReceiver, shown, loopRest>>

\* Mutant: the command that ends a burst is executed without the chat being opened.
CoalesceOtherFirst ==
    /\ at = "coalesce" /\ commands # << >> /\ Head(commands).name # "select"
    /\ doing' = Head(commands)
    /\ commands' = Tail(commands)
    /\ at' = "exec"
    /\ UNCHANGED <<connVars, status, then, currentReceiver, shown, loopRest>>

\* Any other command ends the burst: the chat is opened, then the command is executed.
CoalesceOther ==
    /\ at = "coalesce" /\ commands # << >> /\ Head(commands).name # "select"
    /\ currentReceiver' = doing.chat
    /\ doing' = Head(commands)
    /\ commands' = Tail(commands)
    /\ at' = "exec"
    /\ UNCHANGED <<connVars, status, then, shown, loopRest>>

CoalesceDone ==
    /\ at = "coalesce" /\ commands = << >>
    /\ currentReceiver' = doing.chat
    /\ at' = "idle"
    /\ doing' = Idle
    /\ UNCHANGED <<connVars, status, commands, then, shown, loopRest>>

\* Executing a command that is not a select.  Each leaves the loop somewhere.
Executes(name) ==
    /\ at = "exec" /\ doing.name = name
    /\ doing' = Idle
    /\ UNCHANGED <<status, commands, currentReceiver, shown, loopRest>>

\* The old client is replaced, not disconnected.
LoginCommand ==
    /\ Executes("login")
    /\ userDisconnected' = FALSE
    /\ UNCHANGED <<paired, then>>
    /\ \/ MakeClient(clients) /\ at' = "login"
       \/ client' = 0 /\ at' = "idle" /\ UNCHANGED clients

DisconnectCommand ==
    /\ Executes("disconnect")
    /\ userDisconnected' = TRUE
    /\ IF Connected
       THEN clients' = Down(client) /\ SendThen("idle")
       ELSE at' = "idle" /\ UNCHANGED <<clients, then>>
    /\ UNCHANGED <<paired, client>>

\* Logging out deletes the identity only when the server has been told.
LogoutCommand ==
    /\ Executes("logout")
    /\ SendThen("idle")
    /\ client' = 0
    /\ \/ /\ Connected /\ clients[client].own
          /\ clients' = Forgotten(client)
          /\ paired' = FALSE
       \/ UNCHANGED <<clients, paired>>
    /\ UNCHANGED userDisconnected

ResetCommand ==
    /\ Executes("reset")
    /\ clients' = IF client = 0 THEN clients ELSE Forgotten(client)
    /\ paired' = FALSE
    /\ client' = 0
    /\ SendThen("idle")
    /\ UNCHANGED userDisconnected

\* /read and /unread apply to the open chat (see AutoMarkRead).
ReadCommand ==
    /\ Executes("read")
    /\ at' = "idle"
    /\ UNCHANGED <<connVars, then>>

\* A command that waits for the network: it is refused at once, or the loop is busy.
Waits(name, allowed) ==
    /\ Executes(name)
    /\ at' = IF allowed THEN "waiting" ELSE "idle"
    /\ UNCHANGED <<connVars, then>>

SendText == Waits("send", Connected)

SendMedia == Waits("media", currentReceiver # NoChat /\ Connected)

Download == Waits("download", Connected)

RevokeMessage == Waits("revoke", Connected)

\* Without a message in the chat the request needs an anchor from the session database.
WithoutAnchor ==
    /\ Executes("backlog") /\ currentReceiver # NoChat /\ Connected
    /\ at' = "idle"
    /\ UNCHANGED <<connVars, then>>

\* Up to fifteen seconds for the answer.
LoadBacklog == WithoutAnchor \/ Waits("backlog", currentReceiver # NoChat /\ Connected)

\* These do not ask whether there is a client, and use the field as it is.
Unguarded(name) ==
    /\ Executes(name)
    /\ at' = IF client = 0 THEN "crashed" ELSE "waiting"
    /\ UNCHANGED <<connVars, then>>

CreateGroup == Unguarded("create")

OfGroup(name) ==
    \/ currentReceiver \in Groups /\ Unguarded(name)
    \/ currentReceiver \notin Groups /\ Waits(name, FALSE)

LeaveGroup == OfGroup("leave")

UpdateParticipants == OfGroup("participants")

UpdateSubject == OfGroup("subject")

WaitEnds ==
    /\ at = "waiting"
    /\ at' = "idle"
    /\ UNCHANGED <<connVars, status, commands, doing, then, currentReceiver, shown, loopRest>>

-----------------------------------------------------------------------------
LoopStep ==
    \/ Start \/ LoginBegins \/ Login \/ ShowQR \/ SendStatus
    \/ TakeStatus \/ TakeCommand \/ CoalesceNext \/ CoalesceOther \/ CoalesceDone
    \/ LoginCommand \/ DisconnectCommand \/ LogoutCommand \/ ResetCommand
    \/ ReadCommand \/ SendText \/ SendMedia \/ Download \/ RevokeMessage \/ LoadBacklog
    \/ CreateGroup \/ LeaveGroup \/ UpdateParticipants \/ UpdateSubject \/ WaitEnds

WatchStep == Tick \/ WatchTells \/ WatchConnects

Next == LoopStep \/ QRSuccess \/ QRTimeout \/ WatchStep \/ PostStatus \/ Load \/ Network \/ UserSends

Spec == Init /\ [][Next]_vars

\* What was begun goes on; a QR code that nobody scans times out; a channel serves the
\* goroutines that wait to send on it in the order in which they came.  Nothing is
\* assumed of the network, the phone and the user.
FairSpec ==
    /\ Spec
    /\ WF_vars(LoopStep) /\ WF_vars(QRTimeout) /\ WF_vars(WatchStep) /\ SF_vars(WatchTells)
    /\ WF_vars(PostStatus) /\ WF_vars(Load)

-----------------------------------------------------------------------------
(* Properties *)

\* The loop waits for itself: it sends a status message and the channel is full.  The
\* only other ends are a session database that cannot be opened at the start, and a
\* group command without a client.
Stuck == at = "send" /\ status = StatusCap
Ended == at \in {"gone", "crashed"} \/ Stuck

\* Bursts of selections, coalesced or not, leave the chat open that was selected last.
LastSelectWins == at = "idle" /\ commands = << >> => currentReceiver = screen

\* A command about the open chat, queued between selections, applies to the chat that
\* the user saw when giving it: coalescing never passes it.
ReadHitsItsChat == [][at = "exec" /\ doing.name = "read" /\ at' = "idle"
                        => currentReceiver = doing.chat]_vars

\* Nothing but itself, and the three ends above, keeps the loop from its channels:
\* whatever command, QR code or login it is busy with, it comes back.
LoopComesBack == (at # "idle") ~> (at = "idle" \/ Ended)

\* The user is told the truth: a paired session shown as up that is down, however it went
\* down, is shown as down unless it comes back; and the other way round.  (Of a session
\* that is not paired the user may never be told: the watchdog leaves it alone.)
UITellsTruth ==
    /\ (shown /\ Dead(client)) ~> (~shown \/ ~Dead(client) \/ userDisconnected \/ Ended)
    /\ (~shown /\ Connected /\ clients[client].own) ~> (shown \/ ~Connected \/ Ended)

\* A paired session that is down, be it without any event of the library, is connected
\* again or at least tried, as long as the user has not asked for the disconnection.
RepairTried ==
    (Dead(client) /\ ~userDisconnected)
        ~> (watch.at = "connect" \/ ~Dead(client) \/ userDisconnected \/ Ended)

\* A session that comes up gets its chats loaded (comment in loadRecentChats: losing the
\* race for the connection used to leave the session up but the chat list never loaded).
UpMeansLoaded ==
    (Connected /\ clients[client].own) ~> (loaded \/ ~Connected \/ Ended)

\* The watchdog does not reconnect a session that the user disconnected.
WatchdogHonoursUser ==
    [][watch.at = "connect" /\ clients' # clients /\ watch' # watch => ~userDisconnected]_vars

=============================================================================
