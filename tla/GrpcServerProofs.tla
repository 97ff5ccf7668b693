-------------------------- MODULE GrpcServerProofs --------------------------
(***************************************************************************)
(* Theorems about GrpcServer, for every set of clients, chats, publishers  *)
(* and Login calls, and every capacity of the buffers: the type, that the  *)
(* server keeps the promise of Feed, that a Login call knows the last      *)
(* code, and what a client ends up with.                                   *)
(*                                                                         *)
(* The type needs FeedInv, which says which clients are subscribed, by     *)
(* where the handlers of their streams stand, and what is in a buffer when *)
(* the snapshot is taken.  The feed's steps need in addition that no list  *)
(* is newer than the chat list (ListsKnown, part of DeliveryInv).          *)
(***************************************************************************)
EXTENDS GrpcServer, SequenceTheorems, TLAPS

Lists == 0..about.lists
Events == [kind : {"list", "screen"}, list : Lists, chat : Chats \cup {NoChat}, late : BOOLEAN]

\* The part of TypeOK that a published event changes, ...
BusType ==
    /\ DOMAIN queue \subseteq Clients
    /\ \A c \in DOMAIN queue : queue[c] \in Seq(1..Len(log)) /\ Len(queue[c]) <= Buffer
    /\ log \in Seq(Events)
    /\ heard \in [Clients -> {Away} \cup 0..Len(log)]
    /\ lost \in [Clients -> BOOLEAN]

\* ... what the session manager and the streams keep besides, ...
StreamType ==
    /\ about \in About
    /\ rpc \in [Clients -> {"none", "begun", "subscribed", "listed", "open", "gone"}]
    /\ snapshot \in [Clients -> Lists] /\ shownList \in [Clients -> Lists]
    /\ list \in Lists
    /\ held \in [Publishers -> {Away} \cup Lists]
    /\ receiver \in Chats \cup {NoChat} /\ shownChat \in [Clients -> Chats \cup {NoChat}]
    /\ screens \in [{Loop, Handlers} -> Chats \cup {NoChat}]
    /\ stuck \in BOOLEAN
    /\ up \in [Clients -> Seq(Chats)] /\ carried \in [Clients -> Chats \cup {NoChat}]
    /\ selects \in 0..about.selects
    /\ commands \in Seq(Chats)

\* ... what the logins keep, ...
LoginType ==
    /\ sink \in Logins \cup {NoLogin} /\ latestQR \in 0..MaxCodes
    /\ call \in [Logins -> {"none", "begun", "open", "left", "ending", "done"}]
    /\ channel \in [Logins -> [queue : Seq(LoginEvents), closed : BOOLEAN]]
    /\ \A l \in Logins : Len(channel[l].queue) <= SinkCap
    /\ got \in [Logins -> Seq(LoginEvents)]
    /\ wanted \in Nat
    /\ qr \in {"idle", "scanning", "sending", "crashed"}
    /\ holding \in [sink : Logins \cup {NoLogin}, event : LoginEvents]

\* ... and the channel that streams and logins share.
ChannelType == Len(commands) + wanted <= CommandCap

LEMMA TypeParts == TypeOK <=> BusType /\ StreamType /\ LoginType /\ ChannelType
BY DEF TypeOK, BusType, StreamType, LoginType, ChannelType, Events, Lists

LEMMA TypePartsNext == TypeOK' <=> BusType' /\ StreamType' /\ LoginType' /\ ChannelType'
BY DEF TypeOK, BusType, StreamType, LoginType, ChannelType, Events, Lists

LEMMA AboutLists ==
    ASSUME StreamType
    PROVE  about.lists \in Nat /\ about.selects \in Nat /\ about.chats \subseteq Chats
BY ServerAssumption DEF StreamType

\* A sequence of numbers stays one when the bound grows.
LEMMA SeqGrows ==
    ASSUME NEW m \in Nat, NEW n \in Nat, m <= n, NEW s \in Seq(1..m)
    PROVE  s \in Seq(1..n)
<1>1. 1..m \subseteq 1..n
  OBVIOUS
<1> QED
  BY <1>1, SeqMonotonic

\* The next number enters a sequence of numbers.
LEMMA AppendOfNext ==
    ASSUME NEW n \in Nat, NEW s \in Seq(1..n)
    PROVE  /\ Len(Append(s, n + 1)) = Len(s) + 1
           /\ \A i \in 1..Len(s) : Append(s, n + 1)[i] = s[i]
           /\ Append(s, n + 1)[Len(s) + 1] = n + 1
<1>1. s \in Seq(1..(n + 1)) /\ n + 1 \in 1..(n + 1)
  BY SeqGrows
<1> QED
  BY <1>1, AppendProperties

\* Publishing an event.
LEMMA SendType ==
    ASSUME BusType, StreamType, NEW event \in Events, Send(event), UNCHANGED <<heard, about>>
    PROVE  /\ BusType'
           /\ Len(log') = Len(log) + 1
           /\ Len(log) \in Nat
<1>1. Len(log) \in Nat /\ log' \in Seq(Events) /\ Len(log') = Len(log) + 1
  BY DEF BusType, Send
<1>2. ASSUME NEW c \in DOMAIN queue'
      PROVE  queue'[c] \in Seq(1..Len(log')) /\ Len(queue'[c]) <= Buffer
  <2>1. c \in DOMAIN queue /\ queue[c] \in Seq(1..Len(log)) /\ Len(queue[c]) <= Buffer
    BY <1>2 DEF Send, BusType
  <2>2. queue[c] \in Seq(1..Len(log'))
    BY <2>1, <1>1, SeqGrows
  <2>3. Len(log') \in 1..Len(log')
    BY <1>1
  <2>4. queue'[c] = IF Full(c) THEN queue[c] ELSE Append(queue[c], Len(log'))
    BY <2>1 DEF Send
  <2>5. CASE Full(c)
    BY <2>1, <2>2, <2>4, <2>5
  <2>6. CASE ~Full(c)
    <3>1. Len(queue[c]) < Buffer
      BY <2>1, <2>6, ServerAssumption, LenProperties DEF Full
    <3> QED
      BY <3>1, <2>2, <2>3, <2>4, <2>6, ServerAssumption, AppendProperties
  <2> QED
    BY <2>5, <2>6
<1>3. DOMAIN queue' \subseteq Clients
  BY DEF Send, BusType
<1>4. heard' \in [Clients -> {Away} \cup 0..Len(log')]
  BY <1>1 DEF BusType
<1>5. lost' \in [Clients -> BOOLEAN]
  BY DEF Send
<1>6. Events' = Events
  BY DEF Events, Lists
<1> QED
  BY <1>1, <1>2, <1>3, <1>4, <1>5, <1>6 DEF BusType

\* Subscribing and unsubscribing.
LEMMA SubscribeType ==
    ASSUME BusType, NEW c \in Clients, UNCHANGED <<log, about>>,
           \/ Subscribe(c) /\ UNCHANGED lost
           \/ Unsubscribe(c) /\ lost' = [lost EXCEPT ![c] = FALSE]
    PROVE  BusType'
<1>1. Len(log) \in Nat
  BY DEF BusType
<1>2. DOMAIN queue' \subseteq Clients /\ lost' \in [Clients -> BOOLEAN]
  BY DEF Subscribe, Unsubscribe, BusType
<1>3. heard' \in [Clients -> {Away} \cup 0..Len(log)]
  BY <1>1 DEF Subscribe, Unsubscribe, BusType
<1>4. ASSUME NEW d \in DOMAIN queue'
      PROVE  queue'[d] = << >> \/ (d \in DOMAIN queue /\ queue'[d] = queue[d])
  BY DEF Subscribe, Unsubscribe
<1>5. << >> \in Seq(1..Len(log)) /\ Len(<< >>) <= Buffer
  BY EmptySeq, ServerAssumption
<1> QED
  BY <1>2, <1>3, <1>4, <1>5 DEF BusType, Events, Lists

\* The client gets the next event.
LEMMA ForwardType ==
    ASSUME BusType, StreamType, NEW c \in Clients, c \in DOMAIN queue, queue[c] # << >>,
           UNCHANGED <<log, about, lost>>,
           heard' = [heard EXCEPT ![c] = Head(queue[c])],
           queue' = [queue EXCEPT ![c] = Tail(@)]
    PROVE  /\ BusType'
           /\ Head(queue[c]) \in 1..Len(log)
           /\ log[Head(queue[c])] \in Events
<1>1. Len(log) \in Nat /\ queue[c] \in Seq(1..Len(log)) /\ Len(queue[c]) <= Buffer
  BY DEF BusType
<1>2. /\ Head(queue[c]) \in 1..Len(log)
      /\ Tail(queue[c]) \in Seq(1..Len(log))
      /\ Len(Tail(queue[c])) <= Buffer
  BY <1>1, HeadTailProperties, LenProperties, ServerAssumption
<1>3. log[Head(queue[c])] \in Events
  BY <1>2, ElementOfSeq DEF BusType
<1>4. /\ DOMAIN queue' = DOMAIN queue
      /\ \A d \in DOMAIN queue : queue'[d] = IF d = c THEN Tail(queue[c]) ELSE queue[d]
  OBVIOUS
<1>5. heard' \in [Clients -> {Away} \cup 0..Len(log)]
  BY <1>1, <1>2 DEF BusType
<1> QED
  BY <1>2, <1>3, <1>4, <1>5 DEF BusType, Events, Lists

-----------------------------------------------------------------------------
(* Type correctness *)

LEMMA InitType == Init => TypeOK
<1> SUFFICES ASSUME Init PROVE TypeOK
  OBVIOUS
<1>0. about.lists \in Nat /\ about.selects \in Nat
  BY ServerAssumption DEF Init
<1>1. BusType
  <2>1. queue = << >> /\ log = << >> /\ DOMAIN queue = {} /\ log \in Seq(Events)
    BY EmptySeq DEF Init
  <2> QED
    BY <2>1 DEF Init, BusType
<1>2. StreamType
  <2>0. about \in About /\ stuck \in BOOLEAN
    BY Zenon DEF Init
  <2>1. list \in Lists /\ selects \in 0..about.selects
    BY <1>0 DEF Init, Lists
  <2>2. /\ snapshot \in [Clients -> Lists] /\ shownList \in [Clients -> Lists]
        /\ held \in [Publishers -> {Away} \cup Lists]
    BY <1>0 DEF Init, Lists
  <2>3. up \in [Clients -> Seq(Chats)] /\ commands \in Seq(Chats)
    BY EmptySeq DEF Init
  <2>4. /\ rpc \in [Clients -> {"none", "begun", "subscribed", "listed", "open", "gone"}]
        /\ receiver \in Chats \cup {NoChat} /\ shownChat \in [Clients -> Chats \cup {NoChat}]
        /\ screens \in [{Loop, Handlers} -> Chats \cup {NoChat}]
        /\ carried \in [Clients -> Chats \cup {NoChat}]
    BY DEF Init
  <2> QED
    BY <2>0, <2>1, <2>2, <2>3, <2>4 DEF StreamType
<1>3. LoginType
  BY EmptySeq, ServerAssumption DEF Init, LoginType, LoginEvents, Nothing, End
<1>4. ChannelType
  BY EmptySeq, ServerAssumption DEF Init, ChannelType
<1> QED
  BY <1>1, <1>2, <1>3, <1>4, TypeParts

LEMMA SessionStepType ==
    ASSUME BusType, StreamType, SessionStep
    PROVE  BusType' /\ StreamType'
<1>0. about.lists \in Nat
  BY AboutLists
<1>1. CASE ListChanges
  <2>1. BusType'
    BY <1>1 DEF ListChanges, sessionRest, BusType, Events, Lists
  <2>2. list' \in Lists
    BY <1>0, <1>1 DEF ListChanges, StreamType, Lists
  <2> QED
    BY <1>1, <2>1, <2>2 DEF ListChanges, sessionRest, StreamType, Lists
<1>2. CASE OpenChat
  <2>1. BusType'
    BY <1>2 DEF OpenChat, sessionRest, BusType, Events, Lists
  <2>2. Last(commands) \in Chats
    BY <1>2, LenProperties, ElementOfSeq, EmptySeq DEF OpenChat, StreamType, Last
  <2>3. commands' \in Seq(Chats)
    BY <1>2, EmptySeq DEF OpenChat
  <2>4. receiver' \in Chats \cup {NoChat} /\ screens' \in [{Loop, Handlers} -> Chats \cup {NoChat}]
    BY <1>2, <2>2 DEF OpenChat, StreamType
  <2> QED
    BY <1>2, <2>1, <2>3, <2>4 DEF OpenChat, sessionRest, StreamType, Lists
<1>3. CASE ReadScreen
  BY <1>3 DEF ReadScreen, sessionRest, BusType, StreamType, Events, Lists
<1>4. ASSUME NEW p \in Publishers, ReadList(p)
      PROVE  BusType' /\ StreamType'
  BY <1>4 DEF ReadList, sessionRest, BusType, StreamType, Events, Lists
<1>5. ASSUME NEW p \in Publishers, SetChats(p)
      PROVE  BusType' /\ StreamType'
  <2>1. List(held[p]) \in Events
    BY <1>5 DEF SetChats, List, Events, StreamType
  <2>2. BusType'
    BY <1>5, <2>1, SendType DEF SetChats, sessionRest
  <2> QED
    BY <1>5, <2>2 DEF SetChats, sessionRest, StreamType, Lists
<1>6. ASSUME NEW g \in {Loop, Handlers}, NewScreen(g)
      PROVE  BusType' /\ StreamType'
  <2>1. Screen(screens[g]) \in Events
    BY <1>0, <1>6 DEF NewScreen, Screen, Events, StreamType, Lists
  <2>2. BusType'
    BY <1>6, <2>1, SendType DEF NewScreen, sessionRest
  <2> QED
    BY <1>6, <2>2 DEF NewScreen, sessionRest, StreamType, Lists
<1>7. CASE LoopHangs
  BY <1>7 DEF LoopHangs, sessionRest, BusType, StreamType, Events, Lists
<1> QED
  BY <1>1, <1>2, <1>3, <1>4, <1>5, <1>6, <1>7 DEF SessionStep

\* A command that is passed on stands at the end of the queue, which it makes longer only
\* when there is room.
LEMMA PassedOn ==
    ASSUME StreamType, NEW c \in Clients, StreamPasses(c)
    PROVE  /\ commands' \in Seq(Chats) /\ commands' # << >>
           /\ \/ Room /\ Len(commands') = Len(commands) + 1
              \/ Len(commands') = Len(commands)
<1>1. carried[c] \in Chats /\ commands \in Seq(Chats) /\ Len(commands) \in Nat
  BY LenProperties DEF StreamPasses, StreamType
<1>2. CASE Room /\ commands' = Append(commands, carried[c])
  <2>1. commands' \in Seq(Chats) /\ Len(commands') = Len(commands) + 1
    BY <1>1, <1>2, AppendProperties
  <2> QED
    BY <1>1, <1>2, <2>1, EmptySeq
<1>3. CASE commands # << >> /\ commands' = Append(Tail(commands), carried[c])
  <2>1. Tail(commands) \in Seq(Chats) /\ Len(Tail(commands)) = Len(commands) - 1
    BY <1>1, <1>3, HeadTailProperties
  <2>2. commands' \in Seq(Chats) /\ Len(commands') = Len(Tail(commands)) + 1
    BY <1>1, <1>3, <2>1, AppendProperties
  <2>3. Len(commands) # 0
    BY <1>1, <1>3, EmptySeq
  <2>4. Len(commands') = Len(commands)
    BY <1>1, <2>1, <2>2
  <2>5. commands' # << >>
    BY <2>3, <2>4, EmptySeq
  <2> QED
    BY <2>2, <2>4, <2>5
<1> QED
  BY <1>2, <1>3 DEF StreamPasses

LEMMA StreamStepType ==
    ASSUME BusType, StreamType, NEW c \in Clients, StreamStep(c),
           rpc[c] = "open" => c \in DOMAIN queue
    PROVE  BusType' /\ StreamType'
<1>1. CASE StreamSubscribes(c)
  <2>1. BusType'
    BY <1>1, SubscribeType DEF StreamSubscribes, streamRest
  <2> QED
    BY <1>1, <2>1 DEF StreamSubscribes, streamRest, sessionVars, StreamType, Lists
<1>2. CASE StreamLists(c)
  BY <1>2 DEF StreamLists, streamRest, sessionVars, BusType, StreamType, Events, Lists
<1>3. CASE StreamGreets(c)
  BY <1>3 DEF StreamGreets, streamRest, sessionVars, BusType, StreamType, Events, Lists
<1>4. CASE Forward(c)
  <2>1. BusType' /\ log[Head(queue[c])] \in Events
    BY <1>4, ForwardType DEF Forward, streamRest
  <2>2. shownList' \in [Clients -> Lists] /\ shownChat' \in [Clients -> Chats \cup {NoChat}]
    BY <1>4, <2>1 DEF Forward, StreamType, Events
  <2> QED
    BY <1>4, <2>1, <2>2 DEF Forward, streamRest, sessionVars, StreamType, Lists
<1>5. CASE StreamReceives(c)
  <2>1. BusType'
    BY <1>5 DEF StreamReceives, streamRest, sessionVars, BusType, Events, Lists
  <2>2. up[c] \in Seq(Chats) /\ Head(up[c]) \in Chats /\ Tail(up[c]) \in Seq(Chats)
    BY <1>5, HeadTailProperties DEF StreamReceives, StreamType
  <2> QED
    BY <1>5, <2>1, <2>2 DEF StreamReceives, streamRest, sessionVars, StreamType, Lists
<1>6. CASE StreamReturns(c)
  <2>1. BusType'
    BY <1>6, SubscribeType DEF StreamReturns, streamRest
  <2>2. snapshot' \in [Clients -> Lists] /\ up' \in [Clients -> Seq(Chats)]
    BY <1>6, AboutLists, EmptySeq DEF StreamReturns, StreamType, Lists
  <2> QED
    BY <1>6, <2>1, <2>2 DEF StreamReturns, streamRest, sessionVars, StreamType, Lists
<1>7. CASE StreamPasses(c)
  <2>1. BusType'
    BY <1>7 DEF StreamPasses, streamRest, sessionVars, BusType, Events, Lists
  <2>2. carried[c] \in Chats
    BY <1>7 DEF StreamPasses, StreamType
  <2>3. commands' \in Seq(Chats) /\ carried' \in [Clients -> Chats \cup {NoChat}]
    BY <1>7, <2>2, PassedOn DEF StreamPasses, StreamType
  <2> QED
    BY <1>7, <2>1, <2>3 DEF StreamPasses, streamRest, sessionVars, StreamType, Lists
<1> QED
  BY <1>1, <1>2, <1>3, <1>4, <1>5, <1>6, <1>7 DEF StreamStep

LEMMA ClientStepType ==
    ASSUME BusType, StreamType, NEW c \in Clients, ClientStep(c)
    PROVE  BusType' /\ StreamType'
<1>0. about.lists \in Nat /\ about.selects \in Nat /\ about.chats \subseteq Chats
  BY AboutLists
<1>1. CASE Connect(c)
  BY <1>1 DEF Connect, streamRest, sessionVars, BusType, StreamType, Events, Lists
<1>2. CASE Select(c)
  <2>1. PICK chat \in Chats : /\ up' = [up EXCEPT ![c] = Append(@, chat)]
                              /\ shownChat' = [shownChat EXCEPT ![c] = chat]
    BY <1>0, <1>2 DEF Select
  <2>2. Append(up[c], chat) \in Seq(Chats)
    BY AppendProperties DEF StreamType
  <2>3. up' \in [Clients -> Seq(Chats)] /\ shownChat' \in [Clients -> Chats \cup {NoChat}]
    BY <2>1, <2>2 DEF StreamType
  <2>4. selects' \in 0..about.selects
    BY <1>0, <1>2 DEF Select, StreamType
  <2> QED
    BY <1>2, <2>3, <2>4 DEF Select, streamRest, sessionVars, BusType, StreamType, Events, Lists
<1>3. CASE ClientLeaves(c)
  BY <1>0, <1>3 DEF ClientLeaves, streamRest, sessionVars, BusType, StreamType, Events, Lists
<1> QED
  BY <1>1, <1>2, <1>3 DEF ClientStep

\* An event that enters the channel of a call that has room, and one that leaves it.
LEMMA ChannelAppend ==
    ASSUME LoginType, NEW l \in Logins, NEW event \in LoginEvents, NEW closed \in BOOLEAN,
           Len(channel[l].queue) < SinkCap,
           channel' = [channel EXCEPT ![l] = [queue |-> Append(channel[l].queue, event),
                                              closed |-> closed]]
    PROVE  /\ channel' \in [Logins -> [queue : Seq(LoginEvents), closed : BOOLEAN]]
           /\ \A k \in Logins : Len(channel'[k].queue) <= SinkCap
<1>1. channel[l].queue \in Seq(LoginEvents)
  BY DEF LoginType
<1>2. /\ Append(channel[l].queue, event) \in Seq(LoginEvents)
      /\ Len(Append(channel[l].queue, event)) <= SinkCap
  BY <1>1, AppendProperties, LenProperties, ServerAssumption
<1> QED
  BY <1>2 DEF LoginType

LEMMA ChannelTail ==
    ASSUME LoginType, NEW l \in Logins, channel[l].queue # << >>,
           channel' = [channel EXCEPT ![l].queue = Tail(@)]
    PROVE  /\ channel' \in [Logins -> [queue : Seq(LoginEvents), closed : BOOLEAN]]
           /\ \A k \in Logins : Len(channel'[k].queue) <= SinkCap
           /\ Head(channel[l].queue) \in LoginEvents
<1>1. channel[l].queue \in Seq(LoginEvents) /\ Len(channel[l].queue) <= SinkCap
  BY DEF LoginType
<1>2. /\ Head(channel[l].queue) \in LoginEvents
      /\ Tail(channel[l].queue) \in Seq(LoginEvents)
      /\ Len(Tail(channel[l].queue)) <= SinkCap
  BY <1>1, HeadTailProperties, LenProperties, ServerAssumption
<1> QED
  BY <1>2 DEF LoginType

\* A new call is given the last code, on a channel that is still empty.
Unused == \A l \in Logins : call[l] = "none" => channel[l].queue = << >>

LEMMA SetLoginSinkType ==
    ASSUME LoginType, Unused, NEW l \in Logins, call[l] = "none", SetLoginSink(l)
    PROVE  /\ sink' \in Logins
           /\ channel' \in [Logins -> [queue : Seq(LoginEvents), closed : BOOLEAN]]
           /\ \A k \in Logins : Len(channel'[k].queue) <= SinkCap
           /\ \A k \in Logins \ {l} : channel'[k].queue = channel[k].queue
<1>1. sink' \in Logins /\ l # NoLogin
  BY ServerAssumption DEF SetLoginSink
<1>2. CASE latestQR = 0
  BY <1>1, <1>2 DEF SetLoginSink, LoginType
<1>3. CASE latestQR # 0
  <2>1. latestQR \in LoginEvents
    BY <1>3, ServerAssumption DEF LoginType, LoginEvents
  <2>2. /\ Append(channel[l].queue, latestQR) \in Seq(LoginEvents)
        /\ Len(Append(channel[l].queue, latestQR)) <= SinkCap
    BY <2>1, EmptySeq, AppendProperties, ServerAssumption DEF Unused, LoginType
  <2>3. channel' = [channel EXCEPT ![l].queue = Append(channel[l].queue, latestQR)]
    BY <1>1, <1>3 DEF SetLoginSink
  <2> QED
    BY <1>1, <2>2, <2>3 DEF LoginType
<1> QED
  BY <1>2, <1>3

LEMMA LoginStepType ==
    ASSUME LoginType, Unused, NEW l \in Logins,
           LoginBegins(l) \/ LoginStep(l) \/ LoginClientLeaves(l)
    PROVE  LoginType' /\ Unused'
<1>1. CASE LoginBegins(l)
  BY <1>1, SetLoginSinkType DEF LoginBegins, LoginType, LoginEvents, Unused
<1>2. CASE LoginAsks(l)
  BY <1>2, ServerAssumption DEF LoginAsks, LoginType, LoginEvents, Unused
<1>3. CASE LoginForwards(l)
  <2>1. /\ channel' \in [Logins -> [queue : Seq(LoginEvents), closed : BOOLEAN]]
        /\ \A k \in Logins : Len(channel'[k].queue) <= SinkCap
        /\ Head(channel[l].queue) \in LoginEvents
    BY <1>3, ChannelTail DEF LoginForwards
  <2>2. Append(got[l], Head(channel[l].queue)) \in Seq(LoginEvents)
    BY <2>1, AppendProperties DEF LoginType
  <2>3. got' \in [Logins -> Seq(LoginEvents)]
    BY <1>3, <2>2 DEF LoginForwards, LoginType
  <2>4. \A k \in Logins \ {l} : channel'[k] = channel[k] /\ call'[k] = call[k]
    BY <1>3 DEF LoginForwards, LoginType
  <2>5. call' \in [Logins -> {"none", "begun", "open", "left", "ending", "done"}] /\ call'[l] # "none"
    BY <1>3 DEF LoginForwards, LoginType
  <2> QED
    BY <1>3, <2>1, <2>3, <2>4, <2>5 DEF LoginForwards, LoginType, LoginEvents, Unused
<1>4. CASE LoginReturns(l)
  BY <1>4, ServerAssumption DEF LoginReturns, SetLoginSink, LoginType, LoginEvents, Unused
<1>5. CASE LoginClientLeaves(l)
  BY <1>5 DEF LoginClientLeaves, LoginType, LoginEvents, Unused
<1> QED
  BY <1>1, <1>2, <1>3, <1>4, <1>5 DEF LoginStep

\* The loop does not send to a call that has not begun: it is not the sink.
SinkBegun ==
    /\ sink # NoLogin => call[sink] # "none"
    /\ holding.sink # NoLogin => call[holding.sink] # "none"

LEMMA LoopStepType ==
    ASSUME LoginType, Unused, SinkBegun, LoopStep \/ QRCode \/ LoginEnds \/ LoginFails
    PROVE  LoginType' /\ Unused'
<1>1. CASE LoopLogsIn
  BY <1>1, ServerAssumption DEF LoopLogsIn, LoginType, LoginEvents, Unused
<1>2. CASE LoopSends
  <2>1. holding' \in [sink : Logins \cup {NoLogin}, event : LoginEvents]
    BY <1>2 DEF LoopSends, Nothing, LoginEvents, End
  <2>2. CASE UNCHANGED channel
    BY <1>2, <2>1, <2>2 DEF LoopSends, LoginType, LoginEvents, Unused
  <2>3. CASE channel' # channel
    <3> DEFINE l == holding.sink
               last == holding.event = End
    <3>1. /\ l \in Logins /\ last \in BOOLEAN /\ holding.event \in LoginEvents
          /\ Len(channel[l].queue) < SinkCap
          /\ channel' = [channel EXCEPT ![l] = [queue |-> Append(channel[l].queue, holding.event),
                                                closed |-> last]]
      BY <1>2, <2>3 DEF LoopSends, LoginType
    <3>2. call[l] # "none"
      BY <3>1, ServerAssumption DEF SinkBegun
    <3> HIDE DEF last
    <3>3. /\ channel' \in [Logins -> [queue : Seq(LoginEvents), closed : BOOLEAN]]
          /\ \A k \in Logins : Len(channel'[k].queue) <= SinkCap
      BY <3>1, ChannelAppend
    <3>4. \A k \in Logins \ {l} : channel'[k] = channel[k]
      BY <3>1 DEF LoginType
    <3> QED
      BY <1>2, <2>1, <3>2, <3>3, <3>4 DEF LoopSends, LoginType, LoginEvents, Unused
  <2> QED
    BY <2>2, <2>3
<1>3. CASE QRCode
  BY <1>3, ServerAssumption DEF QRCode, LoginType, LoginEvents, Unused
<1>4. CASE LoginEnds
  BY <1>4 DEF LoginEnds, LoginType, LoginEvents, Unused
<1>5. CASE LoginFails
  BY <1>5 DEF LoginFails, LoginType, LoginEvents, Unused
<1> QED
  BY <1>1, <1>2, <1>3, <1>4, <1>5 DEF LoopStep

\* A command enters the channel only when there is room, or in the place of another one.
LEMMA NextChannel ==
    ASSUME StreamType, LoginType, ChannelType, [Next]_vars
    PROVE  ChannelType'
<1>0. Len(commands) \in Nat /\ wanted \in Nat /\ CommandCap \in Nat
  BY LenProperties, ServerAssumption DEF StreamType, LoginType
<1>1. CASE UNCHANGED <<commands, wanted>>
  BY <1>1 DEF ChannelType
<1>2. CASE OpenChat
  <2>1. Len(commands') = 0 /\ wanted' = wanted
    BY <1>2, EmptySeq DEF OpenChat, sessionRest, loginVars
  <2> QED
    BY <1>0, <2>1 DEF ChannelType
<1>3. ASSUME NEW c \in Clients, StreamPasses(c) PROVE ChannelType'
  <2>1. \/ Len(commands') = Len(commands) + 1 /\ Len(commands) + wanted < CommandCap
        \/ Len(commands') = Len(commands)
    BY <1>3, PassedOn DEF Room
  <2>2. wanted' = wanted
    BY <1>3 DEF StreamPasses, streamRest, loginVars
  <2> QED
    BY <1>0, <2>1, <2>2 DEF ChannelType
<1>4. ASSUME NEW l \in Logins, LoginAsks(l) PROVE ChannelType'
  BY <1>0, <1>4 DEF LoginAsks, Room, loginRest, ChannelType
<1>5. CASE LoopLogsIn
  BY <1>0, <1>5 DEF LoopLogsIn, loginRest, ChannelType
<1>6. ASSUME SessionStep, ~OpenChat PROVE UNCHANGED <<commands, wanted>>
  BY <1>6 DEF SessionStep, ListChanges, LoopHangs, ReadScreen, ReadList, SetChats, NewScreen,
       sessionRest, loginVars
<1>7. ASSUME NEW c \in Clients, StreamStep(c) \/ ClientStep(c), ~StreamPasses(c)
      PROVE  UNCHANGED <<commands, wanted>>
  BY <1>7 DEF StreamStep, StreamSubscribes, StreamLists, StreamGreets, Forward, StreamReceives,
       StreamReturns, ClientStep, Connect, Select, ClientLeaves, streamRest, loginVars
<1>8. ASSUME NEW l \in Logins, LoginBegins(l) \/ LoginStep(l) \/ LoginClientLeaves(l), ~LoginAsks(l)
      PROVE  UNCHANGED <<commands, wanted>>
  BY <1>8 DEF LoginBegins, LoginStep, LoginForwards, LoginReturns, LoginClientLeaves, loginRest
<1>9. ASSUME LoopSends \/ QRCode \/ LoginEnds \/ LoginFails PROVE UNCHANGED <<commands, wanted>>
  BY <1>9 DEF LoopSends, QRCode, LoginEnds, LoginFails, loginRest
<1>10. ASSUME UNCHANGED vars PROVE UNCHANGED <<commands, wanted>>
  BY <1>10 DEF vars, loginVars
<1> QED
  BY <1>1, <1>2, <1>3, <1>4, <1>5, <1>6, <1>7, <1>8, <1>9, <1>10 DEF Next, LoopStep

LEMMA LoginSinkBegun ==
    ASSUME LoginType, SinkBegun, NEW l \in Logins,
           LoginBegins(l) \/ LoginStep(l) \/ LoginClientLeaves(l)
    PROVE  SinkBegun'
<1>1. CASE LoginBegins(l)
  BY <1>1 DEF LoginBegins, SetLoginSink, SinkBegun, LoginType
<1>2. CASE LoginAsks(l)
  BY <1>2 DEF LoginAsks, SinkBegun, LoginType
<1>3. CASE LoginForwards(l)
  BY <1>3 DEF LoginForwards, SinkBegun, LoginType
<1>4. CASE LoginReturns(l)
  BY <1>4 DEF LoginReturns, SetLoginSink, SinkBegun, LoginType
<1>5. CASE LoginClientLeaves(l)
  BY <1>5 DEF LoginClientLeaves, SinkBegun, LoginType
<1> QED
  BY <1>1, <1>2, <1>3, <1>4, <1>5 DEF LoginStep

LEMMA LoopSinkBegun ==
    ASSUME SinkBegun, LoopStep \/ QRCode \/ LoginEnds \/ LoginFails
    PROVE  SinkBegun'
BY DEF LoopStep, LoopLogsIn, LoopSends, QRCode, LoginEnds, LoginFails, SinkBegun, Nothing

-----------------------------------------------------------------------------
(* The buffers *)

\* A client is subscribed from the second step of its stream to the last.
Subscribed(c) ==
    /\ heard[c] = Away <=> c \notin DOMAIN queue
    /\ rpc[c] \in {"none", "begun"} => c \notin DOMAIN queue
    /\ rpc[c] \in {"subscribed", "listed", "open"} => c \in DOMAIN queue

\* How many of the events since the subscription the buffer had room for, while none was
\* taken out of it.
Filled(c) == IF Len(log) - heard[c] < Buffer THEN Len(log) - heard[c] ELSE Buffer

\* Till the snapshot is taken, the buffer holds the events since the subscription.
FromStart(c) ==
    rpc[c] = "subscribed" =>
        /\ Len(queue[c]) = Filled(c)
        /\ \A i \in 1..Len(queue[c]) : queue[c][i] = heard[c] + i

FeedInv == \A c \in Clients : Subscribed(c) /\ FromStart(c)

\* What a subscribed client has got is an event of the log.
LEMMA HeardOfQueue ==
    ASSUME BusType, FeedInv, NEW c \in DOMAIN queue
    PROVE  /\ c \in Clients
           /\ Len(log) \in Nat /\ heard[c] \in 0..Len(log)
           /\ queue[c] \in Seq(1..Len(log)) /\ Len(queue[c]) \in Nat /\ Len(queue[c]) <= Buffer
BY LenProperties DEF BusType, FeedInv, Subscribed

LEMMA HeardInLog ==
    ASSUME BusType, FeedInv, NEW c \in Clients, rpc[c] \in {"subscribed", "listed", "open"}
    PROVE  /\ c \in DOMAIN queue
           /\ Len(log) \in Nat /\ heard[c] \in 0..Len(log)
<1>1. c \in DOMAIN queue
  BY DEF FeedInv, Subscribed
<1> QED
  BY <1>1, HeardOfQueue

\* The event enters the buffer of a client that is still waiting for its snapshot.
LEMMA SendFromStart ==
    ASSUME BusType, StreamType, FeedInv, NEW event \in Events, Send(event),
           UNCHANGED <<heard, about, rpc>>, NEW c \in Clients, rpc[c] = "subscribed"
    PROVE  FromStart(c)'
<1> DEFINE h == heard[c]
           k == Len(queue[c])
           n == Len(log)
           now == queue'[c]
<1>1. /\ c \in DOMAIN queue /\ n \in Nat /\ h \in 0..n
      /\ queue[c] \in Seq(1..n) /\ k \in Nat /\ k <= Buffer
  BY HeardInLog, HeardOfQueue
<1>2. /\ k = IF n - h < Buffer THEN n - h ELSE Buffer
      /\ \A i \in 1..k : queue[c][i] = h + i
  BY DEF FeedInv, FromStart, Filled
<1>3. Len(log') = n + 1 /\ heard'[c] = h
  BY SendType
<1>4. Buffer \in Nat \ {0}
  BY ServerAssumption
<1>5. CASE Full(c)
  <2>1. now = queue[c] /\ k = Buffer
    BY <1>1, <1>5 DEF Send, Full
  <2>2. ~((n + 1) - h < Buffer)
    <3> HIDE DEF h, k, n
    <3> QED
      BY <1>1, <1>2, <1>4, <2>1
  <2> QED
    BY <1>2, <1>3, <2>1, <2>2 DEF FromStart, Filled
<1>6. CASE ~Full(c)
  <2>1. now = Append(queue[c], n + 1) /\ k # Buffer
    BY <1>1, <1>3, <1>6 DEF Send, Full
  <2>2. Len(now) = k + 1 /\ (\A i \in 1..k : now[i] = queue[c][i]) /\ now[k + 1] = n + 1
    BY <1>1, <2>1, AppendOfNext
  <2>3. /\ k = n - h /\ h \in Nat
        /\ k + 1 = IF (n + 1) - h < Buffer THEN (n + 1) - h ELSE Buffer
    <3> HIDE DEF h, k, n
    <3> QED
      BY <1>1, <1>2, <1>4, <2>1
  <2>4. \A i \in 1..(k + 1) : now[i] = h + i
    <3> SUFFICES ASSUME NEW i \in 1..(k + 1) PROVE now[i] = h + i
      OBVIOUS
    <3>1. CASE i = k + 1
      <4> HIDE DEF h, k, n, now
      <4> QED
        BY <1>1, <2>2, <2>3, <3>1
    <3>2. CASE i # k + 1
      <4>1. i \in 1..k
        BY <1>1, <3>2
      <4> QED
        BY <1>2, <2>2, <4>1
    <3> QED
      BY <3>1, <3>2
  <2> QED
    BY <1>3, <2>2, <2>3, <2>4 DEF FromStart, Filled
<1> QED
  BY <1>5, <1>6

LEMMA SendFeed ==
    ASSUME BusType, StreamType, FeedInv, NEW event \in Events, Send(event),
           UNCHANGED <<heard, about, rpc>>
    PROVE  FeedInv'
<1>1. DOMAIN queue' = DOMAIN queue
  BY DEF Send
<1>2. ASSUME NEW c \in Clients PROVE Subscribed(c)' /\ FromStart(c)'
  <2>1. Subscribed(c)'
    BY <1>1 DEF FeedInv, Subscribed
  <2>2. FromStart(c)'
    BY SendFromStart DEF FromStart
  <2> QED
    BY <2>1, <2>2
<1> QED
  BY <1>2 DEF FeedInv

LEMMA SessionFeed ==
    ASSUME BusType, StreamType, FeedInv, SessionStep
    PROVE  FeedInv'
<1>0. UNCHANGED <<heard, rpc, about>>
  BY DEF SessionStep, ListChanges, OpenChat, LoopHangs, ReadScreen, ReadList, SetChats,
         NewScreen, sessionRest
<1>1. CASE \E p \in Publishers : SetChats(p)
  <2>1. PICK p \in Publishers : SetChats(p)
    BY <1>1
  <2>2. List(held[p]) \in Events /\ Send(List(held[p]))
    BY <2>1 DEF SetChats, List, Events, StreamType
  <2> QED
    BY <1>0, <2>2, SendFeed
<1>2. CASE \E g \in {Loop, Handlers} : NewScreen(g)
  <2>1. PICK g \in {Loop, Handlers} : NewScreen(g)
    BY <1>2
  <2>2. Screen(screens[g]) \in Events /\ Send(Screen(screens[g]))
    BY <2>1, AboutLists DEF NewScreen, Screen, Events, StreamType, Lists
  <2> QED
    BY <1>0, <2>2, SendFeed
<1>3. CASE ListChanges \/ OpenChat \/ LoopHangs \/ ReadScreen \/ \E p \in Publishers : ReadList(p)
  <2>1. UNCHANGED <<queue, log>>
    BY <1>3 DEF ListChanges, OpenChat, LoopHangs, ReadScreen, ReadList
  <2> QED
    BY <1>0, <2>1 DEF FeedInv, Subscribed, FromStart, Filled
<1> QED
  BY <1>1, <1>2, <1>3 DEF SessionStep

\* A step of one stream leaves the buffers of the others alone.
LEMMA StreamFeed ==
    ASSUME BusType, StreamType, FeedInv, NEW c \in Clients, StreamStep(c) \/ ClientStep(c)
    PROVE  FeedInv'
<1>0. log' = log /\ Len(log) \in Nat /\ Len(log) # Away /\ Buffer \in Nat \ {0}
  BY LenProperties, ServerAssumption
     DEF BusType, StreamStep, StreamSubscribes, StreamLists, StreamGreets, Forward,
         StreamReceives, StreamPasses, StreamReturns, ClientStep, Connect, Select, ClientLeaves,
         streamRest
<1>1. ASSUME \A d \in Clients \ {c} : /\ rpc'[d] = rpc[d] /\ heard'[d] = heard[d]
                                      /\ d \in DOMAIN queue' <=> d \in DOMAIN queue
                                      /\ d \in DOMAIN queue => queue'[d] = queue[d],
             Subscribed(c)', FromStart(c)'
      PROVE  FeedInv'
  <2>1. ASSUME NEW d \in Clients \ {c} PROVE Subscribed(d)' /\ FromStart(d)'
    BY <1>0, <1>1 DEF FeedInv, Subscribed, FromStart, Filled
  <2> QED
    BY <1>1, <2>1 DEF FeedInv
<1>2. CASE StreamSubscribes(c)
  <2>1. /\ rpc'[c] = "subscribed" /\ heard'[c] = Len(log) /\ queue'[c] = << >>
        /\ DOMAIN queue' = DOMAIN queue \cup {c}
        /\ \A d \in Clients \ {c} : rpc'[d] = rpc[d] /\ heard'[d] = heard[d]
        /\ \A d \in DOMAIN queue \ {c} : queue'[d] = queue[d]
    BY <1>2 DEF StreamSubscribes, Subscribe, StreamType, BusType
  <2>2. FromStart(c)'
    BY <1>0, <2>1, EmptySeq DEF FromStart, Filled
  <2>3. Subscribed(c)'
    BY <1>0, <2>1 DEF Subscribed
  <2> QED
    BY <1>1, <2>1, <2>2, <2>3
<1>3. CASE Forward(c)
  <2>1. /\ rpc' = rpc /\ rpc[c] = "open" /\ DOMAIN queue' = DOMAIN queue
        /\ heard'[c] = Head(queue[c]) /\ queue[c] # << >>
        /\ \A d \in Clients \ {c} : heard'[d] = heard[d]
        /\ \A d \in DOMAIN queue \ {c} : queue'[d] = queue[d]
    BY <1>3 DEF Forward, BusType
  <2>2. c \in DOMAIN queue /\ Head(queue[c]) # Away
    <3>1. c \in DOMAIN queue /\ queue[c] \in Seq(1..Len(log))
      BY <2>1 DEF FeedInv, Subscribed, BusType
    <3>2. Head(queue[c]) \in 1..Len(log)
      BY <2>1, <3>1, HeadTailProperties
    <3> QED
      BY <1>0, <3>1, <3>2, ServerAssumption
  <2>3. Subscribed(c)' /\ FromStart(c)'
    BY <2>1, <2>2 DEF Subscribed, FromStart
  <2> QED
    BY <1>1, <2>1, <2>3
<1>4. CASE StreamReturns(c)
  <2>1. /\ rpc'[c] = "none" /\ heard'[c] = Away /\ DOMAIN queue' = DOMAIN queue \ {c}
        /\ \A d \in Clients \ {c} : rpc'[d] = rpc[d] /\ heard'[d] = heard[d]
        /\ \A d \in DOMAIN queue \ {c} : queue'[d] = queue[d]
    BY <1>4 DEF StreamReturns, Unsubscribe, StreamType, BusType
  <2>2. Subscribed(c)' /\ FromStart(c)'
    BY <2>1 DEF Subscribed, FromStart
  <2> QED
    BY <1>1, <2>1, <2>2
<1>5. CASE \/ StreamLists(c) \/ StreamGreets(c) \/ StreamReceives(c) \/ StreamPasses(c)
           \/ ClientStep(c)
  <2>1. /\ UNCHANGED <<queue, heard>>
        /\ \A d \in Clients \ {c} : rpc'[d] = rpc[d]
        /\ rpc'[c] \in {"none", "begun"} => rpc[c] \in {"none", "begun"}
        /\ rpc'[c] \in {"subscribed", "listed", "open"} => rpc[c] \in {"subscribed", "listed", "open"}
        /\ rpc'[c] = "subscribed" => rpc[c] = "subscribed"
    BY <1>5 DEF StreamLists, StreamGreets, StreamReceives, StreamPasses, ClientStep, Connect,
         Select, ClientLeaves, StreamType
  <2>2. Subscribed(c)' /\ FromStart(c)'
    BY <1>0, <2>1 DEF FeedInv, Subscribed, FromStart, Filled
  <2> QED
    BY <1>1, <2>1, <2>2
<1> QED
  BY <1>2, <1>3, <1>4, <1>5 DEF StreamStep

-----------------------------------------------------------------------------
(* The invariant and the type *)

IndInv == TypeOK /\ Unused /\ SinkBegun /\ FeedInv

LEMMA InitInd == Init => IndInv
<1> SUFFICES ASSUME Init PROVE IndInv
  OBVIOUS
<1>1. TypeOK
  BY InitType
<1>2. Unused /\ SinkBegun
  BY DEF Init, Unused, SinkBegun, Nothing
<1>3. DOMAIN queue = {}
  BY DEF Init
<1>4. FeedInv
  BY <1>3 DEF Init, FeedInv, Subscribed, FromStart
<1> QED
  BY <1>1, <1>2, <1>4 DEF IndInv

\* What the steps of one part leave to the others.
LEMMA StreamSideFrame ==
    ASSUME LoginType, Unused, SinkBegun, UNCHANGED loginVars
    PROVE  LoginType' /\ Unused' /\ SinkBegun'
BY DEF LoginType, Unused, SinkBegun, loginVars, LoginEvents

LEMMA LoginSideFrame ==
    ASSUME BusType, StreamType, FeedInv,
           UNCHANGED <<about, streamVars, selects, sessionVars, log, commands>>
    PROVE  BusType' /\ StreamType' /\ FeedInv'
<1> USE DEF streamVars, sessionVars
<1>1. BusType' /\ StreamType'
  BY DEF BusType, StreamType, Events, Lists
<1>2. FeedInv'
  BY DEF FeedInv, Subscribed, FromStart, Filled
<1> QED
  BY <1>1, <1>2

LEMMA NextInd ==
    ASSUME IndInv, [Next]_vars
    PROVE  IndInv'
<1>0. /\ BusType /\ StreamType /\ LoginType /\ ChannelType
      /\ Unused /\ SinkBegun /\ FeedInv
  BY TypeParts DEF IndInv
<1> DEFINE Stays == /\ BusType' /\ StreamType' /\ LoginType'
                    /\ Unused' /\ SinkBegun' /\ FeedInv'
<1>1. ASSUME SessionStep PROVE Stays
  <2>1. UNCHANGED loginVars
    BY <1>1 DEF SessionStep, ListChanges, OpenChat, LoopHangs, ReadScreen, ReadList, SetChats,
                NewScreen, sessionRest
  <2> QED
    BY <1>0, <1>1, <2>1, SessionStepType, SessionFeed, StreamSideFrame
<1>2. ASSUME NEW c \in Clients, StreamStep(c) \/ ClientStep(c)
      PROVE  Stays
  <2>1. UNCHANGED loginVars
    BY <1>2 DEF StreamStep, StreamSubscribes, StreamLists, StreamGreets, Forward, StreamReceives,
                StreamPasses, StreamReturns, ClientStep, Connect, Select, ClientLeaves, streamRest
  <2>2. rpc[c] = "open" => c \in DOMAIN queue
    BY <1>0 DEF FeedInv, Subscribed
  <2>3. BusType' /\ StreamType'
    BY <1>0, <1>2, <2>2, StreamStepType, ClientStepType
  <2>4. LoginType' /\ Unused' /\ SinkBegun'
    BY <1>0, <2>1, StreamSideFrame
  <2> QED
    BY <1>0, <1>2, <2>3, <2>4, StreamFeed
<1>3. ASSUME NEW l \in Logins, LoginBegins(l) \/ LoginStep(l) \/ LoginClientLeaves(l)
      PROVE  Stays
  <2>1. UNCHANGED <<about, streamVars, selects, sessionVars, log, commands>>
    BY <1>3 DEF LoginBegins, LoginStep, LoginAsks, LoginForwards, LoginReturns,
                LoginClientLeaves, loginRest
  <2>2. BusType' /\ StreamType' /\ FeedInv'
    BY <1>0, <2>1, LoginSideFrame
  <2> QED
    BY <1>0, <1>3, <2>2, LoginStepType, LoginSinkBegun
<1>4. ASSUME LoopStep \/ QRCode \/ LoginEnds \/ LoginFails PROVE Stays
  <2>1. UNCHANGED <<about, streamVars, selects, sessionVars, log, commands>>
    BY <1>4 DEF LoopStep, LoopLogsIn, LoopSends, QRCode, LoginEnds, LoginFails, loginRest
  <2>2. BusType' /\ StreamType' /\ FeedInv'
    BY <1>0, <2>1, LoginSideFrame
  <2> QED
    BY <1>0, <1>4, <2>2, LoopStepType, LoopSinkBegun
<1>5. ASSUME UNCHANGED vars PROVE Stays
  BY <1>0, <1>5, StreamSideFrame, LoginSideFrame DEF vars
<1>6. Stays
  <2> HIDE DEF Stays
  <2> QED
    BY <1>1, <1>2, <1>3, <1>4, <1>5 DEF Next
<1>7. ChannelType'
  BY <1>0, NextChannel
<1> QED
  BY <1>6, <1>7, TypePartsNext DEF IndInv

\* The buffers, streams, channels and calls have the types that the model declares, with
\* every buffer within its capacity (the make(chan ...) calls of Subscribe, Login and the
\* session manager).
THEOREM TypeCorrect == Spec => []TypeOK
<1>1. IndInv /\ [Next]_vars => IndInv'
  BY NextInd
<1>2. IndInv => TypeOK
  BY DEF IndInv
<1> QED
  BY <1>1, <1>2, InitInd, PTL DEF Spec

-----------------------------------------------------------------------------
(* A call knows the last code *)

In(e, s) == \E i \in 1..Len(s) : s[i] = e

LEMMA ContainsConcat ==
    ASSUME NEW S, NEW s \in Seq(S), NEW t \in Seq(S), NEW e
    PROVE  Contains(s \o t, e) <=> In(e, s) \/ In(e, t)
<1>1. /\ Len(s \o t) = Len(s) + Len(t) /\ Len(s) \in Nat /\ Len(t) \in Nat
      /\ \A i \in 1..(Len(s) + Len(t)) : (s \o t)[i] = IF i <= Len(s) THEN s[i] ELSE t[i - Len(s)]
  BY ConcatProperties, LenProperties
<1>2. ASSUME In(e, s) PROVE Contains(s \o t, e)
  <2>1. PICK i \in 1..Len(s) : s[i] = e
    BY <1>2 DEF In
  <2> QED
    BY <1>1, <2>1 DEF Contains
<1>3. ASSUME In(e, t) PROVE Contains(s \o t, e)
  <2>1. PICK i \in 1..Len(t) : t[i] = e
    BY <1>3 DEF In
  <2>2. /\ Len(s) + i \in 1..(Len(s) + Len(t))
        /\ ~(Len(s) + i <= Len(s)) /\ (Len(s) + i) - Len(s) = i
    BY <1>1, <2>1
  <2> QED
    BY <1>1, <2>1, <2>2 DEF Contains
<1>4. ASSUME Contains(s \o t, e) PROVE In(e, s) \/ In(e, t)
  <2>1. PICK i \in 1..(Len(s) + Len(t)) : (s \o t)[i] = e
    BY <1>1, <1>4 DEF Contains
  <2>2. CASE i <= Len(s)
    BY <1>1, <2>1, <2>2 DEF In
  <2>3. CASE ~(i <= Len(s))
    <3>1. i - Len(s) \in 1..Len(t) /\ t[i - Len(s)] = e
      BY <1>1, <2>1, <2>3
    <3> QED
      BY <3>1 DEF In
  <2> QED
    BY <2>2, <2>3
<1> QED
  BY <1>2, <1>3, <1>4

\* What enters a sequence or its head leaves.
LEMMA InAppend ==
    ASSUME NEW S, NEW s \in Seq(S), NEW x \in S, NEW e
    PROVE  In(e, Append(s, x)) <=> In(e, s) \/ x = e
<1>1. /\ Len(Append(s, x)) = Len(s) + 1 /\ Len(s) \in Nat
      /\ \A i \in 1..Len(s) : Append(s, x)[i] = s[i]
      /\ Append(s, x)[Len(s) + 1] = x
  BY AppendProperties, LenProperties
<1>2. \A i \in 1..(Len(s) + 1) : i \in 1..Len(s) \/ i = Len(s) + 1
  BY <1>1
<1>3. \A i \in 1..Len(s) : i \in 1..(Len(s) + 1)
  BY <1>1
<1>4. Len(s) + 1 \in 1..(Len(s) + 1)
  BY <1>1
<1> QED
  BY <1>1, <1>2, <1>3, <1>4 DEF In

LEMMA InTail ==
    ASSUME NEW S, NEW s \in Seq(S), s # << >>, NEW e
    PROVE  In(e, s) => Head(s) = e \/ In(e, Tail(s))
<1>1. /\ Len(Tail(s)) = Len(s) - 1 /\ Len(s) \in Nat /\ Head(s) = s[1]
      /\ \A i \in 1..Len(Tail(s)) : Tail(s)[i] = s[i + 1]
  BY HeadTailProperties, LenProperties
<1>2. ASSUME NEW i \in 1..Len(s), s[i] = e, i # 1 PROVE In(e, Tail(s))
  <2>1. i - 1 \in 1..Len(Tail(s)) /\ (i - 1) + 1 = i
    BY <1>1, <1>2
  <2>2. Tail(s)[i - 1] = e
    BY <1>1, <1>2, <2>1
  <2> QED
    BY <2>1, <2>2 DEF In
<1> QED
  BY <1>1, <1>2 DEF In

\* The client of a call has got the last code, or will find it in the channel.
Told(l) == In(latestQR, got[l]) \/ In(latestQR, channel[l].queue)

LEMMA ToldContains ==
    ASSUME LoginType, NEW l \in Logins
    PROVE  Contains(got[l] \o channel[l].queue, latestQR) <=> Told(l)
<1>1. got[l] \in Seq(LoginEvents) /\ channel[l].queue \in Seq(LoginEvents)
  BY DEF LoginType
<1> QED
  BY <1>1, ContainsConcat DEF Told

LEMMA ToldContainsNext ==
    ASSUME LoginType', NEW l \in Logins
    PROVE  Contains(got[l] \o channel[l].queue, latestQR)' <=> Told(l)'
<1>1. got'[l] \in Seq(LoginEvents) /\ channel'[l].queue \in Seq(LoginEvents)
  BY DEF LoginType, LoginEvents
<1> QED
  BY <1>1, ContainsConcat DEF Told

SinkInv ==
    sink # NoLogin /\ latestQR # 0 /\ call[sink] \in {"begun", "open"} =>
        Told(sink) \/ holding = [sink |-> sink, event |-> latestQR] \/ qr = "crashed"

LEMMA SinkInvIff == ASSUME LoginType PROVE SinkInv <=> SinkKnowsCode
BY ToldContains DEF LoginType, SinkInv, SinkKnowsCode

LEMMA LoginSinkInv ==
    ASSUME LoginType, Unused, SinkInv, NEW l \in Logins,
           LoginBegins(l) \/ LoginStep(l) \/ LoginClientLeaves(l)
    PROVE  SinkInv'
<1>1. CASE LoginBegins(l)
  <2>1. SUFFICES ASSUME latestQR # 0 PROVE In(latestQR, channel'[l].queue)
    BY <1>1 DEF LoginBegins, SetLoginSink, SinkInv, Told
  <2>2. latestQR \in LoginEvents /\ l # NoLogin
    BY <2>1, ServerAssumption DEF LoginType, LoginEvents
  <2>3. channel[l].queue \in Seq(LoginEvents)
    BY DEF LoginType
  <2>4. channel'[l].queue = Append(channel[l].queue, latestQR)
    BY <1>1, <2>1, <2>2 DEF LoginBegins, SetLoginSink, LoginType
  <2> QED
    BY <2>2, <2>3, <2>4, InAppend
<1>2. CASE LoginAsks(l)
  BY <1>2 DEF LoginAsks, SinkInv, Told, LoginType
<1>3. CASE LoginForwards(l)
  <2>0. UNCHANGED <<sink, latestQR, qr, holding>>
    BY <1>3 DEF LoginForwards
  <2>1. CASE sink # l
    <3>1. sink # NoLogin => /\ call'[sink] = call[sink] /\ got'[sink] = got[sink]
                            /\ channel'[sink] = channel[sink]
      BY <1>3, <2>1 DEF LoginForwards, LoginType
    <3> QED
      BY <2>0, <3>1 DEF SinkInv, Told
  <2>2. CASE sink = l
    <3>1. SUFFICES ASSUME call'[l] \in {"begun", "open"}, Told(l) PROVE Told(l)'
      BY <1>3, <2>0, <2>2 DEF SinkInv, LoginForwards, LoginType
    <3>2. got' = [got EXCEPT ![l] = Append(@, Head(channel[l].queue))]
      BY <1>3, <3>1 DEF LoginForwards, LoginType
    <3>3. channel[l].queue \in Seq(LoginEvents) /\ channel[l].queue # << >> /\ got[l] \in Seq(LoginEvents)
      BY <1>3 DEF LoginForwards, LoginType
    <3>4. Head(channel[l].queue) \in LoginEvents
      BY <3>3, HeadTailProperties
    <3>5. got'[l] = Append(got[l], Head(channel[l].queue)) /\ channel'[l].queue = Tail(channel[l].queue)
      BY <1>3, <3>2 DEF LoginForwards, LoginType
    <3>6. /\ In(latestQR, got'[l]) <=> In(latestQR, got[l]) \/ Head(channel[l].queue) = latestQR
          /\ In(latestQR, channel[l].queue) =>
               Head(channel[l].queue) = latestQR \/ In(latestQR, channel'[l].queue)
      BY <3>3, <3>4, <3>5, InAppend, InTail
    <3> QED
      BY <2>0, <3>1, <3>6 DEF Told
  <2> QED
    BY <2>1, <2>2
<1>4. CASE LoginReturns(l)
  BY <1>4 DEF LoginReturns, SetLoginSink, SinkInv
<1>5. CASE LoginClientLeaves(l)
  BY <1>5 DEF LoginClientLeaves, SinkInv, Told, LoginType
<1> QED
  BY <1>1, <1>2, <1>3, <1>4, <1>5 DEF LoginStep

LEMMA LoopSinkInv ==
    ASSUME LoginType, SinkInv, LoopStep \/ QRCode \/ LoginEnds \/ LoginFails,
           qr # "sending" => holding = Nothing
    PROVE  SinkInv'
<1>1. CASE LoopLogsIn
  BY <1>1 DEF LoopLogsIn, LoopIsFree, SinkInv, Told, Nothing
<1>2. CASE LoopSends
  <2>0. UNCHANGED <<sink, latestQR, call, got>> /\ qr = "sending"
    BY <1>2 DEF LoopSends
  <2>1. CASE qr' = "crashed"
    BY <2>1 DEF SinkInv
  <2>2. CASE UNCHANGED channel /\ qr' # "crashed"
    <3>1. holding.sink = NoLogin \/ ~channel[holding.sink].closed
      BY <1>2, <2>2 DEF LoopSends
    <3>2. holding.sink = NoLogin \/ channel' # channel
      <4>1. ASSUME holding.sink # NoLogin PROVE channel' # channel
        <5>1. /\ holding.sink \in Logins /\ holding.event \in LoginEvents
              /\ channel[holding.sink].queue \in Seq(LoginEvents)
              /\ channel'[holding.sink].queue = Append(channel[holding.sink].queue, holding.event)
          BY <1>2, <2>2, <4>1 DEF LoopSends, LoginType
        <5>2. /\ Len(channel'[holding.sink].queue) = Len(channel[holding.sink].queue) + 1
              /\ Len(channel[holding.sink].queue) \in Nat
          BY <5>1, AppendProperties, LenProperties
        <5> QED
          BY <5>2
      <4> QED
        BY <4>1
    <3> QED
      BY <2>0, <2>2, <3>2 DEF SinkInv, Told
  <2>3. CASE channel' # channel /\ qr' # "crashed"
    <3> DEFINE l == holding.sink
    <3>1. /\ l \in Logins /\ holding.event \in LoginEvents
          /\ channel' = [channel EXCEPT ![l] = [queue |-> Append(@.queue, holding.event),
                                                closed |-> holding.event = End]]
      BY <1>2, <2>3 DEF LoopSends, LoginType
    <3>2. /\ channel[l].queue \in Seq(LoginEvents)
          /\ channel'[l].queue = Append(channel[l].queue, holding.event)
          /\ \A k \in Logins \ {l} : channel'[k] = channel[k]
      BY <3>1 DEF LoginType
    <3>3. In(latestQR, channel'[l].queue) <=>
            In(latestQR, channel[l].queue) \/ holding.event = latestQR
      BY <3>1, <3>2, InAppend
    <3>4. SUFFICES ASSUME sink # NoLogin, latestQR # 0, call[sink] \in {"begun", "open"}
                   PROVE  Told(sink)'
      BY <2>0 DEF SinkInv
    <3>5. sink \in Logins
      BY <3>4 DEF LoginType
    <3>6. CASE sink = l
      <4>1. Told(l) \/ holding.event = latestQR
        BY <2>0, <3>4, <3>6 DEF SinkInv
      <4> QED
        BY <2>0, <3>3, <3>6, <4>1 DEF Told
    <3>7. CASE sink # l
      BY <2>0, <3>2, <3>4, <3>5, <3>7 DEF SinkInv, Told
    <3> QED
      BY <3>6, <3>7
  <2> QED
    BY <2>1, <2>2, <2>3
<1>3. CASE QRCode
  BY <1>3 DEF QRCode, SinkInv
<1>4. CASE LoginEnds
  <2>1. holding = Nothing /\ qr # "crashed" /\ qr' = "sending"
    BY <1>4 DEF LoginEnds
  <2> QED
    BY <1>4, <2>1 DEF LoginEnds, SinkInv, Told, Nothing, End
<1>5. CASE LoginFails
  BY <1>5 DEF LoginFails, SinkInv, Told
<1> QED
  BY <1>1, <1>2, <1>3, <1>4, <1>5 DEF LoopStep

HoldingWhileSending == qr # "sending" => holding = Nothing

LEMMA NextSink ==
    ASSUME IndInv, HoldingWhileSending, SinkInv, [Next]_vars
    PROVE  HoldingWhileSending' /\ SinkInv'
<1>0. LoginType /\ Unused
  BY TypeParts DEF IndInv
<1>1. CASE UNCHANGED loginVars
  BY <1>1 DEF loginVars, HoldingWhileSending, SinkInv, Told
<1>2. ASSUME NEW l \in Logins, LoginBegins(l) \/ LoginStep(l) \/ LoginClientLeaves(l)
      PROVE  HoldingWhileSending' /\ SinkInv'
  <2>1. UNCHANGED <<qr, holding>>
    BY <1>2 DEF LoginBegins, LoginStep, LoginAsks, LoginForwards, LoginReturns, LoginClientLeaves
  <2> QED
    BY <1>0, <1>2, <2>1, LoginSinkInv DEF HoldingWhileSending
<1>3. CASE LoopStep \/ QRCode \/ LoginEnds \/ LoginFails
  <2>1. HoldingWhileSending'
    BY <1>3 DEF LoopStep, LoopLogsIn, LoopIsFree, LoopSends, QRCode, LoginEnds, LoginFails,
         HoldingWhileSending
  <2> QED
    BY <1>0, <1>3, <2>1, LoopSinkInv DEF HoldingWhileSending
<1>4. ASSUME SessionStep \/ \E c \in Clients : StreamStep(c) \/ ClientStep(c)
      PROVE  UNCHANGED loginVars
  BY <1>4 DEF SessionStep, ListChanges, OpenChat, LoopHangs, ReadScreen, ReadList, SetChats, NewScreen,
       sessionRest, StreamStep, StreamSubscribes, StreamLists, StreamGreets, Forward,
       StreamReceives, StreamPasses, StreamReturns, ClientStep, Connect, Select, ClientLeaves,
       streamRest
<1>5. ASSUME UNCHANGED vars PROVE UNCHANGED loginVars
  BY <1>5 DEF vars
<1> QED
  BY <1>1, <1>2, <1>3, <1>4, <1>5 DEF Next

\* SetLoginSink replays the last code to a new call, and QRCode sends each code to the sink
\* that it read: between any two steps the current call has the last code, or the loop is
\* about to send it.
THEOREM CodeIsKnown == Spec => []SinkKnowsCode
<1>1. Init => IndInv /\ HoldingWhileSending /\ SinkInv
  BY InitInd DEF Init, HoldingWhileSending, SinkInv
<1>2. IndInv /\ SinkInv => SinkKnowsCode
  BY SinkInvIff, TypeParts DEF IndInv
<1>3. IndInv /\ [Next]_vars => IndInv'
  BY NextInd
<1>4. IndInv /\ HoldingWhileSending /\ SinkInv /\ [Next]_vars => HoldingWhileSending' /\ SinkInv'
  BY NextSink
<1> QED
  BY <1>1, <1>2, <1>3, <1>4, PTL DEF Spec

-----------------------------------------------------------------------------
(***************************************************************************)
(* What a client ends up with, for every number of clients, chats and      *)
(* publishers: it misses no list, and shows the chat of the last screen.   *)
(*                                                                         *)
(* The invariants follow an event from where it is published to where it   *)
(* is shown.  As long as nothing was dropped for a client, its buffer is   *)
(* all that it has not got yet (Contiguous).  A snapshot is taken after    *)
(* the subscription, so it is as new as every list from before (ListInv);  *)
(* a selection that a client shows early is followed by a screen           *)
(* (ScreenInv).                                                            *)
(***************************************************************************)

\* The buffer of a client that lost nothing continues what it got, up to the last event.
Contiguous(c) ==
    ~lost[c] =>
        /\ Len(log) = heard[c] + Len(queue[c])
        /\ \A i \in 1..Len(queue[c]) : queue[c][i] = heard[c] + i

\* No list is newer than the chat list itself, and a list names no chat.
ListsKnown ==
    /\ \A n \in 1..Len(log) :
         log[n].kind = "list" => log[n].list <= list /\ log[n].chat = NoChat
    /\ \A p \in Publishers : held[p] # Away => held[p] <= list

SnapshotFresh(c) ==
    rpc[c] = "listed" =>
        \A n \in 1..Len(log) : n <= heard[c] /\ log[n].kind = "list" => log[n].list <= snapshot[c]

\* Of the lists up to the last event that a client got, the last one.
LastListHeard(c, n) ==
    /\ n <= heard[c] /\ log[n].kind = "list"
    /\ \A m \in 1..Len(log) : n < m /\ m <= heard[c] => log[m].kind # "list"

ListShown(c) ==
    rpc[c] = "open" /\ ~lost[c] =>
        \A n \in 1..Len(log) : LastListHeard(c, n) => log[n].list <= shownList[c]

ListInv ==
    /\ ListsKnown
    /\ \A c \in DOMAIN queue : Contiguous(c)
    /\ \A c \in Clients : SnapshotFresh(c) /\ ListShown(c)

LastNamedHeard(c, n) ==
    /\ n <= heard[c] /\ log[n].chat # NoChat
    /\ \A m \in 1..Len(log) : n < m /\ m <= heard[c] => log[m].chat = NoChat

\* A client shows the chat of the last screen that it got, or something is on its way
\* that will be followed by one, or the open chat has no messages.
Coming(c) ==
    \/ up[c] # << >> \/ carried[c] # NoChat \/ commands # << >> \/ screens[Loop] # NoChat
    \/ \E n \in 1..Len(log) : n > heard[c] /\ log[n].chat # NoChat
ScreenShown(c) ==
    rpc[c] = "open" /\ ~lost[c] =>
        \/ shownChat[c] = NoChat
        \/ receiver \in Empty
        \/ Coming(c)
        \/ \E n \in 1..Len(log) : LastNamedHeard(c, n) /\ log[n].chat = shownChat[c]

\* When the loop has sent the screen of the chat that it opened, the last screen is of that
\* chat, or an event handler sent it late.
ReceiverNamed ==
    screens[Loop] = NoChat /\ receiver \notin Empty =>
        \A n \in 1..Len(log) : LastNamed(n) => log[n].late \/ log[n].chat = receiver

ScreenInv ==
    /\ screens[Loop] # NoChat => screens[Loop] = receiver
    /\ ReceiverNamed
    /\ \A c \in Clients : rpc[c] # "open" => shownChat[c] = NoChat
    /\ \A c \in Clients : ScreenShown(c)

-----------------------------------------------------------------------------
(* Publishing *)

\* The log grows at its end.
LEMMA LogGrows ==
    ASSUME BusType, StreamType, NEW event \in Events, Send(event), UNCHANGED <<heard, about>>
    PROVE  /\ Len(log) \in Nat /\ Len(log') = Len(log) + 1
           /\ \A n \in 1..Len(log) : log'[n] = log[n]
           /\ log'[Len(log) + 1] = event
           /\ DOMAIN queue' = DOMAIN queue
           /\ \A c \in Clients : ~lost'[c] => ~lost[c]
<1>1. log \in Seq(Events) /\ log' = Append(log, event)
  BY DEF BusType, Send
<1>2. /\ Len(log') = Len(log) + 1
      /\ \A n \in 1..Len(log) : log'[n] = log[n]
      /\ log'[Len(log) + 1] = event
  BY <1>1, AppendProperties
<1> QED
  BY <1>1, <1>2, LenProperties DEF Send

LEMMA SendContiguous ==
    ASSUME BusType, StreamType, FeedInv, NEW event \in Events, Send(event),
           UNCHANGED <<heard, about>>, NEW c \in DOMAIN queue, Contiguous(c)
    PROVE  Contiguous(c)'
<1>1. /\ c \in Clients /\ Len(log) \in Nat /\ heard[c] \in 0..Len(log)
      /\ queue[c] \in Seq(1..Len(log)) /\ Len(queue[c]) \in Nat
  BY HeardOfQueue
<1>2. Len(log') = Len(log) + 1
  BY LogGrows
<1>3. CASE Full(c)
  BY <1>1, <1>3 DEF Send, Contiguous
<1>4. CASE ~Full(c)
  <2>1. queue'[c] = Append(queue[c], Len(log) + 1) /\ lost'[c] = lost[c]
    BY <1>1, <1>2, <1>4 DEF Send, BusType
  <2>2. /\ Len(queue'[c]) = Len(queue[c]) + 1
        /\ \A i \in 1..Len(queue[c]) : queue'[c][i] = queue[c][i]
        /\ queue'[c][Len(queue[c]) + 1] = Len(log) + 1
    BY <1>1, <2>1, AppendOfNext
  <2>3. SUFFICES ASSUME ~lost[c] PROVE Contiguous(c)'
    BY <2>1 DEF Contiguous
  <2>4. /\ Len(log) = heard[c] + Len(queue[c])
        /\ \A i \in 1..Len(queue[c]) : queue[c][i] = heard[c] + i
    BY <2>3 DEF Contiguous
  <2> DEFINE h == heard[c]
             k == Len(queue[c])
             next == queue'[c]
  <2>5. h \in Nat /\ k \in Nat /\ Len(log) = h + k
    BY <1>1, <2>4
  <2>6. Len(next) = k + 1 /\ \A i \in 1..k : next[i] = h + i
    BY <2>2, <2>4
  <2>7. next[k + 1] = h + k + 1
    BY <2>2, <2>5
  <2>8. Len(log') = h + Len(next) /\ \A i \in 1..Len(next) : next[i] = h + i
    <3> HIDE DEF h, k, next
    <3> QED
      BY <1>2, <2>5, <2>6, <2>7
  <2> QED
    BY <2>8 DEF Contiguous
<1> QED
  BY <1>3, <1>4

LEMMA SendLists ==
    ASSUME BusType, StreamType, FeedInv, ListInv,
           NEW event \in Events, Send(event), event.kind = "list" => event.list <= list /\ event.chat = NoChat,
           UNCHANGED <<heard, about, rpc, snapshot, shownList, list>>,
           \A p \in Publishers : held'[p] # Away => held'[p] <= list
    PROVE  ListInv'
<1>1. /\ Len(log) \in Nat /\ Len(log') = Len(log) + 1
      /\ \A n \in 1..Len(log) : log'[n] = log[n]
      /\ log'[Len(log) + 1] = event
      /\ DOMAIN queue' = DOMAIN queue
      /\ \A c \in Clients : ~lost'[c] => ~lost[c]
  BY LogGrows
<1>2. ListsKnown'
  <2>1. ASSUME NEW n \in 1..Len(log'), log'[n].kind = "list"
        PROVE  log'[n].list <= list /\ log'[n].chat = NoChat
    <3>1. n \in 1..Len(log) \/ n = Len(log) + 1
      BY <1>1
    <3> QED
      BY <1>1, <2>1, <3>1 DEF ListInv, ListsKnown
  <2> QED
    BY <2>1 DEF ListsKnown
<1>3. ASSUME NEW c \in DOMAIN queue PROVE Contiguous(c)'
  BY <1>3, SendContiguous DEF ListInv
<1>4. ASSUME NEW c \in Clients PROVE SnapshotFresh(c)' /\ ListShown(c)'
  <2>1. CASE rpc[c] \in {"listed", "open"}
    <3>1. heard[c] \in 0..Len(log)
      BY <2>1, HeardInLog
    <3>2. \A n \in 1..Len(log') : n <= heard[c] => n \in 1..Len(log) /\ log'[n] = log[n]
      BY <1>1, <3>1
    <3>3. \A n \in 1..Len(log) : n \in 1..Len(log')
      BY <1>1
    <3>4. SnapshotFresh(c)'
      BY <3>2 DEF ListInv, SnapshotFresh
    <3>5. \A n \in 1..Len(log') : LastListHeard(c, n)' => n \in 1..Len(log) /\ LastListHeard(c, n)
      BY <3>2, <3>3 DEF LastListHeard
    <3>6. ListShown(c)'
      BY <1>1, <3>2, <3>5 DEF ListInv, ListShown, LastListHeard
    <3> QED
      BY <3>4, <3>6
  <2>2. CASE rpc[c] \notin {"listed", "open"}
    BY <2>2 DEF SnapshotFresh, ListShown
  <2> QED
    BY <2>1, <2>2
<1> QED
  BY <1>1, <1>2, <1>3, <1>4 DEF ListInv

LEMMA SendScreens ==
    ASSUME BusType, StreamType, FeedInv, ScreenInv,
           NEW event \in Events, Send(event),
           event.chat # NoChat => event.late \/ event.chat = receiver,
           UNCHANGED <<heard, about, rpc, shownChat, receiver, up, carried, commands>>,
           \/ UNCHANGED screens
           \/ screens' = [screens EXCEPT ![Handlers] = NoChat]
           \/ /\ screens' = [screens EXCEPT ![Loop] = NoChat]
              /\ receiver \in Empty \/ event.chat # NoChat
    PROVE  ScreenInv'
<1>1. /\ Len(log) \in Nat /\ Len(log') = Len(log) + 1
      /\ \A n \in 1..Len(log) : log'[n] = log[n]
      /\ log'[Len(log) + 1] = event
      /\ \A c \in Clients : ~lost'[c] => ~lost[c]
  BY LogGrows
<1>2. \/ screens'[Loop] = screens[Loop]
      \/ screens'[Loop] = NoChat /\ (receiver \in Empty \/ event.chat # NoChat)
  BY DEF StreamType, Loop, Handlers
<1>3. ASSUME NEW c \in Clients, rpc[c] = "open", ~lost[c], shownChat[c] # NoChat, receiver \notin Empty
      PROVE  \/ Coming(c)'
             \/ \E n \in 1..Len(log') : LastNamedHeard(c, n)' /\ log'[n].chat = shownChat[c]
  <2>0. heard[c] \in 0..Len(log)
    BY <1>3, HeardInLog
  <2>1. CASE \E n \in 1..Len(log) : n > heard[c] /\ log[n].chat # NoChat
    <3>1. PICK n \in 1..Len(log) : n > heard[c] /\ log[n].chat # NoChat
      BY <2>1
    <3>2. n \in 1..Len(log') /\ log'[n] = log[n]
      BY <1>1
    <3> QED
      BY <3>1, <3>2 DEF Coming
  <2>2. CASE up[c] # << >> \/ carried[c] # NoChat \/ commands # << >>
    BY <2>2 DEF Coming
  <2>3. CASE screens[Loop] # NoChat
    <3>1. CASE screens'[Loop] = screens[Loop]
      BY <2>3, <3>1 DEF Coming
    <3>2. CASE event.chat # NoChat
      <4>1. Len(log) + 1 \in 1..Len(log') /\ Len(log) + 1 > heard[c]
        BY <1>1, <2>0
      <4> QED
        BY <1>1, <3>2, <4>1 DEF Coming
    <3> QED
      BY <1>2, <1>3, <3>1, <3>2
  <2>4. CASE \E n \in 1..Len(log) : LastNamedHeard(c, n) /\ log[n].chat = shownChat[c]
    <3>1. PICK n \in 1..Len(log) : LastNamedHeard(c, n) /\ log[n].chat = shownChat[c]
      BY <2>4
    <3>2. n \in 1..Len(log') /\ log'[n] = log[n]
      BY <1>1
    <3>3. \A m \in 1..Len(log') : m <= heard[c] => m \in 1..Len(log) /\ log'[m] = log[m]
      BY <1>1, <2>0
    <3> QED
      BY <3>1, <3>2, <3>3 DEF LastNamedHeard
  <2> QED
    BY <1>3, <2>1, <2>2, <2>3, <2>4 DEF ScreenInv, ScreenShown, Coming
<1>4. ASSUME NEW c \in Clients PROVE ScreenShown(c)'
  BY <1>1, <1>3 DEF ScreenShown
<1>5. ReceiverNamed'
  <2> SUFFICES ASSUME screens'[Loop] = NoChat, receiver \notin Empty,
                      NEW n \in 1..Len(log'), LastNamed(n)'
               PROVE  log'[n].late \/ log'[n].chat = receiver
    BY DEF ReceiverNamed
  <2>1. CASE n = Len(log) + 1
    BY <1>1, <2>1 DEF LastNamed
  <2>2. CASE n # Len(log) + 1
    <3>1. n \in 1..Len(log) /\ log'[n] = log[n] /\ Len(log) + 1 \in 1..Len(log') /\ Len(log) + 1 > n
      BY <1>1, <2>2
    <3>2. event.chat = NoChat
      BY <1>1, <3>1 DEF LastNamed
    <3>3. screens[Loop] = NoChat
      BY <1>2, <3>2
    <3>4. \A m \in 1..Len(log) : m \in 1..Len(log') /\ log'[m] = log[m]
      BY <1>1
    <3>5. LastNamed(n)
      BY <3>1, <3>4 DEF LastNamed
    <3> QED
      BY <3>1, <3>3, <3>5 DEF ScreenInv, ReceiverNamed
  <2> QED
    BY <2>1, <2>2
<1> QED
  BY <1>2, <1>4, <1>5 DEF ScreenInv

-----------------------------------------------------------------------------
(* The steps of the session manager *)

LEMMA SessionDelivery ==
    ASSUME BusType, StreamType, FeedInv, ListInv, ScreenInv, SessionStep
    PROVE  ListInv' /\ ScreenInv'
<1>0. about.lists \in Nat /\ list \in 0..about.lists
  BY AboutLists DEF StreamType, Lists
<1>1. CASE ListChanges
  <2>1. UNCHANGED <<queue, rpc, snapshot, log, heard, lost, held, receiver, screens, up,
                    carried, commands, shownList, shownChat>>
    BY <1>1 DEF ListChanges, sessionRest
  <2>2. list' = list + 1
    BY <1>1 DEF ListChanges
  <2>3. ListsKnown'
    <3>1. \A n \in 1..Len(log) : log[n].kind = "list" => log[n].list \in Nat
      <4>1. log \in Seq(Events)
        BY DEF BusType
      <4>2. \A n \in 1..Len(log) : log[n] \in Events
        BY <4>1, ElementOfSeq
      <4> QED
        BY <1>0, <4>2 DEF Events, Lists
    <3>2. \A p \in Publishers : held[p] # Away => held[p] \in Nat
      BY <1>0 DEF StreamType, Lists
    <3> QED
      BY <1>0, <2>1, <2>2, <3>1, <3>2 DEF ListInv, ListsKnown
  <2>4. ListInv'
    BY <2>1, <2>3 DEF ListInv, Contiguous, SnapshotFresh, ListShown, LastListHeard
  <2> QED
    BY <2>1, <2>4 DEF ScreenInv, ReceiverNamed, LastNamed, ScreenShown, Coming, LastNamedHeard
<1>2. CASE OpenChat
  <2>1. /\ UNCHANGED <<queue, rpc, snapshot, log, heard, lost, list, held, up, carried,
                       shownList, shownChat>>
        /\ screens' = [screens EXCEPT ![Loop] = receiver']
        /\ receiver' = Last(commands) /\ commands # << >>
    BY <1>2 DEF OpenChat, sessionRest
  <2>2. Last(commands) \in Chats
    BY <2>1, LenProperties, ElementOfSeq, EmptySeq DEF StreamType, Last
  <2>3. screens'[Loop] = receiver' /\ receiver' # NoChat
    BY <2>1, <2>2, ServerAssumption DEF StreamType
  <2>4. ListInv'
    BY <2>1 DEF ListInv, ListsKnown, Contiguous, SnapshotFresh, ListShown, LastListHeard
  <2> QED
    BY <2>1, <2>3, <2>4 DEF ScreenInv, ReceiverNamed, ScreenShown, Coming
<1>3. CASE ReadScreen
  <2>1. /\ UNCHANGED <<queue, rpc, snapshot, log, heard, lost, list, held, receiver, up,
                       carried, commands, shownList, shownChat>>
        /\ screens' = [screens EXCEPT ![Handlers] = receiver]
    BY <1>3 DEF ReadScreen, sessionRest
  <2>2. screens'[Loop] = screens[Loop]
    BY <2>1 DEF StreamType, Loop, Handlers
  <2>3. ListInv'
    BY <2>1 DEF ListInv, ListsKnown, Contiguous, SnapshotFresh, ListShown, LastListHeard
  <2> QED
    BY <2>1, <2>2, <2>3
       DEF ScreenInv, ReceiverNamed, LastNamed, ScreenShown, Coming, LastNamedHeard
<1>4. ASSUME NEW p \in Publishers, ReadList(p)
      PROVE  ListInv' /\ ScreenInv'
  <2>1. /\ UNCHANGED <<queue, rpc, snapshot, log, heard, lost, list, receiver, screens, up,
                       carried, commands, shownList, shownChat>>
        /\ held' = [held EXCEPT ![p] = list]
    BY <1>4 DEF ReadList, sessionRest
  <2>2. ListsKnown'
    <3>1. \A q \in Publishers : held'[q] = IF q = p THEN list ELSE held[q]
      BY <2>1 DEF StreamType
    <3> QED
      BY <1>0, <2>1, <3>1 DEF ListInv, ListsKnown
  <2>3. ListInv'
    BY <2>1, <2>2 DEF ListInv, Contiguous, SnapshotFresh, ListShown, LastListHeard
  <2> QED
    BY <2>1, <2>3 DEF ScreenInv, ReceiverNamed, LastNamed, ScreenShown, Coming, LastNamedHeard
<1>5. ASSUME NEW p \in Publishers, SetChats(p)
      PROVE  ListInv' /\ ScreenInv'
  <2>1. /\ UNCHANGED <<about, rpc, snapshot, heard, list, receiver, screens, up,
                       carried, commands, shownList, shownChat>>
        /\ held' = [held EXCEPT ![p] = Away] /\ held[p] # Away
        /\ Send(List(held[p]))
    BY <1>5 DEF SetChats, sessionRest
  <2>2. List(held[p]) \in Events /\ List(held[p]).list = held[p]
        /\ List(held[p]).chat = NoChat
    BY <2>1 DEF List, Events, StreamType
  <2>3. held[p] <= list /\ \A q \in Publishers : held'[q] # Away => held'[q] <= list
    BY <2>1 DEF ListInv, ListsKnown, StreamType
  <2>4. ListInv'
    BY <2>1, <2>2, <2>3, SendLists
  <2> QED
    BY <2>1, <2>2, <2>4, SendScreens
<1>6. ASSUME NEW g \in {Loop, Handlers}, NewScreen(g)
      PROVE  ListInv' /\ ScreenInv'
  <2>1. /\ UNCHANGED <<about, rpc, snapshot, heard, list, held, receiver, up,
                       carried, commands, shownList, shownChat>>
        /\ screens' = [screens EXCEPT ![g] = NoChat] /\ screens[g] # NoChat
        /\ Send(Screen(screens[g]))
    BY <1>6 DEF NewScreen, sessionRest
  <2>2. Screen(screens[g]) \in Events /\ Screen(screens[g]).kind = "screen"
    BY <1>0, <2>1 DEF Screen, Events, StreamType, Lists
  <2>3. \A q \in Publishers : held'[q] # Away => held'[q] <= list
    BY <2>1 DEF ListInv, ListsKnown
  <2>4. ListInv'
    BY <2>1, <2>2, <2>3, SendLists
  <2>5. g = Loop => receiver \in Empty \/ Screen(screens[g]).chat # NoChat
    BY <2>1 DEF ScreenInv, Screen
  <2>6. LET event == Screen(screens[g])
        IN  event.chat # NoChat => event.late \/ event.chat = receiver
    BY DEF Screen
  <2>7. ScreenInv'
    BY <2>1, <2>2, <2>5, <2>6, SendScreens
  <2> QED
    BY <2>4, <2>7
<1>7. CASE LoopHangs
  <2>1. UNCHANGED <<queue, rpc, snapshot, log, heard, lost, list, held, receiver, screens, up,
                    carried, commands, shownList, shownChat>>
    BY <1>7 DEF LoopHangs, sessionRest
  <2>2. ListInv'
    BY <2>1 DEF ListInv, ListsKnown, Contiguous, SnapshotFresh, ListShown, LastListHeard
  <2> QED
    BY <2>1, <2>2 DEF ScreenInv, ReceiverNamed, LastNamed, ScreenShown, Coming, LastNamedHeard
<1> QED
  BY <1>1, <1>2, <1>3, <1>4, <1>5, <1>6, <1>7 DEF SessionStep

-----------------------------------------------------------------------------
(* The steps of a stream and of its client *)

\* What the invariants say of one client.
OfClient(c) ==
    /\ c \in DOMAIN queue => Contiguous(c)
    /\ SnapshotFresh(c) /\ ListShown(c) /\ ScreenShown(c)
    /\ rpc[c] # "open" => shownChat[c] = NoChat

LEMMA ByClient ==
    ASSUME BusType
    PROVE  ListInv /\ ScreenInv <=> /\ ListsKnown
                                    /\ screens[Loop] # NoChat => screens[Loop] = receiver
                                    /\ ReceiverNamed
                                    /\ \A c \in Clients : OfClient(c)
BY DEF BusType, ListInv, ScreenInv, OfClient

LEMMA ByClientNext ==
    ASSUME BusType'
    PROVE  (ListInv /\ ScreenInv)' <=> (/\ ListsKnown
                                        /\ screens[Loop] # NoChat => screens[Loop] = receiver
                                        /\ ReceiverNamed
                                        /\ \A c \in Clients : OfClient(c))'
BY DEF BusType, ListInv, ScreenInv, OfClient

\* A step of one stream leaves the other clients as they are.
LEMMA OneClient ==
    ASSUME BusType, BusType', ListInv, ScreenInv, NEW c \in Clients,
           UNCHANGED <<log, list, held, screens, receiver>>,
           commands = << >> \/ commands' # << >>,
           \A d \in Clients \ {c} :
               /\ d \in DOMAIN queue' <=> d \in DOMAIN queue
               /\ d \in DOMAIN queue => queue'[d] = queue[d]
               /\ rpc'[d] = rpc[d] /\ snapshot'[d] = snapshot[d] /\ heard'[d] = heard[d]
               /\ lost'[d] = lost[d] /\ up'[d] = up[d] /\ carried'[d] = carried[d]
               /\ shownList'[d] = shownList[d] /\ shownChat'[d] = shownChat[d],
           OfClient(c)'
    PROVE  ListInv' /\ ScreenInv'
<1>1. /\ ListsKnown
      /\ screens[Loop] # NoChat => screens[Loop] = receiver
      /\ ReceiverNamed
      /\ \A d \in Clients : OfClient(d)
  BY ByClient
<1>2. ListsKnown' /\ (screens'[Loop] # NoChat => screens'[Loop] = receiver') /\ ReceiverNamed'
  BY <1>1 DEF ListsKnown, ReceiverNamed, LastNamed
<1>3. ASSUME NEW d \in Clients \ {c} PROVE OfClient(d)'
  <2>1. (d \in DOMAIN queue => Contiguous(d)) /\ SnapshotFresh(d) /\ ListShown(d) /\ ScreenShown(d)
    BY <1>1 DEF OfClient
  <2>2. (d \in DOMAIN queue => Contiguous(d))'
    BY <2>1 DEF Contiguous
  <2>3. SnapshotFresh(d)' /\ ListShown(d)'
    BY <2>1 DEF SnapshotFresh, ListShown, LastListHeard
  <2>4. ScreenShown(d)'
    BY <2>1 DEF ScreenShown, Coming, LastNamedHeard
  <2>5. (rpc[d] # "open" => shownChat[d] = NoChat)'
    BY <1>1 DEF OfClient
  <2> QED
    BY <2>2, <2>3, <2>4, <2>5 DEF OfClient
<1> QED
  BY <1>2, <1>3, ByClientNext

\* The next event, if nothing was lost, is the one after the last that the client got.
LEMMA ForwardDelivery ==
    ASSUME BusType, StreamType, FeedInv, ListsKnown, NEW c \in Clients, OfClient(c), Forward(c)
    PROVE  OfClient(c)'
<1> DEFINE n == Head(queue[c])
           h == heard[c]
<1>1. /\ rpc[c] = "open" /\ rpc'[c] = "open" /\ queue[c] # << >>
      /\ heard' = [heard EXCEPT ![c] = n] /\ queue' = [queue EXCEPT ![c] = Tail(@)]
      /\ shownList' = IF log[n].kind = "list" THEN [shownList EXCEPT ![c] = log[n].list] ELSE shownList
      /\ shownChat' = IF log[n].kind = "screen" /\ log[n].chat # NoChat
                      THEN [shownChat EXCEPT ![c] = log[n].chat] ELSE shownChat
      /\ UNCHANGED <<log, receiver, screens, commands, up, carried, lost, snapshot>>
  BY DEF Forward, streamRest, sessionVars
<1>2. c \in DOMAIN queue /\ Len(log) \in Nat /\ h \in 0..Len(log)
  BY <1>1, HeardInLog
<1>3. /\ queue[c] \in Seq(1..Len(log))
      /\ n \in 1..Len(log) /\ n = queue[c][1] /\ Len(queue[c]) \in Nat \ {0}
      /\ Len(Tail(queue[c])) = Len(queue[c]) - 1
      /\ \A i \in 1..Len(Tail(queue[c])) : Tail(queue[c])[i] = queue[c][i + 1]
  BY <1>1, <1>2, HeadTailProperties, LenProperties, EmptySeq DEF BusType
<1>4. heard'[c] = n /\ queue'[c] = Tail(queue[c])
  BY <1>1, <1>2 DEF BusType
<1>5. SUFFICES ASSUME ~lost[c]
               PROVE  Contiguous(c)' /\ ListShown(c)' /\ ScreenShown(c)'
  BY <1>1 DEF OfClient, Contiguous, ListShown, ScreenShown, SnapshotFresh
<1>6. /\ Len(log) = h + Len(queue[c])
      /\ \A i \in 1..Len(queue[c]) : queue[c][i] = h + i
  BY <1>2, <1>5 DEF OfClient, Contiguous
<1>7. n = h + 1
  BY <1>3, <1>6
<1>8. Contiguous(c)'
  <2> DEFINE k == Len(queue[c])
             rest == Tail(queue[c])
             here == queue[c]
             top == Len(log)
  <2>1. /\ k \in Nat \ {0} /\ h \in Nat /\ top = h + k
        /\ Len(rest) = k - 1
        /\ \A i \in 1..Len(rest) : rest[i] = here[i + 1]
        /\ \A i \in 1..k : here[i] = h + i
    BY <1>2, <1>3, <1>6
  <2> HIDE DEF k, rest, here, top, h
  <2>2. top = (h + 1) + Len(rest) /\ \A i \in 1..Len(rest) : rest[i] = (h + 1) + i
    BY <2>1
  <2> USE DEF rest, top
  <2> QED
    BY <1>1, <1>4, <1>7, <2>2 DEF Contiguous
<1>9. ListShown(c)'
  <2>1. ASSUME NEW m \in 1..Len(log), LastListHeard(c, m)' PROVE log[m].list <= shownList'[c]
    <3>1. m <= n /\ log[m].kind = "list"
      BY <1>1, <1>4, <2>1 DEF LastListHeard
    <3>2. log[m].list \in Nat
      <4>1. log[m] \in Events
        BY ElementOfSeq DEF BusType
      <4> QED
        BY <3>1, <4>1, AboutLists DEF Events, Lists
    <3>3. CASE m = n
      BY <1>1, <3>1, <3>2, <3>3 DEF StreamType
    <3>4. CASE m # n
      <4>1. m <= h
        BY <1>2, <1>7, <3>1, <3>4
      <4>2. log[n].kind # "list"
        BY <1>1, <1>3, <1>4, <2>1, <3>1, <3>4 DEF LastListHeard
      <4>3. LastListHeard(c, m)
        <5>1. \A k \in 1..Len(log) : m < k /\ k <= h => log[k].kind # "list"
          BY <1>1, <1>2, <1>3, <1>4, <1>7, <2>1 DEF LastListHeard
        <5> QED
          BY <3>1, <4>1, <5>1 DEF LastListHeard
      <4> QED
        BY <1>1, <1>5, <4>2, <4>3 DEF OfClient, ListShown
    <3> QED
      BY <3>3, <3>4
  <2> QED
    BY <1>1, <2>1 DEF ListShown
<1>10. ScreenShown(c)'
  <2>1. log[n] \in Events
    BY <1>3, ElementOfSeq DEF BusType
  <2>2. CASE log[n].kind = "screen" /\ log[n].chat # NoChat
    <3>1. shownChat'[c] = log[n].chat
      BY <1>1, <2>2 DEF StreamType
    <3>2. PICK e \in 1..Len(log) : e = n
      BY <1>3
    <3>3. LastNamedHeard(c, e)'
      BY <1>1, <1>3, <1>4, <2>2, <3>2 DEF LastNamedHeard
    <3> QED
      BY <1>1, <3>1, <3>2, <3>3 DEF ScreenShown
  <2>3. CASE log[n].chat = NoChat
    <3>1. shownChat' = shownChat
      BY <1>1, <2>3
    <3>2. ASSUME NEW m \in 1..Len(log), m > h, log[m].chat # NoChat PROVE Coming(c)'
      <4>1. m > n
        BY <1>2, <1>7, <2>3, <3>2
      <4> QED
        BY <1>1, <1>4, <3>2, <4>1 DEF Coming
    <3>3. ASSUME NEW m \in 1..Len(log), LastNamedHeard(c, m) PROVE LastNamedHeard(c, m)'
      BY <1>1, <1>2, <1>4, <1>7, <2>3, <3>3 DEF LastNamedHeard
    <3> QED
      BY <1>1, <1>5, <3>1, <3>2, <3>3 DEF OfClient, ScreenShown, Coming
  <2>4. log[n].kind = "list" => log[n].chat = NoChat
    BY <1>3 DEF ListsKnown
  <2> QED
    BY <2>1, <2>2, <2>3, <2>4 DEF Events
<1> QED
  BY <1>8, <1>9, <1>10

LEMMA StreamDelivery ==
    ASSUME BusType, BusType', StreamType, FeedInv, FeedInv', ListInv, ScreenInv,
           NEW c \in Clients, StreamStep(c) \/ ClientStep(c)
    PROVE  ListInv' /\ ScreenInv'
<1> DEFINE Others ==
      \A d \in Clients \ {c} :
               /\ d \in DOMAIN queue' <=> d \in DOMAIN queue
               /\ d \in DOMAIN queue => queue'[d] = queue[d]
               /\ rpc'[d] = rpc[d] /\ snapshot'[d] = snapshot[d] /\ heard'[d] = heard[d]
               /\ lost'[d] = lost[d] /\ up'[d] = up[d] /\ carried'[d] = carried[d]
               /\ shownList'[d] = shownList[d] /\ shownChat'[d] = shownChat[d]
<1>0. /\ UNCHANGED <<log, list, held, screens, receiver>>
      /\ OfClient(c) /\ ListsKnown
  BY ByClient DEF StreamStep, StreamSubscribes, StreamLists, StreamGreets, Forward, StreamReceives,
        StreamPasses, StreamReturns, ClientStep, Connect, Select, ClientLeaves, streamRest, sessionVars
<1>1. CASE StreamSubscribes(c)
  <2>1. Others /\ UNCHANGED <<commands, shownChat>> /\ rpc'[c] = "subscribed"
    BY <1>1 DEF StreamSubscribes, Subscribe, BusType, StreamType
  <2>2. heard'[c] = Len(log) /\ queue'[c] = << >> /\ rpc[c] = "begun"
    BY <1>1 DEF StreamSubscribes, Subscribe, BusType
  <2>3. Contiguous(c)'
    BY <1>0, <2>2, LenProperties, EmptySeq DEF Contiguous, BusType
  <2>4. OfClient(c)'
    BY <1>0, <2>1, <2>2, <2>3 DEF OfClient, SnapshotFresh, ListShown, ScreenShown
  <2> QED
    BY <1>0, <2>1, <2>4, OneClient
<1>2. CASE StreamLists(c)
  <2>1. Others /\ UNCHANGED <<commands, queue, heard, lost, shownChat>> /\ rpc'[c] = "listed"
        /\ rpc[c] = "subscribed" /\ snapshot'[c] = list
    BY <1>2 DEF StreamLists, StreamType
  <2>2. OfClient(c)'
    BY <1>0, <2>1 DEF OfClient, Contiguous, SnapshotFresh, ListShown, ScreenShown, ListsKnown
  <2> QED
    BY <1>0, <2>1, <2>2, OneClient
<1>3. CASE StreamGreets(c)
  <2>1. Others /\ UNCHANGED <<commands, queue, heard, lost, shownChat>> /\ rpc'[c] = "open"
        /\ rpc[c] = "listed" /\ shownList'[c] = snapshot[c]
    BY <1>3 DEF StreamGreets, StreamType
  <2>2. OfClient(c)'
    BY <1>0, <2>1 DEF OfClient, Contiguous, SnapshotFresh, ListShown, ScreenShown, LastListHeard
  <2> QED
    BY <1>0, <2>1, <2>2, OneClient
<1>4. CASE Forward(c)
  <2>1. Others /\ UNCHANGED <<commands, rpc, up, carried, lost>> /\ rpc[c] = "open"
    BY <1>4 DEF Forward, BusType, StreamType
  <2>2. OfClient(c)'
    BY <1>0, <1>4, <2>1, ForwardDelivery
  <2> QED
    BY <1>0, <2>1, <2>2, OneClient
<1>5. CASE StreamReceives(c)
  <2>1. Others /\ UNCHANGED <<rpc, queue, heard, lost, snapshot, shownList, shownChat>>
    BY <1>5 DEF StreamReceives, StreamType
  <2>2. carried'[c] # NoChat /\ commands' = commands
    <3>1. carried'[c] = Head(up[c]) /\ up[c] \in Seq(Chats) /\ up[c] # << >>
      BY <1>5 DEF StreamReceives, StreamType
    <3>2. Head(up[c]) \in Chats
      BY <3>1, HeadTailProperties
    <3> QED
      BY <1>5, <3>1, <3>2, ServerAssumption DEF StreamReceives
  <2>3. OfClient(c)'
    BY <1>0, <2>1, <2>2 DEF OfClient, Contiguous, SnapshotFresh, ListShown, ScreenShown,
          LastListHeard, Coming
  <2> QED
    BY <1>0, <2>1, <2>2, <2>3, OneClient
<1>6. CASE StreamReturns(c)
  <2>1. Others /\ UNCHANGED <<commands, shownChat>> /\ rpc'[c] = "none" /\ rpc[c] = "gone"
    BY <1>6 DEF StreamReturns, Unsubscribe, BusType, StreamType
  <2>2. c \notin DOMAIN queue'
    BY <1>6 DEF StreamReturns, Unsubscribe
  <2>3. OfClient(c)'
    BY <1>0, <2>1, <2>2 DEF OfClient, SnapshotFresh, ListShown, ScreenShown
  <2> QED
    BY <1>0, <2>1, <2>3, OneClient
<1>7. CASE Connect(c)
  <2>1. Others /\ UNCHANGED <<commands, queue, heard, lost, shownChat>>
        /\ rpc'[c] = "begun" /\ rpc[c] = "none"
    BY <1>7 DEF Connect, StreamType
  <2>2. OfClient(c)'
    BY <1>0, <2>1 DEF OfClient, Contiguous, SnapshotFresh, ListShown, ScreenShown
  <2> QED
    BY <1>0, <2>1, <2>2, OneClient
<1>8. CASE Select(c)
  <2>1. PICK chat \in Chats : /\ up' = [up EXCEPT ![c] = Append(@, chat)]
                              /\ shownChat' = [shownChat EXCEPT ![c] = chat]
    BY <1>8, AboutLists DEF Select
  <2>2. Others /\ UNCHANGED <<commands, queue, rpc, heard, lost, snapshot, shownList>>
        /\ rpc[c] = "open"
    BY <1>8, <2>1 DEF Select, StreamType
  <2>3. up'[c] # << >>
    <3>1. up'[c] = Append(up[c], chat) /\ up[c] \in Seq(Chats)
      BY <2>1 DEF StreamType
    <3>2. Len(up'[c]) = Len(up[c]) + 1 /\ Len(up[c]) \in Nat
      BY <3>1, AppendProperties, LenProperties
    <3> QED
      BY <3>2, EmptySeq
  <2>4. OfClient(c)'
    BY <1>0, <2>2, <2>3 DEF OfClient, Contiguous, SnapshotFresh, ListShown, ScreenShown,
          LastListHeard, Coming
  <2> QED
    BY <1>0, <2>2, <2>4, OneClient
<1>9. CASE ClientLeaves(c)
  <2>1. Others /\ UNCHANGED <<commands, queue, heard, lost>>
        /\ rpc'[c] = "gone" /\ shownChat'[c] = NoChat
    BY <1>9 DEF ClientLeaves, StreamType
  <2>2. OfClient(c)'
    BY <1>0, <2>1 DEF OfClient, Contiguous, SnapshotFresh, ListShown, ScreenShown
  <2> QED
    BY <1>0, <2>1, <2>2, OneClient
<1>10. CASE StreamPasses(c)
  <2>1. Others /\ UNCHANGED <<rpc, queue, heard, lost, snapshot, shownList, shownChat>>
    BY <1>10 DEF StreamPasses, StreamType
  <2>2. commands' # << >>
    BY <1>10, PassedOn
  <2>3. OfClient(c)'
    BY <1>0, <2>1, <2>2 DEF OfClient, Contiguous, SnapshotFresh, ListShown, ScreenShown,
          LastListHeard, Coming
  <2> QED
    BY <1>0, <2>1, <2>2, <2>3, OneClient
<1> QED
  BY <1>1, <1>2, <1>3, <1>4, <1>5, <1>6, <1>7, <1>8, <1>9, <1>10 DEF StreamStep, ClientStep

-----------------------------------------------------------------------------
(* The invariant and the theorems *)

DeliveryInv == IndInv /\ ListInv /\ ScreenInv

LEMMA InitDelivery == Init => DeliveryInv
<1> SUFFICES ASSUME Init PROVE ListInv /\ ScreenInv
  BY InitInd DEF DeliveryInv
<1>1. Len(log) = 0 /\ DOMAIN queue = {} /\ 1..Len(log) = {}
  BY EmptySeq DEF Init
<1> QED
  BY <1>1 DEF Init, ListInv, ListsKnown, SnapshotFresh, ListShown, ScreenInv, ReceiverNamed,
       ScreenShown, Loop, Handlers

LEMMA FrameDelivery ==
    ASSUME ListInv, ScreenInv,
           UNCHANGED <<about, streamVars, selects, sessionVars, log, commands>>
    PROVE  ListInv' /\ ScreenInv'
<1> USE DEF streamVars, sessionVars
<1>1. ListInv'
  BY DEF ListInv, ListsKnown, Contiguous, SnapshotFresh, ListShown, LastListHeard
<1>2. ScreenInv'
  BY DEF ScreenInv, ReceiverNamed, LastNamed, ScreenShown, Coming, LastNamedHeard
<1> QED
  BY <1>1, <1>2

LEMMA NextDelivery ==
    ASSUME DeliveryInv, [Next]_vars
    PROVE  DeliveryInv'
<1>0. /\ BusType /\ StreamType /\ FeedInv /\ ListInv /\ ScreenInv
      /\ IndInv' /\ BusType' /\ FeedInv'
  BY NextInd, TypeParts, TypePartsNext DEF DeliveryInv, IndInv
<1> DEFINE Kept == ListInv' /\ ScreenInv'
<1>1. ASSUME SessionStep PROVE Kept
  BY <1>0, <1>1, SessionDelivery
<1>2. ASSUME NEW c \in Clients, StreamStep(c) \/ ClientStep(c) PROVE Kept
  BY <1>0, <1>2, StreamDelivery
<1>3. ASSUME NEW l \in Logins, LoginBegins(l) \/ LoginStep(l) \/ LoginClientLeaves(l) PROVE Kept
  <2>1. UNCHANGED <<about, streamVars, selects, sessionVars, log, commands>>
    BY <1>3 DEF LoginBegins, LoginStep, LoginAsks, LoginForwards, LoginReturns,
                LoginClientLeaves, loginRest
  <2> QED
    BY <1>0, <2>1, FrameDelivery
<1>4. ASSUME LoopStep \/ QRCode \/ LoginEnds \/ LoginFails PROVE Kept
  <2>1. UNCHANGED <<about, streamVars, selects, sessionVars, log, commands>>
    BY <1>4 DEF LoopStep, LoopLogsIn, LoopSends, QRCode, LoginEnds, LoginFails, loginRest
  <2> QED
    BY <1>0, <2>1, FrameDelivery
<1>5. ASSUME UNCHANGED vars PROVE Kept
  BY <1>0, <1>5, FrameDelivery DEF vars
<1>6. Kept
  <2> HIDE DEF Kept
  <2> QED
    BY <1>1, <1>2, <1>3, <1>4, <1>5 DEF Next
<1> QED
  BY <1>0, <1>6 DEF DeliveryInv

-----------------------------------------------------------------------------
(* The feed *)

\* What the feed sees of an event.
EventOf(e) == IF e.kind = "list" THEN e.list ELSE Away

LEMMA PublishedLog ==
    ASSUME BusType, StreamType
    PROVE  /\ Len(log) \in Nat /\ Len(Published) = Len(log)
           /\ Published \in Seq(Nat \cup {Away})
           /\ \A n \in 1..Len(log) : Published[n] = EventOf(log[n])
<1>1. Len(log) \in Nat /\ Lists \subseteq Nat
  BY AboutLists, LenProperties DEF BusType, Lists
<1>2. ASSUME NEW n \in 1..Len(log) PROVE EventOf(log[n]) \in Nat \cup {Away}
  <2>1. log[n] \in Events
    BY ElementOfSeq DEF BusType
  <2> QED
    BY <1>1, <2>1 DEF Events, EventOf
<1>3. Published = [n \in 1..Len(log) |-> EventOf(log[n])]
  BY DEF Published, EventOf
<1>4. Published \in Seq(Nat \cup {Away})
  BY <1>1, <1>2, <1>3, IsASeq
<1> QED
  BY <1>1, <1>3, <1>4, LenProperties

\* The steps that the feed does not see.
LEMMA FeedStutters ==
    ASSUME UNCHANGED <<list, log>>, Streams' = Streams,
           \A d \in Streams : /\ queue'[d] = queue[d] /\ rpc'[d] = rpc[d]
                              /\ snapshot'[d] = snapshot[d] /\ shownList'[d] = shownList[d]
    PROVE  UNCHANGED FeedOf!feedVars
<1>1. Published' = Published
  BY DEF Published
<1>2. Due' = Due /\ View' = View
  BY DEF Due, View
<1> QED
  BY <1>1, <1>2 DEF FeedOf!feedVars

\* A published event reaches every client that has joined, unless its buffer is full.
LEMMA SendPublishes ==
    ASSUME BusType, StreamType, StreamType', FeedInv,
           NEW event \in Events, Send(event), event.kind = "list" => event.list <= list,
           UNCHANGED <<about, heard, rpc, snapshot, shownList, list>>
    PROVE  FeedOf!Publish
<1>1. /\ Len(log) \in Nat /\ Len(log') = Len(log) + 1
      /\ \A n \in 1..Len(log) : log'[n] = log[n]
      /\ log'[Len(log) + 1] = event
  BY LogGrows
<1>2. Published' = Append(Published, EventOf(event)) /\ Len(Published') = Len(log')
  <2>1. /\ Len(Published) = Len(log) /\ Published \in Seq(Nat \cup {Away})
        /\ \A n \in 1..Len(log) : Published[n] = EventOf(log[n])
    BY PublishedLog
  <2>2. EventOf(event) \in Nat \cup {Away}
    BY AboutLists DEF EventOf, Events, Lists
  <2>3. /\ Len(Published') = Len(log') /\ Published' \in Seq(Nat \cup {Away})
        /\ \A n \in 1..Len(log') : Published'[n] = EventOf(log'[n])
    <3>1. ASSUME NEW n \in 1..Len(log') PROVE EventOf(log'[n]) \in Nat \cup {Away}
      <4>1. n \in 1..Len(log) \/ n = Len(log) + 1
        BY <1>1
      <4>2. \A m \in 1..Len(log) : EventOf(log[m]) \in Nat \cup {Away}
        BY <2>1, ElementOfSeq
      <4> QED
        BY <1>1, <2>2, <4>1, <4>2
    <3>2. Published' = [n \in 1..Len(log') |-> EventOf(log'[n])]
      BY DEF Published, EventOf
    <3>3. Published' \in Seq(Nat \cup {Away})
      BY <1>1, <3>1, <3>2, IsASeq
    <3> QED
      BY <1>1, <3>2, <3>3, LenProperties
  <2> DEFINE s == Published
             t == Published'
             u == Append(s, EventOf(event))
  <2>4. /\ u \in Seq(Nat \cup {Away}) /\ Len(u) = Len(log) + 1
        /\ \A n \in 1..Len(log) : u[n] = s[n]
        /\ u[Len(log) + 1] = EventOf(event)
    BY <2>1, <2>2, AppendProperties
  <2>5. \A n \in 1..Len(t) : t[n] = u[n]
    <3> SUFFICES ASSUME NEW n \in 1..Len(t) PROVE t[n] = u[n]
      OBVIOUS
    <3>1. n \in 1..Len(log) \/ n = Len(log) + 1
      BY <1>1, <2>3
    <3> QED
      BY <1>1, <2>1, <2>3, <2>4, <3>1
  <2>6. t = u
    <3> HIDE DEF t, u
    <3>1. Len(t) = Len(u) /\ t \in Seq(Nat \cup {Away}) /\ u \in Seq(Nat \cup {Away})
      BY <1>1, <2>3, <2>4 DEF t
    <3> QED
      BY <2>5, <3>1, SeqEqual
  <2> QED
    BY <2>3, <2>6
<1>3. EventOf(event) \in {Away} \cup 0..list
  BY AboutLists DEF EventOf, Events, Lists, StreamType
<1>4. Streams \subseteq DOMAIN queue
  BY DEF FeedInv, Subscribed, Streams
<1>5. Streams' = Streams /\ View' = View
  BY DEF Streams, View
<1>6. Due' = [c \in DOMAIN Due |->
                  IF Len(Due[c]) < Buffer THEN Append(Due[c], Len(Published')) ELSE Due[c]]
  <2>1. ASSUME NEW c \in Streams
        PROVE  queue'[c] = IF Len(queue[c]) < Buffer THEN Append(queue[c], Len(log')) ELSE queue[c]
    <3>1. c \in DOMAIN queue /\ Len(queue[c]) \in Nat /\ Len(queue[c]) <= Buffer
      BY <1>4, HeardOfQueue
    <3> QED
      BY <3>1, ServerAssumption DEF Send, Full
  <2>2. DOMAIN Due = Streams /\ \A c \in Streams : Due[c] = queue[c]
    BY DEF Due
  <2>3. Due' = [c \in Streams |-> queue'[c]]
    BY <1>5 DEF Due
  <2> QED
    BY <1>2, <2>1, <2>2, <2>3
<1> QED
  BY <1>2, <1>3, <1>5, <1>6 DEF FeedOf!Publish

\* The snapshot is the list of this moment, and the buffer goes on from the subscription.
LEMMA ListingJoins ==
    ASSUME BusType, StreamType, FeedInv, NEW c \in Clients, StreamLists(c)
    PROVE  FeedOf!Join(c)
<1>1. /\ rpc[c] = "subscribed" /\ rpc' = [rpc EXCEPT ![c] = "listed"]
      /\ snapshot' = [snapshot EXCEPT ![c] = list]
      /\ UNCHANGED <<log, list, queue, heard, shownList>>
  BY DEF StreamLists, streamRest, sessionVars
<1>2. /\ Streams' = Streams \cup {c} /\ c \notin Streams
      /\ \A d \in Streams : d # c /\ rpc'[d] = rpc[d] /\ snapshot'[d] = snapshot[d]
      /\ rpc'[c] = "listed" /\ snapshot'[c] = list
  BY <1>1 DEF Streams, StreamType
<1>3. Published' = Published /\ Len(Published) = Len(log)
  BY <1>1, PublishedLog DEF Published
<1>4. queue[c] = FeedOf!Since(heard[c]) /\ heard[c] \in 0..Len(Published)
  <2>1. /\ Len(queue[c]) = Filled(c) /\ heard[c] \in 0..Len(log)
        /\ \A i \in 1..Len(queue[c]) : queue[c][i] = heard[c] + i
        /\ queue[c] \in Seq(1..Len(log))
    BY <1>1, HeardInLog, HeardOfQueue DEF FeedInv, FromStart
  <2>2. queue[c] = [i \in 1..Filled(c) |-> heard[c] + i]
    BY <2>1, LenProperties
  <2> QED
    BY <1>3, <2>1, <2>2 DEF FeedOf!Since, Filled
<1>5. DOMAIN Due = Streams /\ DOMAIN View = Streams
  BY DEF Due, View
<1>6. Due' = [d \in DOMAIN Due \cup {c} |-> IF d = c THEN FeedOf!Since(heard[c]) ELSE Due[d]]
  BY <1>1, <1>2, <1>4 DEF Due
<1>7. View' = [d \in DOMAIN View \cup {c} |-> IF d = c THEN list ELSE View[d]]
  BY <1>1, <1>2 DEF View
<1> QED
  BY <1>1, <1>2, <1>3, <1>4, <1>5, <1>6, <1>7 DEF FeedOf!Join

LEMMA ForwardHears ==
    ASSUME BusType, StreamType, FeedInv, NEW c \in Clients, Forward(c)
    PROVE  FeedOf!Hear(c)
<1> DEFINE n == Head(queue[c])
<1>1. /\ rpc[c] = "open" /\ queue[c] # << >> /\ c \in Streams
      /\ queue' = [queue EXCEPT ![c] = Tail(@)]
      /\ shownList' = IF log[n].kind = "list" THEN [shownList EXCEPT ![c] = log[n].list] ELSE shownList
      /\ UNCHANGED <<log, list, rpc, snapshot>>
  BY DEF Forward, streamRest, sessionVars, Streams
<1>2. Streams' = Streams /\ Streams \subseteq DOMAIN queue
  BY <1>1 DEF Streams, FeedInv, Subscribed
<1>3. n \in 1..Len(log)
  <2>1. queue[c] \in Seq(1..Len(log))
    BY <1>1, <1>2 DEF BusType
  <2> QED
    BY <1>1, <2>1, HeadTailProperties
<1>4. Published[n] = EventOf(log[n]) /\ Published' = Published
  BY <1>1, <1>3, PublishedLog DEF Published
<1>5. log[n].kind = "list" => log[n].list # Away
  <2>1. log[n] \in Events
    BY <1>3, ElementOfSeq DEF BusType
  <2> QED
    BY <2>1, AboutLists, ServerAssumption DEF Events, Lists
<1>6. /\ DOMAIN Due = Streams /\ Due[c] = queue[c]
      /\ DOMAIN View = Streams
  BY <1>1 DEF Due, View
<1>7. Due' = [Due EXCEPT ![c] = Tail(@)]
  BY <1>1, <1>2 DEF Due
<1>8. View' = IF Published[n] = Away THEN View ELSE [View EXCEPT ![c] = Published[n]]
  <2>1. CASE log[n].kind = "list"
    <3>1. Published[n] = log[n].list /\ Published[n] # Away
      BY <1>4, <1>5, <2>1 DEF EventOf
    <3>2. shownList'[c] = log[n].list /\ \A d \in Streams \ {c} : shownList'[d] = shownList[d]
      BY <1>1, <2>1 DEF StreamType, Streams
    <3>3. \A d \in Streams : (IF rpc[d] = "listed" THEN snapshot[d] ELSE shownList'[d]) =
                                IF d = c THEN log[n].list ELSE View[d]
      BY <1>1, <3>2 DEF View
    <3>4. View' = [d \in Streams |-> IF rpc[d] = "listed" THEN snapshot[d] ELSE shownList'[d]]
      BY <1>1, <1>2 DEF View
    <3>5. View' = [View EXCEPT ![c] = log[n].list]
      BY <1>6, <3>3, <3>4
    <3> QED
      BY <3>1, <3>5
  <2>2. CASE log[n].kind # "list"
    BY <1>1, <1>2, <1>4, <2>2 DEF View, EventOf
  <2> QED
    BY <2>1, <2>2
<1> QED
  BY <1>1, <1>4, <1>6, <1>7, <1>8 DEF FeedOf!Hear

\* A client that has joined and goes away leaves.
LEMMA LeavingLeaves ==
    ASSUME NEW c \in Clients, c \in Streams, Streams' = Streams \ {c},
           UNCHANGED <<log, list, queue>>,
           \A d \in Streams \ {c} : rpc'[d] = rpc[d] /\ snapshot'[d] = snapshot[d]
                                    /\ shownList'[d] = shownList[d]
    PROVE  FeedOf!Leave(c)
<1>1. Published' = Published
  BY DEF Published
<1>2. DOMAIN Due = Streams /\ DOMAIN View = Streams
  BY DEF Due, View
<1>3. Due' = [d \in DOMAIN Due \ {c} |-> Due[d]] /\ View' = [d \in DOMAIN View \ {c} |-> View[d]]
  BY <1>2 DEF Due, View
<1> QED
  BY <1>1, <1>2, <1>3 DEF FeedOf!Leave

LEMMA SessionFeeds ==
    ASSUME BusType, StreamType, StreamType', FeedInv, ListsKnown, SessionStep
    PROVE  FeedOf!Change \/ FeedOf!Publish \/ UNCHANGED FeedOf!feedVars
<1>0. UNCHANGED <<about, heard, rpc, snapshot, shownList>> /\ Streams' = Streams
  BY DEF SessionStep, ListChanges, OpenChat, LoopHangs, ReadScreen, ReadList, SetChats,
         NewScreen, sessionRest, Streams
<1>1. CASE ListChanges
  BY <1>0, <1>1 DEF ListChanges, FeedOf!Change, Published, Due, View
<1>2. CASE \E p \in Publishers : SetChats(p)
  <2>1. PICK p \in Publishers : SetChats(p)
    BY <1>2
  <2>2. List(held[p]) \in Events /\ List(held[p]).list = held[p]
    BY <2>1 DEF SetChats, List, Events, StreamType
  <2>3. held[p] <= list /\ Send(List(held[p])) /\ list' = list
    BY <2>1 DEF SetChats, ListsKnown
  <2> QED
    BY <1>0, <2>2, <2>3, SendPublishes
<1>3. CASE \E g \in {Loop, Handlers} : NewScreen(g)
  <2>1. PICK g \in {Loop, Handlers} : NewScreen(g)
    BY <1>3
  <2>2. Screen(screens[g]) \in Events /\ Screen(screens[g]).kind # "list"
    BY <2>1, AboutLists DEF NewScreen, Screen, Events, StreamType, Lists
  <2>3. Send(Screen(screens[g])) /\ list' = list
    BY <2>1 DEF NewScreen
  <2> QED
    BY <1>0, <2>2, <2>3, SendPublishes
<1>4. CASE OpenChat \/ LoopHangs \/ ReadScreen \/ \E p \in Publishers : ReadList(p)
  <2>1. UNCHANGED <<list, log, queue>>
    BY <1>4 DEF OpenChat, LoopHangs, ReadScreen, ReadList
  <2> QED
    BY <1>0, <2>1, FeedStutters
<1> QED
  BY <1>1, <1>2, <1>3, <1>4 DEF SessionStep

LEMMA StreamFeeds ==
    ASSUME BusType, StreamType, FeedInv, NEW c \in Clients, StreamStep(c) \/ ClientStep(c)
    PROVE  FeedOf!Join(c) \/ FeedOf!Hear(c) \/ FeedOf!Leave(c) \/ UNCHANGED FeedOf!feedVars
<1>1. CASE StreamLists(c)
  BY <1>1, ListingJoins
<1>2. CASE Forward(c)
  BY <1>2, ForwardHears
<1>3. CASE ClientLeaves(c)
  <2>1. /\ rpc' = [rpc EXCEPT ![c] = "gone"] /\ shownList' = [shownList EXCEPT ![c] = 0]
        /\ UNCHANGED <<log, list, queue, snapshot>>
    BY <1>3 DEF ClientLeaves, streamRest, sessionVars
  <2>2. /\ Streams' = Streams \ {c}
        /\ \A d \in Streams \ {c} : rpc'[d] = rpc[d] /\ shownList'[d] = shownList[d]
    BY <2>1 DEF Streams, StreamType
  <2>3. CASE c \in Streams
    BY <2>1, <2>2, <2>3, LeavingLeaves
  <2>4. CASE c \notin Streams
    BY <2>1, <2>2, <2>4, FeedStutters
  <2> QED
    BY <2>3, <2>4
<1>4. CASE StreamGreets(c)
  <2>1. /\ rpc[c] = "listed" /\ rpc' = [rpc EXCEPT ![c] = "open"]
        /\ shownList' = [shownList EXCEPT ![c] = snapshot[c]]
        /\ UNCHANGED <<log, list, queue, snapshot>>
    BY <1>4 DEF StreamGreets, streamRest, sessionVars
  <2>2. Streams' = Streams
    BY <2>1 DEF Streams, StreamType
  <2>3. Published' = Published /\ Due' = Due
    BY <2>1, <2>2 DEF Published, Due
  <2>4. View' = View
    BY <2>1, <2>2 DEF View, Streams, StreamType
  <2> QED
    BY <2>1, <2>3, <2>4 DEF FeedOf!feedVars
<1>5. CASE \/ StreamSubscribes(c) \/ StreamReceives(c) \/ StreamPasses(c) \/ StreamReturns(c)
           \/ Connect(c) \/ Select(c)
  <2>1. /\ UNCHANGED <<log, list>> /\ Streams' = Streams
        /\ \A d \in Streams : /\ rpc'[d] = rpc[d] /\ snapshot'[d] = snapshot[d]
                              /\ shownList'[d] = shownList[d]
    BY <1>5 DEF StreamSubscribes, StreamReceives, StreamPasses, StreamReturns, Connect, Select,
         streamRest, sessionVars, Streams, StreamType
  <2>2. \A d \in Streams : queue'[d] = queue[d]
    <3>1. \A d \in Streams : d \in DOMAIN queue
      BY DEF FeedInv, Subscribed, Streams
    <3>2. ASSUME StreamSubscribes(c) \/ StreamReturns(c) PROVE c \notin Streams
      BY <3>2 DEF StreamSubscribes, StreamReturns, Streams
    <3> QED
      BY <1>5, <3>1, <3>2 DEF StreamSubscribes, Subscribe, StreamReceives, StreamPasses,
           StreamReturns, Unsubscribe, Connect, Select
  <2> QED
    BY <2>1, <2>2, FeedStutters
<1> QED
  BY <1>1, <1>2, <1>3, <1>4, <1>5 DEF StreamStep, ClientStep

LEMMA InitFeeds == Init => FeedOf!Init
<1> SUFFICES ASSUME Init PROVE FeedOf!Init
  OBVIOUS
<1>1. list = 0 /\ Streams = {} /\ 1..Len(log) = {}
  BY EmptySeq DEF Init, Streams
<1>2. Published = << >> /\ Due = << >> /\ View = << >>
  BY <1>1, EmptySeq DEF Published, Due, View
<1> QED
  BY <1>1, <1>2 DEF FeedOf!Init

LEMMA NextFeeds ==
    ASSUME DeliveryInv, [Next]_vars
    PROVE  [FeedOf!Next]_(FeedOf!feedVars)
<1>0. BusType /\ StreamType /\ StreamType' /\ FeedInv /\ ListsKnown
  BY NextInd, TypeParts, TypePartsNext DEF DeliveryInv, IndInv, ListInv
<1>1. ASSUME SessionStep PROVE [FeedOf!Next]_(FeedOf!feedVars)
  BY <1>0, <1>1, SessionFeeds DEF FeedOf!Next
<1>2. ASSUME NEW c \in Clients, StreamStep(c) \/ ClientStep(c)
      PROVE  [FeedOf!Next]_(FeedOf!feedVars)
  BY <1>0, <1>2, StreamFeeds DEF FeedOf!Next
<1>3. ASSUME UNCHANGED <<list, log, queue, rpc, snapshot, shownList>>
      PROVE  UNCHANGED FeedOf!feedVars
  BY <1>3, FeedStutters DEF Streams
<1>4. ASSUME NEW l \in Logins, LoginBegins(l) \/ LoginStep(l) \/ LoginClientLeaves(l)
      PROVE  UNCHANGED <<list, log, queue, rpc, snapshot, shownList>>
  BY <1>4 DEF LoginBegins, LoginStep, LoginAsks, LoginForwards, LoginReturns,
       LoginClientLeaves, loginRest, streamVars, sessionVars
<1>5. ASSUME LoopStep \/ QRCode \/ LoginEnds \/ LoginFails
      PROVE  UNCHANGED <<list, log, queue, rpc, snapshot, shownList>>
  BY <1>5 DEF LoopStep, LoopLogsIn, LoopSends, QRCode, LoginEnds, LoginFails, loginRest,
       streamVars, sessionVars
<1>6. ASSUME UNCHANGED vars PROVE UNCHANGED <<list, log, queue, rpc, snapshot, shownList>>
  BY <1>6 DEF vars, streamVars, sessionVars
<1> QED
  BY <1>1, <1>2, <1>3, <1>4, <1>5, <1>6 DEF Next

\* Broadcaster.Send, Subscribe and Unsubscribe and the goroutines of EventStream implement
\* the feed: a client gets the chat list of one moment, and from the moment it subscribed,
\* which was before, every event in the order of publication and none twice, but for those
\* published while its buffer was full.
THEOREM FeedImplemented == Spec => FeedIsKept
<1>1. DeliveryInv /\ [Next]_vars => DeliveryInv' /\ [FeedOf!Next]_(FeedOf!feedVars)
  BY NextDelivery, NextFeeds
<1> QED
  BY <1>1, InitDelivery, InitFeeds, PTL DEF Spec, FeedIsKept, FeedOf!Spec

-----------------------------------------------------------------------------
(* What a client ends up with *)

\* A client with an empty buffer that lost nothing has got every event.
LEMMA DrainedGotAll ==
    ASSUME DeliveryInv, NEW c \in Clients, Drained(c)
    PROVE  rpc[c] = "open" /\ ~lost[c] /\ heard[c] = Len(log) /\ Len(log) \in Nat
<1>1. BusType /\ FeedInv /\ ListInv
  BY TypeParts DEF DeliveryInv, IndInv
<1>2. c \in DOMAIN queue /\ Len(log) \in Nat /\ heard[c] \in 0..Len(log)
  BY <1>1, HeardInLog DEF Drained
<1>3. Len(log) = heard[c] + Len(queue[c]) /\ Len(queue[c]) = 0
  BY <1>1, <1>2, EmptySeq DEF Drained, ListInv, Contiguous
<1> QED
  BY <1>2, <1>3 DEF Drained

LEMMA NothingMissedHolds == DeliveryInv => NothingMissed
<1> SUFFICES ASSUME DeliveryInv, NEW c \in Clients, Drained(c),
                    NEW n \in 1..Len(log), LastList(n)
             PROVE  shownList[c] >= log[n].list
  BY DEF NothingMissed
<1>1. rpc[c] = "open" /\ ~lost[c] /\ heard[c] = Len(log) /\ Len(log) \in Nat
  BY DrainedGotAll
<1>2. LastListHeard(c, n)
  BY <1>1 DEF LastList, LastListHeard
<1>3. log[n].list <= shownList[c]
  BY <1>1, <1>2 DEF DeliveryInv, ListInv, ListShown
<1>4. log[n].list \in Nat /\ shownList[c] \in Nat
  <2>1. BusType /\ StreamType
    BY TypeParts DEF DeliveryInv, IndInv
  <2>2. log \in Seq(Events) /\ log[n] \in Events
    BY <2>1, ElementOfSeq DEF BusType
  <2> QED
    BY <2>1, <2>2, AboutLists DEF StreamType, Events, Lists
<1> QED
  BY <1>3, <1>4

LEMMA LastScreenHolds == DeliveryInv => LastScreenWins
<1> SUFFICES ASSUME DeliveryInv, Quiet, receiver \notin Empty,
                    NEW c \in Clients, Drained(c), shownChat[c] # NoChat
             PROVE  \/ shownChat[c] = receiver
                    \/ \E n \in 1..Len(log) :
                          LastNamed(n) /\ log[n].late /\ shownChat[c] = log[n].chat
  BY DEF LastScreenWins
<1>1. rpc[c] = "open" /\ ~lost[c] /\ heard[c] = Len(log) /\ Len(log) \in Nat
  BY DrainedGotAll
<1>2. ~Coming(c)
  BY <1>1 DEF Quiet, Coming
<1>3. PICK n \in 1..Len(log) : LastNamedHeard(c, n) /\ log[n].chat = shownChat[c]
  BY <1>1, <1>2 DEF DeliveryInv, ScreenInv, ScreenShown
<1>4. LastNamed(n)
  BY <1>1, <1>3 DEF LastNamed, LastNamedHeard
<1>5. log[n].late \/ log[n].chat = receiver
  BY <1>4 DEF DeliveryInv, ScreenInv, ReceiverNamed, Quiet
<1> QED
  BY <1>3, <1>4, <1>5

\* EventStream subscribes a client before it takes the snapshot, and Broadcaster.Send puts
\* every event into every buffer that has room: a client for which nothing was dropped
\* shows no older list than the one published last.
THEOREM NothingIsMissed == Spec => []NothingMissed
BY InitDelivery, NextDelivery, NothingMissedHolds, PTL DEF Spec

\* select_chat shows a chat at once, and the session manager opens it and answers with its
\* screen (NewScreen): in the end a client shows the chat that is open, or none, unless the
\* last screen that names a chat is one that an event handler sent late, of the chat before.
\* Nothing is said of an open chat without messages.
THEOREM LastScreenIsShown == Spec => []LastScreenWins
BY InitDelivery, NextDelivery, LastScreenHolds, PTL DEF Spec

=============================================================================
