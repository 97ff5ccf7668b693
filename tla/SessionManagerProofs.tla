------------------------ MODULE SessionManagerProofs ------------------------
(***************************************************************************)
(* Theorems about SessionManager, for every set of chats, all capacities   *)
(* of the two channels, every repertoire of the user, and any number of    *)
(* clients: the type, that bursts of selections leave the right chat open, *)
(* and that a command about the open chat hits the chat it was meant for.  *)
(*                                                                         *)
(* The invariant behind the last two follows the queue: starting from the  *)
(* chat that is open, or about to be, it names the chat that will be open  *)
(* when each command gets its turn.  After the last command that is the    *)
(* chat on the screen.                                                     *)
(***************************************************************************)
EXTENDS SessionManager, FiniteSetTheorems, SequenceTheorems, TLAPS

ClientRecord == [up : BOOLEAN, own : BOOLEAN, retry : BOOLEAN]

ConnOK ==
    /\ paired \in BOOLEAN /\ userDisconnected \in BOOLEAN
    /\ clients \in Seq(ClientRecord)
    /\ Len(clients) <= MaxClients
    /\ client \in 0..Len(clients)

WatchOK == watch \in [at : {"asleep", "tell", "connect"}, client : 0..Len(clients)]

Places == {"start", "login", "connect", "qr", "send", "idle", "exec", "coalesce", "waiting",
           "gone", "crashed"}
LoopOK ==
    /\ at \in Places
    /\ doing \in Command
    /\ then \in {"idle", "load", "connect"}
    /\ currentReceiver \in Chats \cup {NoChat}

QueuesOK ==
    /\ status \in 0..StatusCap
    /\ commands \in Seq(Command) /\ Len(commands) <= CommandCap
    /\ posts \in 0..MaxPosts /\ loads \in 0..MaxPosts

UserOK ==
    /\ loaded \in BOOLEAN /\ shown \in BOOLEAN
    /\ repertoire \in Repertoires /\ screen \in Chats \cup {NoChat} /\ sent \in 0..repertoire.most

LEMMA TypeParts == TypeOK <=> ConnOK /\ WatchOK /\ LoopOK /\ QueuesOK /\ UserOK
<1>1. clients \in Seq(ClientRecord) => Clients \cup {0} = 0..Len(clients)
  BY LenProperties DEF Clients
<1> QED
  BY <1>1 DEF TypeOK, ConnOK, WatchOK, LoopOK, QueuesOK, UserOK, ClientRecord, Places

LEMMA TypeNext == TypeOK' <=> ConnOK' /\ WatchOK' /\ LoopOK' /\ QueuesOK' /\ UserOK'
BY TypeParts, PTL

-----------------------------------------------------------------------------
(* Clients *)

\* A change of some clients, none of which is new.
Changed(cs) == cs \in Seq(ClientRecord) /\ Len(cs) = Len(clients)

LEMMA ClientChanges ==
    ASSUME ConnOK, NEW c \in 0..Len(clients)
    PROVE  Changed(Down(c)) /\ Changed(Up(c)) /\ Changed(Forgotten(c)) /\ Changed(clients)
<1>1. clients \in [1..Len(clients) -> ClientRecord] /\ Len(clients) \in Nat
  BY LenProperties DEF ConnOK
<1>2. \A f \in [1..Len(clients) -> ClientRecord] : f \in Seq(ClientRecord) /\ Len(f) = Len(clients)
  BY <1>1, SeqDef, LenProperties
<1>3. Down(c) \in [1..Len(clients) -> ClientRecord]
  BY <1>1 DEF Down, ClientRecord
<1>4. Up(c) \in [1..Len(clients) -> ClientRecord]
  BY <1>1 DEF Up, ClientRecord
<1>5. Forgotten(c) \in [1..Len(clients) -> ClientRecord]
  BY <1>1 DEF Forgotten, ClientRecord
<1> QED
  BY <1>1, <1>2, <1>3, <1>4, <1>5 DEF Changed

LEMMA DropChange ==
    ASSUME ConnOK, NEW c \in Clients
    PROVE  Changed([clients EXCEPT ![c].up = FALSE, ![c].retry = clients[c].own])
<1>1. clients \in [1..Len(clients) -> ClientRecord] /\ Len(clients) \in Nat
  BY LenProperties DEF ConnOK
<1>2. \A f \in [1..Len(clients) -> ClientRecord] : f \in Seq(ClientRecord) /\ Len(f) = Len(clients)
  BY <1>1, SeqDef, LenProperties
<1>3. clients[c].own \in BOOLEAN
  BY <1>1 DEF Clients, ClientRecord
<1>4. [clients EXCEPT ![c].up = FALSE, ![c].retry = clients[c].own]
        \in [1..Len(clients) -> ClientRecord]
  BY <1>1, <1>3 DEF ClientRecord
<1> QED
  BY <1>2, <1>4 DEF Changed

LEMMA OwnChange ==
    ASSUME ConnOK, NEW c \in 0..Len(clients)
    PROVE  Changed([clients EXCEPT ![c].own = TRUE])
<1>1. clients \in [1..Len(clients) -> ClientRecord] /\ Len(clients) \in Nat
  BY LenProperties DEF ConnOK
<1>2. \A f \in [1..Len(clients) -> ClientRecord] : f \in Seq(ClientRecord) /\ Len(f) = Len(clients)
  BY <1>1, SeqDef, LenProperties
<1>3. [clients EXCEPT ![c].own = TRUE] \in [1..Len(clients) -> ClientRecord]
  BY <1>1 DEF ClientRecord
<1> QED
  BY <1>2, <1>3 DEF Changed

LEMMA ChangedOK ==
    ASSUME ConnOK, WatchOK, Changed(clients'), paired' \in BOOLEAN, userDisconnected' \in BOOLEAN,
           client' \in {client, 0}, UNCHANGED watch
    PROVE  ConnOK' /\ WatchOK'
BY LenProperties DEF ConnOK, WatchOK, Changed, ClientRecord

LEMMA MakeClientOK ==
    ASSUME ConnOK, WatchOK, NEW cs, Changed(cs), MakeClient(cs), paired' \in BOOLEAN,
           userDisconnected' \in BOOLEAN, UNCHANGED watch
    PROVE  ConnOK' /\ WatchOK'
<1>1. [up |-> FALSE, own |-> paired', retry |-> FALSE] \in ClientRecord
  BY DEF ClientRecord
<1>2. /\ clients' \in Seq(ClientRecord) /\ Len(clients') = Len(cs) + 1
      /\ Len(cs) < MaxClients /\ client' = Len(cs) + 1 /\ Len(cs) \in Nat /\ MaxClients \in Nat
  BY <1>1, AppendProperties, LenProperties, SessionAssumption DEF MakeClient, Changed
<1> QED
  BY <1>2 DEF ConnOK, WatchOK, Changed, ClientRecord

LEMMA AnotherType == ASSUME NEW n \in 0..MaxPosts PROVE Another(n) \in 0..MaxPosts
<1>1. n + 1 \in Nat /\ MaxPosts \in Nat
  BY SessionAssumption
<1>2. \E x \in {n + 1, MaxPosts} : \A y \in {n + 1, MaxPosts} : x <= y
  BY <1>1
<1>3. Another(n) \in {n + 1, MaxPosts} /\ \A y \in {n + 1, MaxPosts} : Another(n) <= y
  BY <1>2 DEF Another, Min
<1> QED
  BY <1>1, <1>3

-----------------------------------------------------------------------------
(* The type, action by action *)

LEMMA IdleType == Idle \in Command
BY DEF Idle, Command, Names, Intents

LEMMA UserMessages ==
    ASSUME UserOK, UserSends
    PROVE  /\ screen' \in Chats \cup {NoChat}
           /\ \E m \in Command :
                /\ commands' = Append(commands, m)
                /\ m.name = "select" => screen' = m.chat
                /\ m.name # "select" => screen' = screen
                /\ m.name = "read" => m.chat = screen
<1>1. PICK n \in repertoire.commands :
         \/ /\ n = "select"
            /\ \E c \in Chats, i \in Intents :
                 /\ screen' = c
                 /\ commands' = Append(commands, [name |-> n, chat |-> c, intent |-> i])
         \/ /\ n # "select"
            /\ screen' = screen
            /\ commands' = Append(commands, [name |-> n, intent |-> "probe",
                                             chat |-> IF n = "read" THEN screen ELSE NoChat])
  BY DEF UserSends
<1>2. CASE n = "select"
  <2>1. PICK c \in Chats, i \in Intents :
           /\ screen' = c
           /\ commands' = Append(commands, [name |-> n, chat |-> c, intent |-> i])
    BY <1>1, <1>2
  <2>2. [name |-> n, chat |-> c, intent |-> i] \in Command
    BY <1>2 DEF Command, Names
  <2> QED
    BY <1>2, <2>1, <2>2
<1>3. CASE n # "select"
  <2> DEFINE m == [name |-> n, intent |-> "probe", chat |-> IF n = "read" THEN screen ELSE NoChat]
  <2>1. n \in Names
    BY SessionAssumption DEF UserOK
  <2>2. m \in Command /\ m.name = n /\ (n = "read" => m.chat = screen)
    BY <2>1 DEF Command, Intents, UserOK
  <2>3. commands' = Append(commands, m) /\ screen' = screen
    BY <1>1, <1>3
  <2> QED
    BY <1>3, <2>2, <2>3 DEF UserOK
<1> QED
  BY <1>2, <1>3

LEMMA PostStatusType == ASSUME TypeOK, PostStatus PROVE TypeOK'
<1>0. ConnOK /\ WatchOK /\ LoopOK /\ QueuesOK /\ UserOK
  BY TypeParts
<1>1. ConnOK' /\ WatchOK'
  BY <1>0 DEF PostStatus, ConnOK, WatchOK, connVars, loopRest
<1>2. LoopOK'
  BY <1>0 DEF PostStatus, LoopOK, Places, loopVars
<1>3. QueuesOK'
  BY <1>0, SessionAssumption DEF PostStatus, QueuesOK, loopRest
<1>4. UserOK'
  BY <1>0 DEF PostStatus, UserOK, loopRest, userVars
<1> QED
  BY <1>1, <1>2, <1>3, <1>4, TypeNext

LEMMA LoadType == ASSUME TypeOK, Load PROVE TypeOK'
<1>0. ConnOK /\ WatchOK /\ LoopOK /\ QueuesOK /\ UserOK
  BY TypeParts
<1>1. ConnOK' /\ WatchOK'
  BY <1>0 DEF Load, ConnOK, WatchOK, connVars, loopRest
<1>2. LoopOK'
  BY <1>0 DEF Load, LoopOK, Places, loopVars
<1>3. QueuesOK'
  BY <1>0, SessionAssumption DEF Load, QueuesOK, loopRest
<1>4. UserOK'
  BY <1>0 DEF Load, UserOK, loopRest, userVars
<1> QED
  BY <1>1, <1>2, <1>3, <1>4, TypeNext

LEMMA SendStatusType == ASSUME TypeOK, SendStatus PROVE TypeOK'
<1>0. ConnOK /\ WatchOK /\ LoopOK /\ QueuesOK /\ UserOK
  BY TypeParts
<1>1. ConnOK' /\ WatchOK'
  BY <1>0 DEF SendStatus, ConnOK, WatchOK, connVars, loopRest
<1>2. LoopOK'
  BY <1>0 DEF SendStatus, LoopOK, Places, loopVars
<1>3. QueuesOK'
  BY <1>0, AnotherType, SessionAssumption DEF SendStatus, QueuesOK, loopRest
<1>4. UserOK'
  BY <1>0 DEF SendStatus, UserOK, loopRest, userVars
<1> QED
  BY <1>1, <1>2, <1>3, <1>4, TypeNext

LEMMA TakeStatusType == ASSUME TypeOK, TakeStatus PROVE TypeOK'
<1>0. ConnOK /\ WatchOK /\ LoopOK /\ QueuesOK /\ UserOK
  BY TypeParts
<1>1. ConnOK' /\ WatchOK'
  BY <1>0 DEF TakeStatus, ConnOK, WatchOK, connVars, loopRest
<1>2. LoopOK'
  BY <1>0 DEF TakeStatus, LoopOK, Places, loopVars
<1>3. QueuesOK'
  BY <1>0, SessionAssumption DEF TakeStatus, QueuesOK, loopRest
<1>4. UserOK'
  BY <1>0 DEF TakeStatus, UserOK, loopRest, userVars, Connected
<1> QED
  BY <1>1, <1>2, <1>3, <1>4, TypeNext

LEMMA WaitEndsType == ASSUME TypeOK, WaitEnds PROVE TypeOK'
<1>0. ConnOK /\ WatchOK /\ LoopOK /\ QueuesOK /\ UserOK
  BY TypeParts
<1>1. ConnOK' /\ WatchOK'
  BY <1>0 DEF WaitEnds, ConnOK, WatchOK, connVars, loopRest
<1>2. LoopOK'
  BY <1>0 DEF WaitEnds, LoopOK, Places, loopVars
<1>3. QueuesOK'
  BY <1>0 DEF WaitEnds, QueuesOK, loopRest
<1>4. UserOK'
  BY <1>0 DEF WaitEnds, UserOK, loopRest, userVars
<1> QED
  BY <1>1, <1>2, <1>3, <1>4, TypeNext

LEMMA ReadCommandType == ASSUME TypeOK, ReadCommand PROVE TypeOK'
<1>0. ConnOK /\ WatchOK /\ LoopOK /\ QueuesOK /\ UserOK
  BY TypeParts
<1>1. ConnOK' /\ WatchOK'
  BY <1>0 DEF ReadCommand, Executes, ConnOK, WatchOK, connVars, loopRest
<1>2. LoopOK'
  BY <1>0, IdleType DEF ReadCommand, Executes, LoopOK, Places, loopVars
<1>3. QueuesOK'
  BY <1>0 DEF ReadCommand, Executes, QueuesOK, loopRest
<1>4. UserOK'
  BY <1>0 DEF ReadCommand, Executes, UserOK, loopRest, userVars
<1> QED
  BY <1>1, <1>2, <1>3, <1>4, TypeNext

LEMMA WaitsType == ASSUME TypeOK, NEW name, NEW allowed, Waits(name, allowed) PROVE TypeOK'
<1>0. ConnOK /\ WatchOK /\ LoopOK /\ QueuesOK /\ UserOK
  BY TypeParts
<1>1. ConnOK' /\ WatchOK'
  BY <1>0 DEF Waits, Executes, ConnOK, WatchOK, connVars, loopRest
<1>2. LoopOK'
  BY <1>0, IdleType DEF Waits, Executes, LoopOK, Places, loopVars
<1>3. QueuesOK'
  BY <1>0 DEF Waits, Executes, QueuesOK, loopRest
<1>4. UserOK'
  BY <1>0 DEF Waits, Executes, UserOK, loopRest, userVars
<1> QED
  BY <1>1, <1>2, <1>3, <1>4, TypeNext

LEMMA WithoutAnchorType == ASSUME TypeOK, WithoutAnchor PROVE TypeOK'
<1>0. ConnOK /\ WatchOK /\ LoopOK /\ QueuesOK /\ UserOK
  BY TypeParts
<1>1. ConnOK' /\ WatchOK'
  BY <1>0 DEF WithoutAnchor, Executes, ConnOK, WatchOK, connVars, loopRest
<1>2. LoopOK'
  BY <1>0, IdleType DEF WithoutAnchor, Executes, LoopOK, Places, loopVars
<1>3. QueuesOK'
  BY <1>0 DEF WithoutAnchor, Executes, QueuesOK, loopRest
<1>4. UserOK'
  BY <1>0 DEF WithoutAnchor, Executes, UserOK, loopRest, userVars
<1> QED
  BY <1>1, <1>2, <1>3, <1>4, TypeNext

LEMMA UnguardedType == ASSUME TypeOK, NEW name, Unguarded(name) PROVE TypeOK'
<1>0. ConnOK /\ WatchOK /\ LoopOK /\ QueuesOK /\ UserOK
  BY TypeParts
<1>1. ConnOK' /\ WatchOK'
  BY <1>0 DEF Unguarded, Executes, ConnOK, WatchOK, connVars, loopRest
<1>2. LoopOK'
  BY <1>0, IdleType DEF Unguarded, Executes, LoopOK, Places, loopVars
<1>3. QueuesOK'
  BY <1>0 DEF Unguarded, Executes, QueuesOK, loopRest
<1>4. UserOK'
  BY <1>0 DEF Unguarded, Executes, UserOK, loopRest, userVars
<1> QED
  BY <1>1, <1>2, <1>3, <1>4, TypeNext

LEMMA TakeCommandType == ASSUME TypeOK, TakeCommand PROVE TypeOK'
<1>0. ConnOK /\ WatchOK /\ LoopOK /\ QueuesOK /\ UserOK
  BY TypeParts
<1>1. ConnOK' /\ WatchOK'
  BY <1>0 DEF TakeCommand, ConnOK, WatchOK, connVars, loopRest
<1>2. LoopOK'
  <2>1. Head(commands) \in Command
    BY <1>0, HeadTailProperties DEF QueuesOK, TakeCommand
  <2> QED
    BY <1>0, <2>1 DEF TakeCommand, LoopOK, Places, Command, Intents
<1>3. QueuesOK'
  <2>1. Tail(commands) \in Seq(Command) /\ Len(Tail(commands)) = Len(commands) - 1
    BY <1>0, HeadTailProperties DEF QueuesOK, TakeCommand
  <2>2. Len(commands) \in Nat /\ CommandCap \in Nat
    BY <1>0, LenProperties, SessionAssumption DEF QueuesOK
  <2> QED
    BY <1>0, <2>1, <2>2 DEF TakeCommand, QueuesOK, loopRest
<1>4. UserOK'
  BY <1>0 DEF TakeCommand, UserOK, loopRest, userVars
<1> QED
  BY <1>1, <1>2, <1>3, <1>4, TypeNext

LEMMA CoalesceNextType == ASSUME TypeOK, CoalesceNext PROVE TypeOK'
<1>0. ConnOK /\ WatchOK /\ LoopOK /\ QueuesOK /\ UserOK
  BY TypeParts
<1>1. ConnOK' /\ WatchOK'
  BY <1>0 DEF CoalesceNext, ConnOK, WatchOK, connVars, loopRest
<1>2. LoopOK'
  <2>1. Head(commands) \in Command
    BY <1>0, HeadTailProperties DEF QueuesOK, CoalesceNext
  <2> QED
    BY <1>0, <2>1 DEF CoalesceNext, LoopOK, Places, Command, Intents, Over
<1>3. QueuesOK'
  <2>1. Tail(commands) \in Seq(Command) /\ Len(Tail(commands)) = Len(commands) - 1
    BY <1>0, HeadTailProperties DEF QueuesOK, CoalesceNext
  <2>2. Len(commands) \in Nat /\ CommandCap \in Nat
    BY <1>0, LenProperties, SessionAssumption DEF QueuesOK
  <2> QED
    BY <1>0, <2>1, <2>2 DEF CoalesceNext, QueuesOK, loopRest
<1>4. UserOK'
  BY <1>0 DEF CoalesceNext, UserOK, loopRest, userVars
<1> QED
  BY <1>1, <1>2, <1>3, <1>4, TypeNext

LEMMA CoalesceOtherType == ASSUME TypeOK, CoalesceOther PROVE TypeOK'
<1>0. ConnOK /\ WatchOK /\ LoopOK /\ QueuesOK /\ UserOK
  BY TypeParts
<1>1. ConnOK' /\ WatchOK'
  BY <1>0 DEF CoalesceOther, ConnOK, WatchOK, connVars, loopRest
<1>2. LoopOK'
  <2>1. Head(commands) \in Command
    BY <1>0, HeadTailProperties DEF QueuesOK, CoalesceOther
  <2> QED
    BY <1>0, <2>1 DEF CoalesceOther, LoopOK, Places, Command, Intents
<1>3. QueuesOK'
  <2>1. Tail(commands) \in Seq(Command) /\ Len(Tail(commands)) = Len(commands) - 1
    BY <1>0, HeadTailProperties DEF QueuesOK, CoalesceOther
  <2>2. Len(commands) \in Nat /\ CommandCap \in Nat
    BY <1>0, LenProperties, SessionAssumption DEF QueuesOK
  <2> QED
    BY <1>0, <2>1, <2>2 DEF CoalesceOther, QueuesOK, loopRest
<1>4. UserOK'
  BY <1>0 DEF CoalesceOther, UserOK, loopRest, userVars
<1> QED
  BY <1>1, <1>2, <1>3, <1>4, TypeNext

LEMMA CoalesceDoneType == ASSUME TypeOK, CoalesceDone PROVE TypeOK'
<1>0. ConnOK /\ WatchOK /\ LoopOK /\ QueuesOK /\ UserOK
  BY TypeParts
<1>1. ConnOK' /\ WatchOK'
  BY <1>0 DEF CoalesceDone, ConnOK, WatchOK, connVars, loopRest
<1>2. LoopOK'
  BY <1>0, IdleType DEF CoalesceDone, LoopOK, Places, loopVars, Command
<1>3. QueuesOK'
  BY <1>0 DEF CoalesceDone, QueuesOK, loopRest
<1>4. UserOK'
  BY <1>0 DEF CoalesceDone, UserOK, loopRest, userVars
<1> QED
  BY <1>1, <1>2, <1>3, <1>4, TypeNext

LEMMA UserSendsType == ASSUME TypeOK, UserSends PROVE TypeOK'
<1>0. ConnOK /\ WatchOK /\ LoopOK /\ QueuesOK /\ UserOK
  BY TypeParts
<1>1. ConnOK' /\ WatchOK'
  BY <1>0 DEF UserSends, ConnOK, WatchOK, connVars, loopRest
<1>2. LoopOK'
  BY <1>0 DEF UserSends, LoopOK, Places, loopVars
<1>3. QueuesOK'
  <2>1. ASSUME NEW m \in Command, commands' = Append(commands, m), Len(commands) < CommandCap
        PROVE  commands' \in Seq(Command) /\ Len(commands') <= CommandCap
    BY <1>0, <2>1, AppendProperties, LenProperties, SessionAssumption DEF QueuesOK
  <2>2. \E m \in Command : commands' = Append(commands, m)
    BY <1>0, UserMessages
  <2> QED
    BY <1>0, <2>1, <2>2 DEF UserSends, QueuesOK
<1>4. UserOK'
  <2>1. screen' \in Chats \cup {NoChat}
    BY <1>0, UserMessages
  <2>2. sent' \in 0..repertoire.most
    BY <1>0, SessionAssumption DEF UserSends, UserOK
  <2> QED
    BY <1>0, <2>1, <2>2 DEF UserSends, UserOK
<1> QED
  BY <1>1, <1>2, <1>3, <1>4, TypeNext

LEMMA TickType == ASSUME TypeOK, Tick PROVE TypeOK'
<1>0. ConnOK /\ WatchOK /\ LoopOK /\ QueuesOK /\ UserOK
  BY TypeParts
<1>1. ConnOK' /\ WatchOK'
  <2>1. [at |-> "tell", client |-> client]
          \in [at : {"asleep", "tell", "connect"}, client : 0..Len(clients)]
    BY <1>0 DEF ConnOK, WatchOK
  <2> QED
    BY <1>0, <2>1 DEF Tick, ConnOK, WatchOK, connVars
<1>2. LoopOK'
  BY <1>0 DEF Tick, LoopOK, Places, loopVars
<1>3. QueuesOK'
  BY <1>0 DEF Tick, QueuesOK, loopRest
<1>4. UserOK'
  BY <1>0 DEF Tick, UserOK, loopRest, userVars
<1> QED
  BY <1>1, <1>2, <1>3, <1>4, TypeNext

LEMMA WatchTellsType == ASSUME TypeOK, WatchTells PROVE TypeOK'
<1>0. ConnOK /\ WatchOK /\ LoopOK /\ QueuesOK /\ UserOK
  BY TypeParts
<1>1. ConnOK' /\ WatchOK'
  <2>1. [watch EXCEPT !.at = "connect"]
          \in [at : {"asleep", "tell", "connect"}, client : 0..Len(clients)]
    BY <1>0 DEF ConnOK, WatchOK
  <2> QED
    BY <1>0, <2>1 DEF WatchTells, ConnOK, WatchOK, connVars
<1>2. LoopOK'
  BY <1>0 DEF WatchTells, LoopOK, Places, loopVars
<1>3. QueuesOK'
  BY <1>0, SessionAssumption DEF WatchTells, QueuesOK, loopRest
<1>4. UserOK'
  BY <1>0 DEF WatchTells, UserOK, loopRest, userVars
<1> QED
  BY <1>1, <1>2, <1>3, <1>4, TypeNext

LEMMA WatchConnectsType == ASSUME TypeOK, WatchConnects PROVE TypeOK'
<1>0. ConnOK /\ WatchOK /\ LoopOK /\ QueuesOK /\ UserOK
  BY TypeParts
<1>1. ConnOK' /\ WatchOK'
  <2>1. watch.client \in 0..Len(clients) /\ 0 \in 0..Len(clients)
    BY <1>0, LenProperties DEF WatchOK, ConnOK
  <2>2. Changed(clients')
    BY <1>0, <2>1, ClientChanges DEF WatchConnects
  <2>3. ConnOK'
    BY <1>0, <2>2 DEF WatchConnects, ConnOK, Changed
  <2>4. [at |-> "asleep", client |-> 0] \in
            [at : {"asleep", "tell", "connect"}, client : 0..Len(clients')]
    BY <1>0, <2>1, <2>2 DEF Changed
  <2> QED
    BY <2>3, <2>4 DEF WatchConnects, WatchOK
<1>2. LoopOK'
  BY <1>0 DEF WatchConnects, LoopOK, Places, loopVars
<1>3. QueuesOK'
  BY <1>0, AnotherType DEF WatchConnects, QueuesOK, loopRest
<1>4. UserOK'
  BY <1>0 DEF WatchConnects, UserOK, loopRest, userVars
<1> QED
  BY <1>1, <1>2, <1>3, <1>4, TypeNext

LEMMA ShowQRType == ASSUME TypeOK, ShowQR PROVE TypeOK'
<1>0. ConnOK /\ WatchOK /\ LoopOK /\ QueuesOK /\ UserOK
  BY TypeParts
<1>1. ConnOK' /\ WatchOK'
  <2>1. client \in 0..Len(clients)
    BY <1>0 DEF ConnOK
  <2>2. Changed(clients')
    BY <1>0, <2>1, ClientChanges DEF ShowQR
  <2>3. paired' \in BOOLEAN /\ userDisconnected' \in BOOLEAN /\ client' \in {client, 0}
    BY <1>0 DEF ShowQR, ConnOK
  <2> QED
    BY <1>0, <2>2, <2>3, ChangedOK DEF ShowQR
<1>2. LoopOK'
  BY <1>0 DEF ShowQR, LoopOK, Places, loopVars
<1>3. QueuesOK'
  BY <1>0 DEF ShowQR, QueuesOK, loopRest
<1>4. UserOK'
  BY <1>0 DEF ShowQR, UserOK, loopRest, userVars
<1> QED
  BY <1>1, <1>2, <1>3, <1>4, TypeNext

LEMMA QRTimeoutType == ASSUME TypeOK, QRTimeout PROVE TypeOK'
<1>0. ConnOK /\ WatchOK /\ LoopOK /\ QueuesOK /\ UserOK
  BY TypeParts
<1>1. ConnOK' /\ WatchOK'
  <2>1. client \in 0..Len(clients)
    BY <1>0 DEF ConnOK
  <2>2. Changed(clients')
    BY <1>0, <2>1, ClientChanges DEF QRTimeout
  <2>3. paired' \in BOOLEAN /\ userDisconnected' \in BOOLEAN /\ client' \in {client, 0}
    BY <1>0 DEF QRTimeout, ConnOK
  <2> QED
    BY <1>0, <2>2, <2>3, ChangedOK DEF QRTimeout
<1>2. LoopOK'
  BY <1>0 DEF QRTimeout, LoopOK, Places, loopVars
<1>3. QueuesOK'
  BY <1>0 DEF QRTimeout, QueuesOK, loopRest
<1>4. UserOK'
  BY <1>0 DEF QRTimeout, UserOK, loopRest, userVars
<1> QED
  BY <1>1, <1>2, <1>3, <1>4, TypeNext

LEMMA QRSuccessType == ASSUME TypeOK, QRSuccess PROVE TypeOK'
<1>0. ConnOK /\ WatchOK /\ LoopOK /\ QueuesOK /\ UserOK
  BY TypeParts
<1>1. ConnOK' /\ WatchOK'
  <2>1. client \in 0..Len(clients)
    BY <1>0 DEF ConnOK
  <2>2. Changed(clients')
    BY <1>0, <2>1, OwnChange DEF QRSuccess
  <2>3. paired' \in BOOLEAN /\ userDisconnected' \in BOOLEAN /\ client' \in {client, 0}
    BY <1>0 DEF QRSuccess, ConnOK
  <2> QED
    BY <1>0, <2>2, <2>3, ChangedOK DEF QRSuccess
<1>2. LoopOK'
  BY <1>0 DEF QRSuccess, SendThen, LoopOK, Places, loopVars
<1>3. QueuesOK'
  BY <1>0, AnotherType DEF QRSuccess, SendThen, QueuesOK, loopRest
<1>4. UserOK'
  BY <1>0 DEF QRSuccess, SendThen, UserOK, loopRest, userVars
<1> QED
  BY <1>1, <1>2, <1>3, <1>4, TypeNext

LEMMA StartType == ASSUME TypeOK, Start PROVE TypeOK'
<1>0. ConnOK /\ WatchOK /\ LoopOK /\ QueuesOK /\ UserOK
  BY TypeParts
<1>1. ConnOK' /\ WatchOK'
  <2>1. client \in 0..Len(clients)
    BY <1>0 DEF ConnOK
  <2>2. Changed(clients) /\ Changed(Forgotten(client))
    BY <1>0, <2>1, ClientChanges
  <2>3. paired' \in BOOLEAN /\ userDisconnected' \in BOOLEAN /\ UNCHANGED watch
    BY <1>0 DEF Start, ConnOK
  <2>4. CASE MakeClient(clients)
    BY <1>0, <2>2, <2>3, <2>4, MakeClientOK
  <2>5. CASE Changed(clients') /\ client' \in {client, 0}
    BY <1>0, <2>3, <2>5, ChangedOK
  <2> QED
    BY <2>1, <2>2, <2>4, <2>5, <1>0, ClientChanges DEF Start
<1>2. LoopOK'
  BY <1>0 DEF Start, LoopOK, Places, loopVars
<1>3. QueuesOK'
  BY <1>0 DEF Start, QueuesOK, loopRest
<1>4. UserOK'
  BY <1>0 DEF Start, UserOK, loopRest, userVars
<1> QED
  BY <1>1, <1>2, <1>3, <1>4, TypeNext

LEMMA LoginBeginsType == ASSUME TypeOK, LoginBegins PROVE TypeOK'
<1>0. ConnOK /\ WatchOK /\ LoopOK /\ QueuesOK /\ UserOK
  BY TypeParts
<1>1. ConnOK' /\ WatchOK'
  <2>1. client \in 0..Len(clients)
    BY <1>0 DEF ConnOK
  <2>2. Changed(clients')
    BY <1>0, <2>1, ClientChanges DEF LoginBegins
  <2>3. paired' \in BOOLEAN /\ userDisconnected' \in BOOLEAN /\ client' \in {client, 0}
    BY <1>0 DEF LoginBegins, ConnOK
  <2> QED
    BY <1>0, <2>2, <2>3, ChangedOK DEF LoginBegins
<1>2. LoopOK'
  BY <1>0 DEF LoginBegins, SendThen, LoopOK, Places, loopVars
<1>3. QueuesOK'
  BY <1>0 DEF LoginBegins, SendThen, QueuesOK
<1>4. UserOK'
  BY <1>0 DEF LoginBegins, SendThen, UserOK, userVars
<1> QED
  BY <1>1, <1>2, <1>3, <1>4, TypeNext

LEMMA LoginType == ASSUME TypeOK, Login PROVE TypeOK'
<1>0. ConnOK /\ WatchOK /\ LoopOK /\ QueuesOK /\ UserOK
  BY TypeParts
<1>1. ConnOK' /\ WatchOK'
  <2>1. client \in 0..Len(clients)
    BY <1>0 DEF ConnOK
  <2>2. Changed(clients) /\ Changed(Forgotten(client))
    BY <1>0, <2>1, ClientChanges
  <2>3. paired' \in BOOLEAN /\ userDisconnected' \in BOOLEAN /\ UNCHANGED watch
    BY <1>0 DEF Login, SendThen, ConnOK
  <2>4. CASE MakeClient(Forgotten(client))
    BY <1>0, <2>2, <2>3, <2>4, MakeClientOK
  <2>5. CASE Changed(clients') /\ client' \in {client, 0}
    BY <1>0, <2>3, <2>5, ChangedOK
  <2> QED
    BY <2>1, <2>2, <2>4, <2>5, <1>0, ClientChanges DEF Login, SendThen
<1>2. LoopOK'
  BY <1>0 DEF Login, SendThen, LoopOK, Places, loopVars
<1>3. QueuesOK'
  BY <1>0, AnotherType DEF Login, SendThen, QueuesOK, loopRest
<1>4. UserOK'
  BY <1>0 DEF Login, SendThen, UserOK, loopRest, userVars
<1> QED
  BY <1>1, <1>2, <1>3, <1>4, TypeNext

LEMMA LoginCommandType == ASSUME TypeOK, LoginCommand PROVE TypeOK'
<1>0. ConnOK /\ WatchOK /\ LoopOK /\ QueuesOK /\ UserOK
  BY TypeParts
<1>1. ConnOK' /\ WatchOK'
  <2>1. client \in 0..Len(clients)
    BY <1>0 DEF ConnOK
  <2>2. Changed(clients) /\ Changed(Forgotten(client))
    BY <1>0, <2>1, ClientChanges
  <2>3. paired' \in BOOLEAN /\ userDisconnected' \in BOOLEAN /\ UNCHANGED watch
    BY <1>0 DEF LoginCommand, Executes, loopRest, ConnOK
  <2>4. CASE MakeClient(clients)
    BY <1>0, <2>2, <2>3, <2>4, MakeClientOK
  <2>5. CASE Changed(clients') /\ client' \in {client, 0}
    BY <1>0, <2>3, <2>5, ChangedOK
  <2> QED
    BY <2>1, <2>2, <2>4, <2>5, <1>0, ClientChanges DEF LoginCommand, Executes, loopRest
<1>2. LoopOK'
  BY <1>0, IdleType DEF LoginCommand, Executes, LoopOK, Places, loopVars
<1>3. QueuesOK'
  BY <1>0 DEF LoginCommand, Executes, QueuesOK, loopRest
<1>4. UserOK'
  BY <1>0 DEF LoginCommand, Executes, UserOK, loopRest, userVars
<1> QED
  BY <1>1, <1>2, <1>3, <1>4, TypeNext

LEMMA DisconnectCommandType == ASSUME TypeOK, DisconnectCommand PROVE TypeOK'
<1>0. ConnOK /\ WatchOK /\ LoopOK /\ QueuesOK /\ UserOK
  BY TypeParts
<1>1. ConnOK' /\ WatchOK'
  <2>1. client \in 0..Len(clients)
    BY <1>0 DEF ConnOK
  <2>2. Changed(clients')
    BY <1>0, <2>1, ClientChanges DEF DisconnectCommand, Executes, loopRest
  <2>3. paired' \in BOOLEAN /\ userDisconnected' \in BOOLEAN /\ client' \in {client, 0}
    BY <1>0 DEF DisconnectCommand, Executes, loopRest, ConnOK
  <2> QED
    BY <1>0, <2>2, <2>3, ChangedOK DEF DisconnectCommand, Executes, loopRest
<1>2. LoopOK'
  BY <1>0, IdleType DEF DisconnectCommand, Executes, SendThen, LoopOK, Places, loopVars
<1>3. QueuesOK'
  BY <1>0 DEF DisconnectCommand, Executes, SendThen, QueuesOK, loopRest
<1>4. UserOK'
  BY <1>0 DEF DisconnectCommand, Executes, SendThen, UserOK, loopRest, userVars
<1> QED
  BY <1>1, <1>2, <1>3, <1>4, TypeNext

LEMMA LogoutCommandType == ASSUME TypeOK, LogoutCommand PROVE TypeOK'
<1>0. ConnOK /\ WatchOK /\ LoopOK /\ QueuesOK /\ UserOK
  BY TypeParts
<1>1. ConnOK' /\ WatchOK'
  <2>1. client \in 0..Len(clients)
    BY <1>0 DEF ConnOK
  <2>2. Changed(clients')
    BY <1>0, <2>1, ClientChanges DEF LogoutCommand, Executes, loopRest
  <2>3. paired' \in BOOLEAN /\ userDisconnected' \in BOOLEAN /\ client' \in {client, 0}
    BY <1>0 DEF LogoutCommand, Executes, loopRest, ConnOK
  <2> QED
    BY <1>0, <2>2, <2>3, ChangedOK DEF LogoutCommand, Executes, loopRest
<1>2. LoopOK'
  BY <1>0, IdleType DEF LogoutCommand, Executes, SendThen, LoopOK, Places, loopVars
<1>3. QueuesOK'
  BY <1>0 DEF LogoutCommand, Executes, SendThen, QueuesOK, loopRest
<1>4. UserOK'
  BY <1>0 DEF LogoutCommand, Executes, SendThen, UserOK, loopRest, userVars
<1> QED
  BY <1>1, <1>2, <1>3, <1>4, TypeNext

LEMMA ResetCommandType == ASSUME TypeOK, ResetCommand PROVE TypeOK'
<1>0. ConnOK /\ WatchOK /\ LoopOK /\ QueuesOK /\ UserOK
  BY TypeParts
<1>1. ConnOK' /\ WatchOK'
  <2>1. client \in 0..Len(clients)
    BY <1>0 DEF ConnOK
  <2>2. Changed(clients')
    BY <1>0, <2>1, ClientChanges DEF ResetCommand, Executes, loopRest
  <2>3. paired' \in BOOLEAN /\ userDisconnected' \in BOOLEAN /\ client' \in {client, 0}
    BY <1>0 DEF ResetCommand, Executes, loopRest, ConnOK
  <2> QED
    BY <1>0, <2>2, <2>3, ChangedOK DEF ResetCommand, Executes, loopRest
<1>2. LoopOK'
  BY <1>0, IdleType DEF ResetCommand, Executes, SendThen, LoopOK, Places, loopVars
<1>3. QueuesOK'
  BY <1>0 DEF ResetCommand, Executes, SendThen, QueuesOK, loopRest
<1>4. UserOK'
  BY <1>0 DEF ResetCommand, Executes, SendThen, UserOK, loopRest, userVars
<1> QED
  BY <1>1, <1>2, <1>3, <1>4, TypeNext

LEMMA NetworkType == ASSUME TypeOK, Network PROVE TypeOK'
<1>0. ConnOK /\ WatchOK /\ LoopOK /\ QueuesOK /\ UserOK
  BY TypeParts
<1>1. ConnOK' /\ WatchOK'
  <2>1. PICK c \in Clients : Drop(c) \/ Reconnect(c) \/ Unlink(c) \/ Replace(c)
    BY DEF Network
  <2>2. c \in 0..Len(clients)
    BY <1>0, LenProperties DEF ConnOK, Clients
  <2>3. Changed(clients')
    BY <1>0, <2>1, <2>2, ClientChanges, DropChange DEF Drop, Reconnect, Unlink, Replace
  <2>4. paired' \in BOOLEAN /\ UNCHANGED <<client, userDisconnected>>
    BY <1>0, <2>1 DEF Drop, Reconnect, Unlink, Replace, ConnOK
  <2>5. userDisconnected' \in BOOLEAN
    BY <1>0, <2>4 DEF ConnOK
  <2> QED
    BY <1>0, <2>3, <2>4, <2>5, ChangedOK DEF Network
<1>2. LoopOK'
  BY <1>0 DEF Network, LoopOK, Places, loopVars
<1>3. QueuesOK'
  <2>1. posts' \in {posts, Another(posts)}
    BY DEF Network, Drop, Reconnect, Unlink, Replace
  <2> QED
    BY <1>0, <2>1, AnotherType DEF Network, QueuesOK
<1>4. UserOK'
  BY <1>0 DEF Network, UserOK, loopRest, userVars
<1> QED
  BY <1>1, <1>2, <1>3, <1>4, TypeNext

LEMMA InitType == Init => TypeOK
<1> SUFFICES ASSUME Init PROVE TypeOK
  OBVIOUS
<1>1. << >> \in Seq(ClientRecord) /\ << >> \in Seq(Command) /\ Len(<< >>) = 0
  OBVIOUS
<1>2. ConnOK
  <2>1. paired \in BOOLEAN /\ userDisconnected \in BOOLEAN
    BY DEF Init
  <2>2. clients = << >> /\ client = 0
    BY DEF Init
  <2> QED
    BY <1>1, <2>1, <2>2, SessionAssumption DEF ConnOK
<1>3. WatchOK
  BY <1>1 DEF Init, WatchOK
<1>4. LoopOK
  BY IdleType DEF Init, LoopOK, Places
<1>5. QueuesOK
  BY <1>1, SessionAssumption DEF Init, QueuesOK
<1>6. UserOK
  <2>1. loaded \in BOOLEAN /\ shown \in BOOLEAN
    BY DEF Init
  <2>2. repertoire \in Repertoires /\ screen = NoChat /\ sent = 0
    BY DEF Init
  <2> QED
    BY <2>1, <2>2, SessionAssumption DEF UserOK
<1> QED
  BY <1>2, <1>3, <1>4, <1>5, <1>6, TypeParts

\* The commands that wait for the network, as far as the type is concerned.
LEMMA CommandsType ==
    ASSUME TypeOK,
           \/ SendText \/ SendMedia \/ Download \/ RevokeMessage \/ LoadBacklog
           \/ CreateGroup \/ LeaveGroup \/ UpdateParticipants \/ UpdateSubject
    PROVE  TypeOK'
<1>1. (\E name, allowed : Waits(name, allowed)) \/ (\E name : Unguarded(name)) \/ WithoutAnchor
  BY DEF SendText, SendMedia, Download, RevokeMessage, LoadBacklog, CreateGroup, LeaveGroup,
         UpdateParticipants, UpdateSubject, OfGroup
<1> QED
  BY <1>1, WaitsType, UnguardedType, WithoutAnchorType

LEMMA StutterType == ASSUME TypeOK, UNCHANGED vars PROVE TypeOK'
<1>0. ConnOK /\ WatchOK /\ LoopOK /\ QueuesOK /\ UserOK
  BY TypeParts
<1>1. ConnOK' /\ WatchOK' /\ LoopOK' /\ QueuesOK' /\ UserOK'
  BY <1>0 DEF vars, connVars, loopVars, userVars, ConnOK, WatchOK, LoopOK, QueuesOK, UserOK
<1> QED
  BY <1>1, TypeNext

LEMMA NextType == TypeOK /\ [Next]_vars => TypeOK'
<1> SUFFICES ASSUME TypeOK, [Next]_vars PROVE TypeOK'
  OBVIOUS
<1>1. CASE LoopStep
  BY <1>1, StartType, LoginBeginsType, LoginType, ShowQRType, SendStatusType,
     TakeStatusType, TakeCommandType, CoalesceNextType, CoalesceOtherType, CoalesceDoneType, LoginCommandType,
     DisconnectCommandType, LogoutCommandType, ResetCommandType, ReadCommandType,
     CommandsType, WaitEndsType DEF LoopStep
<1>2. CASE QRSuccess \/ QRTimeout
  BY <1>2, QRSuccessType, QRTimeoutType
<1>3. CASE WatchStep
  BY <1>3, TickType, WatchTellsType, WatchConnectsType DEF WatchStep
<1>4. CASE PostStatus \/ Load \/ Network \/ UserSends
  BY <1>4, PostStatusType, LoadType, NetworkType, UserSendsType
<1>5. CASE UNCHANGED vars
  BY <1>5, StutterType
<1> QED
  BY <1>1, <1>2, <1>3, <1>4, <1>5 DEF Next

\* The connection, the loop, the watchdog, both channels and the user's view keep their
\* types; in particular no client field points to a client that was never made, and
\* neither channel holds more than its capacity (TypeOK).
THEOREM TypeCorrect == Spec => []TypeOK
BY InitType, NextType, PTL DEF Spec

-----------------------------------------------------------------------------
(* The queue *)

\* The chat that is open when the first command in the queue gets its turn.
Opening == IF at = "coalesce" THEN doing.chat ELSE currentReceiver

\* f names the chat that is open when each command gets its turn, and after the last.
Follows(f) ==
    /\ f \in [1..(Len(commands) + 1) -> Chats \cup {NoChat}]
    /\ f[1] = Opening
    /\ f[Len(commands) + 1] = screen
    /\ \A i \in 1..Len(commands) :
         /\ f[i + 1] = IF commands[i].name = "select" THEN commands[i].chat ELSE f[i]
         /\ commands[i].name = "read" => commands[i].chat = f[i]

QueueInv ==
    /\ \E f : Follows(f)
    /\ at = "exec" /\ doing.name = "read" => doing.chat = currentReceiver

\* Most actions touch neither the queue nor what is open.
LEMMA QueueKept ==
    ASSUME QueueInv, UNCHANGED <<commands, currentReceiver, screen>>, at # "coalesce",
           at' # "coalesce", at' = "exec" => at = "exec" /\ doing' = doing
    PROVE  QueueInv'
<1>1. PICK f : Follows(f)
  BY DEF QueueInv
<1>2. Opening' = Opening
  BY DEF Opening
<1>3. Follows(f)'
  BY <1>1, <1>2 DEF Follows
<1> QED
  BY <1>3 DEF QueueInv

\* ... and neither do those that leave the loop where it is.
LEMMA QueueAside ==
    ASSUME QueueInv, UNCHANGED <<commands, currentReceiver, screen, at, doing>>
    PROVE  QueueInv'
<1>1. PICK f : Follows(f)
  BY DEF QueueInv
<1>2. Opening' = Opening
  BY DEF Opening
<1>3. Follows(f)'
  BY <1>1, <1>2 DEF Follows
<1> QED
  BY <1>3 DEF QueueInv

\* What the first command does to the chat that is open.
LEMMA QueueHead ==
    ASSUME TypeOK, commands # << >>, NEW f, Follows(f)
    PROVE  /\ Head(commands).name = "select" => f[2] = Head(commands).chat
           /\ Head(commands).name # "select" => f[2] = f[1]
           /\ Head(commands).name = "read" => Head(commands).chat = f[1]
<1>1. commands \in Seq(Command)
  BY TypeParts DEF QueuesOK
<1>2. 1 \in 1..Len(commands) /\ commands[1] = Head(commands) /\ 1 + 1 = 2
  BY <1>1, HeadTailProperties, LenProperties, EmptySeq
<1>3. /\ f[1 + 1] = IF commands[1].name = "select" THEN commands[1].chat ELSE f[1]
      /\ commands[1].name = "read" => commands[1].chat = f[1]
  BY <1>2 DEF Follows
<1> QED
  BY <1>2, <1>3

\* When the first command leaves the queue, what follows it stays as foreseen, provided
\* that the loop opens what it should.
LEMMA QueueTaken ==
    ASSUME TypeOK, commands # << >>, NEW f, Follows(f), commands' = Tail(commands),
           UNCHANGED screen, Opening' = f[2]
    PROVE  \E g : Follows(g)'
<1> DEFINE n == Len(commands)
           C == Chats \cup {NoChat}
<1>1. commands \in Seq(Command)
  BY TypeParts DEF QueuesOK
<1>2. /\ n \in Nat \ {0} /\ Len(commands') = n - 1 /\ commands[1] = Head(commands)
      /\ \A i \in 1..(n - 1) : commands'[i] = commands[i + 1]
  BY <1>1, HeadTailProperties, LenProperties, EmptySeq
<1>3. /\ f \in [1..(n + 1) -> C] /\ f[n + 1] = screen
      /\ \A i \in 1..n : /\ f[i + 1] = IF commands[i].name = "select" THEN commands[i].chat ELSE f[i]
                         /\ commands[i].name = "read" => commands[i].chat = f[i]
  BY DEF Follows
<1> HIDE DEF n, C
<1>4. 1 \in 1..n /\ 1 + 1 = 2
  BY <1>2
<1>5. PICK g : g = [i \in 1..n |-> f[i + 1]]
  OBVIOUS
<1>6. g \in [1..n -> C] /\ g[1] = f[2] /\ g[n] = screen
  <2>1. \A i \in 1..n : i + 1 \in 1..(n + 1)
    BY <1>2
  <2>2. \A i \in 1..n : f[i + 1] \in C
    BY <1>3, <2>1
  <2>3. n \in 1..n /\ 1 \in 1..n
    BY <1>2
  <2>4. \A i \in 1..n : g[i] = f[i + 1]
    BY <1>5
  <2>5. g \in [1..n -> C]
    BY <1>5, <2>2
  <2>6. g[1] = f[1 + 1] /\ g[n] = f[n + 1]
    BY <2>3, <2>4
  <2> QED
    BY <1>3, <1>4, <2>5, <2>6
<1>7. ASSUME NEW i \in 1..(n - 1)
      PROVE  /\ g[i + 1] = IF commands'[i].name = "select" THEN commands'[i].chat ELSE g[i]
             /\ commands'[i].name = "read" => commands'[i].chat = g[i]
  <2>1. i + 1 \in 1..n /\ i \in 1..n /\ commands'[i] = commands[i + 1]
    BY <1>2
  <2>2. g[i + 1] = f[(i + 1) + 1] /\ g[i] = f[i + 1]
    <3>1. \A k \in 1..n : g[k] = f[k + 1]
      BY <1>5
    <3> QED
      BY <2>1, <3>1
  <2> QED
    BY <1>3, <2>1, <2>2
<1>8. (n - 1) + 1 = n
  BY <1>2
<1>9. Follows(g)'
  BY <1>2, <1>6, <1>7, <1>8 DEF Follows, C
<1> QED
  BY <1>9

LEMMA TakeCommandQueue == ASSUME TypeOK, QueueInv, TakeCommand PROVE QueueInv'
<1>1. PICK f : Follows(f)
  BY DEF QueueInv
<1>2. /\ at = "idle" /\ commands # << >> /\ commands' = Tail(commands)
      /\ doing' = Head(commands)
      /\ at' = IF doing'.name = "select" THEN "coalesce" ELSE "exec"
      /\ UNCHANGED <<currentReceiver, screen>>
  BY DEF TakeCommand, loopRest, userVars
<1>3. /\ Head(commands).name = "select" => f[2] = Head(commands).chat
      /\ Head(commands).name # "select" => f[2] = f[1]
      /\ Head(commands).name = "read" => Head(commands).chat = f[1]
  BY <1>1, <1>2, QueueHead
<1>4. f[1] = currentReceiver
  BY <1>1, <1>2 DEF Follows, Opening
<1>5. Opening' = f[2]
  BY <1>2, <1>3, <1>4 DEF Opening
<1> QED
  BY <1>1, <1>2, <1>3, <1>4, <1>5, QueueTaken DEF QueueInv

LEMMA CoalesceNextQueue == ASSUME TypeOK, QueueInv, CoalesceNext PROVE QueueInv'
<1>1. PICK f : Follows(f)
  BY DEF QueueInv
<1>2. /\ at = "coalesce" /\ at' = at /\ commands # << >> /\ commands' = Tail(commands)
      /\ Head(commands).name = "select" /\ doing' = Over(doing, Head(commands))
      /\ UNCHANGED <<currentReceiver, screen>>
  BY DEF CoalesceNext, loopRest, userVars
<1>3. f[2] = Head(commands).chat
  BY <1>1, <1>2, QueueHead
<1>4. Head(commands) \in Command
  BY <1>2, TypeParts, HeadTailProperties DEF QueuesOK
<1>5. Over(doing, Head(commands)).chat = Head(commands).chat
  BY <1>4 DEF Over, Command
<1>6. Opening' = f[2]
  BY <1>2, <1>3, <1>5 DEF Opening
<1> QED
  BY <1>1, <1>2, <1>6, QueueTaken DEF QueueInv

\* The chat is opened before the command that ended the burst is executed.
LEMMA CoalesceOtherQueue == ASSUME TypeOK, QueueInv, CoalesceOther PROVE QueueInv'
<1>1. PICK f : Follows(f)
  BY DEF QueueInv
<1>2. /\ at = "coalesce" /\ at' = "exec" /\ commands # << >> /\ commands' = Tail(commands)
      /\ Head(commands).name # "select" /\ doing' = Head(commands)
      /\ currentReceiver' = doing.chat /\ UNCHANGED screen
  BY DEF CoalesceOther, loopRest, userVars
<1>3. /\ f[2] = f[1]
      /\ Head(commands).name = "read" => Head(commands).chat = f[1]
  BY <1>1, <1>2, QueueHead
<1>4. f[1] = doing.chat
  BY <1>1, <1>2 DEF Follows, Opening
<1>5. Opening' = f[2]
  BY <1>2, <1>3, <1>4 DEF Opening
<1> QED
  BY <1>1, <1>2, <1>3, <1>4, <1>5, QueueTaken DEF QueueInv

LEMMA CoalesceDoneQueue == ASSUME QueueInv, CoalesceDone PROVE QueueInv'
<1>1. PICK f : Follows(f)
  BY DEF QueueInv
<1>2. /\ at = "coalesce" /\ at' = "idle" /\ currentReceiver' = doing.chat
      /\ UNCHANGED <<commands, screen>>
  BY DEF CoalesceDone, loopRest, userVars
<1>3. Opening' = Opening
  BY <1>2 DEF Opening
<1>4. Follows(f)'
  BY <1>1, <1>2, <1>3 DEF Follows
<1> QED
  BY <1>2, <1>4 DEF QueueInv

\* What the user sends carries on where the queue ends: with the chat on the screen.
LEMMA UserSendsQueue == ASSUME TypeOK, QueueInv, UserSends PROVE QueueInv'
<1>1. PICK f : Follows(f)
  BY DEF QueueInv
<1>2. PICK m \in Command :
        /\ commands' = Append(commands, m)
        /\ m.name = "select" => screen' = m.chat
        /\ m.name # "select" => screen' = screen
        /\ m.name = "read" => m.chat = screen
  BY UserMessages, TypeParts
<1>3. UNCHANGED <<at, doing, currentReceiver>>
  BY DEF UserSends, loopVars
<1>4. Opening' = Opening
  BY <1>3 DEF Opening
<1>5. screen' \in Chats \cup {NoChat}
  BY UserMessages, TypeParts
<1> DEFINE n == Len(commands)
           C == Chats \cup {NoChat}
<1>6. /\ n \in Nat /\ Len(commands') = n + 1 /\ commands'[n + 1] = m
      /\ \A i \in 1..n : commands'[i] = commands[i]
  BY <1>2, TypeParts, AppendProperties, LenProperties DEF QueuesOK
<1>7. /\ f \in [1..(n + 1) -> C] /\ f[n + 1] = screen /\ f[1] = Opening
      /\ \A i \in 1..n : /\ f[i + 1] = IF commands[i].name = "select" THEN commands[i].chat ELSE f[i]
                         /\ commands[i].name = "read" => commands[i].chat = f[i]
  BY <1>1 DEF Follows
<1>8. screen' \in C
  BY <1>5
<1> HIDE DEF n, C
<1>9. PICK g : g = [i \in 1..(n + 2) |-> IF i = n + 2 THEN screen' ELSE f[i]]
  OBVIOUS
<1>10. g[n + 2] = screen' /\ \A i \in 1..(n + 1) : g[i] = f[i]
  BY <1>6, <1>9
<1>11. g \in [1..(n + 2) -> C]
  <2>1. \A i \in 1..(n + 2) : (IF i = n + 2 THEN screen' ELSE f[i]) \in C
    BY <1>6, <1>7, <1>8
  <2> QED
    BY <1>9, <2>1
<1>12. ASSUME NEW i \in 1..(n + 1)
       PROVE  /\ g[i + 1] = IF commands'[i].name = "select" THEN commands'[i].chat ELSE g[i]
              /\ commands'[i].name = "read" => commands'[i].chat = g[i]
  <2>1. CASE i \in 1..n
    <3>1. i + 1 \in 1..(n + 1) /\ i \in 1..(n + 1) /\ commands'[i] = commands[i]
      BY <1>6, <2>1
    <3> QED
      BY <1>7, <1>10, <2>1, <3>1
  <2>2. CASE i = n + 1
    <3>1. i + 1 = n + 2 /\ commands'[i] = m /\ g[i] = screen
      BY <1>6, <1>7, <1>10, <2>2
    <3> QED
      BY <1>2, <1>10, <3>1
  <2> QED
    BY <1>6, <2>1, <2>2
<1>13. g[1] = Opening' /\ (n + 1) + 1 = n + 2
  BY <1>4, <1>6, <1>7, <1>10
<1>14. Follows(g)'
  BY <1>6, <1>10, <1>11, <1>12, <1>13 DEF Follows, C
<1>15. (at = "exec" /\ doing.name = "read" => doing.chat = currentReceiver)'
  BY <1>3 DEF QueueInv
<1> QED
  BY <1>14, <1>15 DEF QueueInv

LEMMA LoopStepQueue == ASSUME TypeOK, QueueInv, LoopStep PROVE QueueInv'
<1>1. CASE TakeCommand \/ CoalesceNext \/ CoalesceOther \/ CoalesceDone
  BY <1>1, TakeCommandQueue, CoalesceNextQueue, CoalesceOtherQueue, CoalesceDoneQueue
<1>2. CASE TakeStatus
  BY <1>2, QueueAside DEF TakeStatus, loopRest, loopVars, userVars
<1>3. CASE Start \/ LoginBegins \/ Login \/ ShowQR \/ SendStatus \/ WaitEnds
  BY <1>3, QueueKept DEF Start, LoginBegins, Login, ShowQR, SendStatus, WaitEnds, SendThen,
     loopRest, userVars
<1>4. CASE LoginCommand \/ DisconnectCommand \/ LogoutCommand \/ ResetCommand \/ ReadCommand
  BY <1>4, QueueKept DEF LoginCommand, DisconnectCommand, LogoutCommand, ResetCommand,
     ReadCommand, Executes, SendThen, loopRest, userVars
<1>5. CASE \/ SendText \/ SendMedia \/ Download \/ RevokeMessage \/ LoadBacklog
           \/ CreateGroup \/ LeaveGroup \/ UpdateParticipants \/ UpdateSubject
  <2>1. (\E name, allowed : Waits(name, allowed)) \/ (\E name : Unguarded(name)) \/ WithoutAnchor
    BY <1>5 DEF SendText, SendMedia, Download, RevokeMessage, LoadBacklog, CreateGroup,
       LeaveGroup, UpdateParticipants, UpdateSubject, OfGroup
  <2> QED
    BY <2>1, QueueKept DEF Waits, Unguarded, WithoutAnchor, Executes, loopRest, userVars
<1> QED
  BY <1>1, <1>2, <1>3, <1>4, <1>5 DEF LoopStep

LEMMA NextQueue == TypeOK /\ QueueInv /\ [Next]_vars => QueueInv'
<1> SUFFICES ASSUME TypeOK, QueueInv, [Next]_vars PROVE QueueInv'
  OBVIOUS
<1>1. CASE LoopStep
  BY <1>1, LoopStepQueue
<1>2. CASE QRSuccess \/ QRTimeout
  BY <1>2, QueueKept DEF QRSuccess, QRTimeout, SendThen, userVars
<1>3. CASE WatchStep
  BY <1>3, QueueAside DEF WatchStep, Tick, WatchTells, WatchConnects, loopVars, userVars
<1>4. CASE PostStatus \/ Load \/ Network
  BY <1>4, QueueAside DEF PostStatus, Load, Network, loopVars, userVars
<1>5. CASE UserSends
  BY <1>5, UserSendsQueue
<1>6. CASE UNCHANGED vars
  BY <1>6, QueueAside DEF vars, loopVars, userVars
<1> QED
  BY <1>1, <1>2, <1>3, <1>4, <1>5, <1>6 DEF Next

LEMMA InitQueue == Init => QueueInv
<1> SUFFICES ASSUME Init PROVE QueueInv
  OBVIOUS
<1>1. PICK f : f = [i \in 1..1 |-> NoChat]
  OBVIOUS
<1>2. commands = << >> /\ Len(commands) = 0 /\ screen = NoChat /\ Opening = NoChat /\ at = "start"
  BY DEF Init, Opening
<1>3. Follows(f)
  BY <1>1, <1>2 DEF Follows
<1> QED
  BY <1>2, <1>3 DEF QueueInv

LEMMA QueueInvariance == Spec => []QueueInv
BY InitQueue, NextQueue, TypeCorrect, PTL DEF Spec

\* However many selections come in a burst, whatever other commands stand between them, and
\* wherever the loop was busy meanwhile: once the queue is empty, the chat that the user
\* selected last is open (runManager, the coalescing of select commands).
THEOREM LastSelectionOpen == Spec => []LastSelectWins
<1>1. QueueInv => LastSelectWins
  BY DEF QueueInv, Follows, Opening, LastSelectWins
<1> QED
  BY <1>1, QueueInvariance, PTL

\* A read command is executed while the chat is open that the user saw when giving it.
THEOREM ReadsHit == Spec => ReadHitsItsChat
<1>1. QueueInv => [at = "exec" /\ doing.name = "read" /\ at' = "idle"
                     => currentReceiver = doing.chat]_vars
  BY DEF QueueInv
<1> QED
  BY <1>1, QueueInvariance, PTL DEF ReadHitsItsChat

=============================================================================
