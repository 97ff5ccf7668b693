-------------------------------- MODULE Feed --------------------------------
(***************************************************************************)
(* What the server promises a client of the event stream.  A client that   *)
(* joins gets the chat list of that moment, and from then on every event   *)
(* published since some earlier moment, in the order of publication and    *)
(* none twice.  Only one thing is ever lost: an event that is published    *)
(* while Buffer events wait for the client.                                *)
(***************************************************************************)
EXTENDS Naturals, Sequences

CONSTANTS Clients, Buffer, Other

VARIABLES
    list,   \* the chat list, as the number of its changes
    log,    \* of each event published: the list in it, or Other
    due,    \* of each client that has joined: the numbers of the events it will get
    view    \* of each client that has joined: the list that it has

feedVars == <<list, log, due, view>>

Init == list = 0 /\ log = << >> /\ due = << >> /\ view = << >>

Change == list' = list + 1 /\ UNCHANGED <<log, due, view>>

\* Every client with room gets the event; a list is not newer than the list.
Publish ==
    /\ \E event \in {Other} \cup 0..list : log' = Append(log, event)
    /\ due' = [c \in DOMAIN due |->
                  IF Len(due[c]) < Buffer THEN Append(due[c], Len(log')) ELSE due[c]]
    /\ UNCHANGED <<list, view>>

\* What a buffer holds that was empty when m events had been published.
Since(m) == [i \in 1..IF Len(log) - m < Buffer THEN Len(log) - m ELSE Buffer |-> m + i]

Join(c) ==
    /\ c \notin DOMAIN due
    /\ \E m \in 0..Len(log) :
         due' = [d \in DOMAIN due \cup {c} |-> IF d = c THEN Since(m) ELSE due[d]]
    /\ view' = [d \in DOMAIN view \cup {c} |-> IF d = c THEN list ELSE view[d]]
    /\ UNCHANGED <<list, log>>

Hear(c) ==
    /\ c \in DOMAIN due /\ due[c] # << >>
    /\ LET event == log[Head(due[c])]
       IN view' = IF event = Other THEN view ELSE [view EXCEPT ![c] = event]
    /\ due' = [due EXCEPT ![c] = Tail(@)]
    /\ UNCHANGED <<list, log>>

Leave(c) ==
    /\ c \in DOMAIN due
    /\ due' = [d \in DOMAIN due \ {c} |-> due[d]]
    /\ view' = [d \in DOMAIN view \ {c} |-> view[d]]
    /\ UNCHANGED <<list, log>>

Next == Change \/ Publish \/ \E c \in Clients : Join(c) \/ Hear(c) \/ Leave(c)

Spec == Init /\ [][Next]_feedVars
=============================================================================
