------------------------- MODULE EventHandlerProofs -------------------------
(***************************************************************************)
(* Theorems about the three models of what the event handler does with     *)
(* messages, for all values of their constants.                            *)
(*                                                                         *)
(* PendingReactions: the type, and that no reaction is stranded.           *)
(* NoneStranded says that somebody will look at the entries of a stored    *)
(* message.  It is inductive together with the fact that a goroutine which *)
(* is to be given new messages to look at has none left (Free): otherwise  *)
(* the new ones would replace them.                                        *)
(*                                                                         *)
(* AutoMarkRead: the type, the pending timer, and the user's wish.  The    *)
(* two timer fields agree with the timers at all times (Fields); that the  *)
(* pending timer still runs and is for the open chat holds only outside a  *)
(* selection, which changes the open chat first (PendingTimerRuns).  A     *)
(* wish and a pending timer exclude each other for one chat, as /unread    *)
(* drops the timer before it raises the counter (Wishes).  So every mark   *)
(* that is on its way to a chat with a wish was so when /unread dropped    *)
(* the timer (Early).                                                      *)
(*                                                                         *)
(* ContactNames: the type, that a name which the address book knew at the  *)
(* start reaches contacts, titles and messages, and that our own name      *)
(* stays away once it is gone.  KnownNameEverywhere is about the end of    *)
(* loadRecentChats; NameInv says what each step before has already reached *)
(* (contacts after loadContacts, titles after RepairChatNames, messages    *)
(* after RefreshContactNames), that a message on its way carries the name  *)
(* too, and that no label is empty, as an empty one would be replaced.     *)
(***************************************************************************)
EXTENDS PendingReactions, AutoMarkRead, ContactNames, FiniteSetTheorems, TLAPS

-----------------------------------------------------------------------------
(* PendingReactions *)

Waiting(t) == \E s \in Senders : pending[t][s] # NotQueued

Free ==
    /\ at[Handler] \in {"idle", "checking", "queueing"} => todo[Handler] = {}
    /\ at[History] \in {"idle", "inserting", "finishing"} => todo[History] = {}

\* NoneStranded, with the entries of a message as a condition on the table.
Watched == \A t \in stored : Waiting(t) => Coming(t) \/ t \in overlooked
HandsStored == \A p \in Goroutines : \A u \in hand[p] : u.target \in stored

\* The type, apart from the update that the handler processes.
Types ==
    /\ stored \subseteq Targets
    /\ reactions \in [Targets -> Reactions]
    /\ pending \in [Targets -> [Senders -> Emojis \cup {NoEmoji, NotQueued}]]
    /\ at \in [Goroutines -> Places]
    /\ batch \subseteq Targets
    /\ standalone \subseteq Update
    /\ todo \in [Goroutines -> SUBSET Targets]
    /\ hand \in [Goroutines -> SUBSET Update]
    /\ latest \in [Targets -> [Senders -> Emojis \cup {NoEmoji, NotQueued}]]
    /\ overlooked \subseteq Targets
OneUpdate == update \in SUBSET Update /\ Cardinality(update) <= 1

ReactionInv == Types /\ OneUpdate /\ Free /\ Watched /\ HandsStored

LEMMA ReactionTypeParts == ReactionTypeOK <=> Types /\ OneUpdate
BY DEF ReactionTypeOK, Types, OneUpdate

LEMMA EntriesFacts ==
    ASSUME Types, NEW t \in Targets
    PROVE  /\ Entries(t) \subseteq Update
           /\ \A u \in Entries(t) : u.target = t
           /\ Entries(t) # {} <=> Waiting(t)
<1>1. ASSUME NEW s \in Senders, pending[t][s] # NotQueued
      PROVE  [target |-> t, sender |-> s, emoji |-> pending[t][s]] \in Update
  BY <1>1 DEF Types, Update
<1>2. Entries(t) \subseteq Update /\ \A u \in Entries(t) : u.target = t
  BY <1>1 DEF Entries
<1>3. Entries(t) # {} <=> Waiting(t)
  BY DEF Entries, Waiting
<1> QED
  BY <1>2, <1>3

LEMMA StrandedIff == ASSUME Types PROVE Watched /\ HandsStored <=> NoneStranded
BY EntriesFacts DEF Types, Watched, HandsStored, NoneStranded

-----------------------------------------------------------------------------
(* Calls into the store and the table *)

LEMMA StoreMessageType ==
    ASSUME Types, NEW t \in Targets, NEW copy \in Reactions, StoreMessage(t, copy)
    PROVE  /\ stored' \subseteq Targets /\ stored' = stored \cup {t}
           /\ reactions' \in [Targets -> Reactions]
<1>1. (IF t \notin stored \/ copy # NoReactions THEN copy ELSE reactions[t]) \in Reactions
  BY DEF Types
<1> QED
  BY <1>1 DEF StoreMessage, Types

LEMMA ApplyType ==
    ASSUME Types, NEW u \in Update, Apply(u)
    PROVE  reactions' \in [Targets -> Reactions]
BY DEF Apply, Types, Update, Reactions

LEMMA NoReactionsType == NoReactions \in Reactions /\ NothingQueued \in [Senders -> Emojis \cup {NoEmoji, NotQueued}]
BY DEF NoReactions, Reactions, NothingQueued

LEMMA TakeInd == ASSUME ReactionInv, NEW p \in Goroutines, Take(p) PROVE ReactionInv'
<1>0. Types /\ OneUpdate /\ Free /\ Watched /\ HandsStored
  BY DEF ReactionInv
<1>1. PICK t \in todo[p] :
         LET taken == IF t \in stored THEN Entries(t) ELSE {}
         IN /\ pending' = IF t \in stored THEN [pending EXCEPT ![t] = NothingQueued] ELSE pending
            /\ hand' = [hand EXCEPT ![p] = taken]
            /\ todo' = [todo EXCEPT ![p] = @ \ {t}]
            /\ at' = [at EXCEPT ![p] = IF taken # {} THEN "applying"
                                       ELSE IF todo[p] # {t} THEN "taking" ELSE Rest(p)]
            /\ overlooked' = overlooked \ {t}
  BY DEF Take
<1> DEFINE taken == IF t \in stored THEN Entries(t) ELSE {}
<1>2. /\ t \in Targets /\ at[p] = "taking"
      /\ UNCHANGED <<stored, reactions, update, batch, standalone, latest>>
  BY <1>0 DEF Take, Types
<1>3. taken \subseteq Update /\ \A u \in taken : u.target \in stored
  BY <1>0, <1>2, EntriesFacts
<1>4. Rest(p) \in Places
  BY DEF Rest, Places
<1>5. /\ hand' = [hand EXCEPT ![p] = taken]
      /\ at' \in [Goroutines -> Places]
      /\ at'[p] \in {"applying", "taking"} \/ todo'[p] = {}
      /\ \A q \in Goroutines : q # p => at'[q] = at[q] /\ todo'[q] = todo[q]
      /\ todo'[p] = todo[p] \ {t}
      /\ todo' \in [Goroutines -> SUBSET Targets]
  <2> HIDE DEF taken
  <2>1. at' = [at EXCEPT ![p] = IF taken # {} THEN "applying"
                                ELSE IF todo[p] # {t} THEN "taking" ELSE Rest(p)]
    BY <1>1 DEF taken
  <2> QED
    BY <1>0, <1>1, <1>4, <2>1 DEF Types, Places, taken
<1>6. hand' \in [Goroutines -> SUBSET Update] /\ \A q \in Goroutines : \A u \in hand'[q] : u.target \in stored
  <2> HIDE DEF taken
  <2> QED
    BY <1>0, <1>3, <1>5 DEF Types, HandsStored
<1>7. /\ pending' \in [Targets -> [Senders -> Emojis \cup {NoEmoji, NotQueued}]]
      /\ \A x \in Targets : x # t \/ x \notin stored => pending'[x] = pending[x]
      /\ t \in stored => pending'[t] = NothingQueued
  BY <1>0, <1>1, <1>2, NoReactionsType DEF Types
<1>8. Types'
  BY <1>0, <1>1, <1>2, <1>5, <1>6, <1>7 DEF Types, Update
<1>9. Free'
  BY <1>0, <1>5 DEF Free, Goroutines, Handler, History
<1>10. ASSUME NEW x \in stored, Waiting(x)' PROVE Coming(x)' \/ x \in overlooked'
  <2>1. x # t
    BY <1>2, <1>7, <1>10 DEF Waiting, NothingQueued
  <2>2. Waiting(x) /\ x \in Targets
    BY <1>0, <1>7, <1>10, <2>1 DEF Waiting, Types
  <2>3. Coming(x) \/ x \in overlooked
    BY <1>0, <2>2 DEF Watched
  <2>4. at[Loader] \in {"restoring", "listing"} => p # Loader
    BY <1>2
  <2> QED
    BY <1>1, <1>5, <2>1, <2>3, <2>4 DEF Coming, Goroutines
<1>11. OneUpdate' /\ HandsStored' /\ Watched'
  BY <1>0, <1>2, <1>6, <1>10 DEF OneUpdate, HandsStored, Watched, Update
<1> QED
  BY <1>8, <1>9, <1>11 DEF ReactionInv

LEMMA ApplyNextInd == ASSUME ReactionInv, NEW p \in Goroutines, ApplyNext(p) PROVE ReactionInv'
<1>0. Types /\ OneUpdate /\ Free /\ Watched /\ HandsStored
  BY DEF ReactionInv
<1>1. PICK u \in hand[p] :
         /\ Apply(u)
         /\ hand' = [hand EXCEPT ![p] = @ \ {u}]
         /\ at' = [at EXCEPT ![p] = IF hand[p] # {u} THEN "applying"
                                    ELSE IF todo[p] # {} THEN "taking" ELSE Rest(p)]
  BY DEF ApplyNext
<1>2. /\ u \in Update /\ at[p] = "applying"
      /\ UNCHANGED <<stored, pending, update, batch, standalone, todo, latest, overlooked>>
  BY <1>0 DEF ApplyNext, Types
<1>3. Rest(p) \in Places
  BY DEF Rest, Places
<1>4. /\ at' \in [Goroutines -> Places]
      /\ at'[p] \in {"applying", "taking"} \/ todo[p] = {}
      /\ \A q \in Goroutines : q # p => at'[q] = at[q]
  BY <1>0, <1>1, <1>3 DEF Types, Places
<1>5. hand' \in [Goroutines -> SUBSET Update] /\ \A q \in Goroutines : hand'[q] \subseteq hand[q]
  BY <1>0, <1>1 DEF Types
<1>6. Types'
  BY <1>0, <1>1, <1>2, <1>4, <1>5, ApplyType DEF Types, Update
<1>7. Free'
  BY <1>0, <1>2, <1>4 DEF Free, Goroutines, Handler, History
<1>8. Watched'
  <2>1. at[Loader] \in {"restoring", "listing"} => p # Loader
    BY <1>2
  <2> QED
    BY <1>0, <1>2, <1>4, <2>1 DEF Watched, Waiting, Coming, Goroutines
<1>9. OneUpdate' /\ HandsStored'
  BY <1>0, <1>2, <1>5 DEF OneUpdate, HandsStored, Update
<1> QED
  BY <1>6, <1>7, <1>8, <1>9 DEF ReactionInv

LEMMA SourceInd == ASSUME ReactionInv, NEW p \in Goroutines, SetSourceReactions(p) PROVE ReactionInv'
<1>0. Types /\ OneUpdate /\ Free /\ Watched /\ HandsStored
  BY DEF ReactionInv
<1>1. PICK t \in todo[p], copy \in Snapshots : reactions' = [reactions EXCEPT ![t] = copy]
  BY DEF SetSourceReactions
<1>2. /\ at[p] = "sourcing" /\ at' = [at EXCEPT ![p] = "taking"]
      /\ UNCHANGED <<stored, pending, update, batch, standalone, todo, hand, latest, overlooked>>
  BY DEF SetSourceReactions
<1>3. copy \in Reactions
  BY ReactionAssumption
<1>4. Types'
  BY <1>0, <1>1, <1>2, <1>3 DEF Types, Update, Places
<1>5. at'[p] = "taking" /\ \A q \in Goroutines : q # p => at'[q] = at[q]
  BY <1>0, <1>2 DEF Types
<1>6. Free' /\ OneUpdate' /\ HandsStored'
  BY <1>0, <1>2, <1>5 DEF Free, OneUpdate, HandsStored, Update, Goroutines, Handler, History
<1>7. Watched'
  BY <1>0, <1>2, <1>5 DEF Watched, Waiting, Coming, Goroutines
<1> QED
  BY <1>4, <1>6, <1>7 DEF ReactionInv

-----------------------------------------------------------------------------
(* The event handler *)

LEMMA ReactionInitInd == ReactionInit => ReactionInv
<1> SUFFICES ASSUME ReactionInit PROVE ReactionInv
  OBVIOUS
<1>1. Types
  BY NoReactionsType DEF ReactionInit, Types, Places
<1>2. OneUpdate
  BY FS_EmptySet DEF ReactionInit, OneUpdate
<1>3. Free /\ Watched /\ HandsStored
  BY DEF ReactionInit, Free, Watched, HandsStored, Goroutines
<1> QED
  BY <1>1, <1>2, <1>3 DEF ReactionInv

LEMMA ReceiveReactionInd ==
    ASSUME ReactionInv, NEW u \in Update, ReceiveReaction(u) PROVE ReactionInv'
<1>0. Types /\ OneUpdate /\ Free /\ Watched /\ HandsStored
  BY DEF ReactionInv
<1>1. /\ Apply(u) /\ at[Handler] = "idle"
      /\ latest' = [latest EXCEPT ![u.target][u.sender] = u.emoji]
      /\ UNCHANGED <<stored, pending, batch, standalone, todo, hand, overlooked>>
  BY DEF ReceiveReaction
<1>2. \/ UNCHANGED <<at, update>>
      \/ at' = [at EXCEPT ![Handler] = "checking"] /\ update' = {u}
  BY DEF ReceiveReaction
<1>3. latest' \in [Targets -> [Senders -> Emojis \cup {NoEmoji, NotQueued}]]
  BY <1>0, <1>1 DEF Types, Update
<1>4. /\ at' \in [Goroutines -> Places]
      /\ at'[Handler] \in {"idle", "checking"}
      /\ at'[History] = at[History] /\ at'[Loader] = at[Loader]
  BY <1>0, <1>1, <1>2 DEF Types, Places, Goroutines, Handler, History, Loader
<1>5. Types'
  BY <1>0, <1>1, <1>3, <1>4, ApplyType DEF Types, Update
<1>6. OneUpdate'
  <2>1. Cardinality({u}) <= 1
    BY FS_Singleton
  <2>2. update' = update \/ update' = {u}
    BY <1>2
  <2> QED
    BY <1>0, <2>1, <2>2 DEF OneUpdate, Update
<1>7. Free' /\ Watched' /\ HandsStored'
  BY <1>0, <1>1, <1>4 DEF Free, Watched, Waiting, Coming, HandsStored
<1> QED
  BY <1>5, <1>6, <1>7 DEF ReactionInv

LEMMA CheckTargetInd == ASSUME ReactionInv, CheckTarget PROVE ReactionInv'
<1>0. Types /\ OneUpdate /\ Free /\ Watched /\ HandsStored
  BY DEF ReactionInv
<1>1. /\ at[Handler] = "checking"
      /\ at' = [at EXCEPT ![Handler] = "idle"] \/ at' = [at EXCEPT ![Handler] = "queueing"]
      /\ update' = {} \/ update' = update
      /\ UNCHANGED <<stored, reactions, pending, batch, standalone, todo, hand, latest, overlooked>>
  BY DEF CheckTarget
<1>2. /\ at' \in [Goroutines -> Places]
      /\ at'[History] = at[History] /\ at'[Loader] = at[Loader]
  BY <1>0, <1>1 DEF Types, Places, Goroutines, Handler, History, Loader
<1>3. Types'
  BY <1>0, <1>1, <1>2 DEF Types, Update
<1>4. OneUpdate'
  BY <1>0, <1>1, FS_EmptySet DEF OneUpdate, Update
<1>5. Free' /\ Watched' /\ HandsStored'
  BY <1>0, <1>1, <1>2 DEF Free, Watched, Waiting, Coming, HandsStored
<1> QED
  BY <1>3, <1>4, <1>5 DEF ReactionInv

\* The second look: the message whose entry is new is the one to look at.
LEMMA QueueReactionInd == ASSUME ReactionInv, QueueReaction PROVE ReactionInv'
<1>0. Types /\ OneUpdate /\ Free /\ Watched /\ HandsStored
  BY DEF ReactionInv
<1>1. PICK u \in update :
         /\ pending' = [pending EXCEPT ![u.target][u.sender] = u.emoji]
         /\ todo' = [todo EXCEPT ![Handler] = {u.target}]
  BY DEF QueueReaction
<1>2. /\ at[Handler] = "queueing" /\ at' = [at EXCEPT ![Handler] = "taking"]
      /\ update' = {}
      /\ UNCHANGED <<stored, reactions, batch, standalone, hand, latest, overlooked>>
  BY DEF QueueReaction
<1>3. u \in Update /\ u.target \in Targets
  BY <1>0 DEF OneUpdate, Update
<1>4. /\ at' \in [Goroutines -> Places]
      /\ at'[Handler] = "taking" /\ at'[History] = at[History] /\ at'[Loader] = at[Loader]
  BY <1>0, <1>2 DEF Types, Places, Goroutines, Handler, History, Loader
<1>5. /\ todo' \in [Goroutines -> SUBSET Targets]
      /\ todo'[Handler] = {u.target}
      /\ todo'[History] = todo[History] /\ todo'[Loader] = todo[Loader]
  BY <1>0, <1>1, <1>3 DEF Types, Goroutines, Handler, History, Loader
<1>6. /\ pending' \in [Targets -> [Senders -> Emojis \cup {NoEmoji, NotQueued}]]
      /\ \A x \in Targets : x # u.target => pending'[x] = pending[x]
  BY <1>0, <1>1, <1>3 DEF Types, Update
<1>7. Types'
  BY <1>0, <1>2, <1>4, <1>5, <1>6 DEF Types, Update
<1>8. OneUpdate'
  BY <1>2, FS_EmptySet DEF OneUpdate, Update
<1>9. Free' /\ HandsStored'
  BY <1>0, <1>2, <1>4, <1>5 DEF Free, HandsStored
<1>10. ASSUME NEW x \in stored, Waiting(x)' PROVE Coming(x)' \/ x \in overlooked'
  <2>1. CASE x = u.target
    BY <1>5, <2>1 DEF Coming
  <2>2. CASE x # u.target
    <3>1. Waiting(x) /\ todo[Handler] = {}
      BY <1>0, <1>2, <1>6, <1>10, <2>2 DEF Waiting, Types, Free
    <3>2. Coming(x) \/ x \in overlooked
      BY <1>0, <3>1 DEF Watched
    <3> QED
      BY <1>2, <1>4, <1>5, <3>1, <3>2 DEF Coming
  <2> QED
    BY <2>1, <2>2
<1>11. Watched'
  BY <1>2, <1>10 DEF Watched
<1> QED
  BY <1>7, <1>8, <1>9, <1>11 DEF ReactionInv

LEMMA ReceiveMessageInd ==
    ASSUME ReactionInv, NEW t \in Targets, ReceiveMessage(t) PROVE ReactionInv'
<1>0. Types /\ OneUpdate /\ Free /\ Watched /\ HandsStored
  BY DEF ReactionInv
<1>1. /\ StoreMessage(t, NoReactions) /\ at[Handler] = "idle"
      /\ todo' = [todo EXCEPT ![Handler] = {t}]
      /\ at' = [at EXCEPT ![Handler] = "taking"] \/ at' = [at EXCEPT ![Handler] = "sourcing"]
      /\ UNCHANGED <<pending, update, batch, standalone, hand, latest, overlooked>>
  BY DEF ReceiveMessage
<1>2. /\ stored' \subseteq Targets /\ stored' = stored \cup {t}
      /\ reactions' \in [Targets -> Reactions]
  BY <1>0, <1>1, StoreMessageType, NoReactionsType
<1>3. /\ at' \in [Goroutines -> Places]
      /\ at'[Handler] \in {"taking", "sourcing"}
      /\ at'[History] = at[History] /\ at'[Loader] = at[Loader]
  BY <1>0, <1>1 DEF Types, Places, Goroutines, Handler, History, Loader
<1>4. /\ todo' \in [Goroutines -> SUBSET Targets]
      /\ todo'[Handler] = {t}
      /\ todo'[History] = todo[History] /\ todo'[Loader] = todo[Loader]
  BY <1>0, <1>1 DEF Types, Goroutines, Handler, History, Loader
<1>5. Types'
  BY <1>0, <1>1, <1>2, <1>3, <1>4 DEF Types, Update
<1>6. OneUpdate' /\ HandsStored' /\ Free'
  BY <1>0, <1>1, <1>2, <1>3, <1>4 DEF OneUpdate, HandsStored, Free, Update
<1>7. todo[Handler] = {}
  BY <1>0, <1>1 DEF Free
<1>8. Watched'
  BY <1>0, <1>1, <1>2, <1>3, <1>4, <1>7 DEF Watched, Waiting, Coming
<1> QED
  BY <1>5, <1>6, <1>8 DEF ReactionInv

-----------------------------------------------------------------------------
(* The cache loader *)

LEMMA StartLoadInd == ASSUME ReactionInv, StartLoad PROVE ReactionInv'
<1>0. Types /\ OneUpdate /\ Free /\ Watched /\ HandsStored
  BY DEF ReactionInv
<1>1. /\ at' = [at EXCEPT ![Loader] = "restoring"]
      /\ todo' = [todo EXCEPT ![Loader] = Cached]
      /\ UNCHANGED <<stored, reactions, pending, update, batch, standalone, hand, latest, overlooked>>
  BY DEF StartLoad
<1>2. Types'
  BY <1>0, <1>1, ReactionAssumption DEF Types, Update, Places
<1>3. /\ at'[Loader] = "restoring"
      /\ at'[Handler] = at[Handler] /\ at'[History] = at[History]
      /\ todo'[Handler] = todo[Handler] /\ todo'[History] = todo[History]
  BY <1>0, <1>1 DEF Types, Goroutines, Handler, History, Loader
<1>4. OneUpdate' /\ HandsStored' /\ Free' /\ Watched'
  BY <1>0, <1>1, <1>3 DEF OneUpdate, HandsStored, Free, Watched, Coming, Update
<1> QED
  BY <1>2, <1>4 DEF ReactionInv

LEMMA RestoreInd == ASSUME ReactionInv, Restore PROVE ReactionInv'
<1>0. Types /\ OneUpdate /\ Free /\ Watched /\ HandsStored
  BY DEF ReactionInv
<1>1. PICK t \in todo[Loader], copy \in Snapshots :
         /\ StoreMessage(t, copy)
         /\ todo' = [todo EXCEPT ![Loader] = @ \ {t}]
         /\ at' = [at EXCEPT ![Loader] = IF todo[Loader] = {t} THEN "listing" ELSE "restoring"]
  BY DEF Restore
<1>2. UNCHANGED <<pending, update, batch, standalone, hand, latest, overlooked>>
  BY DEF Restore
<1>3. t \in Targets /\ copy \in Reactions
  BY <1>0, ReactionAssumption DEF Types, Goroutines
<1>4. /\ stored' \subseteq Targets /\ stored' = stored \cup {t}
      /\ reactions' \in [Targets -> Reactions]
  BY <1>0, <1>1, <1>3, StoreMessageType
<1>5. /\ at' \in [Goroutines -> Places]
      /\ at'[Loader] \in {"listing", "restoring"}
      /\ at'[Handler] = at[Handler] /\ at'[History] = at[History]
  BY <1>0, <1>1 DEF Types, Places, Goroutines, Handler, History, Loader
<1>6. /\ todo' \in [Goroutines -> SUBSET Targets]
      /\ todo'[Handler] = todo[Handler] /\ todo'[History] = todo[History]
  BY <1>0, <1>1 DEF Types, Goroutines, Handler, History, Loader
<1>7. Types'
  BY <1>0, <1>2, <1>4, <1>5, <1>6 DEF Types, Update
<1>8. OneUpdate' /\ HandsStored' /\ Free' /\ Watched'
  BY <1>0, <1>2, <1>4, <1>5, <1>6 DEF OneUpdate, HandsStored, Free, Watched, Coming, Update
<1> QED
  BY <1>7, <1>8 DEF ReactionInv

LEMMA ListTargetsInd == ASSUME ReactionInv, ListTargets PROVE ReactionInv'
<1>0. Types /\ OneUpdate /\ Free /\ Watched /\ HandsStored
  BY DEF ReactionInv
<1> DEFINE listed == {t \in Targets : Entries(t) # {}}
<1>1. /\ todo' = [todo EXCEPT ![Loader] = listed]
      /\ at' = [at EXCEPT ![Loader] = IF listed # {} THEN "taking" ELSE "idle"]
      /\ UNCHANGED <<stored, reactions, pending, update, batch, standalone, hand, latest, overlooked>>
  BY DEF ListTargets
<1>2. \A t \in Targets : Waiting(t) => t \in listed
  BY <1>0, EntriesFacts
<1>3. listed \in SUBSET Targets
  OBVIOUS
<1> HIDE DEF listed
<1>4. /\ at' \in [Goroutines -> Places]
      /\ at'[Handler] = at[Handler] /\ at'[History] = at[History]
  BY <1>0, <1>1 DEF Types, Places, Goroutines, Handler, History, Loader
<1>5. /\ todo' \in [Goroutines -> SUBSET Targets]
      /\ todo'[Loader] = listed
      /\ todo'[Handler] = todo[Handler] /\ todo'[History] = todo[History]
  BY <1>0, <1>1, <1>3 DEF Types, Goroutines, Handler, History, Loader
<1>6. Types'
  BY <1>0, <1>1, <1>4, <1>5 DEF Types, Update
<1>7. OneUpdate' /\ HandsStored' /\ Free'
  BY <1>0, <1>1, <1>4, <1>5 DEF OneUpdate, HandsStored, Free, Update
<1>8. Watched'
  BY <1>0, <1>1, <1>2, <1>5 DEF Watched, Waiting, Coming, Types
<1> QED
  BY <1>6, <1>7, <1>8 DEF ReactionInv

-----------------------------------------------------------------------------
(* History syncs *)

LEMMA ReceiveHistoryInd ==
    ASSUME ReactionInv, NEW b \in SUBSET Targets, NEW us \in SUBSET Update, ReceiveHistory(b, us)
    PROVE  ReactionInv'
<1>0. Types /\ OneUpdate /\ Free /\ Watched /\ HandsStored
  BY DEF ReactionInv
<1>1. /\ at[History] = "idle" /\ batch' = b /\ standalone' = us
      /\ at' = [at EXCEPT ![History] = IF b # {} THEN "inserting" ELSE "finishing"]
      /\ UNCHANGED <<stored, reactions, pending, update, todo, hand, latest, overlooked>>
  BY DEF ReceiveHistory
<1>2. /\ at' \in [Goroutines -> Places]
      /\ at'[Handler] = at[Handler] /\ at'[Loader] = at[Loader]
  BY <1>0, <1>1 DEF Types, Places, Goroutines, Handler, History, Loader
<1>3. Types'
  BY <1>0, <1>1, <1>2 DEF Types, Update
<1>4. OneUpdate' /\ HandsStored' /\ Free' /\ Watched'
  BY <1>0, <1>1, <1>2 DEF OneUpdate, HandsStored, Free, Watched, Waiting, Coming, Update
<1> QED
  BY <1>3, <1>4 DEF ReactionInv

LEMMA InsertFromHistoryInd == ASSUME ReactionInv, InsertFromHistory PROVE ReactionInv'
<1>0. Types /\ OneUpdate /\ Free /\ Watched /\ HandsStored
  BY DEF ReactionInv
<1>1. PICK t \in batch :
         /\ StoreMessage(t, NoReactions)
         /\ batch' = batch \ {t}
         /\ todo' = [todo EXCEPT ![History] = {t}]
  BY DEF InsertFromHistory
<1>2. /\ at[History] = "inserting" /\ at' = [at EXCEPT ![History] = "sourcing"]
      /\ UNCHANGED <<pending, update, standalone, hand, latest, overlooked>>
  BY DEF InsertFromHistory
<1>3. t \in Targets
  BY <1>0 DEF Types
<1>4. /\ stored' \subseteq Targets /\ stored' = stored \cup {t}
      /\ reactions' \in [Targets -> Reactions]
  BY <1>0, <1>1, <1>3, StoreMessageType, NoReactionsType
<1>5. /\ at' \in [Goroutines -> Places]
      /\ at'[History] = "sourcing"
      /\ at'[Handler] = at[Handler] /\ at'[Loader] = at[Loader]
  BY <1>0, <1>2 DEF Types, Places, Goroutines, Handler, History, Loader
<1>6. /\ todo' \in [Goroutines -> SUBSET Targets]
      /\ todo'[History] = {t}
      /\ todo'[Handler] = todo[Handler] /\ todo'[Loader] = todo[Loader]
  BY <1>0, <1>1, <1>3 DEF Types, Goroutines, Handler, History, Loader
<1>7. Types'
  BY <1>0, <1>1, <1>2, <1>4, <1>5, <1>6 DEF Types, Update
<1>8. OneUpdate' /\ HandsStored' /\ Free'
  BY <1>0, <1>2, <1>4, <1>5, <1>6 DEF OneUpdate, HandsStored, Free, Update
<1>9. todo[History] = {}
  BY <1>0, <1>2 DEF Free
<1>10. Watched'
  BY <1>0, <1>2, <1>4, <1>5, <1>6, <1>9 DEF Watched, Waiting, Coming
<1> QED
  BY <1>7, <1>8, <1>10 DEF ReactionInv

LEMMA ApplyStandaloneInd == ASSUME ReactionInv, ApplyStandalone PROVE ReactionInv'
<1>0. Types /\ OneUpdate /\ Free /\ Watched /\ HandsStored
  BY DEF ReactionInv
<1>1. PICK u \in standalone :
         /\ Apply(u)
         /\ standalone' = standalone \ {u}
         /\ at' = [at EXCEPT ![History] = IF standalone = {u} THEN "idle" ELSE "finishing"]
  BY DEF ApplyStandalone
<1>2. /\ at[History] = "finishing"
      /\ UNCHANGED <<stored, pending, update, batch, todo, hand, latest, overlooked>>
  BY DEF ApplyStandalone
<1>3. u \in Update
  BY <1>0 DEF Types
<1>4. /\ at' \in [Goroutines -> Places]
      /\ at'[Handler] = at[Handler] /\ at'[Loader] = at[Loader]
  BY <1>0, <1>1 DEF Types, Places, Goroutines, Handler, History, Loader
<1>5. Types'
  BY <1>0, <1>1, <1>2, <1>3, <1>4, ApplyType DEF Types, Update
<1>6. OneUpdate' /\ HandsStored' /\ Free' /\ Watched'
  BY <1>0, <1>2, <1>4 DEF OneUpdate, HandsStored, Free, Watched, Waiting, Coming, Update
<1> QED
  BY <1>5, <1>6 DEF ReactionInv

-----------------------------------------------------------------------------
(* The command loop *)

\* A message that is stored with nobody coming to look at its reactions is recorded.
LEMMA SendMessageInd ==
    ASSUME ReactionInv, NEW t \in Outgoing, SendMessage(t) PROVE ReactionInv'
<1>0. Types /\ OneUpdate /\ Free /\ Watched /\ HandsStored /\ t \in Targets
  BY ReactionAssumption DEF ReactionInv
<1>1. /\ StoreMessage(t, NoReactions)
      /\ UNCHANGED <<pending, at, update, batch, standalone, todo, hand, latest>>
  BY DEF SendMessage
<1>2. /\ stored' \subseteq Targets /\ stored' = stored \cup {t}
      /\ reactions' \in [Targets -> Reactions]
  BY <1>0, <1>1, StoreMessageType, NoReactionsType
<1>3. /\ overlooked \subseteq overlooked' /\ overlooked' \subseteq overlooked \cup {t}
      /\ t \notin stored /\ Waiting(t) /\ ~Coming(t) => t \in overlooked'
  BY <1>0, EntriesFacts DEF SendMessage
<1>4. Types'
  BY <1>0, <1>1, <1>2, <1>3 DEF Types, Update
<1>5. OneUpdate' /\ HandsStored' /\ Free'
  BY <1>0, <1>1, <1>2 DEF OneUpdate, HandsStored, Free, Update
<1>6. Watched'
  <2>1. ASSUME NEW x \in stored', Waiting(x) PROVE Coming(x) \/ x \in overlooked'
    <3>1. CASE x \in stored
      BY <1>0, <1>3, <2>1, <3>1 DEF Watched
    <3>2. CASE x \notin stored
      BY <1>2, <1>3, <2>1, <3>2
    <3> QED
      BY <3>1, <3>2
  <2> QED
    BY <1>1, <2>1 DEF Watched, Waiting, Coming
<1> QED
  BY <1>4, <1>5, <1>6 DEF ReactionInv

-----------------------------------------------------------------------------

LEMMA ArrivalInd == ASSUME ReactionInv, Arrival PROVE ReactionInv'
<1>1. CASE \E u \in Update : ReceiveReaction(u)
  BY <1>1, ReceiveReactionInd
<1>2. CASE \E t \in Targets : ReceiveMessage(t)
  BY <1>2, ReceiveMessageInd
<1>3. CASE StartLoad
  BY <1>3, StartLoadInd
<1>4. ASSUME NEW b \in Batches, NEW u \in Update,
             ReceiveHistory(b, {}) \/ ReceiveHistory(b, {u})
      PROVE  ReactionInv'
  <2>1. b \in SUBSET Targets /\ {} \in SUBSET Update /\ {u} \in SUBSET Update
    BY ReactionAssumption
  <2> QED
    BY <1>4, <2>1, ReceiveHistoryInd
<1>5. CASE \E t \in Outgoing : SendMessage(t)
  BY <1>5, SendMessageInd
<1> QED
  BY <1>1, <1>2, <1>3, <1>4, <1>5 DEF Arrival

LEMMA ReactionNextInd == ReactionInv /\ [ReactionNext]_reactionVars => ReactionInv'
<1> SUFFICES ASSUME ReactionInv, [ReactionNext]_reactionVars PROVE ReactionInv'
  OBVIOUS
<1> USE DEF Goroutines
<1>1. CASE Arrival
  BY <1>1, ArrivalInd
<1>2. CASE HandlerStep
  BY <1>2, CheckTargetInd, QueueReactionInd, SourceInd, TakeInd, ApplyNextInd DEF HandlerStep
<1>3. CASE LoaderStep
  BY <1>3, RestoreInd, ListTargetsInd, TakeInd, ApplyNextInd DEF LoaderStep
<1>4. CASE HistoryStep
  BY <1>4, InsertFromHistoryInd, SourceInd, ApplyStandaloneInd, TakeInd, ApplyNextInd
     DEF HistoryStep
<1>5. CASE UNCHANGED reactionVars
  BY <1>5 DEF reactionVars, ReactionInv, Types, OneUpdate, Free, Watched, Waiting, Coming, HandsStored, Update
<1> QED
  BY <1>1, <1>2, <1>3, <1>4, <1>5 DEF ReactionNext

LEMMA Invariance == ReactionSpec => []ReactionInv
BY ReactionInitInd, ReactionNextInd, PTL DEF ReactionSpec

\* The table, what the goroutines have in hand and where they stand have their types:
\* in particular, whatever waits in pendingReactions is one emoji per sender.
THEOREM ReactionTypeCorrect == ReactionSpec => []ReactionTypeOK
<1>1. ReactionInv => ReactionTypeOK
  BY ReactionTypeParts DEF ReactionInv
<1> QED
  BY <1>1, Invariance, PTL

\* takePendingReactions, called once more after queueing (handleLiveReaction), lets no
\* reaction wait for a stored message that nobody will look at, however many
\* messages, caches and history syncs there are; but for one to a message of our own
\* that was queued before sendText or sendMedia stored the message.
THEOREM NobodyStranded == ReactionSpec => []NoneStranded
<1>1. ReactionInv => NoneStranded
  BY StrandedIff DEF ReactionInv
<1> QED
  BY <1>1, Invariance, PTL

-----------------------------------------------------------------------------
(* AutoMarkRead *)

\* The timers are numbered in the order in which they were armed, and a selection has
\* room for one more.
Counted ==
    \E k \in 0..MaxTimers :
        /\ DOMAIN timers = 1..k
        /\ manager.at = "opened" => k < MaxTimers

\* The fields name a timer that was armed for their chat, and a command on its way has an
\* open chat.
Fields ==
    /\ markReadTimer # NoTimer =>
         /\ markReadTimer \in DOMAIN timers
         /\ timers[markReadTimer].chat = markReadTimerChat
    /\ manager.at # "idle" => currentReceiver # NoChat
    /\ manager.at = "cancelled" => markReadTimer = NoTimer

Wishes ==
    /\ markReadTimer # NoTimer => markReadTimerChat \notin wished
    /\ manager.at = "opened" => currentReceiver \notin wished

Early ==
    /\ \A m \in marking : m.chat \in wished => m.early
    /\ manager.at = "cancelled" => \A m \in marking : m.chat = currentReceiver => m.early

MarkInv == MarkTypeOK /\ Counted /\ Fields /\ PendingTimerRuns /\ Wishes /\ Early

\* A mark that was just sent on its way.
LEMMA MarkFacts ==
    ASSUME NEW c \in Chats, NEW intent \in Intents
    PROVE  /\ Mark(c, intent) \in [chat : Chats, by : Intents, early : BOOLEAN]
           /\ Mark(c, intent).chat = c
BY DEF Mark

\* What MarkedEarly changes.
LEMMA MarkedEarlyFacts ==
    ASSUME MarkTypeOK
    PROVE  /\ MarkedEarly \subseteq [chat : Chats, by : Intents, early : BOOLEAN]
           /\ \A m \in MarkedEarly : m.chat = currentReceiver => m.early
           /\ \A m \in MarkedEarly : m.chat # currentReceiver => m \in marking
<1> SUFFICES ASSUME NEW n \in marking,
                    NEW m, m = IF n.chat = currentReceiver THEN [n EXCEPT !.early = TRUE] ELSE n
             PROVE  /\ m \in [chat : Chats, by : Intents, early : BOOLEAN]
                    /\ m.chat = currentReceiver => m.early
                    /\ m.chat # currentReceiver => m \in marking
  BY DEF MarkedEarly
<1>1. n \in [chat : Chats, by : Intents, early : BOOLEAN]
  BY DEF MarkTypeOK
<1>2. CASE n.chat = currentReceiver
  BY <1>1, <1>2
<1>3. CASE n.chat # currentReceiver
  BY <1>1, <1>3
<1> QED
  BY <1>2, <1>3

LEMMA TimersCounted ==
    ASSUME NEW k \in Nat, DOMAIN timers = 1..k
    PROVE  Cardinality(DOMAIN timers) = k
BY FS_Interval

LEMMA MarkInitInd == MarkInit => MarkInv
<1> SUFFICES ASSUME MarkInit PROVE MarkInv
  OBVIOUS
<1>1. DOMAIN timers = {}
  BY DEF MarkInit
<1>2. MarkTypeOK
  BY <1>1 DEF MarkInit, MarkTypeOK, IsManager, IsHandler, Reasons
<1>3. Counted
  <2>1. 0 \in 0..MaxTimers /\ DOMAIN timers = 1..0 /\ manager.at # "opened"
    BY <1>1, ChatAssumption DEF MarkInit
  <2> QED
    BY <2>1 DEF Counted
<1> QED
  BY <1>2, <1>3 DEF MarkInit, MarkInv, Fields, PendingTimerRuns, Wishes, Early

-----------------------------------------------------------------------------
(* Steps that change timers *)

LEMMA StoppedType ==
    ASSUME MarkTypeOK, Fields
    PROVE  /\ DOMAIN Stopped(markReadTimer) = DOMAIN timers
           /\ \A i \in DOMAIN timers :
                /\ Stopped(markReadTimer)[i] \in
                     [chat : Chats, state : {"armed", "expired", "stopped", "over"}]
                /\ Stopped(markReadTimer)[i].chat = timers[i].chat
<1>1. CASE markReadTimer # NoTimer /\ timers[markReadTimer].state = "armed"
  BY <1>1 DEF Stopped, MarkTypeOK, Fields
<1>2. CASE ~(markReadTimer # NoTimer /\ timers[markReadTimer].state = "armed")
  BY <1>2 DEF Stopped, MarkTypeOK
<1> QED
  BY <1>1, <1>2

LEMMA TimerInd ==
    ASSUME MarkInv, NEW i \in DOMAIN timers, Expire(i) \/ Check(i)
    PROVE  MarkInv'
<1> DEFINE state == IF Expire(i) THEN "expired" ELSE "over"
<1>0. MarkTypeOK /\ Counted /\ Fields /\ PendingTimerRuns /\ Wishes /\ Early
  BY DEF MarkInv
<1>1. /\ timers' = [timers EXCEPT ![i].state = state]
      /\ state \in {"expired", "over"}
      /\ UNCHANGED <<currentReceiver, manager, handler, unread, wished>>
  BY DEF Expire, Check
<1>2. /\ DOMAIN timers' = DOMAIN timers
      /\ \A j \in DOMAIN timers : timers'[j].chat = timers[j].chat
      /\ \A j \in DOMAIN timers : j # i => timers'[j] = timers[j]
      /\ timers'[i].state = state
      /\ \A j \in DOMAIN timers :
           timers'[j] \in [chat : Chats, state : {"armed", "expired", "stopped", "over"}]
  <2> HIDE DEF state
  <2> QED
    BY <1>0, <1>1 DEF MarkTypeOK
<1>3. timers[i].chat \in Chats /\ timers[i].chat # NoChat
  BY <1>0, ChatAssumption DEF MarkTypeOK
<1>4. CASE Expire(i)
  <2>1. UNCHANGED <<markReadTimer, markReadTimerChat, marking>> /\ timers'[i].state = "expired"
    BY <1>2, <1>4 DEF Expire
  <2>2. MarkTypeOK'
    BY <1>0, <1>1, <1>2, <2>1 DEF MarkTypeOK, IsManager, IsHandler
  <2>3. Counted' /\ Fields' /\ Wishes' /\ Early'
    BY <1>0, <1>1, <1>2, <2>1 DEF Counted, Fields, Wishes, Early
  <2>4. PendingTimerRuns'
    BY <1>0, <1>1, <1>2, <2>1 DEF PendingTimerRuns, Fields
  <2> QED
    BY <2>2, <2>3, <2>4 DEF MarkInv
<1>5. CASE Check(i)
  <2> DEFINE wanted == currentReceiver = timers[i].chat /\ markReadTimerChat = timers[i].chat
  <2>1. CASE wanted
    <3>1. markReadTimer' = NoTimer /\ markReadTimerChat' = NoChat
          /\ marking' = marking \cup {Mark(timers[i].chat, "probe")}
      BY <1>5, <2>1 DEF Check
    <3>0. Mark(timers[i].chat, "probe") \in [chat : Chats, by : Intents, early : BOOLEAN]
          /\ Mark(timers[i].chat, "probe").chat = timers[i].chat
      BY <1>3, MarkFacts DEF Intents
    <3>2. MarkTypeOK'
      BY <1>0, <1>1, <1>2, <3>0, <3>1 DEF MarkTypeOK, IsManager, IsHandler
    <3>3. Counted' /\ Fields' /\ Wishes' /\ PendingTimerRuns'
      BY <1>0, <1>1, <1>2, <3>1 DEF Counted, Fields, Wishes, PendingTimerRuns
    <3>4. markReadTimer # NoTimer
      BY <1>0, <1>3, <2>1 DEF MarkTypeOK
    <3>5. Early'
      BY <1>0, <1>1, <2>1, <3>0, <3>1, <3>4 DEF Wishes, Early, Fields
    <3> QED
      BY <3>2, <3>3, <3>5 DEF MarkInv
  <2>2. CASE ~wanted
    <3>1. UNCHANGED <<markReadTimer, markReadTimerChat, marking>>
      BY <1>5, <2>2 DEF Check
    <3>2. MarkTypeOK'
      BY <1>0, <1>1, <1>2, <3>1 DEF MarkTypeOK, IsManager, IsHandler
    <3>3. Counted' /\ Fields' /\ Wishes' /\ Early'
      BY <1>0, <1>1, <1>2, <3>1 DEF Counted, Fields, Wishes, Early
    <3>4. markReadTimer # NoTimer /\ manager.at # "opened" => markReadTimer # i
      BY <1>0, <2>2 DEF PendingTimerRuns
    <3>5. PendingTimerRuns'
      BY <1>0, <1>1, <1>2, <3>1, <3>4 DEF PendingTimerRuns, Fields
    <3> QED
      BY <3>2, <3>3, <3>5 DEF MarkInv
  <2> QED
    BY <2>1, <2>2
<1> QED
  BY <1>4, <1>5

LEMMA ScheduleInd == ASSUME MarkInv, Schedule PROVE MarkInv'
<1>0. MarkTypeOK /\ Counted /\ Fields /\ PendingTimerRuns /\ Wishes /\ Early
  BY DEF MarkInv
<1>1. /\ manager.at = "opened" /\ manager' = [at |-> "idle"]
      /\ UNCHANGED <<currentReceiver, handler, unread, wished>>
  BY DEF Schedule
<1>2. currentReceiver \in Chats /\ currentReceiver # NoChat
  BY <1>0, <1>1, ChatAssumption DEF MarkTypeOK, Fields
<1>3. manager' \in [at : {"idle", "cancelled"}] /\ manager'.at = "idle"
  BY <1>1
<1>4. PICK k \in 0..MaxTimers : DOMAIN timers = 1..k /\ k < MaxTimers
  BY <1>0, <1>1 DEF Counted
<1>5. CASE manager.intent = "commit"
  <2> DEFINE new == Mark(currentReceiver, "commit")
  <2>0. new \in [chat : Chats, by : Intents, early : BOOLEAN] /\ new.chat = currentReceiver
    BY <1>2, MarkFacts DEF Intents
  <2>1. /\ markReadTimer' = NoTimer /\ markReadTimerChat' = NoChat
        /\ timers' = Stopped(markReadTimer) /\ marking' = marking \cup {new}
    BY <1>5 DEF Schedule
  <2> HIDE DEF new
  <2>2. MarkTypeOK'
    BY <1>0, <1>1, <1>2, <1>3, <2>0, <2>1, StoppedType DEF MarkTypeOK, IsManager, IsHandler
  <2>4. Early'
    BY <1>0, <1>1, <1>3, <2>0, <2>1 DEF Wishes, Early
  <2>3. Counted'
    BY <1>0, <1>3, <1>4, <2>1, StoppedType DEF Counted
  <2> QED
    BY <1>3, <2>1, <2>2, <2>3, <2>4 DEF MarkInv, Fields, PendingTimerRuns, Wishes
<1>6. CASE manager.intent # "commit"
  <2> DEFINE i == k + 1
             old == Stopped(markReadTimer)
             armed == [chat |-> currentReceiver, state |-> "armed"]
  <2>1. Cardinality(DOMAIN timers) + 1 = i /\ i \in TimerIds /\ i # NoTimer /\ i \notin DOMAIN timers
    BY <1>4, TimersCounted, ChatAssumption DEF TimerIds, NoTimer
  <2>2. /\ markReadTimer' = i /\ markReadTimerChat' = currentReceiver
        /\ timers' = [j \in DOMAIN timers \cup {i} |-> IF j = i THEN armed ELSE old[j]]
        /\ marking' = marking
    BY <1>6, <2>1 DEF Schedule
  <2>3. armed \in [chat : Chats, state : {"armed", "expired", "stopped", "over"}]
    BY <1>2
  <2>4. /\ DOMAIN timers' = DOMAIN timers \cup {i} /\ timers'[i] = armed
        /\ \A j \in DOMAIN timers : timers'[j] = old[j]
    BY <2>1, <2>2
  <2>5. /\ DOMAIN timers' \subseteq TimerIds
        /\ \A j \in DOMAIN timers' :
             timers'[j] \in [chat : Chats, state : {"armed", "expired", "stopped", "over"}]
    BY <1>0, <2>1, <2>3, <2>4, StoppedType DEF MarkTypeOK
  <2>6. MarkTypeOK'
    <3> HIDE DEF i
    <3> QED
      BY <1>0, <1>1, <1>2, <1>3, <2>1, <2>2, <2>5 DEF MarkTypeOK, IsManager, IsHandler
  <2>7. Counted'
    <3>1. i \in 0..MaxTimers /\ DOMAIN timers' = 1..i
      BY <1>4, <2>4, ChatAssumption
    <3> HIDE DEF i
    <3> QED
      BY <1>3, <3>1 DEF Counted
  <2>8. timers'[markReadTimer'].chat = markReadTimerChat' /\ timers'[markReadTimer'].state = "armed"
    BY <2>2, <2>4
  <2>9. Fields' /\ PendingTimerRuns' /\ Wishes' /\ Early'
    BY <1>0, <1>1, <1>3, <2>2, <2>4, <2>8 DEF Fields, PendingTimerRuns, Wishes, Early
  <2> QED
    BY <2>6, <2>7, <2>9 DEF MarkInv
<1> QED
  BY <1>5, <1>6

LEMMA CancelInd == ASSUME MarkInv, CancelTimer PROVE MarkInv'
<1>0. MarkTypeOK /\ Counted /\ Fields /\ Wishes /\ Early
  BY DEF MarkInv
<1>1. /\ manager' = [at |-> "cancelled"] /\ timers' = Stopped(markReadTimer)
      /\ markReadTimer' = NoTimer /\ markReadTimerChat' = NoChat /\ currentReceiver # NoChat
      /\ marking' = MarkedEarly
      /\ UNCHANGED <<currentReceiver, handler, unread, wished>>
  BY DEF CancelTimer
<1>2. MarkTypeOK'
  BY <1>0, <1>1, StoppedType, MarkedEarlyFacts DEF MarkTypeOK, IsManager, IsHandler
<1>3. Counted'
  BY <1>0, <1>1, StoppedType DEF Counted
<1>4. Early'
  BY <1>0, <1>1, MarkedEarlyFacts DEF Early
<1> QED
  BY <1>1, <1>2, <1>3, <1>4 DEF MarkInv, Fields, PendingTimerRuns, Wishes

-----------------------------------------------------------------------------
(* The other steps *)

LEMMA SelectInd ==
    ASSUME MarkInv, NEW c \in Chats, NEW intent \in Intents, Select(c, intent)
    PROVE  MarkInv'
<1>0. MarkTypeOK /\ Counted /\ Fields /\ Wishes /\ Early
  BY DEF MarkInv
<1>1. /\ currentReceiver' = c /\ manager' = [at |-> "opened", intent |-> intent]
      /\ wished' = wished \ {c} /\ Cardinality(DOMAIN timers) < MaxTimers
      /\ UNCHANGED <<markReadTimer, markReadTimerChat, timers, marking, handler, unread>>
  BY DEF Select
<1>2. manager' \in [at : {"opened"}, intent : Intents] /\ manager'.at = "opened"
  BY <1>1
<1>3. MarkTypeOK'
  BY <1>0, <1>1, <1>2 DEF MarkTypeOK, IsManager, IsHandler
<1>4. Counted'
  <2>1. PICK k \in 0..MaxTimers : DOMAIN timers = 1..k
    BY <1>0 DEF Counted
  <2>2. k < MaxTimers
    BY <1>1, <2>1, TimersCounted, ChatAssumption
  <2> QED
    BY <1>1, <2>1, <2>2 DEF Counted
<1>5. Fields' /\ Wishes' /\ PendingTimerRuns' /\ Early'
  BY <1>0, <1>1, <1>2, ChatAssumption DEF Fields, Wishes, PendingTimerRuns, Early
<1> QED
  BY <1>3, <1>4, <1>5 DEF MarkInv

LEMMA MarkUnreadInd == ASSUME MarkInv, MarkUnread PROVE MarkInv'
<1>0. MarkTypeOK /\ Counted /\ Fields /\ Wishes /\ Early
  BY DEF MarkInv
<1>1. /\ manager.at = "cancelled" /\ manager' = [at |-> "idle"]
      /\ unread' = [unread EXCEPT ![currentReceiver] = @ \cup {"wish"}]
      /\ wished' = wished \cup {currentReceiver}
      /\ UNCHANGED <<currentReceiver, markReadTimer, markReadTimerChat, timers, marking, handler>>
  BY DEF MarkUnread
<1>2. markReadTimer = NoTimer /\ currentReceiver \in Chats
  BY <1>0, <1>1 DEF Fields, MarkTypeOK
<1>3. MarkTypeOK'
  BY <1>0, <1>1, <1>2 DEF MarkTypeOK, IsManager, IsHandler, Reasons
<1>4. Counted'
  BY <1>0, <1>1 DEF Counted
<1> QED
  BY <1>0, <1>1, <1>2, <1>3, <1>4 DEF MarkInv, Fields, PendingTimerRuns, Wishes, Early

\* Steps that touch neither timers nor commands.
LEMMA OtherInd ==
    ASSUME MarkInv,
           UNCHANGED <<currentReceiver, markReadTimer, markReadTimerChat, timers, manager, wished>>,
           marking' \subseteq marking, IsHandler(handler)', unread' \in [Chats -> SUBSET Reasons]
    PROVE  MarkInv'
<1>1. MarkTypeOK'
  BY DEF MarkInv, MarkTypeOK, IsManager
<1> QED
  BY <1>1 DEF MarkInv, Counted, Fields, PendingTimerRuns, Wishes, Early

LEMMA MarkNextInd == ASSUME MarkInv, [MarkNext]_markVars PROVE MarkInv'
<1>0. MarkTypeOK /\ Fields
  BY DEF MarkInv
<1>1. CASE TimerStep
  BY <1>1, TimerInd DEF TimerStep
<1>2. ASSUME NEW m \in marking, FinishMark(m) PROVE MarkInv'
  <2>1. unread' \in [Chats -> SUBSET Reasons]
    BY <1>0, <1>2 DEF FinishMark, MarkTypeOK
  <2> QED
    BY <1>0, <1>2, <2>1, OtherInd DEF FinishMark, MarkTypeOK, IsHandler
<1>3. CASE ManagerStep
  BY <1>3, ScheduleInd, MarkUnreadInd DEF ManagerStep
<1>4. CASE MessageStep
  <2>1. CASE Decide
    <3>1. handler' \in [at : {"decided"}, chat : Chats, markUnread : BOOLEAN]
      BY <1>0, <2>1 DEF Decide, MarkTypeOK, IsHandler
    <3> QED
      BY <1>0, <2>1, <3>1, OtherInd DEF Decide, MarkTypeOK, IsHandler
  <2>2. CASE StoreFlagged
    <3>1. handler.chat \in Chats /\ handler' \in [at : {"idle"}]
      BY <1>0, <2>2 DEF StoreFlagged, MarkTypeOK, IsHandler
    <3>2. unread' \in [Chats -> SUBSET Reasons]
      BY <1>0, <2>2, <3>1 DEF StoreFlagged, MarkTypeOK, Reasons
    <3> QED
      BY <1>0, <2>2, <3>1, <3>2, OtherInd DEF StoreFlagged, MarkTypeOK, IsHandler
  <2>3. CASE StoreRead
    BY <1>0, <2>3, OtherInd DEF StoreRead, MarkTypeOK, IsHandler
  <2> QED
    BY <1>4, <2>1, <2>2, <2>3 DEF MessageStep
<1>5. CASE Command
  <2>1. CASE MarkRead
    BY <1>0, <2>1, OtherInd DEF MarkRead, MarkTypeOK, IsHandler
  <2> QED
    BY <1>5, <2>1, CancelInd, SelectInd DEF Command
<1>6. ASSUME NEW c \in Arrivals, Arrive(c) \/ OwnMessage(c) PROVE MarkInv'
  <2>1. c \in Chats
    BY ChatAssumption
  <2>2. CASE Arrive(c)
    <3>1. handler' \in [at : {"looked"}, chat : Chats, inDwell : BOOLEAN]
      BY <2>1, <2>2 DEF Arrive
    <3> QED
      BY <1>0, <2>2, <3>1, OtherInd DEF Arrive, MarkTypeOK, IsHandler
  <2>3. CASE OwnMessage(c)
    <3>1. unread' \in [Chats -> SUBSET Reasons]
      BY <1>0, <2>1, <2>3 DEF OwnMessage, MarkTypeOK, Reasons
    <3> QED
      BY <1>0, <2>3, <3>1, OtherInd DEF OwnMessage, MarkTypeOK, IsHandler
  <2> QED
    BY <1>6, <2>2, <2>3
<1>7. CASE UNCHANGED markVars
  BY <1>0, <1>7, OtherInd DEF markVars, MarkTypeOK, IsHandler
<1> QED
  BY <1>1, <1>2, <1>3, <1>4, <1>5, <1>6, <1>7 DEF MarkNext, MarkStep, Event

-----------------------------------------------------------------------------

\* Open chat, timers, marks, commands and unread reasons have the types that the model
\* declares; in particular there is a pending chat exactly when there is a pending timer.
THEOREM MarkTypeCorrect == MarkSpec => []MarkTypeOK
<1>1. MarkInv => MarkTypeOK
  BY DEF MarkInv
<1> QED
  BY <1>1, MarkInitInd, MarkNextInd, PTL DEF MarkSpec

\* setCurrentReceiver, the timer's function and markCurrentChatUnread keep the two fields
\* true: outside a selection the pending timer runs and is for the open chat.
THEOREM PendingTimer == MarkSpec => []PendingTimerRuns
<1>1. MarkInv => PendingTimerRuns
  BY DEF MarkInv
<1> QED
  BY <1>1, MarkInitInd, MarkNextInd, PTL DEF MarkSpec

\* What the user marked unread is undone, as long as the chat is not selected again, only
\* by /read, by a message of one's own, and by marks that were on their way when /unread
\* dropped the timer: no timer that is checked later marks the chat.
THEOREM WishesStand == MarkSpec => WishStands
<1> DEFINE undone(c) == "wish" \in unread[c] /\ "wish" \notin unread'[c]
           excused(c) == \/ MarkRead \/ OwnMessage(c)
                         \/ \E m \in marking : m.chat = c /\ m.early /\ FinishMark(m)
<1>1. ASSUME MarkInv, MarkNext, NEW c \in wished, undone(c) PROVE excused(c)
  <2>0. c \in Chats /\ unread \in [Chats -> SUBSET Reasons] /\ MarkTypeOK /\ Early
    BY <1>1 DEF MarkInv, MarkTypeOK
  <2>1. ~TimerStep
    BY <1>1 DEF TimerStep, Expire, Check
  <2>2. CASE MarkStep
    <3>1. PICK m \in marking : FinishMark(m)
      BY <2>2 DEF MarkStep
    <3>2. m.chat = c
      BY <1>1, <2>0, <3>1 DEF FinishMark
    <3> QED
      BY <1>1, <2>0, <3>1, <3>2 DEF Early
  <2>3. ~ManagerStep
    BY <1>1, <2>0 DEF ManagerStep, Schedule, MarkUnread
  <2>4. ~MessageStep
    BY <1>1, <2>0 DEF MessageStep, Decide, StoreFlagged, StoreRead
  <2>5. CASE Command
    BY <1>1, <2>5 DEF Command, CancelTimer, Select
  <2>6. CASE Event
    <3>1. PICK d \in Arrivals : Arrive(d) \/ OwnMessage(d)
      BY <2>6 DEF Event
    <3>2. OwnMessage(d) /\ d = c
      BY <1>1, <2>0, <3>1, ChatAssumption DEF Arrive, OwnMessage
    <3> QED
      BY <3>2
  <2> QED
    BY <1>1, <2>1, <2>2, <2>3, <2>4, <2>5, <2>6 DEF MarkNext
<1>2. MarkInv /\ [MarkNext]_markVars => [\A c \in wished : undone(c) => excused(c)]_markVars
  BY <1>1
<1>3. MarkInv /\ [MarkNext]_markVars => [\A c \in wished :
         "wish" \in unread[c] /\ "wish" \notin unread'[c] =>
             MarkRead \/ OwnMessage(c)
                 \/ \E m \in marking : m.chat = c /\ m.early /\ FinishMark(m)]_markVars
  BY <1>2
<1> HIDE DEF undone, excused
<1> QED
  BY <1>3, MarkInitInd, MarkNextInd, PTL DEF MarkSpec, WishStands

-----------------------------------------------------------------------------
(* ContactNames *)

\* A label that is not empty.
Named(label) == label \in Labels \ {""}

\* The store forgets nothing that it knew when the session began.
StartFacts == (fullBefore => store.full) /\ (lidBefore => mapped)

\* A message on its way is labelled with the full name, if the session began with it.
ArrivingFacts ==
    arriving # Absent =>
        LET message == arriving.message
        IN /\ message.chat # "group" => message.contact = message.chat
           /\ message.fromMe => message.chat # "group"
           /\ Named(message.name) /\ Named(message.short)
           /\ lidBefore => message.contact = "pn"
           /\ fullBefore /\ message.contact = "pn" => message.name = "full"

\* Nothing is labelled or titled with the empty string, and a 1:1 chat with a stored
\* message has a title.
Titled ==
    /\ \A id \in Ids : titles[id] # ""
    /\ \A m \in Messages : msgs[m] # Absent =>
         /\ Named(msgs[m].name) /\ Named(msgs[m].short)
         /\ msgs[m].chat # "group" => titles[msgs[m].chat] # Absent
    /\ \A m \in Messages : cache[m] # Absent => Named(cache[m].name) /\ Named(cache[m].short)

\* What loadContacts, RepairChatNames and RefreshContactNames have reached in turn.
ContactsFull ==
    loading \in {"repair", "refresh", "done"} /\ fullBefore =>
        \A id \in Known : id \in DOMAIN contacts /\ contacts[id].name = "full"
TitlesFull ==
    loading \in {"refresh", "done"} /\ fullBefore => \A id \in Known : titles[id] \in {Absent, "full"}
MessagesFull ==
    loading = "done" /\ fullBefore /\ lidBefore =>
        \A m \in Messages : msgs[m] # Absent => msgs[m].name = "full"

NameInv == TypeOK /\ StartFacts /\ ArrivingFacts /\ Titled /\ ContactsFull /\ TitlesFull /\ MessagesFull

-----------------------------------------------------------------------------
(* Labels *)

LEMMA UpgradedFacts ==
    ASSUME NEW a, NEW b
    PROVE  /\ Upgraded(a, b) \in {a, b}
           /\ Upgraded("full", b) = "full"
           /\ a \in Labels /\ b \in Labels => Upgraded(a, b) \in Labels
           /\ Named(a) /\ b \in Labels => Named(Upgraded(a, b))
           /\ Named(a) /\ b \in Labels /\ a # "own" /\ b # "own" => Upgraded(a, b) # "own"
BY DEF Upgraded, Upgrades, Fallback, Named, Labels

LEMMA IdNameFacts ==
    ASSUME TypeOK, Titled, NEW id \in Ids
    PROVE  Named(IdName(id)) /\ Named(IdShort(id))
<1>1. Named(TitleOf(id))
  BY DEF TypeOK, Titled, TitleOf, Named, Labels
<1>2. id \in DOMAIN contacts => contacts[id].name \in Labels /\ contacts[id].short \in Labels
  BY DEF TypeOK, Contact
<1> QED
  BY <1>1, <1>2 DEF IdName, IdShort, First, Named

LEMMA ContactNameFacts ==
    ASSUME TypeOK, Titled, NEW id \in Ids
    PROVE  /\ Named(ContactName(id)) /\ Named(ContactShort(id))
           /\ store.full /\ id = "pn" => ContactName(id) = "full"
<1>1. Full \in {"", "full"} /\ Push \in {"", "push"} /\ (store.full => Full = "full")
  BY DEF Full, Push
<1> QED
  BY <1>1, IdNameFacts DEF ContactName, ContactShort, First, Named, Labels

Labelled(message, source, group, fromMe) ==
    /\ message \in Message
    /\ message.contact = ResolveLID(source)
    /\ message.chat = IF group THEN "group" ELSE ResolveLID(source)
    /\ message.fromMe = fromMe
    /\ Named(message.name) /\ Named(message.short)
    /\ store.full /\ message.contact = "pn" => message.name = "full"
    /\ message.name \in {ContactName(ResolveLID(source)), "", "push"}
    /\ message.short \in {ContactShort(ResolveLID(source)), "", "push"}
LEMMA ContactForMessageFacts ==
    ASSUME TypeOK, Titled, NEW source \in Ids, NEW group \in BOOLEAN, NEW fromMe \in BOOLEAN,
           NEW pushName \in {"", "push"}
    PROVE  Labelled(ContactForMessage(source, group, fromMe, pushName), source, group, fromMe)
<1> DEFINE id == ResolveLID(source)
           given == IF group \/ ~fromMe THEN pushName ELSE ""
           name == Upgraded(ContactName(id), given)
           short == Upgraded(ContactShort(id), given)
<1>1. id \in Ids
  BY DEF ResolveLID, Ids
<1>2. given \in {"", "push"} /\ given \in Labels
  BY DEF Labels
<1>3. /\ Named(ContactName(id)) /\ Named(ContactShort(id))
      /\ store.full /\ id = "pn" => ContactName(id) = "full"
  BY <1>1, ContactNameFacts
<1> HIDE DEF id, given
<1>4. /\ Named(name) /\ Named(short) /\ (store.full /\ id = "pn" => name = "full")
      /\ name \in {ContactName(id), given} /\ short \in {ContactShort(id), given}
  BY <1>2, <1>3, UpgradedFacts
<1> DEFINE chat == IF group THEN "group" ELSE id
           r == [chat |-> chat, contact |-> id, fromMe |-> fromMe, name |-> name, short |-> short]
<1>5. ContactForMessage(source, group, fromMe, pushName) = r
  BY DEF ContactForMessage, id, given
<1>6. chat \in Ids \cup {"group"}
  BY <1>1
<1> HIDE DEF name, short, chat
<1>7. r.chat = chat /\ r.contact = id /\ r.name = name /\ r.short = short
  OBVIOUS
<1>8. r.fromMe = fromMe
  OBVIOUS
<1>9. r \in Message
  BY <1>1, <1>4, <1>6 DEF Message, Named
<1> HIDE DEF r
<1>10. /\ store.full /\ r.contact = "pn" => r.name = "full"
       /\ r.name \in {ContactName(id), "", "push"} /\ r.short \in {ContactShort(id), "", "push"}
       /\ Named(r.name) /\ Named(r.short)
  BY <1>2, <1>4, <1>7
<1>11. Labelled(r, source, group, fromMe)
  BY <1>7, <1>8, <1>9, <1>10 DEF id, chat, Labelled
<1> QED
  BY <1>5, <1>11

-----------------------------------------------------------------------------
(* Contacts and titles *)

WithContact(cs, id, c, new) ==
    /\ DOMAIN new = DOMAIN cs \cup {id} /\ \A i \in DOMAIN new : new[i] \in Contact
    /\ \A i \in DOMAIN cs \ {id} : new[i] = cs[i]
    /\ c.name # "" => new[id].name = c.name
Contacts(cs) == DOMAIN cs \subseteq Ids /\ \A i \in DOMAIN cs : cs[i] \in Contact
LEMMA AddedFacts ==
    ASSUME NEW cs, NEW id \in Ids, Contacts(cs), NEW c \in Contact
    PROVE  WithContact(cs, id, c, Added(cs, id, c))
<1> DEFINE both(a) == [name |-> First(c.name, a.name), short |-> First(c.short, a.short)]
<1>1. c.name \in Labels /\ c.short \in Labels
  BY DEF Contact
<1>2. \A i \in DOMAIN cs : both(cs[i]) \in Contact /\ (c.name # "" => both(cs[i]).name = c.name)
  BY <1>1 DEF Contacts, Contact, First
<1> DEFINE new == [i \in DOMAIN cs \cup {id} |->
                     IF i # id THEN cs[i] ELSE IF id \notin DOMAIN cs THEN c ELSE both(cs[id])]
<1>3. Added(cs, id, c) = new
  BY DEF Added
<1> HIDE DEF both
<1>4. WithContact(cs, id, c, new)
  BY <1>2 DEF WithContact, Contacts
<1> QED
  BY <1>3, <1>4

LEMMA RepairFacts ==
    ASSUME TypeOK, Titled, NEW cs, NEW sv, DOMAIN cs \subseteq Ids,
           \A i \in DOMAIN cs : cs[i] \in Contact
    PROVE  /\ DOMAIN RepairedContacts(cs, sv) = DOMAIN cs
           /\ \A i \in DOMAIN cs : /\ RepairedContacts(cs, sv)[i] \in Contact
                                   /\ cs[i].name = "full" => RepairedContacts(cs, sv)[i].name = "full"
           /\ RepairedTitles(cs, sv) \in [Ids -> Labels \cup {Absent}]
           /\ \A i \in Ids : /\ RepairedTitles(cs, sv)[i] # ""
                             /\ titles[i] # Absent => RepairedTitles(cs, sv)[i] # Absent
                             /\ i \in DOMAIN cs /\ cs[i].name = "full" =>
                                  RepairedTitles(cs, sv)[i] \in {Absent, "full"}
<1>1. \A i \in DOMAIN cs : cs[i].name \in Labels /\ cs[i].short \in Labels
  BY DEF Contact
<1>2. ASSUME NEW label \in Labels, NEW i
      PROVE  Cleared(label, i, sv) \in {label, ""} /\ (label = "full" => Cleared(label, i, sv) = "full")
  BY DEF Cleared, Ours
<1>3. \A i \in Ids : titles[i] \in (Labels \ {""}) \cup {Absent}
  BY DEF TypeOK, Titled
<1>4. /\ DOMAIN RepairedContacts(cs, sv) = DOMAIN cs
      /\ \A i \in DOMAIN cs : /\ RepairedContacts(cs, sv)[i] \in Contact
                              /\ cs[i].name = "full" => RepairedContacts(cs, sv)[i].name = "full"
  <2>1. ASSUME NEW i \in DOMAIN cs
        PROVE  /\ RepairedContacts(cs, sv)[i] \in Contact
               /\ cs[i].name = "full" => RepairedContacts(cs, sv)[i].name = "full"
    <3> DEFINE r == [name |-> Cleared(cs[i].name, i, sv), short |-> Cleared(cs[i].short, i, sv)]
    <3>1. Cleared(cs[i].name, i, sv) \in Labels /\ Cleared(cs[i].short, i, sv) \in Labels
      BY <1>1, <1>2 DEF Labels
    <3>2. r \in Contact /\ (cs[i].name = "full" => r.name = "full")
      BY <1>1, <1>2, <3>1 DEF Contact
    <3>3. RepairedContacts(cs, sv)[i] = IF titles[i] = Absent THEN cs[i] ELSE r
      BY DEF RepairedContacts
    <3> HIDE DEF r
    <3> QED
      BY <3>2, <3>3
  <2> QED
    BY <2>1 DEF RepairedContacts
<1>5. ASSUME NEW i \in Ids
      PROVE  /\ RepairedTitles(cs, sv)[i] \in (Labels \ {""}) \cup {Absent}
             /\ titles[i] # Absent => RepairedTitles(cs, sv)[i] # Absent
             /\ i \in DOMAIN cs /\ cs[i].name = "full" =>
                  RepairedTitles(cs, sv)[i] \in {Absent, "full"}
  <2> DEFINE r == RepairedTitles(cs, sv)[i]
  <2>1. r = IF titles[i] = Absent THEN Absent
            ELSE IF i \in DOMAIN cs /\ ~Fallback(Cleared(cs[i].name, i, sv)) THEN cs[i].name
            ELSE IF ~Ours(titles[i], i, sv) THEN titles[i]
            ELSE IF i \in DOMAIN cs /\ ~Fallback(Cleared(cs[i].short, i, sv)) THEN cs[i].short
            ELSE "number"
    BY DEF RepairedTitles
  <2>2. \A label \in Labels : ~Fallback(Cleared(label, i, sv)) => label # ""
    BY <1>2 DEF Fallback
  <2>3. ~Fallback("full") /\ "number" \in Labels
    BY DEF Fallback, Labels
  <2> HIDE DEF r
  <2>4. r \in (Labels \ {""}) \cup {Absent} /\ (titles[i] # Absent => r # Absent)
    BY <1>1, <1>3, <2>1, <2>2, <2>3, NamesAssumption
  <2>5. i \in DOMAIN cs /\ cs[i].name = "full" => r \in {Absent, "full"}
    BY <1>1, <1>2, <2>1, <2>3
  <2> QED
    BY <2>4, <2>5 DEF r
<1>6. RepairedTitles(cs, sv) = [i \in Ids |-> RepairedTitles(cs, sv)[i]]
  BY DEF RepairedTitles
<1>7. RepairedTitles(cs, sv) \in [Ids -> Labels \cup {Absent}]
  BY <1>5, <1>6
<1> QED
  BY <1>4, <1>5, <1>7, NamesAssumption DEF Labels

-----------------------------------------------------------------------------
(* Messages *)

LEMMA EnrichedFacts ==
    ASSUME TypeOK, NEW message \in Message, Named(message.name), Named(message.short)
    PROVE  LET new == Enriched(message)
           IN /\ new \in Message
              /\ new.chat = message.chat /\ new.contact = message.contact
              /\ new.fromMe = message.fromMe
              /\ Named(new.name) /\ Named(new.short)
              /\ message.name = "full" => new.name = "full"
              /\ (/\ "own" \notin {message.name, message.short}
                  /\ \A id \in DOMAIN contacts : "own" \notin {contacts[id].name, contacts[id].short})
                 => "own" \notin {new.name, new.short}
<1>1. CASE message.contact \notin DOMAIN contacts
  BY <1>1 DEF Enriched
<1>2. CASE message.contact \in DOMAIN contacts
  <2> DEFINE c == contacts[message.contact]
             name == Upgraded(message.name, c.name)
             short == Upgraded(message.short, First(c.short, c.name))
             r == [message EXCEPT !.name = name, !.short = short]
  <2>1. c.name \in Labels /\ First(c.short, c.name) \in Labels
          /\ First(c.short, c.name) \in {c.short, c.name}
    BY <1>2 DEF TypeOK, Contact, First
  <2>2. Enriched(message) = r
    BY <1>2 DEF Enriched, Message
  <2> HIDE DEF c
  <2>3. /\ Named(name) /\ Named(short) /\ (message.name = "full" => name = "full")
        /\ message.name # "own" /\ c.name # "own" => name # "own"
        /\ message.short # "own" /\ First(c.short, c.name) # "own" => short # "own"
    BY <2>1, UpgradedFacts
  <2> HIDE DEF name, short
  <2>4. /\ r.chat = message.chat /\ r.contact = message.contact
        /\ r.name = name /\ r.short = short
    BY DEF Message
  <2>5. r.fromMe = message.fromMe
    BY DEF Message
  <2>6. r \in Message
    BY <2>3 DEF Message, Named
  <2> HIDE DEF r
  <2>7. Named(r.name) /\ Named(r.short) /\ (message.name = "full" => r.name = "full")
    BY <2>3, <2>4
  <2>8. (/\ "own" \notin {message.name, message.short}
         /\ \A id \in DOMAIN contacts : "own" \notin {contacts[id].name, contacts[id].short})
          => "own" \notin {r.name, r.short}
    BY <1>2, <2>1, <2>3, <2>4 DEF c
  <2> QED
    BY <2>2, <2>4, <2>5, <2>6, <2>7, <2>8
<1> QED
  BY <1>1, <1>2

\* The copy of a message that the store keeps.
Kept(m, message) ==
    LET new == Enriched(message)
    IN IF msgs[m] = Absent THEN new
       ELSE [msgs[m] EXCEPT !.contact = new.contact, !.name = Upgraded(@, new.name),
                            !.short = Upgraded(@, new.short)]

LEMMA KeptFacts ==
    ASSUME TypeOK, Titled, NEW m \in Messages, NEW message \in Message,
           Named(message.name), Named(message.short)
    PROVE  LET kept == Kept(m, message)
           IN /\ kept \in Message /\ Named(kept.name) /\ Named(kept.short)
              /\ kept.contact = message.contact
              /\ msgs[m] = Absent => kept = Enriched(message)
              /\ msgs[m] # Absent => /\ kept.chat = msgs[m].chat
                                     /\ kept.fromMe = msgs[m].fromMe
                                     /\ msgs[m].name = "full" => kept.name = "full"
                                     /\ ("own" \notin {msgs[m].name, msgs[m].short}
                                         /\ "own" \notin {Enriched(message).name, Enriched(message).short})
                                        => "own" \notin {kept.name, kept.short}
<1> DEFINE new == Enriched(message)
<1>1. new \in Message /\ Named(new.name) /\ Named(new.short) /\ new.contact = message.contact
  BY EnrichedFacts
<1>2. CASE msgs[m] = Absent
  <2>1. Kept(m, message) = new
    BY <1>2 DEF Kept
  <2> QED
    BY <1>1, <1>2, <2>1
<1>3. CASE msgs[m] # Absent
  <2> DEFINE old == msgs[m]
             name == Upgraded(old.name, new.name)
             short == Upgraded(old.short, new.short)
             r == [old EXCEPT !.contact = new.contact, !.name = name, !.short = short]
  <2>1. old \in Message /\ Named(old.name) /\ Named(old.short)
    BY <1>3 DEF TypeOK, Titled
  <2>2. Kept(m, message) = r
    BY <1>3, <2>1 DEF Kept, Message
  <2> HIDE DEF new, old
  <2>3. new.name \in Labels /\ new.short \in Labels
    BY <1>1 DEF Message
  <2>4. /\ Named(name) /\ Named(short) /\ (old.name = "full" => name = "full")
        /\ old.name # "own" /\ new.name # "own" => name # "own"
        /\ old.short # "own" /\ new.short # "own" => short # "own"
    BY <2>1, <2>3, UpgradedFacts
  <2> HIDE DEF name, short
  <2>5. r.chat = old.chat /\ r.contact = new.contact /\ r.name = name /\ r.short = short
    BY <2>1 DEF Message
  <2>6. r.fromMe = old.fromMe
    BY <2>1 DEF Message
  <2>7. r \in Message
    BY <1>1, <2>1, <2>4 DEF Message, Named
  <2> HIDE DEF r
  <2>8. /\ Named(r.name) /\ Named(r.short) /\ (old.name = "full" => r.name = "full")
        /\ "own" \notin {old.name, old.short} /\ "own" \notin {new.name, new.short}
             => "own" \notin {r.name, r.short}
    BY <2>4, <2>5
  <2>9. r.contact = message.contact
    BY <1>1, <2>5
  <2> QED
    BY <1>3, <2>2, <2>5, <2>6, <2>7, <2>8, <2>9 DEF old, new
<1> QED
  BY <1>2, <1>3

\* What a message does to the title of its chat and to its contact.
LEMMA UpdateChatFacts ==
    ASSUME TypeOK, Titled, NEW message \in Message, Named(message.name), Named(message.short),
           UpdateChat(message)
    PROVE  /\ titles' \in [Ids -> Labels \cup {Absent}] /\ saved' = saved
           /\ \A id \in Ids : /\ titles'[id] # ""
                              /\ titles[id] # Absent => titles'[id] # Absent
                              /\ titles[id] = "full" => titles'[id] = "full"
                              /\ titles'[id] # titles[id] =>
                                   /\ message.chat = id /\ titles'[id] = message.name
                                   /\ titles[id] = Absent \/ ~message.fromMe
           /\ message.chat # "group" => titles'[message.chat] # Absent
<1>1. \A id \in Ids : titles[id] \in (Labels \ {""}) \cup {Absent}
  BY DEF TypeOK, Titled
<1>2. CASE message.chat = "group"
  <2>1. titles' = titles /\ saved' = saved
    BY <1>2 DEF UpdateChat
  <2>2. titles \in [Ids -> Labels \cup {Absent}] /\ \A id \in Ids : titles[id] # ""
    BY DEF TypeOK, Titled
  <2> QED
    BY <1>2, <2>1, <2>2
<1>3. CASE message.chat # "group"
  <2> DEFINE chat == message.chat
             new == IF titles[chat] \in {Absent, ""} THEN message.name
                    ELSE IF message.fromMe THEN titles[chat] ELSE Upgraded(titles[chat], message.name)
  <2>1. chat \in Ids /\ message.name \in Labels \ {""} /\ message.name # Absent
    BY <1>3, NamesAssumption DEF Message, Named
  <2>2. titles' = [titles EXCEPT ![chat] = new]
    BY <1>3 DEF UpdateChat
  <2>3. titles[chat] \in (Labels \ {""}) \cup {Absent}
    BY <1>1, <2>1
  <2>4. titles[chat] # Absent => /\ Upgraded(titles[chat], message.name) \in {titles[chat], message.name}
                                 /\ titles[chat] = "full" => Upgraded(titles[chat], message.name) = "full"
    BY UpgradedFacts
  <2>5. /\ new \in Labels \ {""} /\ new # Absent
        /\ titles[chat] = "full" => new = "full"
        /\ new # titles[chat] => new = message.name /\ (titles[chat] = Absent \/ ~message.fromMe)
    BY <2>1, <2>3, <2>4, NamesAssumption DEF Labels
  <2> HIDE DEF new, chat
  <2>6. titles' \in [Ids -> Labels \cup {Absent}]
    BY <2>1, <2>2, <2>5 DEF TypeOK
  <2>7. \A id \in Ids : titles'[id] = IF id = chat THEN new ELSE titles[id]
    BY <2>1, <2>2 DEF TypeOK
  <2> QED
    BY <1>1, <2>1, <2>5, <2>6, <2>7, NamesAssumption DEF chat, UpdateChat, Labels
<1> QED
  BY <1>2, <1>3

LEMMA UpdateContactFacts ==
    ASSUME TypeOK, NEW message \in Message, Named(message.name), Named(message.short),
           UpdateChat(message)
    PROVE  /\ DOMAIN contacts \subseteq DOMAIN contacts' /\ DOMAIN contacts' \subseteq Ids
           /\ \A i \in DOMAIN contacts' : contacts'[i] \in Contact
           /\ \A i \in DOMAIN contacts : contacts[i].name = "full" => contacts'[i].name = "full"
           /\ (/\ \A i \in DOMAIN contacts : "own" \notin {contacts[i].name, contacts[i].short}
               /\ message.chat = "group" \/ ~message.fromMe => "own" \notin {message.name, message.short})
              => \A i \in DOMAIN contacts' : "own" \notin {contacts'[i].name, contacts'[i].short}
<1>1. CASE message.chat # "group" /\ message.fromMe
  BY <1>1 DEF UpdateChat, TypeOK
<1>2. CASE ~(message.chat # "group" /\ message.fromMe)
  <2> DEFINE id == message.contact
             fresh == [name |-> message.name, short |-> message.short]
             name == Upgraded(contacts[id].name, message.name)
             short == Upgraded(contacts[id].short, message.short)
             better == [name |-> name, short |-> short]
  <2>1. id \in Ids /\ message.name \in Labels /\ message.short \in Labels
    BY DEF Message
  <2>2. contacts' = [i \in DOMAIN contacts \cup {id} |->
                       IF i # id THEN contacts[i] ELSE IF id \notin DOMAIN contacts THEN fresh ELSE better]
    BY <1>2 DEF UpdateChat
  <2>3. fresh \in Contact /\ fresh.name = message.name /\ fresh.short = message.short
    BY <2>1 DEF Contact
  <2>4. ASSUME id \in DOMAIN contacts
        PROVE  /\ better \in Contact /\ (contacts[id].name = "full" => better.name = "full")
               /\ contacts[id].name # "own" /\ message.name # "own" => better.name # "own"
               /\ contacts[id].short # "own" /\ message.short # "own" => better.short # "own"
    <3>1. contacts[id].name \in Labels /\ contacts[id].short \in Labels
      BY <2>4 DEF TypeOK, Contact
    <3>2. /\ name \in Labels /\ short \in Labels /\ name \in {contacts[id].name, message.name}
          /\ short \in {contacts[id].short, message.short}
          /\ contacts[id].name = "full" => name = "full"
      BY <2>1, <3>1, UpgradedFacts
    <3> HIDE DEF name, short
    <3> QED
      BY <3>2 DEF Contact
  <2> HIDE DEF fresh, better, id
  <2>5. DOMAIN contacts' = DOMAIN contacts \cup {id}
    BY <2>2
  <2>6. \A i \in DOMAIN contacts' :
          contacts'[i] = IF i # id THEN contacts[i] ELSE IF id \notin DOMAIN contacts THEN fresh ELSE better
    BY <2>2
  <2>7. DOMAIN contacts' \subseteq Ids /\ \A i \in DOMAIN contacts' : contacts'[i] \in Contact
    BY <2>1, <2>3, <2>4, <2>5, <2>6 DEF TypeOK
  <2>8. \A i \in DOMAIN contacts : contacts[i].name = "full" => contacts'[i].name = "full"
    BY <2>4, <2>5, <2>6
  <2>9. (/\ \A i \in DOMAIN contacts : "own" \notin {contacts[i].name, contacts[i].short}
         /\ "own" \notin {message.name, message.short})
        => \A i \in DOMAIN contacts' : "own" \notin {contacts'[i].name, contacts'[i].short}
    BY <2>3, <2>4, <2>5, <2>6
  <2> QED
    BY <1>2, <2>5, <2>7, <2>8, <2>9
<1> QED
  BY <1>1, <1>2

\* A message that is stored, in its own name or from the cache.
LEMMA AddMessageStep ==
    ASSUME NameInv, NEW m \in Messages, NEW message \in Message,
           Named(message.name), Named(message.short), AddMessage(m, message),
           UNCHANGED <<outside, sync, loading, before, arrivals, restarts>>,
           cache' \in [Messages -> Message \cup {Absent}],
           \A k \in Messages : cache'[k] # Absent => cache'[k] = cache[k],
           arriving' \in {arriving, Absent},
           loading # "caches" /\ fullBefore =>
             /\ message.contact = "pn" => message.name = "full"
             /\ message.chat \in Known => message.contact = message.chat
             /\ lidBefore => message.contact = "pn"
    PROVE  NameInv'
<1> DEFINE kept == Kept(m, message)
<1>1. /\ kept \in Message /\ Named(kept.name) /\ Named(kept.short)
      /\ msgs[m] = Absent => kept = Enriched(message)
      /\ msgs[m] # Absent => kept.chat = msgs[m].chat /\ (msgs[m].name = "full" => kept.name = "full")
  BY KeptFacts DEF NameInv
<1>2. msgs' = [msgs EXCEPT ![m] = kept] /\ UpdateChat(kept)
  BY DEF AddMessage, Kept
<1>3. /\ Enriched(message).chat = message.chat
      /\ message.name = "full" => Enriched(message).name = "full"
  BY EnrichedFacts DEF NameInv
<1> HIDE DEF kept
<1>4. /\ titles' \in [Ids -> Labels \cup {Absent}] /\ saved' = saved
      /\ \A id \in Ids : /\ titles'[id] # ""
                         /\ titles[id] # Absent => titles'[id] # Absent
                         /\ titles[id] = "full" => titles'[id] = "full"
                         /\ titles'[id] # titles[id] =>
                              /\ kept.chat = id /\ titles'[id] = kept.name
                              /\ titles[id] = Absent \/ ~kept.fromMe
      /\ kept.chat # "group" => titles'[kept.chat] # Absent
  BY <1>1, <1>2, UpdateChatFacts DEF NameInv
<1>5. /\ DOMAIN contacts \subseteq DOMAIN contacts' /\ DOMAIN contacts' \subseteq Ids
      /\ \A i \in DOMAIN contacts' : contacts'[i] \in Contact
      /\ \A i \in DOMAIN contacts : contacts[i].name = "full" => contacts'[i].name = "full"
  BY <1>1, <1>2, UpdateContactFacts DEF NameInv
<1>6. \A k \in Messages : msgs'[k] = IF k = m THEN kept ELSE msgs[k]
  BY <1>2 DEF NameInv, TypeOK
<1>7. /\ loading' = loading /\ fullBefore' = fullBefore /\ lidBefore' = lidBefore
      /\ store' = store /\ mapped' = mapped
  BY DEF before, outside
<1>8. TypeOK'
  <2>1. msgs' \in [Messages -> Message \cup {Absent}]
    BY <1>1, <1>2 DEF NameInv, TypeOK
  <2>2. ownKnown' = ownKnown /\ sync' = sync /\ arrivals' = arrivals /\ restarts' = restarts
    BY DEF outside
  <2>3. arriving' \in [id : Messages, message : Message] \cup {Absent}
    BY DEF NameInv, TypeOK
  <2>4. saved' \subseteq DOMAIN contacts'
    BY <1>4, <1>5 DEF NameInv, TypeOK
  <2> QED
    BY <1>4, <1>5, <1>7, <2>1, <2>2, <2>3, <2>4 DEF NameInv, TypeOK
<1>9. StartFacts'
  BY <1>7 DEF NameInv, StartFacts
<1>10. ArrivingFacts'
  <2>1. CASE arriving' = Absent
    BY <2>1 DEF ArrivingFacts
  <2>2. CASE arriving' = arriving
    BY <1>7, <2>2 DEF NameInv, ArrivingFacts
  <2> QED
    BY <2>1, <2>2
<1>11. Titled'
  <2>1. ASSUME NEW k \in Messages, msgs'[k] # Absent
        PROVE  /\ Named(msgs'[k].name) /\ Named(msgs'[k].short)
               /\ msgs'[k].chat # "group" => titles'[msgs'[k].chat] # Absent
    <3>1. CASE k = m
      BY <1>1, <1>4, <1>6, <3>1
    <3>2. CASE k # m
      <4>1. msgs'[k] = msgs[k] /\ msgs[k] \in Message
        BY <1>6, <2>1, <3>2 DEF NameInv, TypeOK
      <4>2. msgs[k].chat # "group" => msgs[k].chat \in Ids
        BY <4>1 DEF Message
      <4> QED
        BY <1>4, <2>1, <4>1, <4>2 DEF NameInv, Titled
    <3> QED
      BY <3>1, <3>2
  <2>2. \A k \in Messages : cache'[k] # Absent => Named(cache'[k].name) /\ Named(cache'[k].short)
    BY DEF NameInv, Titled
  <2> QED
    BY <1>4, <2>1, <2>2 DEF Titled
<1>12. Known' = Known /\ Known \subseteq Ids
  BY <1>7 DEF Known, Ids
<1>13. ContactsFull'
  BY <1>5, <1>7, <1>12 DEF NameInv, ContactsFull
<1>14. TitlesFull'
  <2> SUFFICES ASSUME loading \in {"refresh", "done"}, fullBefore, NEW id \in Known
               PROVE  titles'[id] \in {Absent, "full"}
    BY <1>7, <1>12 DEF TitlesFull
  <2>1. titles[id] \in {Absent, "full"} /\ id \in Ids
    BY <1>12 DEF NameInv, TitlesFull
  <2>2. CASE titles'[id] = titles[id]
    BY <2>1, <2>2
  <2>3. CASE titles'[id] # titles[id]
    <3>1. kept.chat = id /\ titles'[id] = kept.name /\ titles[id] = Absent
      BY <1>4, <2>1, <2>3
    <3>2. msgs[m] = Absent
      <4> SUFFICES ASSUME msgs[m] # Absent PROVE FALSE
        OBVIOUS
      <4>1. kept.chat = msgs[m].chat /\ id # "group"
        BY <1>1, <2>1 DEF Ids
      <4>2. titles[id] # Absent
        BY <3>1, <4>1 DEF NameInv, Titled
      <4> QED
        BY <3>1, <4>2
    <3>3. message.chat = id
      BY <1>1, <1>3, <3>1, <3>2
    <3>4. message.contact = "pn"
      BY <3>3 DEF Known
    <3> QED
      BY <1>1, <1>3, <3>1, <3>2, <3>4
  <2> QED
    BY <2>2, <2>3
<1>15. MessagesFull'
  <2> SUFFICES ASSUME loading = "done", fullBefore, lidBefore, NEW k \in Messages, msgs'[k] # Absent
               PROVE  msgs'[k].name = "full"
    BY <1>7 DEF MessagesFull
  <2>1. msgs[k] # Absent => msgs[k].name = "full"
    BY DEF NameInv, MessagesFull
  <2> QED
    BY <1>1, <1>3, <1>6, <2>1
<1> QED
  BY <1>8, <1>9, <1>10, <1>11, <1>13, <1>14, <1>15 DEF NameInv

LEMMA StoreStep == ASSUME NameInv, Store PROVE NameInv'
<1> DEFINE m == arriving.id
           message == arriving.message
<1>1. m \in Messages /\ message \in Message
  BY DEF NameInv, TypeOK, Store
<1>2. /\ message.chat # "group" => message.contact = message.chat
      /\ Named(message.name) /\ Named(message.short)
      /\ lidBefore => message.contact = "pn"
      /\ fullBefore /\ message.contact = "pn" => message.name = "full"
  BY DEF NameInv, ArrivingFacts, Store
<1>3. /\ AddMessage(m, message) /\ cache' = cache /\ arriving' = Absent
      /\ UNCHANGED <<outside, sync, loading, before, arrivals, restarts>>
  BY DEF Store
<1>4. cache' \in [Messages -> Message \cup {Absent}]
  BY <1>3 DEF NameInv, TypeOK
<1>5. "group" \notin Known
  BY DEF Known, Ids
<1> HIDE DEF m, message
<1> QED
  BY <1>1, <1>2, <1>3, <1>4, <1>5, AddMessageStep

LEMMA LoadMessageStep == ASSUME NameInv, NEW m \in Messages, LoadMessage(m) PROVE NameInv'
<1>1. cache[m] \in Message /\ Named(cache[m].name) /\ Named(cache[m].short) /\ loading = "caches"
  BY DEF NameInv, TypeOK, Titled, LoadMessage
<1>2. /\ AddMessage(m, cache[m]) /\ cache' = [cache EXCEPT ![m] = Absent] /\ arriving' = arriving
      /\ UNCHANGED <<outside, sync, loading, before, arrivals, restarts>>
  BY DEF LoadMessage
<1>3. /\ cache' \in [Messages -> Message \cup {Absent}]
      /\ \A k \in Messages : cache'[k] # Absent => cache'[k] = cache[k]
  BY <1>2 DEF NameInv, TypeOK
<1> QED
  BY <1>1, <1>2, <1>3, AddMessageStep

-----------------------------------------------------------------------------
(* The other steps *)

\* What is learnt outside only adds to what is known.
LEMMA OutsideStep == ASSUME NameInv, Learn \/ PhoneSaves PROVE NameInv'
<1>1. /\ UNCHANGED <<contacts, saved, titles, msgs, cache, arriving, loading, arrivals, restarts>>
      /\ UNCHANGED <<fullBefore, lidBefore, ownKnown>>
  BY DEF Learn, PhoneSaves, book, before
<1>2. store \in [full : BOOLEAN, first : BOOLEAN, push : BOOLEAN]
  BY DEF NameInv, TypeOK
<1>3. store' \in [full : BOOLEAN, first : BOOLEAN, push : BOOLEAN] /\ (store.full => store'.full)
  <2>1. CASE store' = store
    BY <1>2, <2>1
  <2>2. ASSUME NEW name \in {"push", "first", "full"}, store' = [store EXCEPT ![name] = TRUE]
        PROVE  store' \in [full : BOOLEAN, first : BOOLEAN, push : BOOLEAN] /\ (store.full => store'.full)
    BY <1>2, <2>2
  <2> QED
    BY <2>1, <2>2, NamesAssumption DEF Learn, PhoneSaves
<1>4. mapped' \in BOOLEAN /\ (mapped => mapped') /\ sync' \in BOOLEAN
  BY DEF NameInv, TypeOK, Learn, PhoneSaves
<1>5. TypeOK'
  BY <1>1, <1>3, <1>4 DEF NameInv, TypeOK
<1>6. StartFacts'
  BY <1>1, <1>3, <1>4 DEF NameInv, StartFacts
<1>7. ArrivingFacts' /\ Titled'
  BY <1>1 DEF NameInv, ArrivingFacts, Titled
<1>8. ContactsFull' /\ TitlesFull' /\ MessagesFull'
  BY <1>1 DEF NameInv, ContactsFull, TitlesFull, MessagesFull, Known
<1> QED
  BY <1>5, <1>6, <1>7, <1>8 DEF NameInv

\* A repair of the titles, with contacts that name the person in full where needed.
LEMMA RepairStep ==
    ASSUME NameInv, NEW cs, NEW sv, DOMAIN cs \subseteq Ids, \A i \in DOMAIN cs : cs[i] \in Contact,
           sv \subseteq DOMAIN cs, RepairChatNames(cs, sv),
           loading \in {"repair", "refresh", "done"} /\ fullBefore =>
             \A id \in Known : id \in DOMAIN cs /\ cs[id].name = "full",
           UNCHANGED <<outside, msgs, cache, arriving, before, arrivals, restarts>>,
           sync' \in BOOLEAN,
           loading' = loading \/ (loading = "repair" /\ loading' = "refresh")
    PROVE  NameInv'
<1>1. /\ DOMAIN contacts' = DOMAIN cs /\ saved' = sv
      /\ \A i \in DOMAIN cs : /\ contacts'[i] \in Contact
                              /\ cs[i].name = "full" => contacts'[i].name = "full"
      /\ titles' \in [Ids -> Labels \cup {Absent}]
      /\ \A i \in Ids : /\ titles'[i] # "" /\ (titles[i] # Absent => titles'[i] # Absent)
                        /\ i \in DOMAIN cs /\ cs[i].name = "full" => titles'[i] \in {Absent, "full"}
  BY RepairFacts DEF NameInv, RepairChatNames
<1>2. /\ store' = store /\ mapped' = mapped /\ ownKnown' = ownKnown
      /\ fullBefore' = fullBefore /\ lidBefore' = lidBefore
  BY DEF outside, before
<1>3. TypeOK'
  BY <1>1, <1>2 DEF NameInv, TypeOK
<1>4. StartFacts' /\ ArrivingFacts'
  BY <1>2 DEF NameInv, StartFacts, ArrivingFacts
<1>5. Titled'
  <2>1. ASSUME NEW m \in Messages, msgs[m] # Absent, msgs[m].chat # "group"
        PROVE  titles'[msgs[m].chat] # Absent
    <3>1. msgs[m].chat \in Ids
      BY <2>1 DEF NameInv, TypeOK, Message
    <3> QED
      BY <1>1, <2>1, <3>1 DEF NameInv, Titled
  <2> QED
    BY <1>1, <2>1 DEF NameInv, Titled
<1>6. Known' = Known /\ Known \subseteq Ids
  BY <1>2 DEF Known, Ids
<1>7. ContactsFull'
  BY <1>1, <1>2, <1>6 DEF ContactsFull
<1>8. TitlesFull'
  BY <1>1, <1>2, <1>6 DEF TitlesFull
<1>9. MessagesFull'
  BY <1>2 DEF NameInv, MessagesFull
<1> QED
  BY <1>3, <1>4, <1>5, <1>7, <1>8, <1>9 DEF NameInv

LEMMA ContactUpdateStep == ASSUME NameInv, ContactUpdate PROVE NameInv'
<1> DEFINE c == [name |-> IF store.full THEN "full" ELSE "first", short |-> ""]
           one == Added(contacts, "pn", c)
           two == Added(one, "lid", c)
<1>1. PICK named \in {{"pn"}, Ids} :
        RepairChatNames(IF "lid" \in named THEN two ELSE one, saved \cup named)
  BY DEF ContactUpdate
<1>2. c \in Contact /\ c.name # "" /\ (store.full => c.name = "full")
  BY DEF Contact, Labels
<1>3. "pn" \in Ids /\ "lid" \in Ids
  BY DEF Ids
<1>a. one = Added(contacts, "pn", c) /\ two = Added(one, "lid", c)
  OBVIOUS
<1>b. DOMAIN contacts \subseteq Ids /\ \A i \in DOMAIN contacts : contacts[i] \in Contact
  BY DEF NameInv, TypeOK
<1> HIDE DEF c, one, two
<1>4. /\ DOMAIN one = DOMAIN contacts \cup {"pn"} /\ \A i \in DOMAIN one : one[i] \in Contact
      /\ \A i \in DOMAIN contacts \ {"pn"} : one[i] = contacts[i]
      /\ one["pn"].name = c.name
  <2>1. Contacts(contacts)
    BY <1>b DEF Contacts
  <2>2. WithContact(contacts, "pn", c, one)
    BY <1>a, <1>2, <1>3, <2>1, AddedFacts
  <2> QED
    BY <1>2, <2>2 DEF WithContact
<1>5. DOMAIN one \subseteq Ids
  BY <1>b, <1>3, <1>4
<1>6. /\ DOMAIN two = DOMAIN one \cup {"lid"} /\ \A i \in DOMAIN two : two[i] \in Contact
      /\ \A i \in DOMAIN one \ {"lid"} : two[i] = one[i]
      /\ two["lid"].name = c.name
  <2>1. Contacts(one)
    BY <1>4, <1>5 DEF Contacts
  <2>2. WithContact(one, "lid", c, two)
    BY <1>a, <1>2, <1>3, <2>1, AddedFacts
  <2> QED
    BY <1>2, <2>2 DEF WithContact
<1> DEFINE cs == IF "lid" \in named THEN two ELSE one
<1>7. /\ DOMAIN cs \subseteq Ids /\ \A i \in DOMAIN cs : cs[i] \in Contact
      /\ saved \cup named \subseteq DOMAIN cs
  <2>1. saved \subseteq DOMAIN contacts
    BY DEF NameInv, TypeOK
  <2> QED
    BY <1>3, <1>4, <1>5, <1>6, <2>1 DEF Ids
<1>8. loading \in {"repair", "refresh", "done"} /\ fullBefore =>
        \A id \in Known : id \in DOMAIN cs /\ cs[id].name = "full"
  <2> SUFFICES ASSUME loading \in {"repair", "refresh", "done"}, fullBefore, NEW id \in Known
               PROVE  id \in DOMAIN cs /\ cs[id].name = "full"
    OBVIOUS
  <2>1. id \in DOMAIN contacts /\ contacts[id].name = "full" /\ id \in {"pn", "lid"} /\ c.name = "full"
    BY <1>2 DEF NameInv, ContactsFull, StartFacts, Known, Ids
  <2>2. id \in DOMAIN one /\ one[id].name = "full"
    BY <1>4, <2>1
  <2>3. id \in DOMAIN two /\ two[id].name = "full"
    BY <1>6, <2>1, <2>2
  <2> QED
    BY <2>2, <2>3
<1> HIDE DEF cs
<1>9. RepairChatNames(cs, saved \cup named)
  BY <1>1 DEF cs
<1>10. /\ UNCHANGED <<outside, msgs, cache, arriving, before, arrivals, restarts>>
       /\ loading' = loading /\ sync' \in BOOLEAN
  BY DEF ContactUpdate
<1> QED
  BY <1>7, <1>8, <1>9, <1>10, RepairStep

LEMMA RepairTitlesStep == ASSUME NameInv, RepairTitles PROVE NameInv'
<1>1. /\ loading = "repair" /\ loading' = "refresh" /\ RepairChatNames(contacts, saved)
      /\ UNCHANGED <<outside, msgs, cache, arriving, before, arrivals, restarts>> /\ sync' = sync
  BY DEF RepairTitles
<1>2. /\ DOMAIN contacts \subseteq Ids /\ \A i \in DOMAIN contacts : contacts[i] \in Contact
      /\ saved \subseteq DOMAIN contacts /\ sync' \in BOOLEAN
  BY <1>1 DEF NameInv, TypeOK
<1>3. fullBefore => \A id \in Known : id \in DOMAIN contacts /\ contacts[id].name = "full"
  BY <1>1 DEF NameInv, ContactsFull
<1> QED
  BY <1>1, <1>2, <1>3, RepairStep

LEMMA LabelStep == ASSUME NameInv, NEW m \in Messages, Label(m) PROVE NameInv'
<1>0. arrivals' \in 0..MaxArrivals
  <2>1. arrivals' = arrivals + 1 /\ arrivals < MaxArrivals
    BY DEF Label
  <2>2. arrivals \in 0..MaxArrivals /\ MaxArrivals \in Nat
    BY NamesAssumption DEF NameInv, TypeOK
  <2> QED
    BY <2>1, <2>2
<1>1. PICK source \in Ids, group \in BOOLEAN, fromMe \in BOOLEAN, pushName \in {"", "push"} :
        /\ group => ~fromMe
        /\ arriving' = [id |-> m, message |-> ContactForMessage(source, group, fromMe, pushName)]
  BY DEF Label
<1> DEFINE message == ContactForMessage(source, group, fromMe, pushName)
<1>a. message = ContactForMessage(source, group, fromMe, pushName) /\ TypeOK /\ Titled
  BY DEF NameInv
<1> HIDE DEF message
<1>2. /\ message \in Message /\ message.contact = ResolveLID(source)
      /\ message.chat = IF group THEN "group" ELSE ResolveLID(source)
      /\ message.fromMe = fromMe
      /\ Named(message.name) /\ Named(message.short)
      /\ store.full /\ message.contact = "pn" => message.name = "full"
  <2>1. Labelled(message, source, group, fromMe)
    BY <1>a, ContactForMessageFacts
  <2> QED
    BY <2>1 DEF Labelled
<1>3. /\ UNCHANGED <<outside, book, titles, msgs, cache, sync, loading, restarts, before>>
      /\ arrivals' = arrivals + 1 /\ arrivals < MaxArrivals
  BY DEF Label
<1>4. arriving'.message = message /\ arriving' \in [id : Messages, message : Message]
  BY <1>1, <1>2 DEF message
<1>5. TypeOK'
  BY <1>3, <1>4, <1>0 DEF NameInv, TypeOK, outside, book, before
<1>6. ArrivingFacts'
  <2>1. lidBefore => message.contact = "pn"
    BY <1>2 DEF NameInv, StartFacts, ResolveLID
  <2>2. fullBefore => store.full
    BY DEF NameInv, StartFacts
  <2>3. message.chat # "group" => message.contact = message.chat
    BY <1>2
  <2>4. message.fromMe => message.chat # "group"
    <3>1. ResolveLID(source) # "group"
      BY DEF ResolveLID, Ids
    <3> QED
      BY <1>1, <1>2, <3>1
  <2>5. fullBefore' = fullBefore /\ lidBefore' = lidBefore
    BY <1>3 DEF before
  <2> QED
    BY <1>2, <1>4, <2>1, <2>2, <2>3, <2>4, <2>5 DEF ArrivingFacts
<1>7. StartFacts' /\ Titled'
  BY <1>3 DEF NameInv, StartFacts, Titled, outside, before
<1>8. ContactsFull' /\ TitlesFull' /\ MessagesFull'
  BY <1>3 DEF NameInv, ContactsFull, TitlesFull, MessagesFull, Known, book, before
<1> QED
  BY <1>5, <1>6, <1>7, <1>8 DEF NameInv

LEMMA HistoryChatStep == ASSUME NameInv, HistoryChat PROVE NameInv'
<1>1. PICK source \in Ids, given \in {"", "full"} :
        titles' = [titles EXCEPT ![ResolveLID(source)] =
                     IF given = "full" /\ store.full THEN "full" ELSE ChatName(ResolveLID(source))]
  BY DEF HistoryChat
<1> DEFINE id == ResolveLID(source)
           name == IF given = "full" /\ store.full THEN "full" ELSE ChatName(id)
<1>2. id \in Ids /\ (lidBefore => id = "pn")
  BY DEF NameInv, StartFacts, ResolveLID, Ids
<1>3. Named(name) /\ (store.full /\ id = "pn" => name = "full")
  <2>1. Named(ChatName(id)) /\ (store.full /\ id = "pn" => ChatName(id) = "full")
    BY <1>2, ContactNameFacts DEF NameInv, ChatName
  <2>2. Named("full")
    BY DEF Named, Labels
  <2> QED
    BY <2>1, <2>2
<1> HIDE DEF id, name
<1>4. titles' = [titles EXCEPT ![id] = name]
  BY <1>1 DEF id, name
<1>5. /\ titles' \in [Ids -> Labels \cup {Absent}]
      /\ \A i \in Ids : titles'[i] = IF i = id THEN name ELSE titles[i]
  BY <1>2, <1>3, <1>4 DEF NameInv, TypeOK, Named
<1>6. name # "" /\ name # Absent
  BY <1>3, NamesAssumption DEF Named
<1>7. UNCHANGED <<outside, book, msgs, cache, arriving, sync, loading, arrivals, restarts, before>>
  BY DEF HistoryChat
<1>8. TypeOK'
  BY <1>5, <1>7 DEF NameInv, TypeOK, outside, book, before
<1>9. StartFacts' /\ ArrivingFacts'
  BY <1>7 DEF NameInv, StartFacts, ArrivingFacts, outside, before
<1>10. Titled'
  <2>1. ASSUME NEW m \in Messages, msgs[m] # Absent, msgs[m].chat # "group"
        PROVE  titles'[msgs[m].chat] # Absent
    <3>1. msgs[m].chat \in Ids
      BY <2>1 DEF NameInv, TypeOK, Message
    <3> QED
      BY <1>5, <1>6, <2>1, <3>1 DEF NameInv, Titled
  <2> QED
    BY <1>5, <1>6, <1>7, <2>1 DEF NameInv, Titled
<1>11. Known' = Known /\ Known \subseteq Ids /\ (id \in Known => id = "pn")
  BY <1>2, <1>7 DEF Known, Ids, before
<1>12. TitlesFull'
  <2>1. fullBefore => store.full
    BY DEF NameInv, StartFacts
  <2> QED
    BY <1>3, <1>5, <1>7, <1>11, <2>1 DEF NameInv, TitlesFull, before
<1>13. ContactsFull' /\ MessagesFull'
  BY <1>7, <1>11 DEF NameInv, ContactsFull, MessagesFull, book, before
<1> QED
  BY <1>8, <1>9, <1>10, <1>12, <1>13 DEF NameInv

LEMMA LoadContactsStep == ASSUME NameInv, LoadContacts PROVE NameInv'
<1> DEFINE known == store.full \/ store.first \/ store.push
           ids == IF ~known THEN {} ELSE IF mapped THEN Ids ELSE {"pn"}
<1>1. /\ loading' = "repair"
      /\ contacts' = [id \in DOMAIN contacts \cup ids |-> IF id \in ids THEN StoreContact ELSE contacts[id]]
      /\ saved' = IF store.full \/ store.first THEN saved \cup ids ELSE saved
      /\ UNCHANGED <<outside, titles, msgs, cache, arriving, sync, arrivals, restarts, before>>
  BY DEF LoadContacts
<1>2. ids \subseteq Ids
  BY DEF Ids
<1>3. StoreContact \in Contact /\ (store.full => StoreContact.name = "full")
  BY DEF StoreContact, Contact, Labels, First, Full, Push
<1>4. fullBefore => Known \subseteq ids /\ store.full
  BY DEF NameInv, StartFacts, Known, Ids
<1> HIDE DEF known, ids
<1>5. /\ DOMAIN contacts' = DOMAIN contacts \cup ids
      /\ \A i \in DOMAIN contacts' : contacts'[i] = IF i \in ids THEN StoreContact ELSE contacts[i]
  BY <1>1
<1>6. /\ DOMAIN contacts' \subseteq Ids /\ \A i \in DOMAIN contacts' : contacts'[i] \in Contact
      /\ saved' \subseteq DOMAIN contacts'
  <2>1. /\ DOMAIN contacts \subseteq Ids /\ \A i \in DOMAIN contacts : contacts[i] \in Contact
        /\ saved \subseteq DOMAIN contacts
    BY DEF NameInv, TypeOK
  <2>2. DOMAIN contacts' \subseteq Ids /\ saved' \subseteq DOMAIN contacts'
    BY <1>1, <1>2, <1>5, <2>1
  <2>3. ASSUME NEW i \in DOMAIN contacts' PROVE contacts'[i] \in Contact
    BY <1>3, <1>5, <2>1
  <2> QED
    BY <2>2, <2>3
<1>7. TypeOK'
  BY <1>1, <1>6 DEF NameInv, TypeOK, outside, before
<1>8. StartFacts' /\ ArrivingFacts' /\ Titled'
  BY <1>1 DEF NameInv, StartFacts, ArrivingFacts, Titled, outside, before
<1>9. Known' = Known /\ fullBefore' = fullBefore
  BY <1>1 DEF Known, before
<1>10. ContactsFull'
  BY <1>3, <1>4, <1>5, <1>9 DEF ContactsFull
<1>11. TitlesFull' /\ MessagesFull'
  BY <1>1 DEF TitlesFull, MessagesFull
<1> QED
  BY <1>7, <1>8, <1>10, <1>11 DEF NameInv

LEMMA RefreshStep == ASSUME NameInv, RefreshContactNames PROVE NameInv'
<1>1. /\ loading = "refresh" /\ loading' = "done"
      /\ msgs' = [m \in Messages |-> IF msgs[m] = Absent THEN Absent ELSE Refreshed(msgs[m])]
      /\ UNCHANGED <<outside, book, titles, cache, arriving, sync, arrivals, restarts, before>>
  BY DEF RefreshContactNames
<1>2. ASSUME NEW m \in Messages, msgs[m] # Absent
      PROVE  LET new == Refreshed(msgs[m])
             IN /\ new \in Message /\ Named(new.name) /\ Named(new.short)
                /\ new.chat = msgs[m].chat
                /\ fullBefore /\ lidBefore => new.name = "full"
  <2> DEFINE old == msgs[m]
             r == Resolved(old.contact)
             name == First(r.name, old.name)
             short == First(r.short, First(r.name, old.short))
             new == [old EXCEPT !.name = name, !.short = short]
  <2>1. old \in Message /\ Named(old.name) /\ Named(old.short) /\ old.contact \in Ids
    BY <1>2 DEF NameInv, TypeOK, Titled, Message
  <2>2. r.name \in Labels /\ r.short \in Labels
    <3>1. CASE old.contact \in DOMAIN contacts
      <4>1. contacts[old.contact].name \in Labels /\ contacts[old.contact].short \in Labels
        BY <3>1 DEF NameInv, TypeOK, Contact
      <4> QED
        BY <3>1, <4>1 DEF Resolved, First
    <3>2. CASE old.contact \notin DOMAIN contacts
      <4>1. titles[old.contact] \in Labels \cup {Absent} /\ "" \in Labels
        BY <2>1 DEF NameInv, TypeOK, Labels
      <4> QED
        BY <3>2, <4>1 DEF Resolved
    <3> QED
      BY <3>1, <3>2
  <2>3. fullBefore /\ lidBefore => r.name = "full"
    <3> SUFFICES ASSUME fullBefore, lidBefore PROVE r.name = "full"
      OBVIOUS
    <3>1. old.contact \in DOMAIN contacts /\ contacts[old.contact].name = "full"
      BY <1>1, <2>1 DEF NameInv, ContactsFull, Known
    <3> QED
      BY <3>1 DEF Resolved, First
  <2>4. Refreshed(old) = new
    BY <2>1 DEF Refreshed, Message
  <2> HIDE DEF r, old
  <2>5. Named(name) /\ Named(short) /\ (fullBefore /\ lidBefore => name = "full")
    BY <2>1, <2>2, <2>3 DEF First, Named
  <2> HIDE DEF name, short
  <2>6. new \in Message /\ new.chat = old.chat /\ new.name = name /\ new.short = short
    BY <2>1, <2>5 DEF Message, Named
  <2> HIDE DEF new
  <2> QED
    BY <2>4, <2>5, <2>6 DEF old
<1>3. \A m \in Messages : /\ msgs[m] = Absent => msgs'[m] = Absent
                          /\ msgs[m] # Absent => msgs'[m] = Refreshed(msgs[m])
  BY <1>1
<1>4. msgs' \in [Messages -> Message \cup {Absent}]
  BY <1>1, <1>2
<1>5. TypeOK'
  BY <1>1, <1>4 DEF NameInv, TypeOK, outside, book, before
<1>6. StartFacts' /\ ArrivingFacts'
  BY <1>1 DEF NameInv, StartFacts, ArrivingFacts, outside, before
<1>7. Titled'
  BY <1>1, <1>2, <1>3 DEF NameInv, Titled
<1>8. ContactsFull' /\ TitlesFull'
  BY <1>1 DEF NameInv, ContactsFull, TitlesFull, Known, book, before
<1>9. MessagesFull'
  BY <1>1, <1>2, <1>3 DEF MessagesFull, before
<1> QED
  BY <1>5, <1>6, <1>7, <1>8, <1>9 DEF NameInv

LEMMA RestartStep == ASSUME NameInv, Restart PROVE NameInv'
<1>1. /\ restarts < MaxRestarts /\ restarts' = restarts + 1
      /\ contacts' = [id \in {} |-> Absent] /\ saved' = {}
      /\ cache' = [m \in Messages |-> IF msgs[m] = Absent THEN cache[m] ELSE msgs[m]]
      /\ msgs' = [m \in Messages |-> Absent]
      /\ arriving' = Absent /\ loading' = "caches"
      /\ fullBefore' = store.full /\ lidBefore' = mapped
      /\ UNCHANGED <<outside, titles, sync, arrivals>>
  BY DEF Restart
<1>2. DOMAIN contacts' = {}
  BY <1>1
<1>3. /\ cache' \in [Messages -> Message \cup {Absent}] /\ msgs' \in [Messages -> Message \cup {Absent}]
      /\ \A m \in Messages : cache'[m] # Absent => Named(cache'[m].name) /\ Named(cache'[m].short)
  BY <1>1 DEF NameInv, TypeOK, Titled
<1>4. restarts' \in 0..MaxRestarts
  BY <1>1, NamesAssumption DEF NameInv, TypeOK
<1>5. store.full \in BOOLEAN
  BY DEF NameInv, TypeOK
<1>6. TypeOK'
  BY <1>1, <1>2, <1>3, <1>4, <1>5 DEF NameInv, TypeOK, outside
<1>7. StartFacts' /\ ArrivingFacts'
  BY <1>1 DEF StartFacts, ArrivingFacts, outside
<1>8. Titled'
  BY <1>1, <1>3 DEF NameInv, Titled
<1>9. ContactsFull' /\ TitlesFull' /\ MessagesFull'
  BY <1>1 DEF ContactsFull, TitlesFull, MessagesFull
<1> QED
  BY <1>6, <1>7, <1>8, <1>9 DEF NameInv

LEMMA StillStep == ASSUME NameInv, CachesLoaded \/ UNCHANGED vars PROVE NameInv'
<1>1. /\ UNCHANGED <<outside, book, titles, msgs, cache, arriving, sync, before, arrivals, restarts>>
      /\ loading' = loading \/ loading' = "contacts"
  BY DEF CachesLoaded, vars
<1>2. TypeOK'
  BY <1>1 DEF NameInv, TypeOK, outside, book, before
<1>3. StartFacts' /\ ArrivingFacts' /\ Titled'
  BY <1>1 DEF NameInv, StartFacts, ArrivingFacts, Titled, outside, before
<1>4. ContactsFull' /\ TitlesFull' /\ MessagesFull'
  BY <1>1 DEF NameInv, ContactsFull, TitlesFull, MessagesFull, Known, book, before
<1> QED
  BY <1>2, <1>3, <1>4 DEF NameInv

LEMMA NameInitInv == Init => NameInv
<1> SUFFICES ASSUME Init PROVE NameInv
  OBVIOUS
<1>1. /\ titles \in [Ids -> {Absent, "push", "own"}]
      /\ cache \in [Messages -> CachedMessages \cup {Absent}]
      /\ restarts \in 0..MaxRestarts
  BY NamesAssumption DEF Init, Empty
<1>2. \A m \in CachedMessages : m \in Message /\ Named(m.name) /\ Named(m.short)
  BY DEF CachedMessages, CachedLabels, Message, Named, Labels
<1>3. /\ msgs = [m \in Messages |-> Absent] /\ arriving = Absent /\ loading = "caches"
      /\ sync = FALSE /\ arrivals = 0 /\ contacts = [id \in {} |-> Absent] /\ saved = {}
      /\ fullBefore = store.full /\ lidBefore = mapped /\ mapped \in BOOLEAN /\ ownKnown \in BOOLEAN
  BY DEF Init, Empty
<1>4. DOMAIN contacts = {}
  BY <1>3
<1>5. store \in [full : BOOLEAN, first : BOOLEAN, push : BOOLEAN]
  <2>1. store \in [full : BOOLEAN, first : {FALSE}, push : BOOLEAN]
    BY DEF Init
  <2> QED
    BY <2>1
<1>6. titles \in [Ids -> Labels \cup {Absent}] /\ \A id \in Ids : titles[id] # ""
  BY <1>1, NamesAssumption DEF Labels
<1>7. cache \in [Messages -> Message \cup {Absent}]
  BY <1>1, <1>2
<1>8. store.full \in BOOLEAN
  BY <1>5
<1>9. arrivals \in 0..MaxArrivals
  BY <1>3, NamesAssumption
<1>10. msgs \in [Messages -> Message \cup {Absent}]
  BY <1>3
<1>11. TypeOK
  BY <1>1, <1>3, <1>4, <1>5, <1>6, <1>7, <1>8, <1>9, <1>10 DEF TypeOK
<1>12. Titled
  BY <1>1, <1>2, <1>3, <1>6 DEF Titled
<1>13. StartFacts /\ ArrivingFacts /\ ContactsFull /\ TitlesFull /\ MessagesFull
  BY <1>3 DEF StartFacts, ArrivingFacts, ContactsFull, TitlesFull, MessagesFull
<1> QED
  BY <1>11, <1>12, <1>13 DEF NameInv

LEMMA NameNextInv == NameInv /\ [Next]_vars => NameInv'
BY OutsideStep, ContactUpdateStep, StoreStep, HistoryChatStep, StillStep, LoadContactsStep,
   RepairTitlesStep, RefreshStep, RestartStep, LabelStep, LoadMessageStep DEF Next

\* Contacts, titles, messages and caches hold labels of the kinds that the code produces,
\* and savedContacts are contacts.
THEOREM TypeCorrect == Spec => []TypeOK
<1>1. NameInv => TypeOK
  BY DEF NameInv
<1> QED
  BY <1>1, NameInitInv, NameNextInv, PTL DEF Spec

\* loadContacts, RepairChatNames and RefreshContactNames, in this order, bring a full name
\* that the address book knew at the start to the contacts, the titles and every message,
\* whatever else arrives between them.
THEOREM NamedEverywhere == Spec => []KnownNameEverywhere
<1>1. NameInv => KnownNameEverywhere
  BY DEF NameInv, ContactsFull, TitlesFull, MessagesFull, KnownNameEverywhere
<1> QED
  BY <1>1, NameInitInv, NameNextInv, PTL DEF Spec

\* Steps from a clean state that leave it clean: nothing is labelled anew, or only from what
\* is clean.
LEMMA CleanStep ==
    ASSUME NameInv, NameInv', [Next]_vars, loading = "done", loading' = "done", OwnNameNowhere
    PROVE  OwnNameNowhere'
<1>1. /\ \A id \in Ids : titles[id] # "own"
      /\ \A id \in DOMAIN contacts : "own" \notin {contacts[id].name, contacts[id].short}
      /\ arriving # Absent => "own" \notin {arriving.message.name, arriving.message.short}
      /\ \A m \in Messages : msgs[m] # Absent /\ (msgs[m].chat = "group" \/ ~msgs[m].fromMe) =>
           "own" \notin {msgs[m].name, msgs[m].short}
  BY DEF OwnNameNowhere
<1>2. CASE Learn \/ PhoneSaves \/ UNCHANGED vars
  BY <1>1, <1>2 DEF OwnNameNowhere, Learn, PhoneSaves, vars, book
<1>3. ASSUME NEW m \in Messages, NEW message \in Message, AddMessage(m, message),
             Named(message.name), Named(message.short),
             "own" \notin {message.name, message.short}, arriving' = Absent
      PROVE  OwnNameNowhere'
  <2> DEFINE kept == Kept(m, message)
  <2>1. "own" \notin {Enriched(message).name, Enriched(message).short}
    BY <1>1, <1>3, EnrichedFacts DEF NameInv
  <2>2. /\ kept \in Message /\ Named(kept.name) /\ Named(kept.short)
        /\ msgs[m] = Absent => kept = Enriched(message)
        /\ msgs[m] # Absent => /\ kept.chat = msgs[m].chat
                               /\ kept.fromMe = msgs[m].fromMe
                               /\ ("own" \notin {msgs[m].name, msgs[m].short}
                                   /\ "own" \notin {Enriched(message).name, Enriched(message).short})
                                  => "own" \notin {kept.name, kept.short}
    BY <1>3, KeptFacts DEF NameInv
  <2>3. msgs' = [msgs EXCEPT ![m] = kept] /\ UpdateChat(kept)
    BY <1>3 DEF AddMessage, Kept
  <2> HIDE DEF kept
  <2>4. kept.chat = "group" \/ ~kept.fromMe => "own" \notin {kept.name, kept.short}
    BY <1>1, <2>1, <2>2
  <2>5. \A id \in DOMAIN contacts' : "own" \notin {contacts'[id].name, contacts'[id].short}
    BY <1>1, <2>2, <2>3, <2>4, UpdateContactFacts DEF NameInv
  <2>6. ASSUME NEW id \in Ids, titles'[id] = "own" PROVE FALSE
    <3>1. kept.chat = id /\ kept.name = "own" /\ (titles[id] = Absent \/ ~kept.fromMe)
      BY <1>1, <2>2, <2>3, <2>6, UpdateChatFacts DEF NameInv
    <3>2. titles[id] = Absent
      BY <2>4, <3>1
    <3>3. id # "group"
      BY DEF Ids
    <3>4. CASE msgs[m] = Absent
      BY <2>1, <2>2, <3>1, <3>4
    <3>5. CASE msgs[m] # Absent
      BY <2>2, <3>1, <3>2, <3>3, <3>5 DEF NameInv, Titled
    <3> QED
      BY <3>4, <3>5
  <2>7. ASSUME NEW k \in Messages, msgs'[k] # Absent, msgs'[k].chat = "group" \/ ~msgs'[k].fromMe
        PROVE  "own" \notin {msgs'[k].name, msgs'[k].short}
    <3>1. msgs'[k] = IF k = m THEN kept ELSE msgs[k]
      BY <2>3 DEF NameInv, TypeOK
    <3> QED
      BY <1>1, <2>4, <2>7, <3>1
  <2> QED
    BY <1>3, <2>5, <2>6, <2>7 DEF OwnNameNowhere
<1>4. CASE Store
  <2>1. /\ arriving.id \in Messages /\ arriving.message \in Message
        /\ Named(arriving.message.name) /\ Named(arriving.message.short)
        /\ "own" \notin {arriving.message.name, arriving.message.short}
        /\ AddMessage(arriving.id, arriving.message) /\ arriving' = Absent
    BY <1>1, <1>4 DEF NameInv, TypeOK, ArrivingFacts, Store
  <2> QED
    BY <1>3, <2>1
<1>5. \A id \in Ids : ContactName(id) # "own" /\ ContactShort(id) # "own"
  <2>1. \A id \in Ids : IdName(id) # "own" /\ IdShort(id) # "own"
    BY <1>1 DEF IdName, IdShort, TitleOf, First
  <2> QED
    BY <2>1 DEF ContactName, ContactShort, First, Full, Push
<1>6. ASSUME NEW m \in Messages, Label(m) PROVE OwnNameNowhere'
  <2>1. PICK source \in Ids, group \in BOOLEAN, fromMe \in BOOLEAN, pushName \in {"", "push"} :
          arriving' = [id |-> m, message |-> ContactForMessage(source, group, fromMe, pushName)]
    BY <1>6 DEF Label
  <2> DEFINE message == ContactForMessage(source, group, fromMe, pushName)
  <2>a. message = ContactForMessage(source, group, fromMe, pushName) /\ TypeOK /\ Titled
    BY DEF NameInv
  <2> HIDE DEF message
  <2>2. /\ message.name \in {ContactName(ResolveLID(source)), "", "push"}
        /\ message.short \in {ContactShort(ResolveLID(source)), "", "push"}
    <3>1. Labelled(message, source, group, fromMe)
      BY <2>a, ContactForMessageFacts
    <3> QED
      BY <3>1 DEF Labelled
  <2>3. ResolveLID(source) \in Ids
    BY DEF ResolveLID, Ids
  <2>4. "own" \notin {message.name, message.short}
    BY <1>5, <2>2, <2>3
  <2>5. arriving'.message = message
    BY <2>1 DEF message
  <2>6. UNCHANGED <<contacts, titles, msgs>>
    BY <1>6 DEF Label, book
  <2> QED
    BY <1>1, <2>4, <2>5, <2>6 DEF OwnNameNowhere
<1>7. CASE HistoryChat
  <2>1. PICK source \in Ids, given \in {"", "full"} :
          titles' = [titles EXCEPT ![ResolveLID(source)] =
                       IF given = "full" /\ store.full THEN "full" ELSE ChatName(ResolveLID(source))]
    BY <1>7 DEF HistoryChat
  <2>2. ResolveLID(source) \in Ids
    BY DEF ResolveLID, Ids
  <2>3. \A id \in Ids : titles'[id] # "own"
    BY <1>1, <1>5, <2>1, <2>2 DEF ChatName, NameInv, TypeOK
  <2> QED
    BY <1>1, <1>7, <2>3 DEF HistoryChat, OwnNameNowhere, book
<1>8. CASE ContactUpdate
  <2> DEFINE c == [name |-> IF store.full THEN "full" ELSE "first", short |-> ""]
             one == Added(contacts, "pn", c)
             two == Added(one, "lid", c)
             Clean(cs) == \A i \in DOMAIN cs : "own" \notin {cs[i].name, cs[i].short}
  <2>1. PICK named \in {{"pn"}, Ids} :
          RepairChatNames(IF "lid" \in named THEN two ELSE one, saved \cup named)
    BY <1>8 DEF ContactUpdate
  <2>2. ASSUME NEW cs, Clean(cs), NEW id PROVE Clean(Added(cs, id, c))
    <3> DEFINE both(a) == [name |-> First(c.name, a.name), short |-> First(c.short, a.short)]
    <3>1. "own" \notin {c.name, c.short}
      OBVIOUS
    <3> HIDE DEF c
    <3>2. Added(cs, id, c) = [i \in DOMAIN cs \cup {id} |->
                               IF i # id THEN cs[i] ELSE IF id \notin DOMAIN cs THEN c ELSE both(cs[id])]
      BY DEF Added
    <3>3. \A i \in DOMAIN cs : "own" \notin {both(cs[i]).name, both(cs[i]).short}
      BY <2>2, <3>1 DEF First
    <3> HIDE DEF both
    <3> QED
      BY <2>2, <3>1, <3>2, <3>3
  <2>3. Clean(one) /\ Clean(two)
    <3> HIDE DEF c, Clean
    <3>1. Clean(contacts)
      BY <1>1 DEF Clean
    <3> QED
      BY <2>2, <3>1
  <2> HIDE DEF one, two
  <2>4. PICK cs, sv : Clean(cs) /\ RepairChatNames(cs, sv)
    BY <2>1, <2>3
  <2>5. \A i \in DOMAIN contacts' : "own" \notin {contacts'[i].name, contacts'[i].short}
    <3>1. contacts' = RepairedContacts(cs, sv) /\ DOMAIN contacts' = DOMAIN cs
      BY <2>4 DEF RepairChatNames, RepairedContacts
    <3>2. ASSUME NEW i \in DOMAIN cs
          PROVE  "own" \notin {RepairedContacts(cs, sv)[i].name, RepairedContacts(cs, sv)[i].short}
      BY <2>4 DEF RepairedContacts, Cleared
    <3> QED
      BY <3>1, <3>2
  <2>6. \A i \in Ids : titles'[i] # "own"
    <3> SUFFICES ASSUME NEW i \in Ids PROVE titles'[i] # "own"
      OBVIOUS
    <3>1. titles'[i] \in {Absent, titles[i], "number"} \cup
            (IF i \in DOMAIN cs THEN {cs[i].name, cs[i].short} ELSE {})
      BY <2>4 DEF RepairChatNames, RepairedTitles
    <3>2. Absent # "own" /\ titles[i] # "own"
      BY <1>1, NamesAssumption DEF Labels
    <3> QED
      BY <2>4, <3>1, <3>2
  <2> QED
    BY <1>1, <1>8, <2>5, <2>6 DEF ContactUpdate, OwnNameNowhere
<1>9. CASE \/ CachesLoaded \/ LoadContacts \/ RepairTitles \/ RefreshContactNames \/ Restart
           \/ \E m \in Messages : LoadMessage(m)
  BY <1>9 DEF CachesLoaded, LoadContacts, RepairTitles, RefreshContactNames, Restart, LoadMessage
<1> QED
  BY <1>2, <1>4, <1>6, <1>7, <1>8, <1>9 DEF Next

\* Once nothing that the other side sent, and no contact, chat or message on its way is
\* called by our own name, updateChatFromMessageLocked, enrichMessageContact and the merge
\* of copies do not bring it back from the messages of ours that still are.
THEOREM OwnNameAway == Spec => OwnNameStaysAway
<1>1. NameInv /\ NameInv' /\ [Next]_vars =>
        [loading = "done" /\ loading' = "done" /\ OwnNameNowhere => OwnNameNowhere']_vars
  BY CleanStep
<1> QED
  BY <1>1, NameInitInv, NameNextInv, PTL DEF Spec, OwnNameStaysAway

=============================================================================
