--------------------------- MODULE PendingReactions ---------------------------
(***************************************************************************)
(* Reactions that arrive before the message they react to, in              *)
(* backend/messages/session_manager.go.  WhatsApp replays offline          *)
(* reactions right after Connect, while loadRecentChats is still restoring *)
(* the disk cache; a reaction to a message that is not stored yet waits in *)
(* pendingReactions until somebody stores the message.                     *)
(*                                                                         *)
(* Three goroutines hand reactions over: the one that delivers events      *)
(* (Handler), loadRecentChats (Loader) and the one that delivers history   *)
(* syncs (History).  The command loop stores messages as well, those it    *)
(* has just sent (SendMessage), and looks at no reactions.  Each call into *)
(* the store or the pending table holds a lock and is one action; between  *)
(* two calls the other goroutines may run.                                 *)
(*                                                                         *)
(* takePendingReactions looks for the target under one lock and takes the  *)
(* entries under another.  As messages are never removed, that is          *)
(* equivalent to doing both at one moment (see Take).                      *)
(***************************************************************************)
EXTENDS Naturals, FiniteSets

CONSTANTS
    Targets,    \* messages that are reacted to
    Senders,    \* participants who react
    Emojis,     \* what they react with
    NoEmoji,    \* an empty emoji: no reaction, or the removal of one
    NotQueued,  \* no update is queued
    Cached,     \* messages in the disk cache
    Outgoing,   \* messages that this program sends
    Batches,    \* sets of messages, maybe none, that one history sync brings
    Snapshots   \* reaction sets that the cache and history hold for a message

Reactions == [Senders -> Emojis \cup {NoEmoji}]
NoReactions == [s \in Senders |-> NoEmoji]

ASSUME ReactionAssumption ==
    /\ NoEmoji \notin Emojis
    /\ NotQueued \notin Emojis \cup {NoEmoji}
    /\ Cached \subseteq Targets
    /\ Outgoing \subseteq Targets \ Cached
    /\ Batches \subseteq SUBSET Targets
    /\ Snapshots \subseteq Reactions

Handler == "handler"
Loader == "loader"
History == "history"
Goroutines == {Handler, Loader, History}

Update == [target : Targets, sender : Senders, emoji : Emojis \cup {NoEmoji}]

VARIABLES
    stored,     \* messages that the store holds
    reactions,  \* their reactions
    pending,    \* pendingReactions
    at,         \* where each goroutine stands
    update,     \* the reaction that Handler processes, or none
    batch,      \* messages that History has still to add
    standalone, \* reactions of that history sync that it has still to apply
    todo,       \* messages each goroutine has still to restore, or take entries of
    hand,       \* updates each goroutine took and has still to apply
    latest,     \* what each participant sent last (read by no action)
    overlooked  \* sent messages whose queued reactions nobody looked at when they
                \* were stored, nor since (read by no action)

reactionVars == <<stored, reactions, pending, at, update, batch, standalone, todo, hand,
                  latest, overlooked>>

Places == {"idle", "checking", "queueing", "sourcing", "taking", "applying",
           "restoring", "listing", "inserting", "finishing"}

ReactionTypeOK ==
    /\ stored \subseteq Targets
    /\ reactions \in [Targets -> Reactions]
    /\ pending \in [Targets -> [Senders -> Emojis \cup {NoEmoji, NotQueued}]]
    /\ at \in [Goroutines -> Places]
    /\ update \in SUBSET Update /\ Cardinality(update) <= 1
    /\ batch \subseteq Targets
    /\ standalone \subseteq Update
    /\ todo \in [Goroutines -> SUBSET Targets]
    /\ hand \in [Goroutines -> SUBSET Update]
    /\ latest \in [Targets -> [Senders -> Emojis \cup {NoEmoji, NotQueued}]]
    /\ overlooked \subseteq Targets

NothingQueued == [s \in Senders |-> NotQueued]

ReactionInit ==
    /\ stored = {}
    /\ reactions = [t \in Targets |-> NoReactions]
    /\ pending = [t \in Targets |-> NothingQueued]
    /\ at = [p \in Goroutines |-> "idle"]
    /\ update = {}
    /\ batch = {}
    /\ standalone = {}
    /\ todo = [p \in Goroutines |-> {}]
    /\ hand = [p \in Goroutines |-> {}]
    /\ latest = [t \in Targets |-> NothingQueued]
    /\ overlooked = {}

-----------------------------------------------------------------------------
(* Calls into the store and the pending table *)

\* The updates queued for a message.
Entries(t) ==
    {[target |-> t, sender |-> s, emoji |-> pending[t][s]] :
        s \in {x \in Senders : pending[t][x] # NotQueued}}

\* AddMessage: a new message brings its reactions, a known one takes over the
\* reactions of the copy if it has any.
StoreMessage(t, copy) ==
    /\ stored' = stored \cup {t}
    /\ reactions' = [reactions EXCEPT ![t] =
         IF t \notin stored \/ copy # NoReactions THEN copy ELSE @]

\* ApplyMessageReaction: nothing happens unless the target is stored.
Apply(u) ==
    reactions' = IF u.target \in stored
                 THEN [reactions EXCEPT ![u.target][u.sender] = u.emoji]
                 ELSE reactions

\* Where a goroutine goes when it has nothing left to take or apply.
Rest(p) ==
    CASE p = History /\ batch # {}      -> "inserting"
      [] p = History /\ standalone # {} -> "finishing"
      [] OTHER                          -> "idle"

\* Mutant: the entries taken stay in the table.
TakeAndKeep(p) ==
    /\ at[p] = "taking"
    /\ \E t \in todo[p] :
         LET taken == IF t \in stored THEN Entries(t) ELSE {}
         IN /\ hand' = [hand EXCEPT ![p] = taken]
            /\ todo' = [todo EXCEPT ![p] = @ \ {t}]
            /\ at' = [at EXCEPT ![p] = IF taken # {} THEN "applying"
                                       ELSE IF todo[p] # {t} THEN "taking" ELSE Rest(p)]
    /\ UNCHANGED <<stored, reactions, pending, update, batch, standalone, latest, overlooked>>

\* takePendingReactions: once the target exists its entries are taken, all at once;
\* until then they stay.
Take(p) ==
    /\ at[p] = "taking"
    /\ \E t \in todo[p] :
         LET taken == IF t \in stored THEN Entries(t) ELSE {}
         IN /\ pending' = IF t \in stored THEN [pending EXCEPT ![t] = NothingQueued] ELSE pending
            /\ hand' = [hand EXCEPT ![p] = taken]
            /\ todo' = [todo EXCEPT ![p] = @ \ {t}]
            /\ at' = [at EXCEPT ![p] = IF taken # {} THEN "applying"
                                       ELSE IF todo[p] # {t} THEN "taking" ELSE Rest(p)]
            /\ overlooked' = overlooked \ {t}
    /\ UNCHANGED <<stored, reactions, update, batch, standalone, latest>>

\* The updates taken are applied one by one, in no particular order.
ApplyNext(p) ==
    /\ at[p] = "applying"
    /\ \E u \in hand[p] :
         /\ Apply(u)
         /\ hand' = [hand EXCEPT ![p] = @ \ {u}]
         /\ at' = [at EXCEPT ![p] = IF hand[p] # {u} THEN "applying"
                                    ELSE IF todo[p] # {} THEN "taking" ELSE Rest(p)]
    /\ UNCHANGED <<stored, pending, update, batch, standalone, todo, latest, overlooked>>

\* SetMessageReactions: the reactions that came with the message replace what the
\* store has.
SetSourceReactions(p) ==
    /\ at[p] = "sourcing"
    /\ \E t \in todo[p], copy \in Snapshots :
         reactions' = [reactions EXCEPT ![t] = copy]
    /\ at' = [at EXCEPT ![p] = "taking"]
    /\ UNCHANGED <<stored, pending, update, batch, standalone, todo, hand, latest, overlooked>>

-----------------------------------------------------------------------------
(* The event handler *)

\* handleLiveReaction applies a reaction to a stored message at once.
ReceiveReaction(u) ==
    /\ at[Handler] = "idle"
    /\ Apply(u)
    /\ latest' = [latest EXCEPT ![u.target][u.sender] = u.emoji]
    /\ IF u.target \in stored
       THEN UNCHANGED <<at, update>>
       ELSE /\ at' = [at EXCEPT ![Handler] = "checking"]
            /\ update' = {u}
    /\ UNCHANGED <<stored, pending, batch, standalone, todo, hand, overlooked>>

\* If nothing changed, it looks whether the message exists; if so it is done.
CheckTarget ==
    /\ at[Handler] = "checking"
    /\ \E u \in update :
         IF u.target \in stored
         THEN /\ at' = [at EXCEPT ![Handler] = "idle"]
              /\ update' = {}
         ELSE /\ at' = [at EXCEPT ![Handler] = "queueing"]
              /\ UNCHANGED update
    /\ UNCHANGED <<stored, reactions, pending, batch, standalone, todo, hand, latest, overlooked>>

\* Mutant: after queueing, nobody looks again whether the message arrived.
QueueAndLeave ==
    /\ at[Handler] = "queueing"
    /\ \E u \in update : pending' = [pending EXCEPT ![u.target][u.sender] = u.emoji]
    /\ update' = {}
    /\ at' = [at EXCEPT ![Handler] = "idle"]
    /\ UNCHANGED <<stored, reactions, batch, standalone, todo, hand, latest, overlooked>>

\* queuePendingReaction, the latest of each sender; then it tries to take it back,
\* in case the message arrived meanwhile.
QueueReaction ==
    /\ at[Handler] = "queueing"
    /\ \E u \in update :
         /\ pending' = [pending EXCEPT ![u.target][u.sender] = u.emoji]
         /\ todo' = [todo EXCEPT ![Handler] = {u.target}]
    /\ update' = {}
    /\ at' = [at EXCEPT ![Handler] = "taking"]
    /\ UNCHANGED <<stored, reactions, batch, standalone, hand, latest, overlooked>>

\* handleLiveMessage stores a message, sets the reactions that came with it, if
\* any came, and takes what is pending for it.
ReceiveMessage(t) ==
    /\ at[Handler] = "idle"
    /\ StoreMessage(t, NoReactions)
    /\ todo' = [todo EXCEPT ![Handler] = {t}]
    /\ \/ at' = [at EXCEPT ![Handler] = "taking"]
       \/ Snapshots # {} /\ at' = [at EXCEPT ![Handler] = "sourcing"]
    /\ UNCHANGED <<pending, update, batch, standalone, hand, latest, overlooked>>

-----------------------------------------------------------------------------
(* loadRecentChats *)

StartLoad ==
    /\ at[Loader] = "idle"
    /\ Cached # {}
    /\ at' = [at EXCEPT ![Loader] = "restoring"]
    /\ todo' = [todo EXCEPT ![Loader] = Cached]
    /\ UNCHANGED <<stored, reactions, pending, update, batch, standalone, hand, latest, overlooked>>

\* LoadMessageCache adds the cached messages one after the other.
Restore ==
    /\ at[Loader] = "restoring"
    /\ \E t \in todo[Loader], copy \in Snapshots :
         /\ StoreMessage(t, copy)
         /\ todo' = [todo EXCEPT ![Loader] = @ \ {t}]
         /\ at' = [at EXCEPT ![Loader] = IF todo[Loader] = {t} THEN "listing" ELSE "restoring"]
    /\ UNCHANGED <<pending, update, batch, standalone, hand, latest, overlooked>>

\* applyPendingReactions lists the messages with pending reactions, ...
ListTargets ==
    /\ at[Loader] = "listing"
    /\ LET listed == {t \in Targets : Entries(t) # {}}
       IN /\ todo' = [todo EXCEPT ![Loader] = listed]
          /\ at' = [at EXCEPT ![Loader] = IF listed # {} THEN "taking" ELSE "idle"]
    /\ UNCHANGED <<stored, reactions, pending, update, batch, standalone, hand, latest, overlooked>>

\* ... and then takes and applies those of each (Take, ApplyNext).

-----------------------------------------------------------------------------
(* handleHistorySync *)

ReceiveHistory(b, us) ==
    /\ at[History] = "idle"
    /\ b # {} \/ us # {}
    /\ at' = [at EXCEPT ![History] = IF b # {} THEN "inserting" ELSE "finishing"]
    /\ batch' = b
    /\ standalone' = us
    /\ UNCHANGED <<stored, reactions, pending, update, todo, hand, latest, overlooked>>

InsertFromHistory ==
    /\ at[History] = "inserting"
    /\ \E t \in batch :
         /\ StoreMessage(t, NoReactions)
         /\ batch' = batch \ {t}
         /\ todo' = [todo EXCEPT ![History] = {t}]
    /\ at' = [at EXCEPT ![History] = "sourcing"]
    /\ UNCHANGED <<pending, update, standalone, hand, latest, overlooked>>

\* Reactions that history lists as messages of their own come after all messages.
ApplyStandalone ==
    /\ at[History] = "finishing"
    /\ \E u \in standalone :
         /\ Apply(u)
         /\ standalone' = standalone \ {u}
         /\ at' = [at EXCEPT ![History] = IF standalone = {u} THEN "idle" ELSE "finishing"]
    /\ UNCHANGED <<stored, pending, update, batch, todo, hand, latest, overlooked>>

-----------------------------------------------------------------------------

(* The command loop *)

\* A goroutine will look at what is queued for a message.
Coming(t) ==
    \/ t \in todo[Handler] \cup todo[History] \cup todo[Loader]
    \/ at[Loader] \in {"restoring", "listing"}

\* sendText and sendMedia store the message that they sent and take nothing.  The
\* server has the message by then: reactions to it may have come while SendMessage
\* waited for the answer, and are queued.
SendMessage(t) ==
    /\ StoreMessage(t, NoReactions)
    /\ overlooked' = IF t \notin stored /\ Entries(t) # {} /\ ~Coming(t)
                     THEN overlooked \cup {t} ELSE overlooked
    /\ UNCHANGED <<pending, at, update, batch, standalone, todo, hand, latest>>

-----------------------------------------------------------------------------

\* What a goroutine does on its own once it has begun.
HandlerStep == CheckTarget \/ QueueReaction \/ SetSourceReactions(Handler)
                   \/ Take(Handler) \/ ApplyNext(Handler)
LoaderStep == Restore \/ ListTargets \/ Take(Loader) \/ ApplyNext(Loader)
HistoryStep == InsertFromHistory \/ SetSourceReactions(History) \/ ApplyStandalone
                   \/ Take(History) \/ ApplyNext(History)

Arrival ==
    \/ \E u \in Update : ReceiveReaction(u)
    \/ \E t \in Targets : ReceiveMessage(t)
    \/ \E t \in Outgoing : SendMessage(t)
    \/ StartLoad
    \/ \E b \in Batches, u \in Update :
           ReceiveHistory(b, {}) \/ ReceiveHistory(b, {u})

ReactionNext == Arrival \/ HandlerStep \/ LoaderStep \/ HistoryStep

ReactionSpec == ReactionInit /\ [][ReactionNext]_reactionVars

\* The goroutines never wait for each other beyond a mutex, so each goes on.
ReactionFairSpec == ReactionSpec /\ WF_reactionVars(HandlerStep) /\ WF_reactionVars(LoaderStep) /\ WF_reactionVars(HistoryStep)

-----------------------------------------------------------------------------
(* Properties *)

\* A reaction is stranded in one way only.  While updates wait for a message that is
\* stored, some goroutine is on its way to take them: this is what the second look
\* after queueing is for, as whoever stored the message may have looked just before.
\* The exception is a message that this program sent and stored with reactions to it
\* queued, which the next delivery or load takes.  And updates are taken out of the
\* table only for a message that is stored: applying them works.
NoneStranded ==
    /\ \A t \in stored : Entries(t) # {} => Coming(t) \/ t \in overlooked
    /\ \A p \in Goroutines : \A u \in hand[p] : u.target \in stored

\* Whatever waits for a message that is stored is taken before long, unless the
\* message was stored by the one who sent it while the reaction was queued already.
PendingDrain ==
    \A t \in Targets :
        (t \in stored \ overlooked /\ Entries(t) # {}) ~> Entries(t) = {}

\* Every reaction that was queued is taken when its message is stored.  The code
\* breaks this: sendText and sendMedia call AddMessage and leave the table alone.
NoneOverlooked == overlooked = {}

\* What a participant sent last is not forgotten: it is in the store, or queued, or
\* in somebody's hands.  With a cache the code breaks this in two ways: the target
\* may be restored just before CheckTarget, or an older update that the loader has
\* in hand is applied after a newer one.
LatestKnown ==
    \A t \in Targets, s \in Senders :
        latest[t][s] # NotQueued =>
            \/ t \in stored /\ reactions[t][s] = latest[t][s]
            \/ pending[t][s] = latest[t][s]
            \/ \E u \in update \cup UNION {hand[p] : p \in Goroutines} :
                   u.target = t /\ u.sender = s /\ u.emoji = latest[t][s]

=============================================================================
