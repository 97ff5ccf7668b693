--------------------------- MODULE MessageDatabase ---------------------------
(***************************************************************************)
(* The in-memory store of the backend, backend/messages/storage.go: one    *)
(* action per exported operation that changes messages or chats.           *)
(*                                                                         *)
(* The store keeps every message twice, in an index by id and in a list    *)
(* per chat, and the unread state twice, as a flag on each message and as  *)
(* a counter on the chat.  messageLock guards both copies of the messages, *)
(* chatLock the chats.  An operation that holds messageLock takes chatLock *)
(* inside it, so it is one atomic action.  PruneStaleUnread and            *)
(* RecomputeUnreadCounts take the two locks one after the other: they are  *)
(* two actions each, and whatever the other goroutines do may come between.*)
(*                                                                         *)
(* Abstracted: labels (contact and chat names), poll options, file names   *)
(* and sizes.  They are filled in like `text' or `kind' and no property    *)
(* here tells them apart.  The list of a chat is kept as the set of its    *)
(* records: storage.go re-sorts it by (Timestamp, Id) after every append   *)
(* and changes entries in place otherwise, so the order follows from the   *)
(* set (see Before).                                                       *)
(***************************************************************************)
EXTENDS Naturals, FiniteSets

CONSTANTS
    Ids,        \* message ids, numbered in the order of Go's < on strings
    Chats,      \* chat ids (JIDs)
    Senders,    \* participants who react to a message
    Emojis,     \* the reactions they choose from
    NoEmoji,    \* no reaction from a participant
    ChatOf,     \* the chat an id was sent to, ...
    SentAt,     \* ... its timestamp, ...
    FromMe,     \* ... and whether this account sent it
    Statuses,   \* delivery states that events carry, as ranks (statusRank)
    Payloads,   \* what a delivered copy of a message holds
    Counts,     \* unread counts that the phone reports
    Times,      \* timestamps that events carry
    Marks,      \* values of the archived and pinned marks that events carry
    Loaders     \* goroutines that run loadRecentChats

Kinds == {"unknown", "known"}
Texts == {"empty", "body", "revoked"}

\* Raw message present, kind resolved and text, the parts that AddMessage fills in.
Payload == [raw : BOOLEAN, kind : Kinds, text : Texts]

Full    == [raw |-> TRUE,  kind |-> "known",   text |-> "body"]
Stub    == [raw |-> FALSE, kind |-> "unknown", text |-> "empty"]
Revoked == [raw |-> FALSE, kind |-> "unknown", text |-> "revoked"]

ASSUME IdentityAssumption ==
    /\ Ids \subseteq Nat /\ IsFiniteSet(Ids)
    /\ ChatOf \in [Ids -> Chats]
    /\ SentAt \in [Ids -> Nat]
    /\ FromMe \in [Ids -> BOOLEAN]

ASSUME InputAssumption ==
    /\ NoEmoji \notin Emojis
    /\ Statuses \subseteq 0..4
    /\ Payloads \subseteq Payload
    /\ Counts \subseteq Nat
    /\ Times \subseteq Nat
    /\ Marks \subseteq BOOLEAN

VARIABLES
    messagesById,   \* id -> Message, for the ids stored
    messages,       \* chat -> the records of its list
    chats,          \* chat -> Chat, for the chats known
    loading         \* how far each loadRecentChats has got

vars == <<messagesById, messages, chats, loading>>

-----------------------------------------------------------------------------
(* Types *)

Reactions == [Senders -> Emojis \cup {NoEmoji}]
NoReactions == [s \in Senders |-> NoEmoji]

Message == [id : Ids, unread : BOOLEAN, status : 0..4, payload : Payload,
            reactions : Reactions]

Chat == [unread : Nat, last : Nat, archived : BOOLEAN, pinned : BOOLEAN]
NewChat == [unread |-> 0, last |-> 0, archived |-> FALSE, pinned |-> FALSE]

IsPartialMap(f, S, T) == DOMAIN f \subseteq S /\ f \in [DOMAIN f -> T]

\* Where a loadRecentChats goroutine stands in its repair of the unread state.
IsPhase(p) ==
    \/ p \in [step : {"idle", "pruned"}]
    \/ p \in [step : {"pruning"}, cutoff : Times]
    \/ /\ p = [step |-> "counted", counts |-> p.counts]
       /\ IsPartialMap(p.counts, Chats, Nat)

TypeOK ==
    /\ IsPartialMap(messagesById, Ids, Message)
    /\ messages \in [Chats -> SUBSET Message]
    /\ IsPartialMap(chats, Chats, Chat)
    /\ DOMAIN loading = Loaders
    /\ \A l \in Loaders : IsPhase(loading[l])

Init ==
    /\ messagesById = << >>
    /\ messages = [c \in Chats |-> {}]
    /\ chats = << >>
    /\ loading = [l \in Loaders |-> [step |-> "idle"]]

-----------------------------------------------------------------------------
(* Writing one message or one chat *)

Put(f, k, v) == [x \in DOMAIN f \cup {k} |-> IF x = k THEN v ELSE f[x]]

\* replaceMessageLocked: the entry of the list that has m's id becomes m.
Replaced(list, m) == {IF r.id = m.id THEN m ELSE r : r \in list}

\* A stored message gets a new version, in the index and in its chat's list.
StoreVersion(m) ==
    /\ messagesById' = Put(messagesById, m.id, m)
    /\ messages' = [messages EXCEPT ![ChatOf[m.id]] = Replaced(@, m)]

ChatOrNew(c) == IF c \in DOMAIN chats THEN chats[c] ELSE NewChat

Later(s, t) == IF s > t THEN s ELSE t

\* updateChatFromMessageLocked
UpdateChatFromMessage(i, markUnread) ==
    LET c == ChatOf[i]
        old == ChatOrNew(c)
    IN chats' = Put(chats, c,
                    [old EXCEPT !.last = Later(SentAt[i], @),
                                !.unread = IF markUnread THEN @ + 1 ELSE @])

\* Mutant: only the lists get the new flags.
SetFlagsInListsOnly(cs, touched, on) ==
    /\ messages' = [c \in Chats |->
         IF c \in cs
         THEN {IF r.id \in touched THEN [r EXCEPT !.unread = r.id \in on] ELSE r :
                 r \in messages[c]}
         ELSE messages[c]]
    /\ UNCHANGED messagesById

\* The unread flag of the ids in touched is set for those in on and cleared for
\* the others, in the index and in the lists of the chats cs.
SetFlags(cs, touched, on) ==
    /\ messages' = [c \in Chats |->
         IF c \in cs
         THEN {IF r.id \in touched THEN [r EXCEPT !.unread = r.id \in on] ELSE r :
                 r \in messages[c]}
         ELSE messages[c]]
    /\ messagesById' = [i \in DOMAIN messagesById |->
         IF i \in touched THEN [messagesById[i] EXCEPT !.unread = i \in on]
                          ELSE messagesById[i]]

\* A counter is written only for a chat that is known.
SetCounter(c, n) ==
    chats' = IF c \in DOMAIN chats THEN [chats EXCEPT ![c].unread = n] ELSE chats

-----------------------------------------------------------------------------
(* Reading *)

Unread(list) == {r \in list : r.unread}
IdsOf(list) == {r.id : r \in list}
Flagged(list) == IdsOf(Unread(list))

\* The order of a chat's list: by timestamp, then by id.
Before(i, j) == SentAt[i] < SentAt[j] \/ (SentAt[i] = SentAt[j] /\ i < j)

\* Mutant: the latest messages, our own included.
LastOfAll(list, n) ==
    {i \in IdsOf(list) : Cardinality({j \in IdsOf(list) : Before(i, j)}) < n}

\* lastIncomingMessageIDsLocked
LastIncoming(list, n) ==
    LET incoming == {i \in IdsOf(list) : ~FromMe[i]}
    IN {i \in incoming : Cardinality({j \in incoming : Before(i, j)}) < n}

-----------------------------------------------------------------------------
(* AddMessage *)

\* The parts of the first version that a later copy may fill in.
FillIn(old, new) ==
    [raw  |-> old.raw \/ new.raw,
     kind |-> IF old.kind = "unknown" THEN new.kind ELSE old.kind,
     text |-> IF old.text = "empty" THEN new.text ELSE old.text]

\* Mutant: the copy that arrived last decides the delivery state.
MergeTakingLastStatus(old, m, markUnread) ==
    [old EXCEPT !.payload = FillIn(@, m.payload),
                !.status = m.status,
                !.reactions = IF m.reactions # NoReactions THEN m.reactions ELSE @,
                !.unread = @ \/ markUnread]

Merge(old, m, markUnread) ==
    [old EXCEPT !.payload = FillIn(@, m.payload),
                !.status = Later(m.status, @),
                !.reactions = IF m.reactions # NoReactions THEN m.reactions ELSE @,
                !.unread = @ \/ markUnread]

\* Mutant: every delivery with the flag counts, a repeated one too.
CountEveryDelivery(m, markUnread) ==
    /\ m.id \in DOMAIN messagesById
    /\ StoreVersion(Merge(messagesById[m.id], m, markUnread))
    /\ UpdateChatFromMessage(m.id, markUnread)
    /\ UNCHANGED loading

\* An id that is stored keeps its first version, enriched; the chat counts it
\* only when its flag goes from false to true.
AddKnownMessage(m, markUnread) ==
    /\ m.id \in DOMAIN messagesById
    /\ LET old == messagesById[m.id] IN
         /\ StoreVersion(Merge(old, m, markUnread))
         /\ UpdateChatFromMessage(m.id, markUnread /\ ~old.unread)
    /\ UNCHANGED loading

\* A new id is appended to its chat's list, which is re-sorted.
AddNewMessage(m, markUnread) ==
    /\ m.id \notin DOMAIN messagesById
    /\ LET new == [m EXCEPT !.unread = markUnread] IN
         /\ messagesById' = Put(messagesById, m.id, new)
         /\ messages' = [messages EXCEPT ![ChatOf[m.id]] = @ \cup {new}]
    /\ UpdateChatFromMessage(m.id, markUnread)
    /\ UNCHANGED loading

AddMessage(m, markUnread) ==
    AddNewMessage(m, markUnread) \/ AddKnownMessage(m, markUnread)

-----------------------------------------------------------------------------
(* Other changes to one message *)

\* SetMessageReactions: an authoritative reaction set from history.
SetMessageReactions(i, reactions) ==
    /\ i \in DOMAIN messagesById
    /\ StoreVersion([messagesById[i] EXCEPT !.reactions = reactions])
    /\ UNCHANGED <<chats, loading>>

\* ApplyMessageReaction: one reaction per sender, the new one replaces the old
\* one and an empty emoji removes it.
ApplyMessageReaction(i, s, emoji) ==
    /\ i \in DOMAIN messagesById
    /\ StoreVersion([messagesById[i] EXCEPT !.reactions[s] = emoji])
    /\ UNCHANGED <<chats, loading>>

\* UpgradeMessageStatus: a receipt names several ids; the state of each of our
\* own messages among them is raised, never lowered.
UpgradeMessageStatus(ids, status) ==
    LET changed == {i \in ids \cap DOMAIN messagesById :
                      FromMe[i] /\ status > messagesById[i].status}
        Raised(i) == [messagesById[i] EXCEPT !.status = status]
    IN /\ messagesById' = [i \in DOMAIN messagesById |->
            IF i \in changed THEN Raised(i) ELSE messagesById[i]]
       /\ messages' = [c \in Chats |->
            {IF r.id \in changed /\ ChatOf[r.id] = c THEN Raised(r.id) ELSE r :
               r \in messages[c]}]
       /\ UNCHANGED <<chats, loading>>

MarkMessageRevoked(i) ==
    /\ i \in DOMAIN messagesById
    /\ StoreVersion([messagesById[i] EXCEPT !.payload = Revoked])
    /\ UNCHANGED <<chats, loading>>

-----------------------------------------------------------------------------
(* Unread flags and counters of one chat *)

\* UpdateChatUnread: the phone says how many messages are unread; the latest
\* incoming ones are flagged, and no others.
UpdateChatUnread(c, n) ==
    LET on == LastIncoming(messages[c], n)
    IN /\ SetFlags({c}, IdsOf(messages[c]), on)
       /\ SetCounter(c, Cardinality(on))
       /\ UNCHANGED loading

\* MarkChatReadUpTo: read elsewhere at the time cutoff; 0 stands for everything.
MarkChatReadUpTo(c, cutoff) ==
    LET read == {r \in Unread(messages[c]) : cutoff = 0 \/ SentAt[r.id] <= cutoff}
    IN /\ SetFlags({c}, IdsOf(read), {})
       /\ SetCounter(c, Cardinality(IdsOf(Unread(messages[c]) \ read)))
       /\ UNCHANGED loading

MarkChatRead(c) ==
    /\ SetFlags({c}, Flagged(messages[c]), {})
    /\ SetCounter(c, 0)
    /\ UNCHANGED loading

\* Mutant: the counter follows the report downwards too.
SetCountAsReported(c, n) ==
    /\ c \in DOMAIN chats
    /\ n # chats[c].unread
    /\ SetCounter(c, n)
    /\ UNCHANGED <<messagesById, messages, loading>>

\* SetChatUnreadCount: the counter is raised, never lowered.
SetChatUnreadCount(c, n) ==
    /\ c \in DOMAIN chats
    /\ n > chats[c].unread
    /\ SetCounter(c, n)
    /\ UNCHANGED <<messagesById, messages, loading>>

-----------------------------------------------------------------------------
(* Chats *)

\* Mutant: the snapshot's activity time replaces the known one.
TakeSnapshotTime(c, chat) ==
    LET old == ChatOrNew(c)
    IN /\ chats' = Put(chats, c,
                       [unread   |-> Later(chat.unread, old.unread),
                        last     |-> chat.last,
                        archived |-> chat.archived \/ old.archived,
                        pinned   |-> chat.pinned \/ old.pinned])
       /\ UNCHANGED <<messagesById, messages, loading>>

\* AddChat: what is known of a chat is raised, never lowered.
AddChat(c, chat) ==
    LET old == ChatOrNew(c)
    IN /\ chats' = Put(chats, c,
                       [unread   |-> Later(chat.unread, old.unread),
                        last     |-> Later(chat.last, old.last),
                        archived |-> chat.archived \/ old.archived,
                        pinned   |-> chat.pinned \/ old.pinned])
       /\ UNCHANGED <<messagesById, messages, loading>>

SetChatArchived(c, archived) ==
    /\ c \in DOMAIN chats
    /\ chats' = [chats EXCEPT ![c].archived = archived]
    /\ UNCHANGED <<messagesById, messages, loading>>

SetChatPinned(c, pinned) ==
    /\ c \in DOMAIN chats
    /\ chats' = [chats EXCEPT ![c].pinned = pinned]
    /\ UNCHANGED <<messagesById, messages, loading>>

-----------------------------------------------------------------------------
(* The repair at load time: prune, then recount *)

\* PruneStaleUnread, under messageLock: flags older than the cutoff are dropped.
PruneFlags(l, cutoff) ==
    /\ loading[l].step = "idle"
    /\ LET Stale(c) == {r \in Unread(messages[c]) : SentAt[r.id] < cutoff}
       IN SetFlags(Chats, UNION {IdsOf(Stale(c)) : c \in Chats}, {})
    /\ loading' = [loading EXCEPT ![l] = [step |-> "pruning", cutoff |-> cutoff]]
    /\ UNCHANGED chats

\* ... then, under chatLock: counters of chats silent since then are zeroed.
PruneCounters(l) ==
    /\ loading[l].step = "pruning"
    /\ chats' = [c \in DOMAIN chats |->
         IF chats[c].last > 0 /\ chats[c].last < loading[l].cutoff
         THEN [chats[c] EXCEPT !.unread = 0] ELSE chats[c]]
    /\ loading' = [loading EXCEPT ![l] = [step |-> "pruned"]]
    /\ UNCHANGED <<messagesById, messages>>

\* RecomputeUnreadCounts, under messageLock: the flags are counted, ...
CountFlags(l) ==
    /\ loading[l].step = "pruned"
    /\ loading' = [loading EXCEPT ![l] =
         [step |-> "counted",
          counts |-> [c \in {d \in Chats : messages[d] # {}} |->
                        Cardinality(Flagged(messages[c]))]]]
    /\ UNCHANGED <<messagesById, messages, chats>>

\* ... then, under chatLock: the counts found are stored.
StoreCounts(l) ==
    /\ loading[l].step = "counted"
    /\ LET counts == loading[l].counts
       IN chats' = [c \in DOMAIN chats |->
            IF c \in DOMAIN counts THEN [chats[c] EXCEPT !.unread = counts[c]]
                                   ELSE chats[c]]
    /\ loading' = [loading EXCEPT ![l] = [step |-> "idle"]]
    /\ UNCHANGED <<messagesById, messages>>

-----------------------------------------------------------------------------
(* What the callers pass *)

\* Copies of a message as events, history and the cache hold them (messageFromInfo).
\* Only our own messages carry a delivery state.
Copies(i) ==
    [id : {i}, unread : {FALSE}, status : IF FromMe[i] THEN Statuses ELSE {0},
     payload : Payloads, reactions : Reactions]

\* Callers flag only incoming messages as unread.
Flags(i) == IF FromMe[i] THEN {FALSE} ELSE BOOLEAN

ChatReports == [unread : Counts, last : Times, archived : Marks, pinned : Marks]

Deliver == \E i \in Ids : \E m \in Copies(i), u \in Flags(i) : AddMessage(m, u)

\* Reactions that history reports with a message, and single ones.
React == \E i \in Ids :
    \/ \E e \in Reactions : SetMessageReactions(i, e)
    \/ \E s \in Senders, e \in Emojis \cup {NoEmoji} : ApplyMessageReaction(i, s, e)

\* handleReceipt: delivered to the recipient, or read.  A receipt from one of our own
\* devices changes no delivery state; its read is ReadUpTo.
Receipt == \E ids \in SUBSET Ids, s \in Statuses : UpgradeMessageStatus(ids, s)

\* normalizeEventMessage: a protocol message revokes another one.
Revoke == \E i \in Ids : MarkMessageRevoked(i)

\* A history sync reports an unread count; an on-demand one only if it is positive.
SyncUnread == \E c \in Chats, n \in Counts : UpdateChatUnread(c, n)

\* Read on another device, up to a time or altogether (markReadCutoff).
ReadUpTo == \E c \in Chats, t \in Times : MarkChatReadUpTo(c, t)

ReadAll == \E c \in Chats : MarkChatRead(c)

MarkUnread == \E c \in Chats, n \in Counts : SetChatUnreadCount(c, n)

ReportChat == \E c \in Chats, chat \in ChatReports : AddChat(c, chat)

\* syncChatSettings, and the events of app state.
SetChatFlag == \E c \in Chats, b \in Marks :
                   SetChatArchived(c, b) \/ SetChatPinned(c, b)

Load == \E l \in Loaders :
    \/ \E t \in Times : PruneFlags(l, t)
    \/ PruneCounters(l)
    \/ CountFlags(l)
    \/ StoreCounts(l)

Next ==
    \/ Deliver
    \/ React
    \/ Receipt
    \/ Revoke
    \/ SyncUnread
    \/ ReadUpTo
    \/ ReadAll
    \/ MarkUnread
    \/ ReportChat
    \/ SetChatFlag
    \/ Load

Spec == Init /\ [][Next]_vars

-----------------------------------------------------------------------------
(* Properties *)

\* The index and the lists tell the same story: a chat's list holds exactly the
\* current versions of the stored messages of that chat, once each.  The readers
\* (GetMessage, GetMessages) use one copy or the other, and every writer above
\* updates both by hand.
IndexMatchesLists ==
    \A c \in Chats :
        messages[c] = {messagesById[i] : i \in {j \in DOMAIN messagesById : ChatOf[j] = c}}

\* No message is orphaned: its chat is in the table the UI lists, with an
\* activity time no older than the message, whatever older snapshot of the chat
\* history or the cache brought in between.
ChatsCoverMessages ==
    \A i \in DOMAIN messagesById :
        ChatOf[i] \in DOMAIN chats /\ SentAt[i] <= chats[ChatOf[i]].last

\* Nothing flags a message of our own, whatever count a history sync reports
\* (UpdateChatUnread flags the latest n incoming ones, skipping our own).
OwnNeverUnread ==
    \A i \in DOMAIN messagesById : FromMe[i] => ~messagesById[i].unread

\* Delivery states only ever upgrade, in whatever order receipts, echoes, history
\* and cache copies of the message arrive (messages.go, MessageStatus); and no
\* message disappears.
StatusKept ==
    \A i \in DOMAIN messagesById :
        /\ i \in DOMAIN messagesById'
        /\ messagesById[i].status <= messagesById'[i].status

StatusNeverFalls == [][StatusKept]_vars

\* The counter of a chat is the number of its flags.
Exact(c) == c \in DOMAIN chats => chats[c].unread = Cardinality(Flagged(messages[c]))

\* The counter of a chat is no less than the number of its flags: the phone may
\* know of more unread messages than were downloaded.
Covered(c) == c \in DOMAIN chats => Cardinality(Flagged(messages[c])) <= chats[c].unread

\* Operations that change flags and counter under messageLock move them together:
\* a re-delivered or reloaded message is never counted twice, and a read clears
\* as many as it unflags, no matter how deliveries and reads interleave.
BadgeStaysExact ==
    [][Deliver \/ SyncUnread \/ ReadUpTo \/ ReadAll
         => \A c \in Chats : Exact(c) => Exact(c)']_vars

\* Except where the loader stores counters, no operation leaves a chat with more
\* unread messages than its badge shows: chat snapshots from history, the cache
\* and app state cannot lower a counter that messages account for.
BadgeKeepsCovering ==
    [][(\A l \in Loaders : loading'[l] = loading[l] \/ loading'[l].step \in {"pruning", "counted"})
         => \A c \in Chats : Covered(c) => Covered(c)']_vars

\* The inductive strengthening that the proofs use: a message is stored under its
\* own id.
KeyedById == \A i \in DOMAIN messagesById : messagesById[i].id = i

IndInv ==
    /\ TypeOK
    /\ KeyedById
    /\ IndexMatchesLists
    /\ ChatsCoverMessages
    /\ OwnNeverUnread

=============================================================================
