------------------------------ MODULE CacheFiles ------------------------------
(***************************************************************************)
(* How changes of the store reach the screen and the two cache files, and  *)
(* what a restart finds of them: the Save... and Load... functions of      *)
(* backend/messages/storage.go, and their callers in session_manager.go.   *)
(*                                                                         *)
(* The content of the store, of a file and of the chat list on the screen  *)
(* is the set of changes that it reflects.  A handler makes its change and *)
(* then works through a plan: it lists the chats and pushes the list, and  *)
(* it copies what a file is to hold, under the lock of the store, and      *)
(* renames a temporary file over the old one, under no lock.  Instead of   *)
(* a plan of its own it may ask for a refresh, which a timer starts.       *)
(*                                                                         *)
(* A killed process (a crash, or SIGTERM, which saves nothing) starts      *)
(* again, connects, and loads the files.                                   *)
(***************************************************************************)
EXTENDS Naturals, Sequences, SequencesExt

CONSTANTS
    Changes,    \* changes made to the store
    Operations, \* what makes changes, among those of Plan
    Flushers,   \* goroutines of expired refresh timers that run at one time
    MaxKills    \* bound on the kills of the process

Show == <<"list", "push">>
SaveChatCache == <<"copyChats", "writeChats">>
SaveMessageCache == <<"copyMessages", "writeMessages">>

\* What each operation does once it has changed the store.
Plan == [
    send       |-> Show \o SaveChatCache \o SaveMessageCache,
    markRead   |-> Show,
    markUnread |-> Show \o SaveChatCache,
    autoRead   |-> Show \o SaveChatCache,
    message    |-> Show \o SaveChatCache \o SaveMessageCache,
    revocation |-> Show,
    setting    |-> Show \o SaveChatCache,
    receipt    |-> <<"requestPush">>,
    reaction   |-> <<"request">>]

LoadPlan == <<"readChats", "addChats", "readMessages", "addMessages">>
                \o SaveMessageCache \o Show

ASSUME CacheAssumption ==
    /\ Operations \subseteq DOMAIN Plan
    /\ Flushers # {}
    /\ MaxKills \in Nat

\* The goroutine that an operation runs on.
RunsOn(op) ==
    CASE op \in {"send", "markRead", "markUnread"} -> "manager"
      [] op = "autoRead"                           -> "mark"
      [] OTHER                                     -> "events"

Workers == {"manager", "mark", "events", "loader"} \cup Flushers

VARIABLES
    store,          \* what is in memory
    chatFile,       \* what chats.json reflects
    messageFile,    \* what messages.json reflects
    screen,         \* what the last chat list sent to the clients reflects
    work,           \* the steps that each goroutine has still to do
    copy,           \* what each goroutine has listed, copied or read last
    timerArmed,     \* chatRefreshTimer
    pushPending,    \* chatRefreshPushPending
    made,           \* which operation made each change ("none": not made yet)
    kills,          \* how often the process was killed
    \* Read by no action:
    saved,          \* what messages.json ever reflected
    shown,          \* what the screen ever reflected
    found           \* what messages.json reflected when the process started

files == <<chatFile, messageFile, saved>>
refresh == <<timerArmed, pushPending>>
vars == <<store, files, screen, work, copy, refresh, made, kills, shown, found>>

Steps == {"list", "push", "copyChats", "writeChats", "copyMessages", "writeMessages",
          "requestPush", "request", "readChats", "addChats", "readMessages", "addMessages"}

TypeOK ==
    /\ \A content \in {store, chatFile, messageFile, screen, saved, shown, found} :
         content \subseteq Changes
    /\ work \in [Workers -> Seq(Steps)]
    /\ copy \in [Workers -> SUBSET Changes]
    /\ timerArmed \in BOOLEAN
    /\ pushPending \in BOOLEAN
    /\ pushPending => timerArmed
    /\ made \in [Changes -> Operations \cup {"none"}]
    /\ kills \in 0..MaxKills

\* A process starts, with the loader about to read the files.
Started == [w \in Workers |-> IF w = "loader" THEN LoadPlan ELSE << >>]
NothingCopied == [w \in Workers |-> {}]

Init ==
    /\ store = {} /\ chatFile = {} /\ messageFile = {} /\ screen = {}
    /\ saved = {} /\ shown = {} /\ found = {}
    /\ work = Started
    /\ copy = NothingCopied
    /\ timerArmed = FALSE
    /\ pushPending = FALSE
    /\ made = [c \in Changes |-> "none"]
    /\ kills = 0

Kill ==
    /\ kills < MaxKills
    /\ kills' = kills + 1
    /\ store' = {}
    /\ screen' = {}
    /\ work' = Started
    /\ copy' = NothingCopied
    /\ timerArmed' = FALSE
    /\ pushPending' = FALSE
    /\ found' = messageFile
    /\ UNCHANGED <<files, made, shown>>

-----------------------------------------------------------------------------

\* A handler changes the store.
Change(c, op) ==
    LET w == RunsOn(op)
    IN /\ made[c] = "none"
       /\ work[w] = << >>
       /\ made' = [made EXCEPT ![c] = op]
       /\ store' = store \cup {c}
       /\ work' = [work EXCEPT ![w] = Plan[op]]
       /\ UNCHANGED <<files, screen, copy, refresh, kills, shown, found>>

AtStep(w, step) == work[w] # << >> /\ Head(work[w]) = step
Done(w) == work' = [work EXCEPT ![w] = Tail(@)]

\* GetChatIds lists the chats; the list is sent after that.
List(w) ==
    /\ AtStep(w, "list") /\ Done(w)
    /\ copy' = [copy EXCEPT ![w] = store]
    /\ UNCHANGED <<store, files, screen, refresh, made, kills, shown, found>>

Push(w) ==
    /\ AtStep(w, "push") /\ Done(w)
    /\ screen' = copy[w]
    /\ shown' = shown \cup copy[w]
    /\ UNCHANGED <<store, files, copy, refresh, made, kills, found>>

\* What a file is to hold is copied under the lock.
CopyStore(w) ==
    /\ AtStep(w, "copyChats") \/ AtStep(w, "copyMessages")
    /\ Done(w)
    /\ copy' = [copy EXCEPT ![w] = store]
    /\ UNCHANGED <<store, files, screen, refresh, made, kills, shown, found>>

\* writeFileAtomic: the last rename wins.
WriteChats(w) ==
    /\ AtStep(w, "writeChats") /\ Done(w)
    /\ chatFile' = copy[w]
    /\ UNCHANGED <<store, messageFile, saved, screen, copy, refresh, made, kills, shown, found>>

WriteMessages(w) ==
    /\ AtStep(w, "writeMessages") /\ Done(w)
    /\ messageFile' = copy[w]
    /\ saved' = saved \cup copy[w]
    /\ UNCHANGED <<store, chatFile, screen, copy, refresh, made, kills, shown, found>>

-----------------------------------------------------------------------------
(* The coalesced refresh *)

\* Mutant: a later request without a push hides an earlier one with a push.
RequestWithLastPush(w) ==
    /\ AtStep(w, "request") \/ AtStep(w, "requestPush")
    /\ Done(w)
    /\ pushPending' = AtStep(w, "requestPush")
    /\ timerArmed' = TRUE
    /\ UNCHANGED <<store, files, screen, copy, made, kills, shown, found>>

\* Mutant: the timer counts as pending until its refresh is complete.
RequestUnlessRunning(w) ==
    /\ AtStep(w, "request") \/ AtStep(w, "requestPush")
    /\ Done(w)
    /\ IF \E f \in Flushers : work[f] # << >>
       THEN UNCHANGED refresh
       ELSE /\ pushPending' = (pushPending \/ AtStep(w, "requestPush"))
            /\ timerArmed' = TRUE
    /\ UNCHANGED <<store, files, screen, copy, made, kills, shown, found>>

\* scheduleCacheRefresh: the wish for a push is kept, and a timer that is armed
\* already is left alone.
Request(w) ==
    /\ AtStep(w, "request") \/ AtStep(w, "requestPush")
    /\ Done(w)
    /\ pushPending' = (pushPending \/ AtStep(w, "requestPush"))
    /\ timerArmed' = TRUE
    /\ UNCHANGED <<store, files, screen, copy, made, kills, shown, found>>

\* The timer expires: both fields are cleared, then the goroutine goes to work.
Expire(f) ==
    /\ timerArmed
    /\ work[f] = << >>
    /\ timerArmed' = FALSE
    /\ pushPending' = FALSE
    /\ work' = [work EXCEPT ![f] =
         (IF pushPending THEN Show ELSE << >>) \o SaveChatCache \o SaveMessageCache]
    /\ UNCHANGED <<store, files, screen, copy, made, kills, shown, found>>

-----------------------------------------------------------------------------
(* The loader *)

Read(w) ==
    /\ AtStep(w, "readChats") \/ AtStep(w, "readMessages")
    /\ Done(w)
    /\ copy' = [copy EXCEPT ![w] =
         {c \in IF AtStep(w, "readChats") THEN chatFile ELSE messageFile :
             AtStep(w, "readChats") <=> made[c] = "setting"}]
    /\ UNCHANGED <<store, files, screen, refresh, made, kills, shown, found>>

\* Entries are added one after the other.  An unread counter is not among what a
\* file restores: RecomputeUnreadCounts replaces it by the number of flags.  If the
\* contacts then repair the name of a chat, the chats are saved first.
Add(w) ==
    /\ AtStep(w, "addChats") \/ AtStep(w, "addMessages")
    /\ LET missing == {c \in copy[w] \ store : made[c] # "markUnread"}
       IN IF missing = {}
          THEN /\ UNCHANGED store
               /\ \/ Done(w)
                  \/ /\ AtStep(w, "addMessages")
                     /\ work' = [work EXCEPT ![w] = SaveChatCache \o Tail(@)]
          ELSE /\ \E c \in missing : store' = store \cup {c}
               /\ UNCHANGED work
    /\ UNCHANGED <<files, screen, copy, refresh, made, kills, shown, found>>

-----------------------------------------------------------------------------

WorkStep(w) ==
    \/ List(w) \/ Push(w) \/ CopyStore(w) \/ WriteChats(w) \/ WriteMessages(w)
    \/ Request(w) \/ Read(w) \/ Add(w)

Refresh == \E f \in Flushers : Expire(f)

Next ==
    \/ \E c \in Changes, op \in Operations : Change(c, op)
    \/ \E w \in Workers : WorkStep(w)
    \/ Refresh
    \/ Kill

Spec == Init /\ [][Next]_vars

\* Goroutines go on, and a timer expires.
FairSpec == Spec /\ (\A w \in Workers : WF_vars(WorkStep(w))) /\ WF_vars(Refresh)

-----------------------------------------------------------------------------
(* Properties *)

\* No change is forgotten between two refreshes: what a handler that asked for a
\* refresh has changed was saved, or a refresh has still to copy it, or is about
\* to write the copy.
RefreshWillSave ==
    \A c \in store :
        /\ made[c] \in {"receipt", "reaction"}
        /\ ~AtStep("events", "request") /\ ~AtStep("events", "requestPush")
        => \/ c \in saved
           \/ timerArmed
           \/ \E f \in Flushers :
                \/ Contains(work[f], "copyMessages")
                \/ AtStep(f, "writeMessages") /\ c \in copy[f]

\* A change for which a push was asked is shown before long, unless the process is
\* killed, whatever other requests come in between.
PushReachesScreen ==
    \A c \in Changes :
        (made[c] = "receipt" /\ c \in store) ~> (c \in shown \/ c \notin store)

\* A message that was sent stays on disk: WhatsApp does not deliver it again.
SentStaysOnDisk ==
    \A c \in Changes :
        made[c] = "send" /\ work["manager"] = << >> => c \in messageFile

\* When the loader has restored the messages, all that was on disk when the process
\* started is in memory again.
Restored == \A step \in {"readMessages", "addMessages"} : ~Contains(work["loader"], step)
CacheIsRestored ==
    Restored => \A c \in found : made[c] \in {"send", "message"} => c \in store

=============================================================================
