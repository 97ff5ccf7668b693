# whatscli-rs in TLA+

whatscli is a WhatsApp client in two processes: a Go backend, which keeps the
session, the messages and the caches, and a Rust terminal UI that talks to it
over gRPC on a Unix socket.  This directory models the backend's core and the
message pane of the terminal UI, checks them with TLC on small instances, and
proves with TLAPS, for all instances, every safety property that the passing runs
check: of the message store, early reactions, the read timers, the cache files, the
history refetch, the command loop, the event streams, contact names, translations and
the message pane.

    tlc -config MCMessageDatabase_badges.cfg MCMessageDatabase
    tlapm MessageDatabaseProofs.tla

`PROJECT.json` lists the runs, a mutant for each property of a passing run, the
source lines that each definition stands for, the findings, the hazards and the
theorems.

## 1. Inventory

| component | source | state it keeps | operations |
|---|---|---|---|
| Message store | `backend/messages/storage.go` | messages by id and by chat, chats, contacts, translations | `AddMessage`, `SetMessageReactions`, `ApplyMessageReaction`, `UpgradeMessageStatus`, `MarkMessageRevoked`, `UpdateChatUnread`, `MarkChatRead(UpTo)`, `AddChat`, `PruneStaleUnread`, `RecomputeUnreadCounts`, names |
| Cache files | `storage.go`, `session_manager.go` | `chats.json`, `messages.json`, the refresh timer and its push bit | `Save...`, `Load...`, `writeFileAtomic`, `scheduleCacheRefresh`, `loadRecentChats` |
| Session manager | `session_manager.go` | client, open chat, bounded channels (10), dwell timer | the command loop, login, QR, watchdog, about 30 commands |
| Event handler | `session_manager.go` | pending reactions | live messages, reactions, receipts, history syncs, app state |
| History refetch | `history_refetch.go`, `cmd/server/refetch.go` | waiters by key, anchors seen | paging, retry, timeout |
| Broadcaster, event stream | `server/broadcaster.go`, `grpc_server.go` | one buffer of 256 events per client | subscribe, snapshot, send or drop |
| gRPC handler, login sink | `server/handler.go` | sink of the login call, latest QR code | QR events, success, timeout |
| Translation, transcription | `translate/`, `transcribe/` | model ready flag, caches | decide, translate, transcribe |
| Media and avatars | `session_manager.go`, `grpc_server.go` | files by name, avatar cache | `GetMedia`, `downloadMessage`, `GetAvatar` |
| TUI | `tui/src/` | chats, open chat, screen, cursor, pending question, image cache, stream | server events, keys, image answers |
| Others | legacy `backend/main.go`, rendering, QR art, settings, generated code | | not of interest here |

**How they interact.** In the backend five kinds of goroutine run at once: the
command loop (`runManager`), the whatsmeow event goroutine, the goroutine that
whatsmeow delivers history syncs on, `loadRecentChats` after each login, and
short ones (expired timers, marks, translations, one per gRPC stream).  They
meet in the store, whose two locks are taken for single calls only, and in a
handful of fields guarded by mutexes of their own, or by none
(`currentReceiver`, `client`, `userDisconnected`).  Events for the TUI go
through the broadcaster, and commands from it through `CommandChannel`.

**What is hard.** Two-phase operations on the store (count and then set, flag and
then count, look and then queue, list and then send, copy and then rename)
interleave with each other.  Messages come more than once: live, by history and
from the cache, in any order.  A timer may be past its `Stop`.  The process is
killed at any time, and events come before its caches are loaded.
`PROJECT.json` lists these hazards at their lines.

**What makes each part correct.**

* Store: both copies of a message agree; flags and counters agree as far as each
  operation promises; ticks never go back; own messages are never unread.
* Reactions: none waits for a message that is stored, wherever the message was when
  the reaction came.
* Reading: a chat on which the user stays is read, one passed by is not, and
  what the user marks unread stays so, but for a mark that is on its way already.
* Files: what was saved is restored, what changed is saved and shown.
* Connection: the loop comes back from every command, a lost connection is
  repaired or at least tried unless the user closed it, and the user is told.
* Stream: a client whose buffer never filled misses nothing and ends up on the
  chat that is open, unless a late screen of another one follows; no handler outlives
  its client, unless the command loop has stopped.
* Names: the name saved on the phone wins everywhere, our own name nowhere.
* Translation: what the user forces stands, and a message goes out in another
  language only if the contact gave grounds for it.
* Pane: it shows one chat, with what was stored of it, and what the user types or
  confirms goes to what the user sees.
* Refetch: an answer is matched with its request; paging ends.

## 2. What is modelled

### MessageDatabase

One action per exported operation that changes messages or chats.  A call holds
its locks, so it is atomic; `PruneStaleUnread` and `RecomputeUnreadCounts`
release theirs in between and are two actions each, on a loader goroutine
(`loading`), in the order in which `loadRecentChats` calls them.

`messagesById` is the map of the same name, and `messages[c]` the list of the
chat, as a set of records: its order follows from the time and the id, and is
only used for the last incoming messages (`LastIncoming`).  A record keeps what
the properties tell apart: id, unread flag, delivery state, reactions, and for
the content a payload (full, stub or revoked).  Chat of a message, time and
direction are constant functions of the id, as a message never changes them.
Contact labels have a module of their own, `ContactNames`, translations another;
the text is left out.  `Copies`, `React`, `Receipt` and the other definitions of
"What the callers pass" are the event handlers' side: what they decode an event
to before they call the store.

### PendingReactions

Handler, Loader and History are the three goroutines; `at` is where each stands
between two critical sections.  `update` is the reaction in the handler's
hands, `todo` are the messages for which a goroutine has still to take queued
reactions, `hand` the updates taken and not applied.  `takePendingReactions`
looks for the target under one lock and takes the updates under another; as
messages are never removed, an update found there could as well have been taken
at the same moment, so `Take` is one action.  The fourth storer is the command loop:
`SendMessage` is the `AddMessage` of `sendText` and `sendMedia`, which take no queued
reactions.  `latest` records what a participant sent last, and `overlooked` the sent
messages that were stored with reactions queued and that nobody has looked at since;
both are read by no action.

### AutoMarkRead

`timers` holds every timer ever armed, also the ones that expired and wait for
`markReadMu`; `markReadTimer` is the one in the field.  `Select` and `Schedule`
are the two ends of `setCurrentReceiver`, between which the screen is sent;
`Check` is the timer's critical section; `marking` are the calls of
`autoMarkRead` on their way, of commits and of timers past their check, which run
outside the lock and so may mark after a later /unread (`m.early` records that they
were on their way when /unread dropped the timer); `Arrive`, `Decide` and `Store...` are the three
moments of `handleLiveMessage` at which it looks at the timer, at the open chat,
and stores.  `wished` (chats that the user marked unread and has not selected
since) is read by no action.

### CacheFiles

The content of the store, of a file and of the last chat list is the set of
changes that it reflects.  Each operation is its change, and then a plan
(`Plan`) of steps: list, push, copy and rename for each file, or a request for
a refresh.  `Expire` gives the plan of a refresh to a goroutine.  `Kill` ends
the process and starts it with the loader's plan.  The files restore settings
(from the chat file) and message-level changes (from the message file); unread
counters are recounted.

### HistoryRefetch

`stage` is the process, `loader` what `loadRecentChats` has done, and `job` the
local variables of `RefetchHistory`: `job.at` is the pause, request or wait at
which it stands, `job.tries` the anchors of the attempts that are left.
`asked` holds the requests that the phone has not answered; it answers each at
most once, at any time, or never.  `Receive`, `Publish` and `TellMisses` are the
three moments of `handleHistorySync` that matter here: messages are stored,
the waiter of the chat is told, any other waiter is told that there was
nothing.  `mail` is the first page in the waiter's channel, as the rest is never
read.  `Before`, `Answer` and `Knows` describe the phone and stand for code
outside the repository.  A save is one action here: what two saves do to each
other is the subject of `CacheFiles`.  `result.start` and `late` are read by no action.

### SessionManager

The command loop with its two bounded channels.  `at` is where the loop stands:
disconnecting a client that is up before it logs in (`LoginBegins`), logging in, scanning a QR code, sending a status message, coalescing selections,
executing a command, waiting for the network.  `clients` are all whatsmeow
clients made so far, `client` is the field; `login` replaces the field and leaves
the old client connected.  What a status message says is of no consequence, as
the loop shows what the client says at that moment, so `status` is a number.
`posts` are events that `Handle` is about to turn into status messages.  `watch`
is the watchdog, which looks, tells, and connects in three steps.  Each command
is an action: select, login, disconnect, logout, reset and read with their
effects, the others as far as the loop goes, refused, waiting for the network, or
crashing on a nil client (the group commands use the field unchecked).  The
network (`Drop`, `Reconnect`, `Unlink`, `Replace`) and the scan of a code are
whatsmeow's and the phone's.

### GrpcServer and Feed

`log` is every event ever published, `queue[c]` the buffer of a client as numbers
of events in it, `rpc[c]` where its `EventStream` handler stands.  Two kinds of
events are told apart: chat lists, of which the client shows the last, and
screens, which switch it to a chat, except that the screen of a chat without
messages names none.  `Publishers` list the chats and send the list in two steps; `screens` are
screens that the loop or an event handler has read and not sent.  A client comes,
selects, leaves and comes back.  Between `Recv` and `CommandChannel` its handler
carries the command (`carried`): while the channel is full it waits, and then neither
returns nor unsubscribes when its client goes.  The loop that drains the channel may
wait for itself (`LoopHangs`, the subject of `SessionManager`) and be gone for good
(`stuck`).  Of the loop's other commands only logins are here; a login also begins
without a call when the program starts unpaired (`Init`).  The second half are the `Login` calls: `sink` is
the handler's field, `channel[l]` the channel made by each call, `holding` the
sink that the loop has read and the event it is about to send.

`Feed` is the abstract specification of the streams, with the chat list as it changes:
a client joins with the list of that moment and with every event from an earlier moment
on, in order and each once; only an event published while `Buffer` others wait for the
client is lost.  `GrpcServer` implements it (`FeedIsKept`): a client has joined when its
snapshot has been taken, what is due to it is its buffer, and its view is the snapshot
and then the list it shows (`Streams`, `Published`, `Due`, `View`).

### ContactNames

One person under a phone number and a hidden identifier (lid).  No rule of the
code looks at two people at once, so one is enough.  A label is none, the number
(all fallbacks), the push name, the first or full name saved on the phone, or
our own name.  `contacts`, `saved`, `titles` and `msgs` are the maps of the
store; `store` and `mapped` what whatsmeow knows.  `arriving` is a message
between its labelling and its storing, `loading` where `loadRecentChats` stands.
Caches on disk may hold what older versions wrote: our own name on chats.
`OwnNameNowhere` lists the places that our own name may come back from: titles,
contacts, the messages of others, and the message that is labelled and not yet stored.

### Languages and Translation

`Languages` holds the pure decisions: the language of a message, of a thread,
`ClassifyMessage`, and whether to send in the contact's language.  A text is a
record of what the code looks at in it.  Two loops of the code range over a Go
map, so ties have several possible answers; the operators give the set of them.
They are written with functions and sets, from message numbers to what each text was
identified as, and not with recursion, so that they can be proved about.
`Translation` runs them: `jobs[w]` is a goroutine on its way through
`translateIncoming` or `transcribeAndTranslate`, `Loop` the command loop, which
sends and forces translations.  `translations` and `file` are the cache and its
file.  A translation is known by its source language.

### TuiApp

The `App` of the terminal UI and the goroutines whose work it shows.  `work[g]` is
where the loop, the goroutine of live events or that of history syncs stands:
between storing a message, looking at the open chat and telling it, or between
reading a screen and sending it.  `up` and `down` are the commands and the
events on their way; the other clients are there as selections (`OpenForOther`).
The keys are those that the code tells apart for the pane: keys that select a
chat, Tab, keys that are handled before the composer (`Pass`), arrows, `d`, its
answer, text, Enter on a text or on `/upload`.  What was a message's chat when it was sent
(`meant`) and which messages a screen overtook (`unannounced`) is read by no action.

## 3. Runs

| run | instance | shows |
|---|---|---|
| `store_badges` | one chat, own and incoming messages, two loaders, counts and times 0..2 | `IndexMatchesLists`, `ChatsCoverMessages`, `OwnNeverUnread`, `BadgeStaysExact`, `BadgeKeepsCovering` |
| `store_content` | two chats, all delivery states and payloads, one reaction | `StatusNeverFalls` |
| `reactions_handover` | two messages, one cached and one that the program sends, one participant, history, with fairness | `NoneStranded`, `PendingDrain` |
| `read_timers` | two chats, two selections, messages in one, with fairness | `PendingTimerRuns`, `WishStands`, `OpenChatGetsRead` |
| `cache_refresh` | two changes, one refresh goroutine, one kill, with fairness | `RefreshWillSave`, `PushReachesScreen` |
| `refetch_pages` | two chats, four messages, three pages of two, one live message, with fairness | `OldestIsReached`, `StopsAfterInterrupt`, `RefetchEnds` |
| `refetch_erases` | one cached message in each chat | violates `FilesOnlyGrow` |
| `session_loop` | channels of two, two clients, a breaking network with one command, or bursts of two or three commands with a quiet one, with fairness | `LastSelectWins`, `ReadHitsItsChat`, `LoopComesBack`, `UITellsTruth`, `RepairTried` |
| `grpc_streams` | two clients with buffers of one, a command channel of one, three chats of which one is empty, two events; two `Login` calls and two codes; a loop that may stop; with fairness | `NothingMissed`, `LastScreenWins`, `SinkKnowsCode`, `FeedIsKept`, `HandlersEnd` |
| `names` | one message, one arrival, any cache or a restart | `KnownNameEverywhere`, `OwnNameStaysAway` |
| `translation` | two goroutines and the loop, texts of four kinds, a forced translation, a send, a restart, with fairness | `ForcedKept`, `TargetHasGrounds`, `ForeignIsTold` |
| `tui_pane` | two clients' selections of a full and an empty chat while a live message and one by history come, or two chats with messages, four keys of any kind and another client's selection; with fairness | `OneChatAtATime`, `MissingWereOvertaken`, `TextGoesToItsChat`, `StaleCursorIsBrief`, `PaneFills` |

The type invariant of every module is proved (section 4); `refetch_pages`, `names`,
`translation` and `tui_pane` check theirs too, the other runs leave it to the proof.  The
run that violates its property is a finding: the code does not do what the quoted comment
says, and `PROJECT.json` tells the story.

**Configurations to run by hand.**  The other `.cfg` files state more than the
code keeps.  Each gives a counterexample, and the hazards in `PROJECT.json` refer
to them.

| configuration | violates | the story |
|---|---|---|
| `MCPendingReactions_dropped` | `LatestKnown` | a taken reaction is applied after a later one of the same participant |
| the same, with `Outgoing` | `NoneOverlooked` | a reaction to a message just sent is queued while `SendMessage` waits for the server; `sendText` stores the message and leaves the reaction queued |
| `MCAutoMarkRead_superseded` | `SupersededGivesUp` | an expired timer of the same chat marks although a newer one is armed |
| the same | `TimerSparesWish` | a timer passes its check and unlocks, the user gives /unread, the timer's mark undoes it, which the comments at `session_manager.go:344` and `:1191` exclude |
| `MCCacheFiles_sent`, `_restored` | `SentStaysOnDisk`, `CacheIsRestored` | two saves rename in the other order; an event saves before the caches were read |
| `MCHistoryRefetch_ends` | `EmptyMeansEnd` | a miss is told to the next page's waiter |
| `MCSessionManager_watchdog` | `WatchdogHonoursUser` | the watchdog looks, the user disconnects, the watchdog connects |
| `MCSessionManager_loaded` | `UpMeansLoaded` | the connection breaks within the ten seconds for which `loadRecentChats` waits; it gives up, the session comes up, and the list is never loaded, although the comment at `session_manager.go:555` says that this "used to" happen |
| `MCGrpcServer_login` | `LoginIsAnswered` | the first call's deferred `SetLoginSink(nil)` takes the sink from the second |
| the same, with `JustScreens` | `OpenChatShown` | an event handler reads the screen of the open chat, another chat is opened and shown, and the handler sends: the clients go back |
| `MCContactNames_own` | `OwnNameCleared` | a message is labelled with our own name before `RepairChatNames` and stored after it, so the chat gets the name back that `storage.go:617` says is cleared |
| `MCTuiApp_confirm` | `ConfirmIsNextKey` | Esc, Tab and the page keys leave the question whether to delete armed; `state.rs:127` says that the next key answers it |
| `MCTuiApp_carried` | `RevokeOfShownChat` | a selection sets the chat before its screen comes, which then is no change: the question of the chat before is kept, which `state.rs:583` excludes |
| `MCTuiApp_missing`, `_twice` | `NothingMissing`, `NothingTwice` | a screen is read, a message stored and told, the screen sent; a message is stored, a screen with it sent, and then it is told |
| `MCTuiApp_upload` | `UploadGoesToItsChat` | the command `/upload` names a chat, which the server drops; the file goes to the chat that another client opened |
| `MCTranslation_forced`, `_target` | `ForcedStands`, `TargetIsNamed` | a translation under way replaces a forced one; media markers make a thread foreign that has no language without them |

**Known interleavings that no run states.**  The models have them, and reading
the code with the models in hand shows them; no property is stated because the
code does not promise the opposite, or because a run above has the same shape.

* `RecomputeUnreadCounts` stores counts that a delivery or a read has made stale;
  `BadgeKeepsCovering` is stated of all other steps.
* A full copy of a revoked message gives its raw message and kind back.
* A taken reaction is applied after a later one of the same participant.
* A message that is decided on (`Decide`) before the timer's mark and stored
  after it stays flagged in the open chat.
* Reading a chat saves its counter, not its flags; a restart recounts the flags.
* Two chat lists may be sent in the opposite order of their listing.
* Of two clients' selections that are coalesced, the second may open a chat without
  messages.  Its screen names no chat, so the first client stays on its own choice
  (which is why `LastScreenWins` leaves out an open chat without messages).
* A duplicate answer to a retried request ends paging with "no progress".

**Bounds.** `Counts`, `Times` (reported unread counts and times), `MaxTimers`
(selections), `Batches`, `Snapshots` (what history and the cache bring),
`Changes`, `Flushers`, `MaxKills`, `Phone`, `Cached`, `Live` (messages of a
refetch), `StatusCap`, `CommandCap`, `MaxClients`, `MaxPosts`, `Repertoires`
(commands), `About` (list changes, selections), `Buffer`, `SinkCap`, `MaxEvents`,
`MaxCodes`, `MaxArrivals`, `MaxRestarts`, `Saves`, `Workers`, `MaxMessages` and `Uses`
are the only ones, all constants; the capacities, `Window`, `MaxPages` and
`InitialAnchors` are the code's own limits, made small.  Two messages in a chat are enough to have
one flagged and one not, and two goroutines in the same two-phase operation are
enough for each to be stale with respect to the other.  Two timers are enough
for a superseded and a pending one; three for a timer, one of another chat, and
a new one of the first chat.  Two
changes are enough for a copy that holds the one and lacks the other.  Three
pages are enough for the answer of an abandoned attempt to come two pages later,
and two chats for it to come in the chat after; two messages have the same
second, so that pages overlap.  A command channel of two holds a selection, a command
between, and leaves a third at the door; a status channel of two is full after
what the loop, the watchdog or an event sends in a row; two clients are enough
for a forgotten one that still acts.  A buffer of one drops the second event, so
that two events suffice for a slow client next to a fast one, and three chats for
a screen of each of two and one without a name.  Its command channel of one makes the
handler with the second of two selections wait, and the second of two login calls;
whoever waits gets the place of the command that the loop takes, so both selections
can still be coalesced into one screen.  One person is all that the names
rules see, and one message is enough for it to be cached, delivered again and
refreshed.  Two translating goroutines and the loop are all that meet on one
message: the screen's, the live or voice one, and the forced one; `Window` and
`MinForeign` are the code's thresholds made small.  Four keys are enough to
open a chat, ask, leave and answer in the next, or to select, type, send and select;
the stream of `TuiApp` holds one event and then blocks the sender, which is a delay
and not a loss, and one selection of another client is enough to move the open chat
under a text on its way.  The last selection, change or kill, and the end
of the refetch, leave a state with nothing to do, so the runs of these
modules do not check for deadlock; those of `MessageDatabase` and
`PendingReactions` do.  The loop that waits for itself is `Stuck` in
`SessionManager`, which `LoopComesBack` names as an exception, as `HandlersEnd` does
(`LoopIsLost`).

**Fairness.** Only what was begun is assumed to go on: a goroutine between two
locked sections (none waits for another beyond a mutex), a timer that is armed,
a goroutine that was started, a deadline of the refetch, a goroutine that holds a
screen, the loop of the terminal UI.  Nothing is assumed of
the user, the phone, the connection, of arriving messages or of kills.  The Go
scheduler and its timers give that.  Two assumptions are stronger.  The watchdog's
send on the status channel has strong fairness: Go serves the senders that wait on
a channel in the order in which they came, so a sender is not passed over for
ever while the channel has room again and again.  And a QR login comes to an end, as whatsmeow's QR
channel runs out of codes.  The command loop of `GrpcServer` is assumed to take the
next command as long as it does not wait for itself: that it comes back from each is
what `LoopComesBack` says of `SessionManager`.  A client that does not read its stream holds up its
own `Forward` only, of which no fairness is assumed.

## 4. Proofs

Each theorem holds for every value of the constants that satisfies the module's
named assumptions; all of them follow from an inductive invariant of the module.

| module | theorem | states |
|---|---|---|
| `MessageDatabaseProofs` | `TypeCorrect`, `IndexAgreement`, `ChatCoverage`, `OwnRead`, `StatusMonotone` | `TypeOK`, `IndexMatchesLists`, `ChatsCoverMessages`, `OwnNeverUnread`, `StatusNeverFalls` |
| | `BadgesExact`, `BadgesCover` | `BadgeStaysExact`, `BadgeKeepsCovering` |
| `EventHandlerProofs` | `ReactionTypeCorrect`, `NobodyStranded` | `ReactionTypeOK`, `NoneStranded` |
| | `MarkTypeCorrect`, `PendingTimer`, `WishesStand` | `MarkTypeOK`, `PendingTimerRuns`, `WishStands` |
| | `TypeCorrect`, `NamedEverywhere`, `OwnNameAway` | `TypeOK`, `KnownNameEverywhere`, `OwnNameStaysAway` |
| `CacheFilesProofs` | `TypeCorrect`, `NoChangeForgotten` | `TypeOK`, `RefreshWillSave` |
| `HistoryRefetchProofs` | `TypeCorrect`, `OldestReached`, `InterruptStops` | `TypeOK`, `OldestIsReached`, `StopsAfterInterrupt` |
| `SessionManagerProofs` | `TypeCorrect`, `LastSelectionOpen`, `ReadsHit` | `TypeOK`, `LastSelectWins`, `ReadHitsItsChat` |
| `GrpcServerProofs` | `TypeCorrect`, `FeedImplemented`, `CodeIsKnown` | `TypeOK`, `FeedIsKept`, `SinkKnowsCode` |
| | `NothingIsMissed`, `LastScreenIsShown` | `NothingMissed`, `LastScreenWins` |
| `TranslationProofs` | `TypeCorrect`, `ForcedStays`, `TargetGrounded` | `TypeOK`, `ForcedKept`, `TargetHasGrounds` |
| `TuiAppProofs` | `TypeCorrect`, `PaneIsOfOneChat`, `TextsHit`, `CursorIsPutRight` | `TypeOK`, `OneChatAtATime`, `TextGoesToItsChat`, `StaleCursorIsBrief` |
| | `NothingElseMissing` | `MissingWereOvertaken` |

`EventHandlerProofs` holds the proofs of the three models of what the event handler
does with messages: `PendingReactions`, `AutoMarkRead` and `ContactNames`.  It extends
all three, so the first two name their parts with a prefix (`ReactionInit`, `MarkNext`).

**The store.**  `IndInv` adds to the type and the three invariants that each record
is filed under its own id (`KeyedById`).  Without it the agreement of index and
lists is not inductive: an operation finds a record by the id of another.  Every
operation writes the messages through one of four primitives (`StoreVersion`,
`SetFlags`, a new message, nothing), so there is one lemma per primitive that
says what it keeps and changes, and the actions cite it.  The badge proofs count
flagged records: the lemmas say how the cardinality changes when one record is
added, replaced or when a set of flags is cleared.  They assume that `ChatOf`,
`SentAt` and `FromMe` are functions on the ids, and that `Ids` is finite where
counters are compared with numbers of flags.

**Reactions.**  `NoneStranded` becomes inductive with `Free`: a goroutine that is
about to be given a message to look at has no other left.  Otherwise the new one
would replace it, and the entries of the old one would wait for nobody.  A sent message
joins `overlooked` exactly when its sender stores it with entries that nobody comes for,
and leaves it when somebody looks.

**Read timers.**  Timers are numbered in the order in which they were armed
(`Counted`), and the fields name one that was armed for their chat (`Fields`).
`WishStands` needs that a pending timer and a wish exclude each other for one chat
(`Wishes`), as /unread drops the timer before it raises the counter.  So every mark on
its way to a chat marked unread was on its way before (`Early`).

**Names.**  `KnownNameEverywhere` is about the end of `loadRecentChats`.  `NameInv`
says what each of its steps has reached before: contacts after `LoadContacts`, titles
after `RepairTitles`, messages after `RefreshContactNames`; that a message on its way
carries the name as well, as it may be stored after the refresh; and that no label is
empty, as any other would replace an empty one (`Titled`).  `OwnNameStaysAway` needs the
fourth conjunct of `OwnNameNowhere`, and the attempt to prove it without was how that was
found: the next copy of a stored message of somebody else that carries our name is merged
into it, and the labels of the two go to the contact.

**History refetch.**  `OldestIsReached` says that nothing is missing between where the
paging of a chat began and the oldest message that its result names.  `CoverInv` says
the same of every place that such a claim can come from: a request that was sent, and
its anchor (`AskedCover`), the answer that the history goroutine has stored and not told
yet (`AnswerCover`), the page in the waiter's channel (`MailCover`), the anchors still to
try (`TriesCover`), and the result (`ResultCover`).  A late answer is then as good as one
in time.  What the phone answers is bounded by the i-th newest message of a set; that it
exists is an induction over finite sets, see the limits.

**Cache files.**  The plans are sequences, and `Shape` says what holds of a plan and
of each of its rests: messages are copied right before they are written, and
added right after they were read.  With it, `RefreshWillSave` follows from two
facts about content: what the loader adds from `messages.json` was saved
(`Restoring`), and `messages.json` reflects nothing that was never saved
(`FileSaved`).

**Command loop.**  `QueueInv` says that there is a sequence of chats, one longer than
the queue of commands, that begins with the chat that is open or about to be
opened, changes at each selection to the selected chat, and ends with the chat on
the screen (`Follows`); and that every `/read` in the queue carries the chat of its
place.  Taking, coalescing and appending move along that sequence.

**Streams.**  `FeedInv` is the invariant under the refinement: a client is subscribed
from the second step of its stream to the last (`Subscribed`), and till its snapshot is
taken its buffer holds the events since then, as far as there was room (`FromStart`).
So taking the snapshot is joining with all events from the subscription on, and every
other step of the server is a step of `Feed` or leaves it alone.  `SinkKnowsCode` needs `SinkBegun`: a sink in the
field or in the loop's hand belongs to a call that has begun.  `DeliveryInv` adds
that the buffer of a client that lost nothing is *all* that it has not got
(`Contiguous`), that a snapshot is as new as every list from before it and what a
client shows as new as the last list that it got (`ListInv`), and that a client
shows the chat of the last screen that it got, unless something is on its way that
ends in another one or the open chat has no messages (`ScreenInv`); that screen is of the
open chat once the loop has sent its own, or was sent late (`ReceiverNamed`).

**Forced translations.**  `ForcedInv` adds to `ForcedKept` that no goroutine is about
to ask the model for such a message or to store an answer, and that its entry in the
cache is not empty: a goroutine asks only when it finds the entry empty, so none comes
under way (`Calm`).  `JobsInv` says which jobs the loop and the goroutines can have; the
loop alone stores forced translations, and never translates anything else.  Nothing is
needed of the languages of texts.

**Targets.**  `TargetHasGrounds` speaks of the messages that are in the chat.
`GroundsInv` says the same of the one that the loop is about to send: from the decision
on there are two messages of the contact in a foreign language, and from the look at the
thread on one in the language chosen; the chat only grows meanwhile.  The lemmas about
`Languages` give what the decision and the look have seen (`DecisionSeesTwo`,
`DetectedThread`): that two texts out of three fifths of at least two are two, and that a
confident thread counts `MinForeign` texts.  The assumption `MinForeign >= 2` is needed;
the code has 4.  `TypeInv` adds to `TypeOK` that a job refers to messages that are
there, and that only a message to be sent has no language.

**Message pane.**  `PaneInv` says of what chat everything on its way is: the screens and
messages in the hands of goroutines and on the stream are of the chat that they name.
`TextInv` follows the texts: a command on the wire names the chat that was meant, and
so does the stored message.  `CursorInv` says why a cursor is behind the last message:
a selection has emptied the pane, and a screen will come, as the selection,
the loop that serves it, or the stream holds it.  `FillInv` says what the pane of the open
chat is going to lack.  A screen in a goroutine's hands lacks only what was overtaken
(`ScreensInv`).  And, unless the chat is still asked for or being read, each of its
stored messages is about to be told, or the client has it once it has handled the stream
as it is (`Reaches`): in the last screen, in an event after it, or in the pane already
(`Shown`).  When all is quiet that is `MissingWereOvertaken`.

**Limits.**  Model-checked only is every liveness property (`PendingDrain`,
`OpenChatGetsRead`, `PushReachesScreen`, `RefetchEnds`, `LoopComesBack`, `UITellsTruth`,
`RepairTried`, `HandlersEnd`, `ForeignIsTold`, `PaneFills`), as fairness and ENABLED are
out of the prover's reach.  Induction over data is, too, where the theorem to cite has
an operator as a parameter, so what a recursive definition computes is not proved, and
no module here declares one.  Two facts that need induction over finite sets, that a
finite set of numbers has a greatest or a least element (`GreatestOfFinite`,
`LeastOfFinite`), are proved from the well-foundedness of the strict subset ordering,
which is first-order: take a least subset that has none.

## 5. How the project was built, and what is left

The modules came in the order in which section 2 lists them, the most important
behaviour first: `MessageDatabase`, `PendingReactions`, `AutoMarkRead`, `CacheFiles`,
`HistoryRefetch`, `SessionManager`, `GrpcServer` with `Feed`, `ContactNames`, and
`Translation` with `Languages`; then the proofs about all but `HistoryRefetch` and
`ContactNames`, and `TuiApp` with its own; then the proofs of the remaining safety
properties.  They changed the models in two places: `OwnNameNowhere` got its fourth
conjunct, and `Languages` was rewritten with functions and sets.
Left, in this order:

1. The download folder, the avatar cache and the image cache of the terminal UI.
2. The chat list of the terminal UI: filters, folders, and re-anchoring its cursor.
3. The server process: two servers on one socket, and a shutdown that waits for
   connected clients (`cmd/server/main.go:143`).
4. An abstract specification of the message store as a whole: what its callers see
   of it, implemented by `MessageDatabase`.

## 6. Not modelled

Payload parsing, polls, uploads and group calls as far as they go beyond what the
loop does for them (they end in `AddMessage`, `AddChat` and the same saves), the
language models, downloads and the caches of pictures, drawing, the legacy terminal UI, settings, and
generated code.  They are pure input and output, or add no state to what the
modules hold.  Of the TUI, the filters and folders of the list, help, toasts,
scrolling and the command mode are left out, and so is a stream that ends: the code
has fields for a new connection and no step that uses them.
