---------------------------- MODULE ContactNames ----------------------------
(***************************************************************************)
(* Names of contacts, titles of 1:1 chats and labels of messages:          *)
(* backend/messages/storage.go (contacts, savedContacts, RepairChatNames,  *)
(* RefreshContactNames) and session_manager.go (contactForMessage,         *)
(* handleContactUpdate, loadContacts).                                     *)
(*                                                                         *)
(* No rule looks at two people at once, so this is about one person, whom  *)
(* WhatsApp knows by a phone number, "pn", and by a hidden identifier,     *)
(* "lid", and whose messages arrive in a 1:1 chat or in a group.  A label  *)
(* is none, the number (what every fallback amounts to: identifier, phone  *)
(* number, number with device), the name the person goes by, the first or  *)
(* full name under which the phone saved the person, or our own name,      *)
(* which older versions put on messages of ours and on chats.              *)
(***************************************************************************)
EXTENDS Naturals, FiniteSets

CONSTANTS
    Messages,       \* messages of the person's chat, or of the person in a group
    Absent,         \* no message, no chat
    Saves,          \* the names that the phone saves, a subset of {"first", "full"}
    MaxArrivals,    \* bound on the copies of messages that arrive
    MaxRestarts     \* bound on the restarts

Ids == {"pn", "lid"}
Labels == {"", "number", "push", "first", "full", "own"}

ASSUME NamesAssumption ==
    /\ Absent \notin Labels
    /\ Saves \subseteq {"first", "full"}
    /\ MaxArrivals \in Nat /\ MaxRestarts \in Nat

Contact == [name : Labels, short : Labels]
Message == [chat : Ids \cup {"group"}, contact : Ids, fromMe : BOOLEAN,
            name : Labels, short : Labels]

VARIABLES
    store,      \* whatsmeow's contact store: which of the names it has
    mapped,     \* whatsmeow knows which phone number the lid belongs to
    ownKnown,   \* whatsmeow knows our own name (it does from the start or never)
    contacts,   \* contacts, partial
    saved,      \* savedContacts
    titles,     \* names of the 1:1 chats
    msgs,       \* messagesById
    cache,      \* messages of the cache file that have not been loaded yet
    arriving,   \* a message that has been labelled and not stored yet
    sync,       \* a change of the phone's address book is on its way
    loading,    \* where loadRecentChats stands
    fullBefore, \* the store had the full name when the session began (history)
    lidBefore,  \* whatsmeow knew the number of the lid then (history)
    arrivals, restarts

before == <<fullBefore, lidBefore>>
outside == <<store, mapped, ownKnown>>
book == <<contacts, saved>>
vars == <<outside, book, titles, msgs, cache, arriving, sync, loading, before, arrivals, restarts>>

TypeOK ==
    /\ store \in [full : BOOLEAN, first : BOOLEAN, push : BOOLEAN]
    /\ mapped \in BOOLEAN /\ ownKnown \in BOOLEAN /\ sync \in BOOLEAN
    /\ DOMAIN contacts \subseteq Ids /\ \A id \in DOMAIN contacts : contacts[id] \in Contact
    /\ saved \subseteq DOMAIN contacts
    /\ titles \in [Ids -> Labels \cup {Absent}]
    /\ msgs \in [Messages -> Message \cup {Absent}]
    /\ cache \in [Messages -> Message \cup {Absent}]
    /\ arriving \in [id : Messages, message : Message] \cup {Absent}
    /\ loading \in {"caches", "contacts", "repair", "refresh", "done"}
    /\ fullBefore \in BOOLEAN /\ lidBefore \in BOOLEAN
    /\ arrivals \in 0..MaxArrivals /\ restarts \in 0..MaxRestarts

\* What caches and the contact store can hold at a start.  A message of ours may carry our
\* own name, and so may a chat.
CachedLabels == [chat : Ids \cup {"group"}, contact : Ids, fromMe : BOOLEAN,
                 name : {"number", "push", "own"}, short : {"number"}]
CachedMessages ==
    {m \in CachedLabels : /\ m.name = "own" => m.fromMe
                          /\ m.fromMe => m.chat # "group"
                          /\ m.chat # "group" => m.contact = m.chat}

\* A run starts with whatever can be on disk, or with nothing and restarts later.
Empty == [m \in Messages |-> Absent]
Init ==
    /\ store \in [full : BOOLEAN, first : {FALSE}, push : BOOLEAN]
    /\ mapped \in BOOLEAN /\ ownKnown \in BOOLEAN
    /\ contacts = [id \in {} |-> Absent] /\ saved = {}
    /\ \/ /\ titles \in [Ids -> {Absent, "push", "own"}]
          /\ cache \in [Messages -> CachedMessages \cup {Absent}]
          /\ restarts = MaxRestarts
       \/ /\ titles = [id \in Ids |-> Absent] /\ cache = Empty
          /\ store.full = FALSE /\ restarts = 0
    /\ msgs = Empty
    /\ arriving = Absent /\ sync = FALSE
    /\ fullBefore = store.full /\ lidBefore = mapped
    /\ loading = "caches" /\ arrivals = 0

-----------------------------------------------------------------------------
(* Labels *)

Fallback(label) == label \in {"", "number"}
Upgrades(current, candidate) == ~Fallback(candidate) /\ Fallback(current)
Upgraded(current, candidate) == IF Upgrades(current, candidate) THEN candidate ELSE current
First(a, b) == IF a # "" THEN a ELSE b

ResolveLID(id) == IF mapped THEN "pn" ELSE id

\* GetIdName and GetIdShort: the contact, the chat, the number.
TitleOf(id) == IF titles[id] \in {Absent, ""} THEN "number" ELSE titles[id]
IdName(id) ==
    IF id \in DOMAIN contacts /\ First(contacts[id].name, contacts[id].short) # ""
    THEN First(contacts[id].name, contacts[id].short) ELSE TitleOf(id)
IdShort(id) ==
    IF id \in DOMAIN contacts /\ First(contacts[id].short, contacts[id].name) # ""
    THEN First(contacts[id].short, contacts[id].name) ELSE TitleOf(id)

\* The contact store knows the person by number.
Full == IF store.full THEN "full" ELSE ""
Push == IF store.push THEN "push" ELSE ""
ContactName(id) == IF id = "pn" /\ First(Full, Push) # "" THEN First(Full, Push) ELSE IdName(id)
ContactShort(id) == IF id = "pn" /\ First(Push, Full) # "" THEN First(Push, Full) ELSE IdShort(id)

\* getChatName: the contact store, then what we know.
ChatName(id) == ContactName(id)

\* A message's name for its sender counts unless it is ours in a 1:1 chat, and only in
\* place of a fallback.
ContactForMessage(source, group, fromMe, pushName) ==
    LET id == ResolveLID(source)
        given == IF group \/ ~fromMe THEN pushName ELSE ""
    IN [chat |-> IF group THEN "group" ELSE id, contact |-> id, fromMe |-> fromMe,
        name |-> Upgraded(ContactName(id), given), short |-> Upgraded(ContactShort(id), given)]

-----------------------------------------------------------------------------
(* The address book and the titles *)

\* AddContact: an empty name leaves the old one.
Added(cs, id, c) ==
    [i \in DOMAIN cs \cup {id} |->
        IF i # id THEN cs[i]
        ELSE IF id \notin DOMAIN cs THEN c
        ELSE [name |-> First(c.name, cs[id].name), short |-> First(c.short, cs[id].short)]]

\* RepairChatNames, with the contacts cs and the saved ones sv.
Ours(label, id, sv) == ownKnown /\ id \notin sv /\ label = "own"
Cleared(label, id, sv) == IF Ours(label, id, sv) THEN "" ELSE label
RepairedContacts(cs, sv) ==
    [id \in DOMAIN cs |->
        IF titles[id] = Absent THEN cs[id]
        ELSE [name |-> Cleared(cs[id].name, id, sv), short |-> Cleared(cs[id].short, id, sv)]]
RepairedTitles(cs, sv) ==
    [id \in Ids |->
        IF titles[id] = Absent THEN Absent
        ELSE IF id \in DOMAIN cs /\ ~Fallback(Cleared(cs[id].name, id, sv)) THEN cs[id].name
        ELSE IF ~Ours(titles[id], id, sv) THEN titles[id]
        ELSE IF id \in DOMAIN cs /\ ~Fallback(Cleared(cs[id].short, id, sv)) THEN cs[id].short
        ELSE "number"]
RepairChatNames(cs, sv) ==
    /\ contacts' = RepairedContacts(cs, sv)
    /\ saved' = sv
    /\ titles' = RepairedTitles(cs, sv)

\* Mutant: our own messages rename the chat as well.
UpdateChatFromAny(message) ==
    LET chat == message.chat
        id == message.contact
    IN /\ titles' = IF chat = "group" THEN titles
                    ELSE [titles EXCEPT ![chat] =
                            IF @ \in {Absent, ""} THEN message.name ELSE Upgraded(@, message.name)]
       /\ contacts' = [i \in DOMAIN contacts \cup {id} |->
                         IF i # id THEN contacts[i]
                         ELSE IF id \notin DOMAIN contacts
                         THEN [name |-> message.name, short |-> message.short]
                         ELSE [name |-> Upgraded(contacts[id].name, message.name),
                               short |-> Upgraded(contacts[id].short, message.short)]]
       /\ UNCHANGED saved

\* updateChatFromMessageLocked.
UpdateChat(message) ==
    LET chat == message.chat
        id == message.contact
    IN /\ titles' = IF chat = "group" THEN titles
                    ELSE [titles EXCEPT ![chat] =
                            IF @ \in {Absent, ""} THEN message.name
                            ELSE IF message.fromMe THEN @ ELSE Upgraded(@, message.name)]
       /\ contacts' =
            IF chat # "group" /\ message.fromMe THEN contacts
            ELSE [i \in DOMAIN contacts \cup {id} |->
                    IF i # id THEN contacts[i]
                    ELSE IF id \notin DOMAIN contacts
                    THEN [name |-> message.name, short |-> message.short]
                    ELSE [name |-> Upgraded(contacts[id].name, message.name),
                          short |-> Upgraded(contacts[id].short, message.short)]]
       /\ UNCHANGED saved

\* enrichMessageContact, then AddMessage: the first copy stays, with better labels.
Enriched(message) ==
    IF message.contact \notin DOMAIN contacts THEN message
    ELSE LET c == contacts[message.contact]
         IN [message EXCEPT !.name = Upgraded(@, c.name),
                            !.short = Upgraded(@, First(c.short, c.name))]
AddMessage(m, message) ==
    LET new == Enriched(message)
        kept == IF msgs[m] = Absent THEN new
                ELSE [msgs[m] EXCEPT !.contact = new.contact, !.name = Upgraded(@, new.name),
                                     !.short = Upgraded(@, new.short)]
    IN msgs' = [msgs EXCEPT ![m] = kept] /\ UpdateChat(kept)

-----------------------------------------------------------------------------
(* Outside *)

\* whatsmeow learns the name that the person goes by, or the phone number of the lid.
Learn ==
    /\ \/ store' = [store EXCEPT !.push = TRUE] /\ UNCHANGED <<mapped, ownKnown>>
       \/ mapped' = TRUE /\ UNCHANGED <<store, ownKnown>>
    /\ UNCHANGED <<book, titles, msgs, cache, arriving, sync, loading, arrivals, restarts, before>>

\* The phone saves the person; app-state sync stores that and sends the event.
PhoneSaves ==
    /\ \E name \in Saves : store' = [store EXCEPT ![name] = TRUE]
    /\ sync' = TRUE
    /\ UNCHANGED <<mapped, ownKnown, book, titles, msgs, cache, arriving, loading, arrivals, restarts, before>>

-----------------------------------------------------------------------------
(* Handlers *)

\* Mutant: the contact is marked as saved without being stored.
ContactUpdateMark ==
    /\ sync
    /\ sync' = FALSE
    /\ \E named \in {{"pn"}, Ids} : saved' = saved \cup named
    /\ UNCHANGED <<outside, contacts, titles, msgs, cache, arriving, loading, arrivals, restarts, before>>

\* handleContactUpdate: the event names the number, perhaps the lid too.
ContactUpdate ==
    /\ sync
    /\ sync' = FALSE
    /\ \E named \in {{"pn"}, Ids} :
         LET c == [name |-> IF store.full THEN "full" ELSE "first", short |-> ""]
             one == Added(contacts, "pn", c)
         IN RepairChatNames(IF "lid" \in named THEN Added(one, "lid", c) ELSE one, saved \cup named)
    /\ UNCHANGED <<outside, msgs, cache, arriving, loading, arrivals, restarts, before>>

\* A message, or a copy of one, is labelled; then it is stored.
Label(m) ==
    /\ arriving = Absent /\ arrivals < MaxArrivals
    /\ arrivals' = arrivals + 1
    /\ \E id \in Ids, group, fromMe \in BOOLEAN, pushName \in {"", "push"} :
         /\ group => ~fromMe
         /\ \A old \in {msgs[m], cache[m]} \ {Absent} :
                fromMe = old.fromMe /\ group = (old.chat = "group")
         /\ arriving' = [id |-> m, message |-> ContactForMessage(id, group, fromMe, pushName)]
    /\ UNCHANGED <<outside, book, titles, msgs, cache, sync, loading, restarts, before>>

Store ==
    /\ arriving # Absent
    /\ AddMessage(arriving.id, arriving.message)
    /\ arriving' = Absent
    /\ UNCHANGED <<outside, cache, sync, loading, arrivals, restarts, before>>

\* A history sync names the chat, or getChatName does, and AddChat replaces the title.
HistoryChat ==
    /\ \E id \in Ids, given \in {"", "full"} :
         LET name == IF given = "full" /\ store.full THEN "full" ELSE ChatName(ResolveLID(id))
         IN titles' = [titles EXCEPT ![ResolveLID(id)] = name]
    /\ UNCHANGED <<outside, book, msgs, cache, arriving, sync, loading, arrivals, restarts, before>>

-----------------------------------------------------------------------------
(* loadRecentChats and restarts *)

LoadMessage(m) ==
    /\ loading = "caches" /\ cache[m] # Absent
    /\ AddMessage(m, cache[m])
    /\ cache' = [cache EXCEPT ![m] = Absent]
    /\ UNCHANGED <<outside, arriving, sync, loading, arrivals, restarts, before>>

CachesLoaded ==
    /\ loading = "caches" /\ \A m \in Messages : cache[m] = Absent
    /\ loading' = "contacts"
    /\ UNCHANGED <<outside, book, titles, msgs, cache, arriving, sync, arrivals, restarts, before>>

\* loadContacts: the number's contact, and the lid's like it.  A contact without a full
\* name gets the name the person goes by, or the number.
StoreContact ==
    [name |-> First(First(Full, Push), "number"),
     short |-> First(Push, First(First(Full, Push), "number"))]
\* Mutant: contacts that messages have made stay as they are.
LoadNewContacts ==
    /\ loading = "contacts"
    /\ loading' = "repair"
    /\ LET known == store.full \/ store.first \/ store.push
           ids == IF ~known THEN {} ELSE IF mapped THEN Ids ELSE {"pn"}
       IN /\ contacts' = [id \in DOMAIN contacts \cup ids |->
                            IF id \in DOMAIN contacts THEN contacts[id] ELSE StoreContact]
          /\ saved' = IF store.full \/ store.first THEN saved \cup ids ELSE saved
    /\ UNCHANGED <<outside, titles, msgs, cache, arriving, sync, arrivals, restarts, before>>

LoadContacts ==
    /\ loading = "contacts"
    /\ loading' = "repair"
    /\ LET known == store.full \/ store.first \/ store.push
           ids == IF ~known THEN {} ELSE IF mapped THEN Ids ELSE {"pn"}
       IN /\ contacts' = [id \in DOMAIN contacts \cup ids |->
                            IF id \in ids THEN StoreContact ELSE contacts[id]]
          /\ saved' = IF store.full \/ store.first THEN saved \cup ids ELSE saved
    /\ UNCHANGED <<outside, titles, msgs, cache, arriving, sync, arrivals, restarts, before>>

RepairTitles ==
    /\ loading = "repair"
    /\ loading' = "refresh"
    /\ RepairChatNames(contacts, saved)
    /\ UNCHANGED <<outside, msgs, cache, arriving, sync, arrivals, restarts, before>>

\* RefreshContactNames: every message gets the names that contacts and chats have now.
Resolved(id) ==
    IF id \in DOMAIN contacts
    THEN [name |-> First(contacts[id].name, contacts[id].short),
          short |-> First(contacts[id].short, contacts[id].name)]
    ELSE IF titles[id] \notin {Absent, ""} THEN [name |-> titles[id], short |-> titles[id]]
    ELSE [name |-> "", short |-> ""]
Refreshed(message) ==
    LET r == Resolved(message.contact)
    IN [message EXCEPT !.name = First(r.name, @), !.short = First(r.short, First(r.name, @))]
RefreshContactNames ==
    /\ loading = "refresh"
    /\ loading' = "done"
    /\ msgs' = [m \in Messages |-> IF msgs[m] = Absent THEN Absent ELSE Refreshed(msgs[m])]
    /\ UNCHANGED <<outside, book, titles, cache, arriving, sync, arrivals, restarts, before>>

\* Only chats and messages are on disk.
Restart ==
    /\ restarts < MaxRestarts
    /\ restarts' = restarts + 1
    /\ contacts' = [id \in {} |-> Absent] /\ saved' = {}
    /\ cache' = [m \in Messages |-> IF msgs[m] = Absent THEN cache[m] ELSE msgs[m]]
    /\ msgs' = [m \in Messages |-> Absent]
    /\ arriving' = Absent
    /\ loading' = "caches"
    /\ fullBefore' = store.full /\ lidBefore' = mapped
    /\ UNCHANGED <<outside, titles, sync, arrivals>>

Next ==
    \/ Learn \/ PhoneSaves
    \/ ContactUpdate \/ Store \/ HistoryChat
    \/ CachesLoaded \/ LoadContacts \/ RepairTitles \/ RefreshContactNames \/ Restart
    \/ \E m \in Messages : Label(m) \/ LoadMessage(m)

Spec == Init /\ [][Next]_vars

-----------------------------------------------------------------------------
(* Properties *)

\* After loadRecentChats a person whom the address book already knew by full name at the
\* start is called by it everywhere, in the contacts, as title of the chat and on every
\* message, whatever messages, history syncs and changes of the address book arrive while
\* it is under way and afterwards; and so is the lid, when it was known to be the person's.
\* (A message whose lid is resolved later keeps its label till the next start.)
Known == IF lidBefore THEN Ids ELSE {"pn"}
KnownNameEverywhere ==
    loading = "done" /\ fullBefore =>
        /\ \A id \in Known : contacts[id].name = "full" /\ titles[id] \in {Absent, "full"}
        /\ lidBefore => \A m \in Messages : msgs[m] # Absent => msgs[m].name = "full"

\* Once our own name is gone from chats, contacts, the message on its way and the messages
\* of others it does not come back, although stored messages of ours still carry it and are
\* read, merged and loaded.
OwnNameNowhere ==
    /\ \A id \in Ids : titles[id] # "own"
    /\ \A id \in DOMAIN contacts : "own" \notin {contacts[id].name, contacts[id].short}
    /\ arriving # Absent => "own" \notin {arriving.message.name, arriving.message.short}
    /\ \A m \in Messages : msgs[m] # Absent /\ (msgs[m].chat = "group" \/ ~msgs[m].fromMe) =>
         "own" \notin {msgs[m].name, msgs[m].short}
OwnNameStaysAway == [][loading = "done" /\ loading' = "done" /\ OwnNameNowhere => OwnNameNowhere']_vars

\* When loading is over no chat of an unsaved person is called by our own name
\* (RepairChatNames: "such labels are cleared unless the address book itself uses that
\* name").  Fails: a message labelled before the repair and stored after it, or a second
\* copy of one stored before, is taken for a better name than the number.
OwnNameCleared ==
    loading = "done" /\ ownKnown => \A id \in Ids \ saved : titles[id] # "own"

\* The title of a 1:1 chat that shows the name under which the person is saved goes on
\* doing so (AddSavedContact: "Its name is authoritative for the matching 1:1 chat title").
SavedTitleStays ==
    [][\A id \in saved : titles[id] \in {"first", "full"} => titles'[id] \in {"first", "full"}]_vars

=============================================================================
