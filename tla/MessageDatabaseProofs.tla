----------------------- MODULE MessageDatabaseProofs -----------------------
(***************************************************************************)
(* Theorems about MessageDatabase, for every set of messages, chats,       *)
(* reactions and loader goroutines.                                        *)
(*                                                                         *)
(* The inductive invariant is IndInv: the type, KeyedById, agreement of    *)
(* index and lists, and the two facts about chats and own messages.  Each  *)
(* operation writes the messages through one of four primitives; a lemma   *)
(* per primitive shows that it keeps the store's part of IndInv and says   *)
(* what it changes, and the actions cite the lemma of theirs.  The badges  *)
(* come last: they compare the counter with the flags across each step.    *)
(***************************************************************************)
EXTENDS MessageDatabase, FiniteSetTheorems, TLAPS

\* The part of IndInv that is about the two copies of the messages.
StoreInv ==
    /\ IsPartialMap(messagesById, Ids, Message)
    /\ messages \in [Chats -> SUBSET Message]
    /\ KeyedById
    /\ IndexMatchesLists

LEMMA StoreFromInd == IndInv => StoreInv
BY DEF IndInv, StoreInv, TypeOK

\* A record of a list is the stored version of its id, in the id's chat.
LEMMA ListRecord ==
    ASSUME StoreInv, NEW c \in Chats, NEW r \in messages[c]
    PROVE  /\ r.id \in DOMAIN messagesById
           /\ r.id \in Ids
           /\ r = messagesById[r.id]
           /\ ChatOf[r.id] = c
BY DEF StoreInv, IsPartialMap, KeyedById, IndexMatchesLists

\* A stored message is in the list of its chat.
LEMMA StoredRecord ==
    ASSUME StoreInv, NEW i \in DOMAIN messagesById
    PROVE  /\ i \in Ids
           /\ messagesById[i] \in Message
           /\ messagesById[i].id = i
           /\ ChatOf[i] \in Chats
           /\ messagesById[i] \in messages[ChatOf[i]]
BY IdentityAssumption DEF StoreInv, IsPartialMap, KeyedById, IndexMatchesLists

\* Put extends a map by one key.
LEMMA PutMap ==
    ASSUME NEW f, NEW S, NEW T, IsPartialMap(f, S, T), NEW k \in S, NEW v \in T
    PROVE  /\ IsPartialMap(Put(f, k, v), S, T)
           /\ DOMAIN Put(f, k, v) = DOMAIN f \cup {k}
           /\ Put(f, k, v)[k] = v
           /\ \A x \in DOMAIN f : x # k => Put(f, k, v)[x] = f[x]
BY DEF IsPartialMap, Put

-----------------------------------------------------------------------------
(* The primitives *)

\* A new version of a stored message reaches the index and the list.
LEMMA StoreVersionKeeps ==
    ASSUME StoreInv, NEW m \in Message, m.id \in DOMAIN messagesById, StoreVersion(m)
    PROVE  /\ StoreInv'
           /\ DOMAIN messagesById' = DOMAIN messagesById
           /\ messagesById'[m.id] = m
           /\ \A i \in DOMAIN messagesById : i # m.id => messagesById'[i] = messagesById[i]
<1> DEFINE N == Put(messagesById, m.id, m)
<1>1. m.id \in Ids /\ ChatOf[m.id] \in Chats
  BY StoredRecord
<1>2. messagesById' = N
  BY DEF StoreVersion
<1>3. /\ IsPartialMap(N, Ids, Message)
      /\ DOMAIN N = DOMAIN messagesById
      /\ N[m.id] = m
      /\ \A i \in DOMAIN messagesById : i # m.id => N[i] = messagesById[i]
  <2>1. IsPartialMap(messagesById, Ids, Message)
    BY DEF StoreInv
  <2>2. /\ IsPartialMap(N, Ids, Message)
        /\ DOMAIN N = DOMAIN messagesById \cup {m.id}
        /\ N[m.id] = m
        /\ \A x \in DOMAIN messagesById : x # m.id => N[x] = messagesById[x]
    BY <1>1, <2>1, PutMap
  <2>3. QED  BY <2>2
<1> HIDE DEF N
<1>4. /\ messages' \in [Chats -> SUBSET Message]
      /\ messages'[ChatOf[m.id]] = Replaced(messages[ChatOf[m.id]], m)
      /\ \A c \in Chats : c # ChatOf[m.id] => messages'[c] = messages[c]
  BY <1>1 DEF StoreVersion, StoreInv, Replaced
<1>5. KeyedById'
  BY <1>2, <1>3 DEF KeyedById, StoreInv
<1>6. ASSUME NEW c \in Chats
      PROVE  messages'[c] = {N[i] : i \in {j \in DOMAIN N : ChatOf[j] = c}}
  <2>1. CASE c # ChatOf[m.id]
    <3>1. messages[c] = {messagesById[i] : i \in {j \in DOMAIN messagesById : ChatOf[j] = c}}
      BY DEF StoreInv, IndexMatchesLists
    <3>2. QED  BY <2>1, <3>1, <1>3, <1>4
  <2>2. CASE c = ChatOf[m.id]
    <3>1. ASSUME NEW r \in messages[c]
          PROVE  (IF r.id = m.id THEN m ELSE r) = N[r.id]
      BY <1>3, ListRecord
    <3>2. messages'[c] \subseteq {N[i] : i \in {j \in DOMAIN N : ChatOf[j] = c}}
      BY <2>2, <3>1, <1>3, <1>4, ListRecord DEF Replaced
    <3>3. ASSUME NEW i \in DOMAIN N, ChatOf[i] = c
          PROVE  N[i] \in messages'[c]
      <4>1. messagesById[i] \in messages[c] /\ messagesById[i].id = i
        BY <1>3, <3>3, StoredRecord
      <4>2. (IF messagesById[i].id = m.id THEN m ELSE messagesById[i]) \in messages'[c]
        BY <4>1, <2>2, <1>4 DEF Replaced
      <4>3. QED  BY <4>1, <4>2, <3>1
    <3>4. QED  BY <3>2, <3>3
  <2>3. QED  BY <2>1, <2>2
<1>7. IndexMatchesLists'
  BY <1>2, <1>6 DEF IndexMatchesLists
<1>8. QED
  BY <1>2, <1>3, <1>4, <1>5, <1>7 DEF StoreInv

\* A new message reaches the index and the list.
LEMMA StoreNewKeeps ==
    ASSUME StoreInv, NEW m \in Message, m.id \notin DOMAIN messagesById,
           messagesById' = Put(messagesById, m.id, m),
           messages' = [messages EXCEPT ![ChatOf[m.id]] = @ \cup {m}]
    PROVE  /\ StoreInv'
           /\ DOMAIN messagesById' = DOMAIN messagesById \cup {m.id}
           /\ messagesById'[m.id] = m
           /\ \A i \in DOMAIN messagesById : messagesById'[i] = messagesById[i]
<1> DEFINE N == Put(messagesById, m.id, m)
<1>1. m.id \in Ids /\ ChatOf[m.id] \in Chats
  BY IdentityAssumption DEF Message
<1>2. messagesById' = N
  OBVIOUS
<1>3. /\ IsPartialMap(N, Ids, Message)
      /\ DOMAIN N = DOMAIN messagesById \cup {m.id}
      /\ N[m.id] = m
      /\ \A i \in DOMAIN messagesById : N[i] = messagesById[i]
  <2>1. IsPartialMap(messagesById, Ids, Message)
    BY DEF StoreInv
  <2>2. /\ IsPartialMap(N, Ids, Message)
        /\ DOMAIN N = DOMAIN messagesById \cup {m.id}
        /\ N[m.id] = m
        /\ \A x \in DOMAIN messagesById : x # m.id => N[x] = messagesById[x]
    BY <1>1, <2>1, m \in Message DEF IsPartialMap, Put
  <2>3. QED  BY <2>2
<1> HIDE DEF N
<1>4. /\ messages' \in [Chats -> SUBSET Message]
      /\ messages'[ChatOf[m.id]] = messages[ChatOf[m.id]] \cup {m}
      /\ \A c \in Chats : c # ChatOf[m.id] => messages'[c] = messages[c]
  BY <1>1 DEF StoreInv
<1>5. KeyedById'
  BY <1>2, <1>3 DEF KeyedById, StoreInv
<1>6. ASSUME NEW c \in Chats
      PROVE  messages'[c] = {N[i] : i \in {j \in DOMAIN N : ChatOf[j] = c}}
  <2>1. messages[c] = {messagesById[i] : i \in {j \in DOMAIN messagesById : ChatOf[j] = c}}
    BY DEF StoreInv, IndexMatchesLists
  <2>2. CASE c # ChatOf[m.id]
    BY <2>1, <2>2, <1>3, <1>4
  <2>3. CASE c = ChatOf[m.id]
    BY <2>1, <2>3, <1>3, <1>4
  <2>4. QED  BY <2>2, <2>3
<1>7. IndexMatchesLists'
  BY <1>2, <1>6 DEF IndexMatchesLists
<1>8. QED
  BY <1>2, <1>3, <1>4, <1>5, <1>7 DEF StoreInv

\* Flags that change reach the index and the lists, if the ids touched are of the
\* chats written.
LEMMA SetFlagsKeeps ==
    ASSUME StoreInv, NEW cs \in SUBSET Chats, NEW touched, NEW on,
           \A i \in DOMAIN messagesById : i \in touched => ChatOf[i] \in cs,
           SetFlags(cs, touched, on)
    PROVE  /\ StoreInv'
           /\ DOMAIN messagesById' = DOMAIN messagesById
           /\ \A i \in DOMAIN messagesById :
                /\ messagesById'[i].status = messagesById[i].status
                /\ i \in touched => messagesById'[i].unread = (i \in on)
                /\ i \notin touched => messagesById'[i] = messagesById[i]
<1> DEFINE N == [i \in DOMAIN messagesById |->
                   IF i \in touched THEN [messagesById[i] EXCEPT !.unread = i \in on]
                                    ELSE messagesById[i]]
<1>1. ASSUME NEW i \in DOMAIN messagesById
      PROVE  /\ N[i] \in Message
             /\ N[i].id = i
             /\ N[i].status = messagesById[i].status
             /\ i \in touched => N[i].unread = (i \in on)
             /\ i \notin touched => N[i] = messagesById[i]
  <2>1. messagesById[i] \in Message /\ messagesById[i].id = i
    BY StoredRecord
  <2>2. PICK b \in BOOLEAN : b = (i \in on)
    <3>1. CASE i \in on
      <4>1. TRUE \in BOOLEAN /\ TRUE = (i \in on)
        BY <3>1, Zenon
      <4>2. QED  BY <4>1, Zenon
    <3>2. CASE i \notin on
      <4>1. FALSE \in BOOLEAN /\ FALSE = (i \in on)
        BY <3>2, SMT
      <4>2. QED  BY <4>1, Zenon
    <3>3. QED  BY <3>1, <3>2
  <2>3. CASE i \in touched
    <3>1. N[i] = [messagesById[i] EXCEPT !.unread = b]
      BY <2>2, <2>3, Zenon
    <3>2. /\ [messagesById[i] EXCEPT !.unread = b] \in Message
          /\ [messagesById[i] EXCEPT !.unread = b].id = i
          /\ [messagesById[i] EXCEPT !.unread = b].status = messagesById[i].status
          /\ [messagesById[i] EXCEPT !.unread = b].unread = b
      BY <2>1 DEF Message
    <3> HIDE DEF N
    <3>3. QED  BY <2>2, <2>3, <3>1, <3>2, Zenon
  <2>4. CASE i \notin touched
    <3>1. N[i] = messagesById[i]
      BY <2>4, Zenon
    <3> HIDE DEF N
    <3>2. QED  BY <2>1, <2>4, <3>1, Zenon
  <2>5. QED  BY <2>3, <2>4
<1>2. messagesById' = N /\ DOMAIN N = DOMAIN messagesById
  BY Zenon DEF SetFlags
<1>3. ASSUME NEW c \in Chats
      PROVE  messages'[c] = {N[r.id] : r \in messages[c]}
  <2>1. ASSUME NEW r \in messages[c], c \in cs
        PROVE  (IF r.id \in touched THEN [r EXCEPT !.unread = r.id \in on] ELSE r) = N[r.id]
    <3>1. r.id \in DOMAIN messagesById /\ r = messagesById[r.id]
      BY ListRecord
    <3>2. QED  BY <3>1, Zenon
  <2>2. ASSUME NEW r \in messages[c], c \notin cs
        PROVE  r = N[r.id]
    <3>1. r.id \in DOMAIN messagesById /\ r = messagesById[r.id] /\ r.id \notin touched
      BY <2>2, ListRecord
    <3>2. QED  BY <3>1, Zenon
  <2>3. CASE c \in cs
    <3> DEFINE F == [r \in messages[c] |->
                       IF r.id \in touched THEN [r EXCEPT !.unread = r.id \in on] ELSE r]
    <3>1. messages'[c] = {F[r] : r \in messages[c]}
      BY <2>3, Zenon DEF SetFlags
    <3>2. \A r \in messages[c] : F[r] = N[r.id]
      BY <2>1, <2>3, Zenon
    <3> HIDE DEF N, F
    <3>3. QED  BY <3>1, <3>2
  <2>4. CASE c \notin cs
    <3>1. messages'[c] = messages[c]
      BY <2>4, Zenon DEF SetFlags
    <3> HIDE DEF N
    <3>2. QED  BY <2>2, <2>4, <3>1
  <2>5. QED  BY <2>3, <2>4
<1>4. messages' = [c \in Chats |-> messages'[c]]
  BY DEF SetFlags
<1>5. N = [i \in DOMAIN N |-> N[i]]
  BY Zenon
<1> HIDE DEF N
<1>6. ASSUME NEW c \in Chats
      PROVE  messages'[c] = {N[i] : i \in {j \in DOMAIN N : ChatOf[j] = c}}
  <2>1. messages[c] = {messagesById[i] : i \in {j \in DOMAIN messagesById : ChatOf[j] = c}}
    BY DEF StoreInv, IndexMatchesLists
  <2>2. \A i \in DOMAIN messagesById : messagesById[i].id = i
    BY StoredRecord
  <2>3. QED  BY <2>1, <2>2, <1>2, <1>3
<1>7. messagesById' \in [DOMAIN messagesById' -> Message] /\ messages' \in [Chats -> SUBSET Message]
  <2>1. N \in [DOMAIN N -> Message]
    BY <1>1, <1>2, <1>5
  <2>2. \A c \in Chats : messages'[c] \in SUBSET Message
    BY <1>1, <1>2, <1>6
  <2>3. QED  BY <1>2, <1>4, <2>1, <2>2
<1>8. IndexMatchesLists' /\ KeyedById'
  BY <1>1, <1>2, <1>6 DEF IndexMatchesLists, KeyedById
<1>9. StoreInv'
  BY <1>2, <1>7, <1>8 DEF StoreInv, IsPartialMap
<1>10. QED
  BY <1>1, <1>2, <1>9, Zenon

\* States that a receipt raises reach the index and the lists.
LEMMA UpgradeKeeps ==
    ASSUME StoreInv, NEW ids \in SUBSET Ids, NEW s \in Statuses, UpgradeMessageStatus(ids, s)
    PROVE  /\ StoreInv'
           /\ DOMAIN messagesById' = DOMAIN messagesById
           /\ \A i \in DOMAIN messagesById :
                /\ messagesById[i].status <= messagesById'[i].status
                /\ messagesById'[i].unread = messagesById[i].unread
<1> DEFINE changed == {i \in ids \cap DOMAIN messagesById :
                         FromMe[i] /\ s > messagesById[i].status}
           Raised(i) == [messagesById[i] EXCEPT !.status = s]
           N == [i \in DOMAIN messagesById |->
                   IF i \in changed THEN Raised(i) ELSE messagesById[i]]
<1>1. ASSUME NEW i \in DOMAIN messagesById
      PROVE  /\ N[i] \in Message
             /\ N[i].id = i
             /\ N[i].unread = messagesById[i].unread
             /\ messagesById[i].status <= N[i].status
  <2>1. messagesById[i] \in Message /\ messagesById[i].id = i /\ s \in 0..4
    BY StoredRecord, InputAssumption
  <2>2. CASE i \in changed
    BY <2>1, <2>2 DEF Message
  <2>3. CASE i \notin changed
    BY <2>1, <2>3 DEF Message
  <2>4. QED  BY <2>2, <2>3
<1>2. messagesById' = N /\ DOMAIN N = DOMAIN messagesById
  BY DEF UpgradeMessageStatus
<1>3. ASSUME NEW c \in Chats
      PROVE  messages'[c] = {N[r.id] : r \in messages[c]}
  <2>1. messages'[c] = {IF r.id \in changed /\ ChatOf[r.id] = c THEN Raised(r.id) ELSE r :
                          r \in messages[c]}
    BY DEF UpgradeMessageStatus
  <2>2. ASSUME NEW r \in messages[c]
        PROVE  (IF r.id \in changed /\ ChatOf[r.id] = c THEN Raised(r.id) ELSE r) = N[r.id]
    BY ListRecord
  <2> HIDE DEF changed, Raised, N
  <2>3. QED  BY <2>1, <2>2
<1>4. messages' = [c \in Chats |-> messages'[c]]
  BY DEF UpgradeMessageStatus
<1> HIDE DEF changed, Raised, N
<1>5. ASSUME NEW c \in Chats
      PROVE  messages'[c] = {N[i] : i \in {j \in DOMAIN N : ChatOf[j] = c}}
  <2>1. messages[c] = {messagesById[i] : i \in {j \in DOMAIN messagesById : ChatOf[j] = c}}
    BY DEF StoreInv, IndexMatchesLists
  <2>2. \A i \in DOMAIN messagesById : messagesById[i].id = i
    BY StoredRecord
  <2>3. QED  BY <2>1, <2>2, <1>2, <1>3
<1>6. messagesById' \in [DOMAIN messagesById' -> Message] /\ messages' \in [Chats -> SUBSET Message]
  <2>1. N = [i \in DOMAIN N |-> N[i]]
    BY DEF N
  <2>2. N \in [DOMAIN N -> Message]
    BY <1>1, <1>2, <2>1
  <2>3. \A c \in Chats : messages'[c] \in SUBSET Message
    BY <1>1, <1>2, <1>5
  <2>4. QED  BY <1>2, <1>4, <2>2, <2>3
<1>7. IndexMatchesLists' /\ KeyedById'
  BY <1>1, <1>2, <1>5 DEF IndexMatchesLists, KeyedById
<1>8. StoreInv'
  BY <1>2, <1>6, <1>7 DEF StoreInv, IsPartialMap
<1>9. QED  BY <1>1, <1>2, <1>8

-----------------------------------------------------------------------------
(* The chat table *)

ChatsTyped == IsPartialMap(chats, Chats, Chat)

\* No chat is forgotten and no activity time goes back.
ChatsKept ==
    /\ ChatsTyped'
    /\ \A c \in DOMAIN chats : c \in DOMAIN chats' /\ chats[c].last <= chats'[c].last

LEMMA ChatOrNewTyped ==
    ASSUME ChatsTyped, NEW c \in Chats
    PROVE  ChatOrNew(c) \in Chat
BY DEF ChatsTyped, IsPartialMap, ChatOrNew, NewChat, Chat

\* updateChatFromMessageLocked makes the chat known, no older than the message,
\* and adds one to its counter if asked to.
LEMMA UpdateChatKeeps ==
    ASSUME ChatsTyped, NEW i \in Ids, NEW b \in BOOLEAN, UpdateChatFromMessage(i, b)
    PROVE  /\ ChatsKept
           /\ DOMAIN chats' = DOMAIN chats \cup {ChatOf[i]}
           /\ SentAt[i] <= chats'[ChatOf[i]].last
           /\ chats'[ChatOf[i]].unread = IF b THEN ChatOrNew(ChatOf[i]).unread + 1
                                              ELSE ChatOrNew(ChatOf[i]).unread
           /\ \A c \in DOMAIN chats : c # ChatOf[i] => chats'[c] = chats[c]
<1> DEFINE c == ChatOf[i]
           old == ChatOrNew(c)
           new == [old EXCEPT !.last = Later(SentAt[i], @),
                              !.unread = IF b THEN @ + 1 ELSE @]
<1>1. c \in Chats /\ SentAt[i] \in Nat
  BY IdentityAssumption
<1>2. old \in Chat
  BY <1>1, ChatOrNewTyped
<1>3. c \in DOMAIN chats => old = chats[c]
  BY DEF ChatOrNew
<1>4. chats' = Put(chats, c, new)
  BY DEF UpdateChatFromMessage
<1> HIDE DEF old
<1>5. /\ new \in Chat
      /\ SentAt[i] <= new.last
      /\ old.last <= new.last
      /\ new.unread = IF b THEN old.unread + 1 ELSE old.unread
  <2> DEFINE n == IF b THEN old.unread + 1 ELSE old.unread
             t == Later(SentAt[i], old.last)
  <2>1. old.unread \in Nat /\ old.last \in Nat
    BY <1>2 DEF Chat
  <2>2. n \in Nat /\ t \in Nat /\ SentAt[i] <= t /\ old.last <= t
    BY <1>1, <2>1 DEF Later
  <2>3. new = [old EXCEPT !.last = t, !.unread = n]
    OBVIOUS
  <2>4. n = IF b THEN old.unread + 1 ELSE old.unread
    OBVIOUS
  <2> HIDE DEF n, t, new
  <2>5. new \in Chat /\ new.last = t /\ new.unread = n
    BY <1>2, <2>2, <2>3 DEF Chat
  <2>6. QED  BY <2>2, <2>4, <2>5
<1> HIDE DEF c, new
<1>6. /\ IsPartialMap(chats', Chats, Chat)
      /\ DOMAIN chats' = DOMAIN chats \cup {c}
      /\ chats'[c] = new
      /\ \A d \in DOMAIN chats : d # c => chats'[d] = chats[d]
  BY <1>1, <1>4, <1>5 DEF ChatsTyped, IsPartialMap, Put
<1>7. \A d \in DOMAIN chats : chats[d].last <= chats'[d].last
  BY <1>3, <1>5, <1>6 DEF ChatsTyped, IsPartialMap, Chat
<1>8. QED
  BY <1>5, <1>6, <1>7 DEF ChatsKept, ChatsTyped, c, old

LEMMA SetCounterKeeps ==
    ASSUME ChatsTyped, NEW c \in Chats, NEW n \in Nat, SetCounter(c, n)
    PROVE  /\ ChatsKept
           /\ DOMAIN chats' = DOMAIN chats
           /\ c \in DOMAIN chats => chats'[c].unread = n
           /\ \A d \in DOMAIN chats : d # c => chats'[d] = chats[d]
BY DEF ChatsTyped, IsPartialMap, SetCounter, ChatsKept, Chat

LEMMA ChatsUnchangedKept == ChatsTyped /\ UNCHANGED chats => ChatsKept
BY DEF ChatsTyped, IsPartialMap, ChatsKept, Chat

\* What an action has to show for the chats: as no chat is forgotten and no time
\* goes back, the messages stored before stay covered.
LEMMA CoverKept ==
    ASSUME IndInv, ChatsKept,
           \A i \in DOMAIN messagesById' :
              \/ i \in DOMAIN messagesById
              \/ ChatOf[i] \in DOMAIN chats' /\ SentAt[i] <= chats'[ChatOf[i]].last
    PROVE  ChatsCoverMessages'
<1> SUFFICES ASSUME NEW i \in DOMAIN messagesById
             PROVE  ChatOf[i] \in DOMAIN chats' /\ SentAt[i] <= chats'[ChatOf[i]].last
  BY DEF ChatsCoverMessages
<1>1. i \in Ids /\ SentAt[i] \in Nat
  BY IdentityAssumption DEF IndInv, TypeOK, IsPartialMap
<1>2. /\ ChatOf[i] \in DOMAIN chats
      /\ SentAt[i] <= chats[ChatOf[i]].last
      /\ chats[ChatOf[i]].last \in Nat
  BY DEF IndInv, ChatsCoverMessages, TypeOK, IsPartialMap, Chat
<1>3. /\ ChatOf[i] \in DOMAIN chats'
      /\ chats[ChatOf[i]].last <= chats'[ChatOf[i]].last
      /\ chats'[ChatOf[i]].last \in Nat
  BY <1>2 DEF ChatsKept, ChatsTyped, IsPartialMap, Chat
<1>4. QED  BY <1>1, <1>2, <1>3

LoadingTyped == DOMAIN loading = Loaders /\ \A l \in Loaders : IsPhase(loading[l])

LEMMA IndInvParts ==
    IndInv <=> StoreInv /\ ChatsTyped /\ LoadingTyped /\ ChatsCoverMessages /\ OwnNeverUnread
BY DEF IndInv, StoreInv, ChatsTyped, LoadingTyped, TypeOK

LEMMA LoadingUnchanged == LoadingTyped /\ UNCHANGED loading => LoadingTyped'
BY DEF LoadingTyped, IsPhase, IsPartialMap

-----------------------------------------------------------------------------
(* The actions *)

LEMMA FillInTyped ==
    ASSUME NEW p \in Payload, NEW q \in Payload
    PROVE  FillIn(p, q) \in Payload
<1>1. p.raw \in BOOLEAN /\ q.raw \in BOOLEAN /\ p.kind \in Kinds /\ q.kind \in Kinds
      /\ p.text \in Texts /\ q.text \in Texts
  BY DEF Payload
<1>2. (p.raw \/ q.raw) \in BOOLEAN
  BY <1>1, Zenon
<1>3. (IF p.kind = "unknown" THEN q.kind ELSE p.kind) \in Kinds
  BY <1>1
<1>4. (IF p.text = "empty" THEN q.text ELSE p.text) \in Texts
  BY <1>1
<1>5. \A b \in BOOLEAN, k \in Kinds, t \in Texts : [raw |-> b, kind |-> k, text |-> t] \in Payload
  BY DEF Payload
<1>6. QED  BY <1>2, <1>3, <1>4, <1>5, Zenon DEF FillIn

\* The version that AddMessage keeps is a message of the same id, no lower in
\* delivery state, and flagged if it was or is to be.
LEMMA MergeTyped ==
    ASSUME NEW old \in Message, NEW m \in Message, NEW u \in BOOLEAN
    PROVE  /\ Merge(old, m, u) \in Message
           /\ Merge(old, m, u).id = old.id
           /\ old.status <= Merge(old, m, u).status
           /\ Merge(old, m, u).unread <=> (old.unread \/ u)
<1> DEFINE p == FillIn(old.payload, m.payload)
           s == Later(m.status, old.status)
           e == IF m.reactions # NoReactions THEN m.reactions ELSE old.reactions
           b == old.unread \/ u
<1>1. p \in Payload
  BY FillInTyped DEF Message
<1>2. s \in 0..4 /\ old.status <= s
  BY DEF Message, Later
<1>3. e \in Reactions
  BY DEF Message
<1>4. b \in BOOLEAN
  BY Zenon
<1>5. Merge(old, m, u) = [old EXCEPT !.payload = p, !.status = s, !.reactions = e, !.unread = b]
  BY Zenon DEF Merge
<1>6. ASSUME NEW x \in BOOLEAN
      PROVE  LET n == [old EXCEPT !.payload = p, !.status = s, !.reactions = e, !.unread = x]
             IN  n \in Message /\ n.id = old.id /\ n.status = s /\ n.unread = x
  <2> HIDE DEF p, s, e
  <2>1. QED  BY <1>1, <1>2, <1>3 DEF Message
<1> HIDE DEF p, s, e
<1>7. /\ Merge(old, m, u) \in Message
      /\ Merge(old, m, u).id = old.id
      /\ Merge(old, m, u).status = s
      /\ Merge(old, m, u).unread = b
  BY <1>4, <1>5, <1>6, Zenon
<1>8. QED  BY <1>2, <1>7, Zenon

LEMMA CopyTyped ==
    ASSUME NEW i \in Ids, NEW m \in Copies(i), NEW u \in Flags(i)
    PROVE  /\ m \in Message
           /\ m.id = i
           /\ u \in BOOLEAN
           /\ FromMe[i] => ~u
<1>1. m \in Message /\ m.id = i
  <2>1. (IF FromMe[i] THEN Statuses ELSE {0}) \subseteq 0..4
    BY InputAssumption
  <2>2. m \in [id : {i}, unread : {FALSE}, status : 0..4, payload : Payload, reactions : Reactions]
    BY <2>1, InputAssumption DEF Copies
  <2>3. QED  BY <2>2 DEF Message
<1>2. u \in BOOLEAN /\ (FromMe[i] => ~u)
  BY Zenon DEF Flags
<1>3. QED  BY <1>1, <1>2

\* What a delivery does to the flags: it adds one to the chat's counter exactly
\* when it flags a message that was not flagged.
DeliveryEffect(i) ==
    \E b \in BOOLEAN :
        /\ UpdateChatFromMessage(i, b)
        /\ DOMAIN messagesById' = DOMAIN messagesById \cup {i}
        /\ \A j \in DOMAIN messagesById : j # i => messagesById'[j] = messagesById[j]
        /\ i \notin DOMAIN messagesById => (messagesById'[i].unread <=> b)
        /\ i \in DOMAIN messagesById =>
             /\ messagesById'[i].unread <=> (b \/ messagesById[i].unread)
             /\ b => ~messagesById[i].unread

\* A delivered copy: a new message or a richer version of a known one.
LEMMA AddNewKeeps ==
    ASSUME IndInv, NEW i \in Ids, NEW m \in Copies(i), NEW u \in Flags(i), AddNewMessage(m, u)
    PROVE  IndInv' /\ StatusKept /\ DeliveryEffect(i)
<1> DEFINE new == [m EXCEPT !.unread = u]
<1>1. m \in Message /\ m.id = i /\ u \in BOOLEAN /\ (FromMe[i] => ~u)
  BY CopyTyped
<1>2. StoreInv /\ ChatsTyped /\ LoadingTyped /\ OwnNeverUnread
  BY IndInvParts
<1>3. new \in Message /\ new.id = i /\ new.unread = u
  BY <1>1 DEF Message
<1>4. /\ i \notin DOMAIN messagesById
      /\ messagesById' = Put(messagesById, new.id, new)
      /\ messages' = [messages EXCEPT ![ChatOf[new.id]] = @ \cup {new}]
  BY <1>1, <1>3 DEF AddNewMessage
<1> HIDE DEF new
<1>5. /\ StoreInv'
      /\ DOMAIN messagesById' = DOMAIN messagesById \cup {i}
      /\ messagesById'[i] = new
      /\ \A j \in DOMAIN messagesById : messagesById'[j] = messagesById[j]
  BY <1>2, <1>3, <1>4, StoreNewKeeps
<1>6. /\ ChatsKept
      /\ DOMAIN chats' = DOMAIN chats \cup {ChatOf[i]}
      /\ SentAt[i] <= chats'[ChatOf[i]].last
  BY <1>1, <1>2, UpdateChatKeeps DEF AddNewMessage
<1>7. ChatsCoverMessages'
  BY <1>5, <1>6, CoverKept
<1>8. OwnNeverUnread'
  <2>1. FromMe[i] => ~messagesById'[i].unread
    BY <1>1, <1>3, <1>5, Zenon
  <2>2. QED  BY <1>2, <1>5, <2>1, Zenon DEF OwnNeverUnread
<1>9. LoadingTyped'
  BY <1>2, LoadingUnchanged DEF AddNewMessage
<1>10. StatusKept
  BY <1>2, <1>5, StoredRecord DEF StatusKept, Message
<1>11. ChatsTyped'
  BY <1>6 DEF ChatsKept
<1>12. DeliveryEffect(i)
  <2>1. UpdateChatFromMessage(i, u)
    BY <1>1 DEF AddNewMessage
  <2>2. messagesById'[i].unread <=> u
    BY <1>3, <1>5, Zenon
  <2>3. QED  BY <1>1, <1>4, <1>5, <2>1, <2>2, Zenon DEF DeliveryEffect
<1>13. QED
  BY <1>5, <1>7, <1>8, <1>9, <1>10, <1>11, <1>12 DEF StoreInv, ChatsTyped, LoadingTyped, IndInv, TypeOK

LEMMA AddKnownKeeps ==
    ASSUME IndInv, NEW i \in Ids, NEW m \in Copies(i), NEW u \in Flags(i), AddKnownMessage(m, u)
    PROVE  IndInv' /\ StatusKept /\ DeliveryEffect(i)
<1> DEFINE old == messagesById[i]
           new == Merge(old, m, u)
<1>1. m \in Message /\ m.id = i /\ u \in BOOLEAN /\ (FromMe[i] => ~u)
  BY CopyTyped
<1>2. StoreInv /\ ChatsTyped /\ LoadingTyped /\ OwnNeverUnread
  BY IndInvParts
<1>3. i \in DOMAIN messagesById /\ old \in Message /\ old.id = i
  BY <1>1, <1>2, StoredRecord DEF AddKnownMessage
<1>4. new \in Message /\ new.id = i /\ old.status <= new.status /\ (new.unread <=> (old.unread \/ u))
  <2>1. /\ Merge(old, m, u) \in Message
        /\ Merge(old, m, u).id = old.id
        /\ old.status <= Merge(old, m, u).status
        /\ Merge(old, m, u).unread <=> (old.unread \/ u)
    <3> HIDE DEF old
    <3>1. QED  BY <1>1, <1>3, MergeTyped
  <2>2. QED  BY <1>3, <2>1, Zenon
<1>5. StoreVersion(new) /\ UpdateChatFromMessage(i, u /\ ~old.unread) /\ UNCHANGED loading
  BY <1>1, Zenon DEF AddKnownMessage
<1>6. (u /\ ~old.unread) \in BOOLEAN
  BY Zenon
<1> HIDE DEF new
<1>7. /\ StoreInv'
      /\ DOMAIN messagesById' = DOMAIN messagesById
      /\ messagesById'[i] = new
      /\ \A j \in DOMAIN messagesById : j # i => messagesById'[j] = messagesById[j]
  BY <1>2, <1>3, <1>4, <1>5, StoreVersionKeeps
<1>8. ChatsKept
  <2>1. ASSUME NEW b \in BOOLEAN, UpdateChatFromMessage(i, b)
        PROVE  ChatsKept
    BY <1>2, <2>1, UpdateChatKeeps
  <2>2. QED  BY <1>5, <1>6, <2>1, Zenon
<1>9. ChatsCoverMessages'
  BY <1>7, <1>8, CoverKept
<1>10. OwnNeverUnread'
  <2>1. FromMe[i] => ~messagesById'[i].unread
    BY <1>1, <1>2, <1>3, <1>4, <1>7, Zenon DEF OwnNeverUnread
  <2>2. QED  BY <1>2, <1>7, <2>1, Zenon DEF OwnNeverUnread
<1>11. LoadingTyped'
  BY <1>2, <1>5, LoadingUnchanged
<1>12. StatusKept
  BY <1>2, <1>4, <1>7, StoredRecord DEF StatusKept, Message
<1>13. ChatsTyped'
  BY <1>8 DEF ChatsKept
<1>14. DeliveryEffect(i)
  <2>1. DOMAIN messagesById' = DOMAIN messagesById \cup {i}
    BY <1>3, <1>7
  <2>2. messagesById'[i].unread <=> ((u /\ ~old.unread) \/ messagesById[i].unread)
    BY <1>4, <1>7, Zenon
  <2>3. QED  BY <1>3, <1>5, <1>6, <1>7, <2>1, <2>2, Zenon DEF DeliveryEffect
<1>15. QED
  BY <1>7, <1>9, <1>10, <1>11, <1>12, <1>13, <1>14 DEF StoreInv, ChatsTyped, LoadingTyped, IndInv, TypeOK

\* Three kinds of step cover the other operations: a new version of one message
\* that keeps its flag and state, ...
LEMMA VersionStepKeeps ==
    ASSUME IndInv, NEW m \in Message, m.id \in DOMAIN messagesById,
           m.status = messagesById[m.id].status, m.unread = messagesById[m.id].unread,
           StoreVersion(m), UNCHANGED <<chats, loading>>
    PROVE  IndInv' /\ StatusKept
<1>1. StoreInv /\ ChatsTyped /\ LoadingTyped /\ OwnNeverUnread
  BY IndInvParts
<1>2. /\ StoreInv'
      /\ DOMAIN messagesById' = DOMAIN messagesById
      /\ messagesById'[m.id] = m
      /\ \A i \in DOMAIN messagesById : i # m.id => messagesById'[i] = messagesById[i]
  BY <1>1, StoreVersionKeeps
<1>3. ChatsKept /\ ChatsTyped' /\ LoadingTyped'
  BY <1>1, ChatsUnchangedKept, LoadingUnchanged DEF ChatsKept
<1>4. ChatsCoverMessages'
  BY <1>2, <1>3, CoverKept
<1>5. OwnNeverUnread'
  BY <1>1, <1>2 DEF OwnNeverUnread
<1>6. StatusKept
  <2>1. \A i \in DOMAIN messagesById : messagesById[i].status \in 0..4
    BY <1>1, StoredRecord DEF Message
  <2>2. QED  BY <1>2, <2>1 DEF StatusKept
<1>7. QED
  BY <1>2, <1>3, <1>4, <1>5, <1>6 DEF StoreInv, ChatsTyped, LoadingTyped, IndInv, TypeOK

\* ... a change of flags that flags no message of our own, ...
LEMMA FlagStepKeeps ==
    ASSUME IndInv, NEW cs \in SUBSET Chats, NEW touched, NEW on,
           \A i \in DOMAIN messagesById : i \in touched => ChatOf[i] \in cs,
           \A i \in on : ~FromMe[i],
           SetFlags(cs, touched, on), ChatsKept, LoadingTyped'
    PROVE  IndInv' /\ StatusKept
<1>1. StoreInv /\ OwnNeverUnread
  BY IndInvParts
<1>2. /\ StoreInv'
      /\ DOMAIN messagesById' = DOMAIN messagesById
      /\ \A i \in DOMAIN messagesById :
           /\ messagesById'[i].status = messagesById[i].status
           /\ i \in touched => messagesById'[i].unread = (i \in on)
           /\ i \notin touched => messagesById'[i] = messagesById[i]
  BY <1>1, SetFlagsKeeps
<1>3. ChatsCoverMessages'
  BY <1>2, CoverKept
<1>4. OwnNeverUnread'
  BY <1>1, <1>2, Zenon DEF OwnNeverUnread
<1>5. StatusKept
  <2>1. \A i \in DOMAIN messagesById : messagesById[i].status \in 0..4
    BY <1>1, StoredRecord DEF Message
  <2>2. \A i \in DOMAIN messagesById : messagesById'[i].status = messagesById[i].status
    BY <1>2
  <2>3. QED  BY <1>2, <2>1, <2>2 DEF StatusKept
<1>6. ChatsTyped'
  BY DEF ChatsKept
<1>7. QED
  BY <1>2, <1>3, <1>4, <1>5, <1>6 DEF StoreInv, ChatsTyped, LoadingTyped, IndInv, TypeOK

\* ... and a change of the chat table alone.
LEMMA ChatStepKeeps ==
    ASSUME IndInv, ChatsKept, LoadingTyped', UNCHANGED <<messagesById, messages>>
    PROVE  IndInv' /\ StatusKept
<1>1. StoreInv /\ OwnNeverUnread
  BY IndInvParts
<1>2. StoreInv' /\ OwnNeverUnread'
  BY <1>1 DEF StoreInv, IsPartialMap, KeyedById, IndexMatchesLists, OwnNeverUnread
<1>3. ChatsCoverMessages'
  BY CoverKept
<1>4. StatusKept
  BY <1>1, StoredRecord DEF StatusKept, Message
<1>5. ChatsTyped'
  BY DEF ChatsKept
<1>6. QED
  BY <1>2, <1>3, <1>4, <1>5 DEF StoreInv, ChatsTyped, LoadingTyped, IndInv, TypeOK

LEMMA DeliverKeeps ==
    ASSUME IndInv, Deliver
    PROVE  IndInv' /\ StatusKept /\ \E i \in Ids : DeliveryEffect(i)
<1>1. PICK i \in Ids : \E m \in Copies(i), u \in Flags(i) : AddMessage(m, u)
  BY DEF Deliver
<1>2. PICK m \in Copies(i), u \in Flags(i) : AddMessage(m, u)
  BY <1>1
<1>3. CASE AddNewMessage(m, u)
  BY <1>3, AddNewKeeps
<1>4. CASE AddKnownMessage(m, u)
  BY <1>4, AddKnownKeeps
<1>5. QED  BY <1>2, <1>3, <1>4 DEF AddMessage

LEMMA ReactKeeps == ASSUME IndInv, React PROVE IndInv' /\ StatusKept
<1>1. StoreInv
  BY IndInvParts
<1>2. ASSUME NEW i \in Ids, NEW e \in Reactions, SetMessageReactions(i, e)
      PROVE  IndInv' /\ StatusKept
  <2> DEFINE m == [messagesById[i] EXCEPT !.reactions = e]
  <2>1. i \in DOMAIN messagesById /\ StoreVersion(m) /\ UNCHANGED <<chats, loading>>
    BY <1>2 DEF SetMessageReactions
  <2>2. messagesById[i] \in Message /\ messagesById[i].id = i
    BY <1>1, <2>1, StoredRecord
  <2>3. m \in Message /\ m.id = i /\ m.status = messagesById[i].status
        /\ m.unread = messagesById[i].unread
    BY <2>2 DEF Message
  <2> HIDE DEF m
  <2>4. QED  BY <2>1, <2>3, VersionStepKeeps
<1>3. ASSUME NEW i \in Ids, NEW s \in Senders, NEW x \in Emojis \cup {NoEmoji},
             ApplyMessageReaction(i, s, x)
      PROVE  IndInv' /\ StatusKept
  <2> DEFINE m == [messagesById[i] EXCEPT !.reactions[s] = x]
  <2>1. i \in DOMAIN messagesById /\ StoreVersion(m) /\ UNCHANGED <<chats, loading>>
    BY <1>3 DEF ApplyMessageReaction
  <2>2. messagesById[i] \in Message /\ messagesById[i].id = i
    BY <1>1, <2>1, StoredRecord
  <2>3. m \in Message /\ m.id = i /\ m.status = messagesById[i].status
        /\ m.unread = messagesById[i].unread
    BY <2>2 DEF Message, Reactions
  <2> HIDE DEF m
  <2>4. QED  BY <2>1, <2>3, VersionStepKeeps
<1>4. QED  BY <1>2, <1>3 DEF React

LEMMA ReceiptKeeps == ASSUME IndInv, Receipt PROVE IndInv' /\ StatusKept
<1>1. StoreInv /\ ChatsTyped /\ LoadingTyped /\ OwnNeverUnread
  BY IndInvParts
<1>2. PICK ids \in SUBSET Ids, s \in Statuses : UpgradeMessageStatus(ids, s)
  BY DEF Receipt
<1>3. /\ StoreInv'
      /\ DOMAIN messagesById' = DOMAIN messagesById
      /\ \A i \in DOMAIN messagesById :
           /\ messagesById[i].status <= messagesById'[i].status
           /\ messagesById'[i].unread = messagesById[i].unread
  BY <1>1, <1>2, UpgradeKeeps
<1>4. UNCHANGED chats /\ UNCHANGED loading
  BY <1>2 DEF UpgradeMessageStatus
<1>5. ChatsKept /\ ChatsTyped' /\ LoadingTyped'
  BY <1>1, <1>4, ChatsUnchangedKept, LoadingUnchanged DEF ChatsKept
<1>6. ChatsCoverMessages'
  BY <1>3, <1>5, CoverKept
<1>7. OwnNeverUnread' /\ StatusKept
  BY <1>1, <1>3 DEF OwnNeverUnread, StatusKept
<1>8. QED
  BY <1>3, <1>5, <1>6, <1>7 DEF StoreInv, ChatsTyped, LoadingTyped, IndInv, TypeOK

LEMMA RevokeKeeps == ASSUME IndInv, Revoke PROVE IndInv' /\ StatusKept
<1>1. StoreInv
  BY IndInvParts
<1>2. PICK i \in Ids : MarkMessageRevoked(i)
  BY DEF Revoke
<1> DEFINE m == [messagesById[i] EXCEPT !.payload = Revoked]
<1>3. i \in DOMAIN messagesById /\ StoreVersion(m) /\ UNCHANGED <<chats, loading>>
  BY <1>2 DEF MarkMessageRevoked
<1>4. messagesById[i] \in Message /\ messagesById[i].id = i
  BY <1>1, <1>3, StoredRecord
<1>5. m \in Message /\ m.id = i /\ m.status = messagesById[i].status
      /\ m.unread = messagesById[i].unread
  BY <1>4 DEF Message, Revoked, Payload, Kinds, Texts
<1> HIDE DEF m
<1>6. QED  BY <1>3, <1>5, VersionStepKeeps

\* Sets of ids found in lists are finite sets of ids.
LEMMA ListIds ==
    ASSUME StoreInv, NEW c \in Chats, NEW list \in SUBSET messages[c]
    PROVE  /\ IdsOf(list) \in SUBSET Ids
           /\ IsFiniteSet(IdsOf(list))
           /\ Cardinality(IdsOf(list)) \in Nat
           /\ \A i \in IdsOf(list) : ChatOf[i] = c
<1>1. IdsOf(list) \in SUBSET Ids /\ \A i \in IdsOf(list) : ChatOf[i] = c
  BY ListRecord DEF IdsOf
<1>2. IsFiniteSet(IdsOf(list))
  BY <1>1, IdentityAssumption, FS_Subset
<1>3. QED  BY <1>1, <1>2, FS_CardinalityType

\* The latest incoming messages are incoming messages of the list.
LEMMA LastIncomingIds ==
    ASSUME StoreInv, NEW c \in Chats, NEW n \in Nat
    PROVE  /\ LastIncoming(messages[c], n) \subseteq IdsOf(messages[c])
           /\ IsFiniteSet(LastIncoming(messages[c], n))
           /\ Cardinality(LastIncoming(messages[c], n)) \in Nat
           /\ \A i \in LastIncoming(messages[c], n) : ~FromMe[i]
<1>1. /\ LastIncoming(messages[c], n) \subseteq IdsOf(messages[c])
      /\ \A i \in LastIncoming(messages[c], n) : ~FromMe[i]
  BY DEF LastIncoming
<1>2. IsFiniteSet(LastIncoming(messages[c], n))
  BY <1>1, ListIds, FS_Subset
<1>3. QED  BY <1>1, <1>2, FS_CardinalityType

LEMMA SyncUnreadKeeps == ASSUME IndInv, SyncUnread PROVE IndInv' /\ StatusKept
<1>1. StoreInv /\ ChatsTyped /\ LoadingTyped
  BY IndInvParts
<1>2. PICK c \in Chats, n \in Counts : UpdateChatUnread(c, n)
  BY DEF SyncUnread
<1> DEFINE on == LastIncoming(messages[c], n)
           touched == IdsOf(messages[c])
<1>3. n \in Nat
  BY InputAssumption
<1>4. SetFlags({c}, touched, on) /\ SetCounter(c, Cardinality(on)) /\ UNCHANGED loading
  BY <1>2 DEF UpdateChatUnread
<1>5. Cardinality(on) \in Nat /\ \A i \in on : ~FromMe[i]
  BY <1>1, <1>3, LastIncomingIds
<1>6. \A i \in touched : ChatOf[i] \in {c}
  BY <1>1, ListIds
<1> HIDE DEF on, touched
<1>7. ChatsKept /\ LoadingTyped'
  BY <1>1, <1>4, <1>5, SetCounterKeeps, LoadingUnchanged
<1>8. QED  BY <1>4, <1>5, <1>6, <1>7, FlagStepKeeps

LEMMA ReadUpToKeeps == ASSUME IndInv, ReadUpTo PROVE IndInv' /\ StatusKept
<1>1. StoreInv /\ ChatsTyped /\ LoadingTyped
  BY IndInvParts
<1>2. PICK c \in Chats, t \in Times : MarkChatReadUpTo(c, t)
  BY DEF ReadUpTo
<1> DEFINE read == {r \in Unread(messages[c]) : t = 0 \/ SentAt[r.id] <= t}
           n == Cardinality(IdsOf(Unread(messages[c]) \ read))
<1>3. SetFlags({c}, IdsOf(read), {}) /\ SetCounter(c, n) /\ UNCHANGED loading
  BY <1>2 DEF MarkChatReadUpTo
<1>4. read \in SUBSET messages[c] /\ (Unread(messages[c]) \ read) \in SUBSET messages[c]
  BY DEF Unread
<1> HIDE DEF read
<1>5. n \in Nat /\ \A i \in IdsOf(read) : ChatOf[i] \in {c}
  BY <1>1, <1>4, ListIds
<1> HIDE DEF n
<1>6. ChatsKept /\ LoadingTyped'
  BY <1>1, <1>3, <1>5, SetCounterKeeps, LoadingUnchanged
<1>7. QED  BY <1>3, <1>5, <1>6, FlagStepKeeps

LEMMA ReadAllKeeps == ASSUME IndInv, ReadAll PROVE IndInv' /\ StatusKept
<1>1. StoreInv /\ ChatsTyped /\ LoadingTyped
  BY IndInvParts
<1>2. PICK c \in Chats : MarkChatRead(c)
  BY DEF ReadAll
<1>3. SetFlags({c}, Flagged(messages[c]), {}) /\ SetCounter(c, 0) /\ UNCHANGED loading
  BY <1>2 DEF MarkChatRead
<1>4. \A i \in Flagged(messages[c]) : ChatOf[i] \in {c}
  BY <1>1, ListIds DEF Flagged, Unread
<1>5. ChatsKept /\ LoadingTyped'
  BY <1>1, <1>3, SetCounterKeeps, LoadingUnchanged
<1>6. QED  BY <1>3, <1>4, <1>5, FlagStepKeeps

LEMMA MarkUnreadKeeps == ASSUME IndInv, MarkUnread PROVE IndInv' /\ StatusKept
<1>1. ChatsTyped /\ LoadingTyped
  BY IndInvParts
<1>2. PICK c \in Chats, n \in Counts : SetChatUnreadCount(c, n)
  BY DEF MarkUnread
<1>3. n \in Nat /\ SetCounter(c, n) /\ UNCHANGED <<messagesById, messages, loading>>
  BY <1>2, InputAssumption DEF SetChatUnreadCount
<1>4. ChatsKept /\ LoadingTyped'
  BY <1>1, <1>3, SetCounterKeeps, LoadingUnchanged
<1>5. QED  BY <1>3, <1>4, ChatStepKeeps

\* A snapshot of a chat raises what is known of it.
LEMMA AddChatRaises ==
    ASSUME ChatsTyped, NEW c \in Chats, NEW chat \in ChatReports, AddChat(c, chat)
    PROVE  /\ ChatsKept
           /\ DOMAIN chats' = DOMAIN chats \cup {c}
           /\ ChatOrNew(c).unread <= chats'[c].unread
           /\ \A d \in DOMAIN chats : d # c => chats'[d] = chats[d]
<1> DEFINE old == ChatOrNew(c)
           n == Later(chat.unread, old.unread)
           t == Later(chat.last, old.last)
           a == chat.archived \/ old.archived
           p == chat.pinned \/ old.pinned
           new == [unread |-> n, last |-> t, archived |-> a, pinned |-> p]
<1>1. old \in Chat
  BY ChatOrNewTyped
<1>2. old.unread \in Nat /\ old.last \in Nat /\ chat.unread \in Nat /\ chat.last \in Nat
  BY <1>1, InputAssumption DEF Chat, ChatReports
<1>3. n \in Nat /\ t \in Nat /\ old.unread <= n /\ old.last <= t
  BY <1>2 DEF Later
<1>4. a \in BOOLEAN /\ p \in BOOLEAN
  BY Zenon
<1>5. c \in DOMAIN chats => old = chats[c]
  BY DEF ChatOrNew
<1>6. chats' = Put(chats, c, new)
  BY Zenon DEF AddChat
<1> HIDE DEF n, t, a, p
<1>7. new \in Chat /\ new.unread = n /\ new.last = t
  BY <1>3, <1>4 DEF Chat
<1> HIDE DEF new, old
<1>8. /\ IsPartialMap(chats', Chats, Chat)
      /\ DOMAIN chats' = DOMAIN chats \cup {c}
      /\ chats'[c] = new
      /\ \A d \in DOMAIN chats : d # c => chats'[d] = chats[d]
  BY <1>6, <1>7 DEF ChatsTyped, IsPartialMap, Put
<1>9. \A d \in DOMAIN chats : chats[d].last <= chats'[d].last
  BY <1>3, <1>5, <1>7, <1>8 DEF ChatsTyped, IsPartialMap, Chat
<1>10. QED
  BY <1>3, <1>7, <1>8, <1>9 DEF ChatsKept, ChatsTyped, old

LEMMA ReportChatKeeps == ASSUME IndInv, ReportChat PROVE IndInv' /\ StatusKept
<1>1. ChatsTyped /\ LoadingTyped
  BY IndInvParts
<1>2. PICK c \in Chats, chat \in ChatReports : AddChat(c, chat)
  BY DEF ReportChat
<1>3. UNCHANGED <<messagesById, messages, loading>>
  BY <1>2 DEF AddChat
<1>4. ChatsKept /\ LoadingTyped'
  BY <1>1, <1>2, <1>3, AddChatRaises, LoadingUnchanged
<1>5. QED  BY <1>3, <1>4, ChatStepKeeps

\* Marking a chat touches neither its counter nor its activity time.
LEMMA SetMarkKeeps ==
    ASSUME ChatsTyped, NEW c \in Chats, NEW b \in Marks,
           SetChatArchived(c, b) \/ SetChatPinned(c, b)
    PROVE  /\ ChatsKept
           /\ DOMAIN chats' = DOMAIN chats
           /\ \A d \in DOMAIN chats : chats'[d].unread = chats[d].unread
           /\ UNCHANGED <<messagesById, messages, loading>>
<1>1. b \in BOOLEAN
  BY InputAssumption
<1>2. CASE SetChatArchived(c, b)
  BY <1>1, <1>2 DEF SetChatArchived, ChatsTyped, IsPartialMap, ChatsKept, Chat
<1>3. CASE SetChatPinned(c, b)
  BY <1>1, <1>3 DEF SetChatPinned, ChatsTyped, IsPartialMap, ChatsKept, Chat
<1>4. QED  BY <1>2, <1>3

LEMMA SetChatFlagKeeps == ASSUME IndInv, SetChatFlag PROVE IndInv' /\ StatusKept
<1>1. ChatsTyped /\ LoadingTyped
  BY IndInvParts
<1>2. PICK c \in Chats, b \in Marks : SetChatArchived(c, b) \/ SetChatPinned(c, b)
  BY DEF SetChatFlag
<1>3. ChatsKept /\ UNCHANGED <<messagesById, messages, loading>>
  BY <1>1, <1>2, SetMarkKeeps
<1>4. LoadingTyped'
  BY <1>1, <1>3, LoadingUnchanged
<1>5. QED  BY <1>3, <1>4, ChatStepKeeps

LEMMA NextPhase ==
    ASSUME LoadingTyped, NEW l \in Loaders, NEW p, IsPhase(p), loading' = [loading EXCEPT ![l] = p]
    PROVE  LoadingTyped'
BY DEF LoadingTyped, IsPhase, IsPartialMap

\* The loader drops stale flags of every chat, ...
LEMMA PruneFlagsKeeps ==
    ASSUME IndInv, NEW l \in Loaders, NEW t \in Times, PruneFlags(l, t)
    PROVE  IndInv' /\ StatusKept
<1>1. StoreInv /\ ChatsTyped /\ LoadingTyped
  BY IndInvParts
<1>2. PICK touched : SetFlags(Chats, touched, {})
  BY DEF PruneFlags
<1>3. UNCHANGED chats /\ loading' = [loading EXCEPT ![l] = [step |-> "pruning", cutoff |-> t]]
  BY DEF PruneFlags
<1>4. IsPhase([step |-> "pruning", cutoff |-> t])
  BY DEF IsPhase
<1>5. ChatsKept /\ LoadingTyped'
  BY <1>1, <1>3, <1>4, ChatsUnchangedKept, NextPhase
<1>6. \A i \in DOMAIN messagesById : i \in touched => ChatOf[i] \in Chats
  BY <1>1, StoredRecord
<1>7. QED  BY <1>2, <1>5, <1>6, FlagStepKeeps

\* ... zeroes the counters of silent chats, ...
LEMMA PruneCountersKeeps ==
    ASSUME IndInv, NEW l \in Loaders, PruneCounters(l)
    PROVE  IndInv' /\ StatusKept
<1>1. ChatsTyped /\ LoadingTyped
  BY IndInvParts
<1>2. ChatsKept
  BY <1>1 DEF PruneCounters, ChatsTyped, IsPartialMap, ChatsKept, Chat
<1>3. loading' = [loading EXCEPT ![l] = [step |-> "pruned"]] /\ IsPhase([step |-> "pruned"])
  BY DEF PruneCounters, IsPhase
<1>4. LoadingTyped'
  BY <1>1, <1>3, NextPhase
<1>5. QED  BY <1>2, <1>4, ChatStepKeeps DEF PruneCounters

\* ... counts the flags of each chat with messages, ...
LEMMA CountFlagsKeeps ==
    ASSUME IndInv, NEW l \in Loaders, CountFlags(l)
    PROVE  IndInv' /\ StatusKept
<1>1. StoreInv /\ ChatsTyped /\ LoadingTyped
  BY IndInvParts
<1> DEFINE f == [c \in {d \in Chats : messages[d] # {}} |-> Cardinality(Flagged(messages[c]))]
           p == [step |-> "counted", counts |-> f]
<1>2. \A c \in Chats : Cardinality(Flagged(messages[c])) \in Nat
  BY <1>1, ListIds DEF Flagged, Unread
<1>3. IsPartialMap(f, Chats, Nat)
  BY <1>2 DEF IsPartialMap
<1>4. loading' = [loading EXCEPT ![l] = p] /\ UNCHANGED <<messagesById, messages, chats>>
  BY DEF CountFlags
<1> HIDE DEF f
<1>5. IsPhase(p)
  BY <1>3 DEF IsPhase
<1> HIDE DEF p
<1>6. ChatsKept /\ LoadingTyped'
  BY <1>1, <1>4, <1>5, ChatsUnchangedKept, NextPhase
<1>7. QED  BY <1>4, <1>6, ChatStepKeeps

\* ... and stores the counts.
LEMMA StoreCountsKeeps ==
    ASSUME IndInv, NEW l \in Loaders, StoreCounts(l)
    PROVE  IndInv' /\ StatusKept
<1>1. ChatsTyped /\ LoadingTyped
  BY IndInvParts
<1> DEFINE f == loading[l].counts
<1>2. loading[l].step = "counted" /\ IsPhase(loading[l])
  BY <1>1 DEF StoreCounts, LoadingTyped
<1>3. IsPartialMap(f, Chats, Nat)
  BY <1>2 DEF IsPhase
<1>4. chats' = [c \in DOMAIN chats |->
         IF c \in DOMAIN f THEN [chats[c] EXCEPT !.unread = f[c]] ELSE chats[c]]
  BY DEF StoreCounts
<1>5. loading' = [loading EXCEPT ![l] = [step |-> "idle"]] /\ IsPhase([step |-> "idle"])
      /\ UNCHANGED <<messagesById, messages>>
  BY DEF StoreCounts, IsPhase
<1> HIDE DEF f
<1>6. ChatsKept
  BY <1>1, <1>3, <1>4 DEF ChatsTyped, IsPartialMap, ChatsKept, Chat
<1>7. LoadingTyped'
  BY <1>1, <1>5, NextPhase
<1>8. QED  BY <1>5, <1>6, <1>7, ChatStepKeeps

LEMMA LoadKeeps == ASSUME IndInv, Load PROVE IndInv' /\ StatusKept
BY PruneFlagsKeeps, PruneCountersKeeps, CountFlagsKeeps, StoreCountsKeeps DEF Load

-----------------------------------------------------------------------------
(* The theorems *)

LEMMA InitEstablishes == Init => IndInv
<1> SUFFICES ASSUME Init PROVE IndInv
  OBVIOUS
<1>1. DOMAIN messagesById = {} /\ DOMAIN chats = {}
  BY DEF Init
<1>2. IsPartialMap(messagesById, Ids, Message) /\ IsPartialMap(chats, Chats, Chat)
  BY <1>1 DEF Init, IsPartialMap
<1>3. messages \in [Chats -> SUBSET Message] /\ \A c \in Chats : messages[c] = {}
  BY DEF Init
<1>4. DOMAIN loading = Loaders /\ \A l \in Loaders : IsPhase(loading[l])
  BY DEF Init, IsPhase
<1>5. TypeOK
  BY <1>2, <1>3, <1>4 DEF TypeOK
<1>6. IndexMatchesLists
  BY <1>1, <1>3 DEF IndexMatchesLists
<1>7. QED
  BY <1>1, <1>5, <1>6 DEF IndInv, KeyedById, ChatsCoverMessages, OwnNeverUnread

LEMMA NextKeeps == ASSUME IndInv, [Next]_vars PROVE IndInv' /\ StatusKept
<1>1. CASE UNCHANGED vars
  <2>1. ChatsTyped /\ LoadingTyped
    BY IndInvParts
  <2>2. ChatsKept /\ LoadingTyped'
    BY <1>1, <2>1, ChatsUnchangedKept, LoadingUnchanged DEF vars
  <2>3. QED  BY <1>1, <2>2, ChatStepKeeps DEF vars
<1>2. CASE Next
  BY <1>2, DeliverKeeps, ReactKeeps, ReceiptKeeps, RevokeKeeps, SyncUnreadKeeps, ReadUpToKeeps,
     ReadAllKeeps, MarkUnreadKeeps, ReportChatKeeps, SetChatFlagKeeps, LoadKeeps DEF Next
<1>3. QED  BY <1>1, <1>2

\* Every reachable state satisfies the inductive invariant.
THEOREM Invariance == Spec => []IndInv
<1>1. Init => IndInv
  BY InitEstablishes
<1>2. IndInv /\ [Next]_vars => IndInv'
  BY NextKeeps
<1>3. QED  BY <1>1, <1>2, PTL DEF Spec

\* The variables keep their types.
THEOREM TypeCorrect == Spec => []TypeOK
<1>1. IndInv => TypeOK
  BY DEF IndInv
<1>2. QED  BY <1>1, Invariance, PTL

\* Index and lists agree in every reachable state, whatever the sets of messages
\* and chats and however the operations of the goroutines interleave.
THEOREM IndexAgreement == Spec => []IndexMatchesLists
<1>1. IndInv => IndexMatchesLists
  BY DEF IndInv
<1>2. QED  BY <1>1, Invariance, PTL

\* Every stored message belongs to a known chat with an activity time no older.
THEOREM ChatCoverage == Spec => []ChatsCoverMessages
<1>1. IndInv => ChatsCoverMessages
  BY DEF IndInv
<1>2. QED  BY <1>1, Invariance, PTL

\* No message of our own is ever flagged unread.
THEOREM OwnRead == Spec => []OwnNeverUnread
<1>1. IndInv => OwnNeverUnread
  BY DEF IndInv
<1>2. QED  BY <1>1, Invariance, PTL

\* No step lowers a delivery state or drops a message.
THEOREM StatusMonotone == Spec => StatusNeverFalls
<1>1. IndInv /\ [Next]_vars => [StatusKept]_vars
  BY NextKeeps
<1>2. QED  BY <1>1, Invariance, PTL DEF Spec, StatusNeverFalls

-----------------------------------------------------------------------------
(***************************************************************************)
(* The badge theorems of MessageDatabase: how the counter of a chat        *)
(* relates to the flags of its messages across each step.  Every lemma     *)
(* turns an operation into what it does to the set of flagged ids of a     *)
(* chat and compares that set's cardinality with the new counter.          *)
(***************************************************************************)

(* Flagged ids, and deliveries *)

\* The flagged ids of a list, read from the index.
LEMMA FlaggedIds ==
    ASSUME StoreInv, NEW c \in Chats
    PROVE  /\ \A i : i \in Flagged(messages[c]) <=>
                       i \in DOMAIN messagesById /\ ChatOf[i] = c /\ messagesById[i].unread
           /\ Flagged(messages[c]) \subseteq Ids
           /\ IsFiniteSet(Flagged(messages[c]))
           /\ Cardinality(Flagged(messages[c])) \in Nat
<1>1. ASSUME NEW i
      PROVE  i \in Flagged(messages[c]) <=>
               i \in DOMAIN messagesById /\ ChatOf[i] = c /\ messagesById[i].unread
  <2>1. i \in Flagged(messages[c]) <=> \E r \in messages[c] : r.unread /\ r.id = i
    BY DEF Flagged, IdsOf, Unread
  <2>2. QED  BY <2>1, ListRecord, StoredRecord
<1>2. QED  BY <1>1, ListIds DEF Flagged, Unread

\* The same after a step.
LEMMA FlaggedIdsNext ==
    ASSUME StoreInv', NEW c \in Chats
    PROVE  \A i : i \in Flagged(messages'[c]) <=>
                     i \in DOMAIN messagesById' /\ ChatOf[i] = c /\ messagesById'[i].unread
<1>1. \A i \in DOMAIN messagesById' : messagesById'[i].id = i
  BY DEF StoreInv, KeyedById
<1>2. \A r : r \in messages'[c] <=>
               \E i \in DOMAIN messagesById' : ChatOf[i] = c /\ r = messagesById'[i]
  BY DEF StoreInv, IndexMatchesLists
<1>3. \A i : i \in Flagged(messages'[c]) <=> \E r \in messages'[c] : r.unread /\ r.id = i
  BY DEF Flagged, IdsOf, Unread
<1>4. ASSUME NEW i, i \in DOMAIN messagesById', ChatOf[i] = c, messagesById'[i].unread
      PROVE  i \in Flagged(messages'[c])
  BY <1>1, <1>2, <1>3, <1>4
<1>5. ASSUME NEW i, i \in Flagged(messages'[c])
      PROVE  i \in DOMAIN messagesById' /\ ChatOf[i] = c /\ messagesById'[i].unread
  <2>1. PICK r \in messages'[c] : r.unread /\ r.id = i
    BY <1>3, <1>5
  <2>2. PICK j \in DOMAIN messagesById' : ChatOf[j] = c /\ r = messagesById'[j]
    BY <1>2, <2>1
  <2>3. j = i
    BY <1>1, <2>1, <2>2
  <2>4. QED  BY <2>1, <2>2, <2>3, Zenon
<1>6. QED  BY <1>4, <1>5

\* Chats that are not known have nothing flagged.
LEMMA UnknownChat ==
    ASSUME IndInv, NEW c \in Chats, c \notin DOMAIN chats
    PROVE  Flagged(messages[c]) = {}
<1>1. StoreInv /\ ChatsCoverMessages
  BY IndInvParts
<1>2. QED  BY <1>1, FlaggedIds DEF ChatsCoverMessages

\* A step that flags nothing more and lowers no counter keeps chats covered.
LEMMA CoveredBySmaller ==
    ASSUME IndInv, IndInv', NEW c \in Chats,
           Flagged(messages'[c]) \subseteq Flagged(messages[c]),
           c \in DOMAIN chats => c \in DOMAIN chats' /\ chats[c].unread <= chats'[c].unread,
           Covered(c)
    PROVE  Covered(c)'
<1>1. StoreInv /\ ChatsTyped
  BY IndInvParts
<1>2. ChatsTyped'
  BY DEF IndInv, TypeOK, ChatsTyped
<1>3. /\ Cardinality(Flagged(messages'[c])) <= Cardinality(Flagged(messages[c]))
      /\ Cardinality(Flagged(messages'[c])) \in Nat
      /\ Cardinality(Flagged(messages[c])) \in Nat
  <2>1. IsFiniteSet(Flagged(messages[c]))
    BY <1>1, FlaggedIds
  <2>2. IsFiniteSet(Flagged(messages'[c]))
    BY <2>1, FS_Subset
  <2>3. QED  BY <2>1, <2>2, FS_Subset, FS_CardinalityType
<1>4. CASE c \in DOMAIN chats
  BY <1>1, <1>2, <1>3, <1>4 DEF Covered, ChatsTyped, IsPartialMap, Chat
<1>5. CASE c \notin DOMAIN chats
  <2>1. Flagged(messages'[c]) = {}
    BY <1>5, UnknownChat
  <2>2. c \in DOMAIN chats' => chats'[c].unread \in Nat
    BY <1>2 DEF ChatsTyped, IsPartialMap, Chat
  <2>3. QED  BY <2>1, <2>2, FS_EmptySet DEF Covered
<1>6. QED  BY <1>4, <1>5

\* A delivery moves flags and counter of its chat together.
LEMMA DeliverBadges ==
    ASSUME IndInv, Deliver, NEW c \in Chats
    PROVE  (Exact(c) => Exact(c)') /\ (Covered(c) => Covered(c)')
<1>1. StoreInv /\ ChatsTyped
  BY IndInvParts
<1>2. IndInv' /\ \E i \in Ids : DeliveryEffect(i)
  BY DeliverKeeps
<1>3. StoreInv' /\ ChatsTyped'
  BY <1>2 DEF IndInv, TypeOK, StoreInv, ChatsTyped
<1>4. PICK i \in Ids, b \in BOOLEAN :
        /\ UpdateChatFromMessage(i, b)
        /\ DOMAIN messagesById' = DOMAIN messagesById \cup {i}
        /\ \A j \in DOMAIN messagesById : j # i => messagesById'[j] = messagesById[j]
        /\ i \notin DOMAIN messagesById => (messagesById'[i].unread <=> b)
        /\ i \in DOMAIN messagesById =>
             /\ messagesById'[i].unread <=> (b \/ messagesById[i].unread)
             /\ b => ~messagesById[i].unread
  BY <1>2 DEF DeliveryEffect
<1> DEFINE F == Flagged(messages[c])
           G == Flagged(messages'[c])
<1>5. /\ \A j : j \in F <=> j \in DOMAIN messagesById /\ ChatOf[j] = c /\ messagesById[j].unread
      /\ IsFiniteSet(F) /\ Cardinality(F) \in Nat
  BY <1>1, FlaggedIds
<1>6. \A j : j \in G <=> j \in DOMAIN messagesById' /\ ChatOf[j] = c /\ messagesById'[j].unread
  BY <1>3, FlaggedIdsNext
<1>7. c \notin DOMAIN chats => F = {}
  BY UnknownChat
<1>8. /\ DOMAIN chats' = DOMAIN chats \cup {ChatOf[i]}
      /\ chats'[ChatOf[i]].unread = IF b THEN ChatOrNew(ChatOf[i]).unread + 1
                                         ELSE ChatOrNew(ChatOf[i]).unread
      /\ \A d \in DOMAIN chats : d # ChatOf[i] => chats'[d] = chats[d]
  BY <1>1, <1>4, UpdateChatKeeps
<1>9. \A d \in DOMAIN chats : chats[d].unread \in Nat
  BY <1>1 DEF ChatsTyped, IsPartialMap, Chat
<1> HIDE DEF F, G
<1>10. CASE c = ChatOf[i] /\ b
  <2>1. G = F \cup {i} /\ i \notin F
    BY <1>4, <1>5, <1>6, <1>10
  <2>2. Cardinality(G) = Cardinality(F) + 1
    BY <1>5, <2>1, FS_AddElement
  <2>3. CASE c \in DOMAIN chats
    <3>1. chats'[c].unread = chats[c].unread + 1
      BY <1>8, <1>10, <2>3 DEF ChatOrNew
    <3>2. QED  BY <1>5, <1>9, <2>2, <2>3, <3>1 DEF Exact, Covered, F, G
  <2>4. CASE c \notin DOMAIN chats
    <3>1. chats'[c].unread = 1
      BY <1>8, <1>10, <2>4 DEF ChatOrNew, NewChat
    <3>2. Cardinality(G) = 1
      BY <1>7, <2>2, <2>4, FS_EmptySet
    <3>3. QED  BY <3>1, <3>2 DEF Exact, Covered, G
  <2>5. QED  BY <2>3, <2>4
<1>11. CASE c = ChatOf[i] /\ ~b
  <2>1. G = F
    BY <1>4, <1>5, <1>6, <1>11
  <2>2. CASE c \in DOMAIN chats
    <3>1. chats'[c].unread = chats[c].unread
      BY <1>8, <1>11, <2>2 DEF ChatOrNew
    <3>2. QED  BY <2>1, <2>2, <3>1 DEF Exact, Covered, F, G
  <2>3. CASE c \notin DOMAIN chats
    <3>1. chats'[c].unread = 0
      BY <1>8, <1>11, <2>3 DEF ChatOrNew, NewChat
    <3>2. Cardinality(G) = 0
      BY <1>7, <2>1, <2>3, FS_EmptySet
    <3>3. QED  BY <3>1, <3>2 DEF Exact, Covered, G
  <2>4. QED  BY <2>2, <2>3
<1>12. CASE c # ChatOf[i]
  <2>1. G = F
    BY <1>4, <1>5, <1>6, <1>12
  <2>2. c \in DOMAIN chats' => c \in DOMAIN chats /\ chats'[c] = chats[c]
    BY <1>8, <1>12
  <2>3. QED  BY <2>1, <2>2 DEF Exact, Covered, F, G
<1>13. QED  BY <1>10, <1>11, <1>12

-----------------------------------------------------------------------------
(* Operations that recount *)

\* Storing the number of flags as the counter makes the badge exact in that chat
\* and leaves the others as they were.
LEMMA CountedFlags ==
    ASSUME IndInv, IndInv', NEW c0 \in Chats, NEW n \in Nat, SetCounter(c0, n),
           n = Cardinality(Flagged(messages'[c0])),
           NEW c \in Chats,
           c # c0 => Flagged(messages'[c]) = Flagged(messages[c])
    PROVE  (Exact(c) => Exact(c)') /\ (Covered(c) => Covered(c)')
<1>1. ChatsTyped
  BY IndInvParts
<1>2. /\ DOMAIN chats' = DOMAIN chats
      /\ c0 \in DOMAIN chats => chats'[c0].unread = n
      /\ \A d \in DOMAIN chats : d # c0 => chats'[d] = chats[d]
  BY <1>1, SetCounterKeeps
<1>3. CASE c = c0
  BY <1>2, <1>3 DEF Exact, Covered
<1>4. CASE c # c0
  BY <1>2, <1>4 DEF Exact, Covered
<1>5. QED  BY <1>3, <1>4

\* What SetFlags does to the flagged ids of each chat.
LEMMA SetFlagsEffect ==
    ASSUME StoreInv, NEW cs \in SUBSET Chats, NEW touched, NEW on,
           \A i \in DOMAIN messagesById : i \in touched => ChatOf[i] \in cs,
           SetFlags(cs, touched, on), NEW c \in Chats
    PROVE  /\ \A i : i \in Flagged(messages'[c]) <=>
                       /\ i \in DOMAIN messagesById /\ ChatOf[i] = c
                       /\ \/ i \in touched /\ i \in on
                          \/ i \notin touched /\ messagesById[i].unread
           /\ c \notin cs => Flagged(messages'[c]) = Flagged(messages[c])
<1>1. /\ StoreInv'
      /\ DOMAIN messagesById' = DOMAIN messagesById
      /\ \A i \in DOMAIN messagesById :
           /\ i \in touched => messagesById'[i].unread = (i \in on)
           /\ i \notin touched => messagesById'[i] = messagesById[i]
  BY SetFlagsKeeps
<1>2. \A i : i \in Flagged(messages'[c]) <=>
               i \in DOMAIN messagesById' /\ ChatOf[i] = c /\ messagesById'[i].unread
  BY <1>1, FlaggedIdsNext
<1>3. ASSUME NEW i \in DOMAIN messagesById
      PROVE  messagesById'[i].unread <=>
               \/ i \in touched /\ i \in on
               \/ i \notin touched /\ messagesById[i].unread
  BY <1>1, Zenon
<1>4. \A i : i \in Flagged(messages'[c]) <=>
               /\ i \in DOMAIN messagesById /\ ChatOf[i] = c
               /\ \/ i \in touched /\ i \in on
                  \/ i \notin touched /\ messagesById[i].unread
  BY <1>1, <1>2, <1>3
<1>5. ASSUME c \notin cs PROVE Flagged(messages'[c]) = Flagged(messages[c])
  <2>1. messages'[c] = messages[c]
    BY <1>5 DEF SetFlags
  <2>2. QED  BY <2>1
<1>6. QED  BY <1>4, <1>5

LEMMA SyncUnreadBadges ==
    ASSUME IndInv, SyncUnread, NEW c \in Chats
    PROVE  (Exact(c) => Exact(c)') /\ (Covered(c) => Covered(c)')
<1>1. StoreInv /\ IndInv'
  BY IndInvParts, SyncUnreadKeeps
<1>2. PICK d \in Chats, n \in Counts : UpdateChatUnread(d, n)
  BY DEF SyncUnread
<1> DEFINE on == LastIncoming(messages[d], n)
           touched == IdsOf(messages[d])
<1>3. SetFlags({d}, touched, on) /\ SetCounter(d, Cardinality(on))
  BY <1>2 DEF UpdateChatUnread
<1>4. on \subseteq touched /\ Cardinality(on) \in Nat
  BY <1>1, LastIncomingIds, InputAssumption
<1>5. \A i : i \in touched <=> i \in DOMAIN messagesById /\ ChatOf[i] = d
  BY <1>1, ListRecord, StoredRecord DEF IdsOf
<1> HIDE DEF on, touched
<1>6. \A i : i \in Flagged(messages'[d]) <=>
               /\ i \in DOMAIN messagesById /\ ChatOf[i] = d
               /\ \/ i \in touched /\ i \in on
                  \/ i \notin touched /\ messagesById[i].unread
  BY <1>1, <1>3, <1>5, SetFlagsEffect
<1>7. Flagged(messages'[d]) = on
  BY <1>4, <1>5, <1>6
<1>8. c # d => Flagged(messages'[c]) = Flagged(messages[c])
  BY <1>1, <1>3, <1>5, SetFlagsEffect
<1>9. QED  BY <1>1, <1>3, <1>4, <1>7, <1>8, CountedFlags

LEMMA ReadUpToBadges ==
    ASSUME IndInv, ReadUpTo, NEW c \in Chats
    PROVE  (Exact(c) => Exact(c)') /\ (Covered(c) => Covered(c)')
<1>1. StoreInv /\ IndInv'
  BY IndInvParts, ReadUpToKeeps
<1>2. PICK d \in Chats, t \in Times : MarkChatReadUpTo(d, t)
  BY DEF ReadUpTo
<1> DEFINE read == {r \in Unread(messages[d]) : t = 0 \/ SentAt[r.id] <= t}
           rest == Unread(messages[d]) \ read
<1>3. SetFlags({d}, IdsOf(read), {}) /\ SetCounter(d, Cardinality(IdsOf(rest)))
  BY <1>2 DEF MarkChatReadUpTo
<1>4. read \in SUBSET messages[d] /\ rest \in SUBSET messages[d]
  BY DEF Unread
<1>5. \A i : i \in IdsOf(rest) <=>
               /\ i \in DOMAIN messagesById /\ ChatOf[i] = d /\ messagesById[i].unread
               /\ i \notin IdsOf(read)
  <2>1. \A r : r \in messages[d] <=> \E i \in DOMAIN messagesById : ChatOf[i] = d /\ r = messagesById[i]
    BY <1>1 DEF StoreInv, IndexMatchesLists
  <2>2. \A i \in DOMAIN messagesById : messagesById[i].id = i
    BY <1>1, StoredRecord
  <2>3. \A i : i \in IdsOf(read) <=> \E r \in read : r.id = i
    BY DEF IdsOf
  <2>4. \A i : i \in IdsOf(rest) <=> \E r \in rest : r.id = i
    BY DEF IdsOf
  <2>5. /\ \A r : r \in rest <=> r \in messages[d] /\ r.unread /\ r \notin read
        /\ \A r : r \in read => r \in messages[d] /\ r.unread
    BY DEF Unread
  <2> HIDE DEF read, rest
  <2>6. ASSUME NEW i, i \in IdsOf(rest)
        PROVE  /\ i \in DOMAIN messagesById /\ ChatOf[i] = d /\ messagesById[i].unread
               /\ i \notin IdsOf(read)
    <3>1. PICK r \in rest : r.id = i
      BY <2>4, <2>6
    <3>2. r \in messages[d] /\ r.unread /\ r \notin read
      BY <2>5, <3>1
    <3>3. PICK j \in DOMAIN messagesById : ChatOf[j] = d /\ r = messagesById[j]
      BY <2>1, <3>2
    <3>4. j = i
      BY <2>2, <3>1, <3>3
    <3>5. ASSUME NEW q \in read, q.id = i PROVE q = r
      <4>1. PICK k \in DOMAIN messagesById : ChatOf[k] = d /\ q = messagesById[k]
        BY <2>1, <2>5
      <4>2. k = i
        BY <2>2, <3>5, <4>1
      <4>3. QED  BY <3>3, <3>4, <4>1, <4>2
    <3>6. i \notin IdsOf(read)
      BY <2>3, <3>2, <3>5
    <3>7. QED  BY <3>2, <3>3, <3>4, <3>6, Zenon
  <2>7. ASSUME NEW i \in DOMAIN messagesById, ChatOf[i] = d, messagesById[i].unread,
               i \notin IdsOf(read)
        PROVE  i \in IdsOf(rest)
    <3>1. messagesById[i] \in messages[d] /\ messagesById[i].id = i
      BY <2>1, <2>2, <2>7
    <3>2. messagesById[i] \notin read
      BY <2>3, <2>7, <3>1
    <3>3. messagesById[i] \in rest
      BY <2>5, <2>7, <3>1, <3>2
    <3>4. QED  BY <2>4, <3>1, <3>3
  <2>8. QED  BY <2>6, <2>7
<1> HIDE DEF read
<1>6. Cardinality(IdsOf(rest)) \in Nat /\ \A i \in IdsOf(read) : ChatOf[i] = d
  BY <1>1, <1>4, ListIds
<1> HIDE DEF rest
<1> DEFINE touched == IdsOf(read)
<1>7. SetFlags({d}, touched, {}) /\ \A i \in touched : ChatOf[i] = d
  BY <1>3, <1>6
<1>8. \A i : i \in IdsOf(rest) <=>
               /\ i \in DOMAIN messagesById /\ ChatOf[i] = d /\ messagesById[i].unread
               /\ i \notin touched
  BY <1>5
<1> HIDE DEF touched
<1>9. \A i : i \in Flagged(messages'[d]) <=>
               /\ i \in DOMAIN messagesById /\ ChatOf[i] = d
               /\ \/ i \in touched /\ i \in {}
                  \/ i \notin touched /\ messagesById[i].unread
  BY <1>1, <1>7, SetFlagsEffect
<1>10. Flagged(messages'[d]) = IdsOf(rest)
  BY <1>8, <1>9
<1>11. ASSUME c # d PROVE Flagged(messages'[c]) = Flagged(messages[c])
  <2>1. c \notin {d}
    BY <1>11
  <2>2. \A i \in DOMAIN messagesById : i \in touched => ChatOf[i] \in {d}
    BY <1>7
  <2>3. QED  BY <1>1, <1>7, <2>1, <2>2, SetFlagsEffect
<1>12. QED  BY <1>1, <1>3, <1>6, <1>10, <1>11, CountedFlags

LEMMA ReadAllBadges ==
    ASSUME IndInv, ReadAll, NEW c \in Chats
    PROVE  (Exact(c) => Exact(c)') /\ (Covered(c) => Covered(c)')
<1>1. StoreInv /\ IndInv'
  BY IndInvParts, ReadAllKeeps
<1>2. PICK d \in Chats : MarkChatRead(d)
  BY DEF ReadAll
<1> DEFINE touched == Flagged(messages[d])
<1>3. SetFlags({d}, touched, {}) /\ SetCounter(d, 0)
  BY <1>2 DEF MarkChatRead
<1>4. \A i : i \in touched <=>
               i \in DOMAIN messagesById /\ ChatOf[i] = d /\ messagesById[i].unread
  BY <1>1, FlaggedIds
<1> HIDE DEF touched
<1>5. \A i : i \in Flagged(messages'[d]) <=>
               /\ i \in DOMAIN messagesById /\ ChatOf[i] = d
               /\ \/ i \in touched /\ i \in {}
                  \/ i \notin touched /\ messagesById[i].unread
  BY <1>1, <1>3, <1>4, SetFlagsEffect
<1>6. Flagged(messages'[d]) = {}
  BY <1>4, <1>5
<1>7. 0 = Cardinality(Flagged(messages'[d]))
  BY <1>6, FS_EmptySet
<1>8. c # d => Flagged(messages'[c]) = Flagged(messages[c])
  BY <1>1, <1>3, <1>4, SetFlagsEffect
<1>9. QED  BY <1>1, <1>3, <1>7, <1>8, CountedFlags

-----------------------------------------------------------------------------
(* Operations that flag nothing more *)

\* A step that keeps the unread flag of every stored message, and stores no new
\* one, keeps the flagged ids.
LEMMA SameFlags ==
    ASSUME StoreInv, StoreInv', NEW c \in Chats,
           DOMAIN messagesById' = DOMAIN messagesById,
           \A i \in DOMAIN messagesById : messagesById'[i].unread = messagesById[i].unread
    PROVE  Flagged(messages'[c]) = Flagged(messages[c])
<1>1. \A i : i \in Flagged(messages'[c]) <=>
               i \in DOMAIN messagesById' /\ ChatOf[i] = c /\ messagesById'[i].unread
  BY FlaggedIdsNext
<1>2. \A i : i \in Flagged(messages[c]) <=>
               i \in DOMAIN messagesById /\ ChatOf[i] = c /\ messagesById[i].unread
  BY FlaggedIds
<1>3. \A i : i \in Flagged(messages'[c]) <=> i \in Flagged(messages[c])
  <2>1. ASSUME NEW i \in DOMAIN messagesById
        PROVE  messagesById'[i].unread <=> messagesById[i].unread
    BY Zenon
  <2>2. QED  BY <1>1, <1>2, <2>1
<1>4. QED  BY <1>3

\* A new version of one message that keeps its flag covers.
LEMMA VersionCovers ==
    ASSUME IndInv, IndInv', NEW c \in Chats,
           NEW m \in Message, m.id \in DOMAIN messagesById,
           m.unread = messagesById[m.id].unread,
           StoreVersion(m), UNCHANGED chats, Covered(c)
    PROVE  Covered(c)'
<1>1. StoreInv /\ ChatsTyped
  BY IndInvParts
<1>2. /\ StoreInv'
      /\ DOMAIN messagesById' = DOMAIN messagesById
      /\ \A i \in DOMAIN messagesById : messagesById'[i].unread = messagesById[i].unread
  BY <1>1, StoreVersionKeeps
<1>3. Flagged(messages'[c]) = Flagged(messages[c])
  BY <1>1, <1>2, SameFlags
<1>4. QED  BY <1>3 DEF Covered

LEMMA ReactCovers == ASSUME IndInv, React, NEW c \in Chats, Covered(c) PROVE Covered(c)'
<1>1. StoreInv /\ IndInv'
  BY IndInvParts, ReactKeeps
<1>2. ASSUME NEW i \in Ids, NEW e \in Reactions, SetMessageReactions(i, e)
      PROVE  Covered(c)'
  <2> DEFINE m == [messagesById[i] EXCEPT !.reactions = e]
  <2>1. i \in DOMAIN messagesById /\ StoreVersion(m) /\ UNCHANGED chats
    BY <1>2 DEF SetMessageReactions
  <2>2. messagesById[i] \in Message /\ messagesById[i].id = i
    BY <1>1, <2>1, StoredRecord
  <2>3. m \in Message /\ m.id = i /\ m.unread = messagesById[i].unread
    BY <2>2 DEF Message
  <2> HIDE DEF m
  <2>4. QED  BY <1>1, <2>1, <2>3, VersionCovers
<1>3. ASSUME NEW i \in Ids, NEW s \in Senders, NEW e \in Emojis \cup {NoEmoji},
             ApplyMessageReaction(i, s, e)
      PROVE  Covered(c)'
  <2> DEFINE m == [messagesById[i] EXCEPT !.reactions[s] = e]
  <2>1. i \in DOMAIN messagesById /\ StoreVersion(m) /\ UNCHANGED chats
    BY <1>3 DEF ApplyMessageReaction
  <2>2. messagesById[i] \in Message /\ messagesById[i].id = i
    BY <1>1, <2>1, StoredRecord
  <2>3. m \in Message /\ m.id = i /\ m.unread = messagesById[i].unread
    BY <2>2 DEF Message, Reactions
  <2> HIDE DEF m
  <2>4. QED  BY <1>1, <2>1, <2>3, VersionCovers
<1>4. QED  BY <1>2, <1>3 DEF React

LEMMA RevokeCovers == ASSUME IndInv, Revoke, NEW c \in Chats, Covered(c) PROVE Covered(c)'
<1>1. StoreInv /\ IndInv'
  BY IndInvParts, RevokeKeeps
<1>2. PICK i \in Ids : MarkMessageRevoked(i)
  BY DEF Revoke
<1> DEFINE m == [messagesById[i] EXCEPT !.payload = Revoked]
<1>3. i \in DOMAIN messagesById /\ StoreVersion(m) /\ UNCHANGED chats
  BY <1>2 DEF MarkMessageRevoked
<1>4. messagesById[i] \in Message /\ messagesById[i].id = i
  BY <1>1, <1>3, StoredRecord
<1>5. m \in Message /\ m.id = i /\ m.unread = messagesById[i].unread
  BY <1>4 DEF Message, Payload, Revoked, Kinds, Texts
<1> HIDE DEF m
<1>6. QED  BY <1>1, <1>3, <1>5, VersionCovers

LEMMA ReceiptCovers == ASSUME IndInv, Receipt, NEW c \in Chats, Covered(c) PROVE Covered(c)'
<1>1. StoreInv
  BY IndInvParts
<1>2. PICK ids \in SUBSET Ids, s \in Statuses : UpgradeMessageStatus(ids, s)
  BY DEF Receipt
<1>3. /\ StoreInv'
      /\ DOMAIN messagesById' = DOMAIN messagesById
      /\ \A i \in DOMAIN messagesById : messagesById'[i].unread = messagesById[i].unread
  BY <1>1, <1>2, UpgradeKeeps
<1>4. Flagged(messages'[c]) = Flagged(messages[c])
  BY <1>1, <1>3, SameFlags
<1>5. UNCHANGED chats
  BY <1>2 DEF UpgradeMessageStatus
<1>6. QED  BY <1>4, <1>5 DEF Covered

\* Raising a counter covers.
LEMMA MarkUnreadCovers == ASSUME IndInv, MarkUnread, NEW c \in Chats, Covered(c) PROVE Covered(c)'
<1>1. ChatsTyped /\ IndInv'
  BY IndInvParts, MarkUnreadKeeps
<1>2. PICK d \in Chats, n \in Counts : SetChatUnreadCount(d, n)
  BY DEF MarkUnread
<1>3. /\ n \in Nat /\ n > chats[d].unread /\ d \in DOMAIN chats
      /\ SetCounter(d, n) /\ UNCHANGED messages
  BY <1>2, InputAssumption DEF SetChatUnreadCount
<1>4. /\ DOMAIN chats' = DOMAIN chats
      /\ chats'[d].unread = n
      /\ \A e \in DOMAIN chats : e # d => chats'[e] = chats[e]
  BY <1>1, <1>3, SetCounterKeeps
<1>5. \A e \in DOMAIN chats : chats[e].unread \in Nat
  BY <1>1 DEF ChatsTyped, IsPartialMap, Chat
<1>6. c \in DOMAIN chats => c \in DOMAIN chats' /\ chats[c].unread <= chats'[c].unread
  BY <1>3, <1>4, <1>5
<1>7. Flagged(messages'[c]) \subseteq Flagged(messages[c])
  BY <1>3
<1>8. QED  BY <1>1, <1>6, <1>7, CoveredBySmaller

\* So does a report on a chat, which AddChat only ever raises.
LEMMA ReportChatCovers == ASSUME IndInv, ReportChat, NEW c \in Chats, Covered(c) PROVE Covered(c)'
<1>1. ChatsTyped /\ IndInv'
  BY IndInvParts, ReportChatKeeps
<1>2. PICK d \in Chats, chat \in ChatReports : AddChat(d, chat)
  BY DEF ReportChat
<1>3. /\ DOMAIN chats' = DOMAIN chats \cup {d}
      /\ ChatOrNew(d).unread <= chats'[d].unread
      /\ \A e \in DOMAIN chats : e # d => chats'[e] = chats[e]
  BY <1>1, <1>2, AddChatRaises
<1>4. \A e \in DOMAIN chats : chats[e].unread \in Nat
  BY <1>1 DEF ChatsTyped, IsPartialMap, Chat
<1>5. c \in DOMAIN chats => c \in DOMAIN chats' /\ chats[c].unread <= chats'[c].unread
  BY <1>3, <1>4 DEF ChatOrNew
<1>6. Flagged(messages'[c]) \subseteq Flagged(messages[c])
  BY <1>2 DEF AddChat
<1>7. QED  BY <1>1, <1>5, <1>6, CoveredBySmaller

LEMMA SetChatFlagCovers == ASSUME IndInv, SetChatFlag, NEW c \in Chats, Covered(c) PROVE Covered(c)'
<1>1. ChatsTyped
  BY IndInvParts
<1>2. PICK d \in Chats, b \in Marks : SetChatArchived(d, b) \/ SetChatPinned(d, b)
  BY DEF SetChatFlag
<1>3. /\ DOMAIN chats' = DOMAIN chats
      /\ \A e \in DOMAIN chats : chats'[e].unread = chats[e].unread
      /\ UNCHANGED messages
  BY <1>1, <1>2, SetMarkKeeps
<1>4. QED  BY <1>3 DEF Covered

\* Pruning drops flags and leaves the counters for later.
LEMMA PruneFlagsCovers ==
    ASSUME IndInv, NEW l \in Loaders, NEW t \in Times, PruneFlags(l, t), NEW c \in Chats, Covered(c)
    PROVE  Covered(c)'
<1>1. StoreInv /\ IndInv'
  BY IndInvParts, PruneFlagsKeeps
<1>2. PICK touched : SetFlags(Chats, touched, {})
  BY DEF PruneFlags
<1>3. \A i \in DOMAIN messagesById : i \in touched => ChatOf[i] \in Chats
  BY <1>1, StoredRecord
<1>4. \A i : i \in Flagged(messages'[c]) <=>
               /\ i \in DOMAIN messagesById /\ ChatOf[i] = c
               /\ \/ i \in touched /\ i \in {}
                  \/ i \notin touched /\ messagesById[i].unread
  BY <1>1, <1>2, <1>3, SetFlagsEffect
<1>5. \A i : i \in Flagged(messages[c]) <=>
               i \in DOMAIN messagesById /\ ChatOf[i] = c /\ messagesById[i].unread
  BY <1>1, FlaggedIds
<1>6. Flagged(messages'[c]) \subseteq Flagged(messages[c])
  BY <1>4, <1>5
<1>7. UNCHANGED chats
  BY DEF PruneFlags
<1>8. ChatsTyped
  BY IndInvParts
<1>9. c \in DOMAIN chats => c \in DOMAIN chats' /\ chats[c].unread <= chats'[c].unread
  BY <1>7, <1>8 DEF ChatsTyped, IsPartialMap, Chat
<1>10. QED  BY <1>1, <1>6, <1>9, CoveredBySmaller

\* Of the loader's four steps, the two that write counters are left out.
LEMMA LoadCovers ==
    ASSUME IndInv, Load, NEW c \in Chats, Covered(c),
           \A l \in Loaders : loading'[l] = loading[l] \/ loading'[l].step \in {"pruning", "counted"}
    PROVE  Covered(c)'
<1>1. PICK l \in Loaders :
        (\E t \in Times : PruneFlags(l, t)) \/ PruneCounters(l) \/ CountFlags(l) \/ StoreCounts(l)
  BY DEF Load
<1>2. DOMAIN loading = Loaders
  BY IndInvParts DEF LoadingTyped
<1>3. CASE \E t \in Times : PruneFlags(l, t)
  BY <1>3, PruneFlagsCovers
<1>4. CASE PruneCounters(l)
  BY <1>2, <1>4 DEF PruneCounters
<1>5. CASE CountFlags(l)
  BY <1>5 DEF CountFlags, Covered
<1>6. CASE StoreCounts(l)
  BY <1>2, <1>6 DEF StoreCounts
<1>7. QED  BY <1>1, <1>3, <1>4, <1>5, <1>6

-----------------------------------------------------------------------------
(* The theorems *)

\* Deliveries, count syncs and reads keep an exact badge exact: for any number of
\* chats, messages and loaders no message is counted twice and none is forgotten.
THEOREM BadgesExact == Spec => BadgeStaysExact
<1>1. IndInv /\ [Next]_vars =>
        [Deliver \/ SyncUnread \/ ReadUpTo \/ ReadAll
           => \A c \in Chats : Exact(c) => Exact(c)']_vars
  BY DeliverBadges, SyncUnreadBadges, ReadUpToBadges, ReadAllBadges
<1>2. QED  BY <1>1, Invariance, PTL DEF Spec, BadgeStaysExact

\* Apart from the loader's stores, no step leaves a chat with more unread messages
\* than its badge shows.
THEOREM BadgesCover == Spec => BadgeKeepsCovering
<1> DEFINE Quiet == \A l \in Loaders :
             loading'[l] = loading[l] \/ loading'[l].step \in {"pruning", "counted"}
<1>1. ASSUME IndInv, Next, Quiet, NEW c \in Chats, Covered(c)
      PROVE  Covered(c)'
  BY <1>1, DeliverBadges, SyncUnreadBadges, ReadUpToBadges, ReadAllBadges, ReactCovers,
     ReceiptCovers, RevokeCovers, MarkUnreadCovers, ReportChatCovers, SetChatFlagCovers,
     LoadCovers DEF Next
<1>2. IndInv /\ [Next]_vars => [Quiet => \A c \in Chats : Covered(c) => Covered(c)']_vars
  BY <1>1
<1>3. QED  BY <1>2, Invariance, PTL DEF Spec, BadgeKeepsCovering

=============================================================================
