-------------------------- MODULE CacheFilesProofs --------------------------
(***************************************************************************)
(* Theorems about CacheFiles, for every set of changes and operations, any *)
(* number of refresh goroutines and any number of kills: the type, and     *)
(* that a coalesced refresh forgets no change.                             *)
(*                                                                         *)
(* RefreshWillSave is inductive together with two facts about the plans:   *)
(* messages are copied right before they are written, and only what was    *)
(* read right before is added (Shape); and with two about their content:   *)
(* what the loader adds was on disk before (Restoring), and messages.json  *)
(* holds nothing that was never saved (FileSaved).                         *)
(***************************************************************************)
EXTENDS CacheFiles, SequenceTheorems, TLAPS

\* What a plan says about the order of its steps, also when it is half done.
Shape(s) ==
    \A i \in 1..Len(s) :
        /\ s[i] = "copyMessages" => i + 1 \in 1..Len(s) /\ s[i + 1] = "writeMessages"
        /\ i > 1 /\ s[i] = "addChats" => s[i - 1] = "readChats"
        /\ i > 1 /\ s[i] = "addMessages" => s[i - 1] = "readMessages"

\* It would begin by adding what it has not read.
Adds(s) == Len(s) > 0 /\ s[1] \in {"addChats", "addMessages"}

Fresh(s) == s \in Seq(Steps) /\ Shape(s) /\ ~Adds(s)

Shapes == \A w \in Workers : Shape(work[w])
FileSaved == messageFile \subseteq saved
Restoring ==
    \A w \in Workers :
        /\ AtStep(w, "addChats") => \A c \in copy[w] : made[c] = "setting"
        /\ AtStep(w, "addMessages") => copy[w] \subseteq saved

IndInv == TypeOK /\ Shapes /\ FileSaved /\ Restoring /\ RefreshWillSave

-----------------------------------------------------------------------------
(* The plans *)

LEMMA ConcatFresh ==
    ASSUME NEW s, NEW t, s \in Seq(Steps), Shape(s), Fresh(t)
    PROVE  /\ s \o t \in Seq(Steps)
           /\ Shape(s \o t)
           /\ ~Adds(s) => ~Adds(s \o t)
<1> DEFINE n == Len(s)
           m == Len(t)
           r == s \o t
<1>1. /\ n \in Nat /\ m \in Nat /\ r \in Seq(Steps) /\ Len(r) = n + m
      /\ \A i \in 1..(n + m) : r[i] = IF i <= n THEN s[i] ELSE t[i - n]
  BY ConcatProperties, LenProperties DEF Fresh
<1>2. /\ \A i \in 1..n : /\ s[i] = "copyMessages" => i + 1 \in 1..n /\ s[i + 1] = "writeMessages"
                         /\ i > 1 /\ s[i] = "addChats" => s[i - 1] = "readChats"
                         /\ i > 1 /\ s[i] = "addMessages" => s[i - 1] = "readMessages"
      /\ \A i \in 1..m : /\ t[i] = "copyMessages" => i + 1 \in 1..m /\ t[i + 1] = "writeMessages"
                         /\ i > 1 /\ t[i] = "addChats" => t[i - 1] = "readChats"
                         /\ i > 1 /\ t[i] = "addMessages" => t[i - 1] = "readMessages"
      /\ m > 0 => t[1] # "addChats" /\ t[1] # "addMessages"
  BY DEF Fresh, Shape, Adds
<1> HIDE DEF n, m, r
<1>3. ASSUME NEW i \in 1..(n + m), i <= n
      PROVE  /\ r[i] = "copyMessages" => i + 1 \in 1..(n + m) /\ r[i + 1] = "writeMessages"
             /\ i > 1 /\ r[i] = "addChats" => r[i - 1] = "readChats"
             /\ i > 1 /\ r[i] = "addMessages" => r[i - 1] = "readMessages"
  BY <1>1, <1>2, <1>3
<1>4. ASSUME NEW i \in 1..(n + m), i > n
      PROVE  /\ r[i] = "copyMessages" => i + 1 \in 1..(n + m) /\ r[i + 1] = "writeMessages"
             /\ i > 1 /\ r[i] = "addChats" => r[i - 1] = "readChats"
             /\ i > 1 /\ r[i] = "addMessages" => r[i - 1] = "readMessages"
  <2>1. PICK j \in 1..m : i = n + j
    BY <1>1, <1>4
  <2>2. \A k \in 1..m : r[n + k] = t[k]
    BY <1>1
  <2>3. j > 1 => j - 1 \in 1..m /\ i - 1 = n + (j - 1)
    BY <1>1, <2>1
  <2>4. i + 1 = n + (j + 1)
    BY <1>1, <2>1
  <2>5. r[i] = t[j] /\ (j > 1 => r[i - 1] = t[j - 1]) /\ (j + 1 \in 1..m => r[i + 1] = t[j + 1])
    BY <2>1, <2>2, <2>3, <2>4
  <2>6. i > 1 /\ j = 1 => r[i] # "addChats" /\ r[i] # "addMessages"
    BY <1>1, <1>2, <2>1, <2>5
  <2> QED
    BY <1>1, <1>2, <2>1, <2>5, <2>6
<1>5. \A i \in 1..(n + m) :
             /\ r[i] = "copyMessages" => i + 1 \in 1..(n + m) /\ r[i + 1] = "writeMessages"
             /\ i > 1 /\ r[i] = "addChats" => r[i - 1] = "readChats"
             /\ i > 1 /\ r[i] = "addMessages" => r[i - 1] = "readMessages"
  BY <1>1, <1>3, <1>4
<1>6. Shape(r)
  BY <1>1, <1>5 DEF Shape
<1>7. ASSUME ~Adds(s) PROVE ~Adds(r)
  BY <1>1, <1>2, <1>7 DEF Adds, n
<1> QED
  BY <1>1, <1>6, <1>7 DEF r

LEMMA PartsFresh ==
    /\ Fresh(Show) /\ Fresh(SaveChatCache) /\ Fresh(SaveMessageCache)
    /\ Fresh(<<"requestPush">>) /\ Fresh(<<"request">>) /\ Fresh(<< >>)
    /\ Fresh(<<"readChats", "addChats", "readMessages", "addMessages">>)
<1>1. Fresh(Show)
  BY DEF Fresh, Shape, Adds, Show, Steps
<1>2. Fresh(SaveChatCache)
  BY DEF Fresh, Shape, Adds, SaveChatCache, Steps
<1>3. Fresh(SaveMessageCache)
  BY DEF Fresh, Shape, Adds, SaveMessageCache, Steps
<1>4. Fresh(<<"requestPush">>) /\ Fresh(<<"request">>) /\ Fresh(<< >>)
  BY DEF Fresh, Shape, Adds, Steps
<1>5. Fresh(<<"readChats", "addChats", "readMessages", "addMessages">>)
  BY DEF Fresh, Shape, Adds, Steps
<1> QED
  BY <1>1, <1>2, <1>3, <1>4, <1>5

LEMMA TwoFresh == ASSUME NEW s, NEW t, Fresh(s), Fresh(t) PROVE Fresh(s \o t)
BY ConcatFresh DEF Fresh

LEMMA SavingFresh ==
    ASSUME NEW s, Fresh(s) PROVE Fresh(s \o SaveChatCache \o SaveMessageCache)
BY TwoFresh, PartsFresh

LEMMA LoadPlanFresh == Fresh(LoadPlan)
BY TwoFresh, PartsFresh DEF LoadPlan

LEMMA PlanFresh == ASSUME NEW op \in Operations PROVE Fresh(Plan[op])
<1>1. Fresh(Show \o SaveChatCache) /\ Fresh(Show \o SaveChatCache \o SaveMessageCache)
  BY TwoFresh, PartsFresh
<1>2. op \in {"send", "markRead", "markUnread", "autoRead", "message", "revocation",
              "setting", "receipt", "reaction"}
  BY CacheAssumption DEF Plan
<1>3. /\ Plan["send"] = Show \o SaveChatCache \o SaveMessageCache
      /\ Plan["message"] = Show \o SaveChatCache \o SaveMessageCache
      /\ Plan["markUnread"] = Show \o SaveChatCache
      /\ Plan["autoRead"] = Show \o SaveChatCache
      /\ Plan["setting"] = Show \o SaveChatCache
      /\ Plan["markRead"] = Show /\ Plan["revocation"] = Show
      /\ Plan["receipt"] = <<"requestPush">> /\ Plan["reaction"] = <<"request">>
  BY DEF Plan
<1> HIDE DEF Plan
<1> QED
  BY <1>1, <1>2, <1>3, PartsFresh

-----------------------------------------------------------------------------
(* One step of a plan *)

Quiet == ~AtStep("events", "request") /\ ~AtStep("events", "requestPush")

\* A refresh will save the change c.
Saving(c) ==
    \/ c \in saved
    \/ timerArmed
    \/ \E f \in Flushers :
         \/ Contains(work[f], "copyMessages")
         \/ AtStep(f, "writeMessages") /\ c \in copy[f]

LEMMA WillSaveIff ==
    RefreshWillSave <=>
        \A c \in store : made[c] \in {"receipt", "reaction"} /\ Quiet => Saving(c)
BY DEF RefreshWillSave, Quiet, Saving

LEMMA WillSaveNext ==
    RefreshWillSave' <=>
        \A c \in store' : made'[c] \in {"receipt", "reaction"} /\ Quiet' => Saving(c)'
BY DEF RefreshWillSave, Quiet, Saving

LEMMA AddsHead ==
    ASSUME NEW s, s \in Seq(Steps)
    PROVE  Adds(s) <=> s # << >> /\ Head(s) \in {"addChats", "addMessages"}
<1>1. s # << >> <=> Len(s) > 0
  BY LenProperties, EmptySeq
<1>2. s # << >> => Head(s) = s[1]
  BY HeadTailProperties
<1> QED
  BY <1>1, <1>2 DEF Adds

LEMMA TailFacts ==
    ASSUME NEW s, s \in Seq(Steps), s # << >>, Shape(s)
    PROVE  /\ Tail(s) \in Seq(Steps) /\ Shape(Tail(s))
           /\ Tail(s) # << >> =>
                /\ Head(Tail(s)) = "addChats" => Head(s) = "readChats"
                /\ Head(Tail(s)) = "addMessages" => Head(s) = "readMessages"
           /\ Head(s) = "copyMessages" => Tail(s) # << >> /\ Head(Tail(s)) = "writeMessages"
           /\ Head(s) # "copyMessages" /\ Contains(s, "copyMessages")
                => Contains(Tail(s), "copyMessages")
<1> DEFINE t == Tail(s)
<1>1. s[1] = Head(s)
  BY HeadTailProperties
<1>2. /\ Len(s) \in Nat \ {0} /\ Len(t) = Len(s) - 1 /\ t \in Seq(Steps)
      /\ \A i \in 1..(Len(s) - 1) : t[i] = s[i + 1]
  BY <1>1, HeadTailProperties, LenProperties, EmptySeq
<1>3. \A i \in 1..Len(s) :
        /\ s[i] = "copyMessages" => i + 1 \in 1..Len(s) /\ s[i + 1] = "writeMessages"
        /\ i > 1 /\ s[i] = "addChats" => s[i - 1] = "readChats"
        /\ i > 1 /\ s[i] = "addMessages" => s[i - 1] = "readMessages"
  BY DEF Shape
<1> DEFINE n == Len(s)
<1>4. /\ n \in Nat \ {0} /\ Len(t) = n - 1 /\ Len(s) = n
  BY <1>2
<1> HIDE DEF t, n
<1>5. ASSUME NEW i \in 1..(n - 1)
      PROVE  /\ t[i] = "copyMessages" => i + 1 \in 1..(n - 1) /\ t[i + 1] = "writeMessages"
             /\ i > 1 /\ t[i] = "addChats" => t[i - 1] = "readChats"
             /\ i > 1 /\ t[i] = "addMessages" => t[i - 1] = "readMessages"
  <2>1. i + 1 \in 1..n /\ t[i] = s[i + 1] /\ (i > 1 => t[i - 1] = s[i] /\ (i + 1) - 1 = i)
    BY <1>2, <1>4
  <2>2. (i + 1) + 1 \in 1..n => i + 1 \in 1..(n - 1) /\ t[i + 1] = s[(i + 1) + 1]
    BY <1>2, <1>4
  <2>3. /\ s[i + 1] = "copyMessages" => (i + 1) + 1 \in 1..n /\ s[(i + 1) + 1] = "writeMessages"
        /\ s[i + 1] = "addChats" => s[(i + 1) - 1] = "readChats"
        /\ s[i + 1] = "addMessages" => s[(i + 1) - 1] = "readMessages"
    BY <1>3, <1>4, <2>1
  <2> QED
    BY <2>1, <2>2, <2>3
<1>6. Shape(t)
  BY <1>4, <1>5 DEF Shape
<1>7. t # << >> => n > 1 /\ t[1] = s[2] /\ Head(t) = s[2]
  <2>1. t # << >> => Len(t) > 0
    BY <1>2, LenProperties, EmptySeq
  <2>2. t # << >> => Head(t) = t[1]
    BY <1>2, HeadTailProperties
  <2>3. t # << >> => n > 1 /\ t[1] = s[1 + 1]
    BY <1>2, <1>4, <2>1
  <2> QED
    BY <2>2, <2>3
<1>8. ASSUME t # << >> PROVE /\ Head(t) = "addChats" => Head(s) = "readChats"
                             /\ Head(t) = "addMessages" => Head(s) = "readMessages"
  <2>1. 2 \in 1..n /\ 2 - 1 = 1
    BY <1>4, <1>7, <1>8
  <2>2. /\ s[2] = "addChats" => s[2 - 1] = "readChats"
        /\ s[2] = "addMessages" => s[2 - 1] = "readMessages"
    BY <1>3, <1>4, <2>1
  <2> QED
    BY <1>1, <1>7, <1>8, <2>1, <2>2
<1>9. ASSUME Head(s) = "copyMessages" PROVE t # << >> /\ Head(t) = "writeMessages"
  <2>1. 1 \in 1..n
    BY <1>4
  <2>2. 1 + 1 \in 1..n /\ s[1 + 1] = "writeMessages"
    BY <1>1, <1>3, <1>4, <1>9, <2>1
  <2>3. t # << >>
    <3>1. Len(t) > 0
      BY <1>4, <2>2
    <3> QED
      BY <3>1, EmptySeq
  <2> QED
    BY <1>7, <2>2, <2>3
<1>10. ASSUME Head(s) # "copyMessages", Contains(s, "copyMessages") PROVE Contains(t, "copyMessages")
  <2>1. PICK i \in 1..n : s[i] = "copyMessages"
    BY <1>4, <1>10 DEF Contains
  <2>2. i # 1
    BY <1>1, <1>10, <2>1
  <2>3. i - 1 \in 1..(n - 1) /\ t[i - 1] = s[(i - 1) + 1] /\ (i - 1) + 1 = i
    BY <1>2, <1>4, <2>2
  <2> QED
    BY <1>4, <2>1, <2>3 DEF Contains
<1> QED
  BY <1>2, <1>6, <1>8, <1>9, <1>10 DEF t

LEMMA DoneFacts ==
    ASSUME TypeOK, Shapes, NEW w \in Workers, NEW step, AtStep(w, step), Done(w)
    PROVE  /\ work' \in [Workers -> Seq(Steps)]
           /\ \A v \in Workers : v # w => work'[v] = work[v]
           /\ Shape(work'[w])
           /\ AtStep(w, "addChats")' => step = "readChats"
           /\ AtStep(w, "addMessages")' => step = "readMessages"
           /\ step = "copyMessages" => AtStep(w, "writeMessages")'
           /\ step # "copyMessages" /\ Contains(work[w], "copyMessages")
                => Contains(work'[w], "copyMessages")
<1>1. work[w] \in Seq(Steps) /\ work[w] # << >> /\ Head(work[w]) = step /\ Shape(work[w])
  BY DEF TypeOK, Shapes, AtStep
<1>2. Tail(work[w]) \in Seq(Steps)
  BY <1>1, TailFacts
<1>3. /\ work' \in [Workers -> Seq(Steps)]
      /\ work'[w] = Tail(work[w])
      /\ \A v \in Workers : v # w => work'[v] = work[v]
  BY <1>2 DEF Done, TypeOK
<1> QED
  BY <1>1, <1>3, TailFacts DEF AtStep

Contents ==
    /\ store \subseteq Changes /\ chatFile \subseteq Changes /\ messageFile \subseteq Changes
    /\ screen \subseteq Changes /\ saved \subseteq Changes /\ shown \subseteq Changes
    /\ found \subseteq Changes

\* The type, apart from the plans.
Others ==
    /\ Contents
    /\ copy \in [Workers -> SUBSET Changes]
    /\ timerArmed \in BOOLEAN /\ pushPending \in BOOLEAN /\ (pushPending => timerArmed)
    /\ made \in [Changes -> Operations \cup {"none"}]
    /\ kills \in 0..MaxKills

LEMMA TypeParts == TypeOK <=> Others /\ work \in [Workers -> Seq(Steps)]
BY DEF TypeOK, Others, Contents

LEMMA TypeNext == TypeOK' <=> Others' /\ work' \in [Workers -> Seq(Steps)]
BY DEF TypeOK, Others, Contents, Workers, Steps

\* A goroutine goes on to what is left of its plan, and hands on the content that the
\* step says: that disturbs nothing.
LEMMA StepKeeps ==
    ASSUME IndInv, NEW w \in Workers, NEW step, step \notin {"request", "requestPush"},
           AtStep(w, step), Others', UNCHANGED <<store, made, timerArmed>>,
           work' \in [Workers -> Seq(Steps)],
           \A v \in Workers : v # w => work'[v] = work[v] /\ copy'[v] = copy[v],
           Shape(work'[w]),
           AtStep(w, "addChats")' => step = "readChats",
           AtStep(w, "addMessages")' => step = "readMessages",
           step = "copyMessages" => AtStep(w, "writeMessages")',
           step # "copyMessages" /\ Contains(work[w], "copyMessages")
             => Contains(work'[w], "copyMessages"),
           saved \subseteq saved', messageFile' \subseteq saved',
           step = "copyMessages" => copy'[w] = store,
           step = "writeMessages" => copy[w] \subseteq saved',
           step = "readChats" => \A c \in copy'[w] : made[c] = "setting",
           step = "readMessages" => copy'[w] \subseteq saved'
    PROVE  IndInv'
<1>0. TypeOK /\ Shapes /\ FileSaved /\ Restoring /\ RefreshWillSave
  BY DEF IndInv
<1>1. /\ work' \in [Workers -> Seq(Steps)]
      /\ \A v \in Workers : v # w => work'[v] = work[v]
      /\ Shape(work'[w])
      /\ AtStep(w, "addChats")' => step = "readChats"
      /\ AtStep(w, "addMessages")' => step = "readMessages"
      /\ step = "copyMessages" => AtStep(w, "writeMessages")'
      /\ step # "copyMessages" /\ Contains(work[w], "copyMessages")
           => Contains(work'[w], "copyMessages")
  OBVIOUS
<1>2. TypeOK'
  BY <1>1, TypeNext
<1>3. Shapes'
  BY <1>0, <1>1 DEF Shapes, Workers
<1>4. FileSaved'
  BY DEF FileSaved
<1>5. ASSUME NEW v \in Workers
      PROVE  /\ AtStep(v, "addChats")' => \A c \in copy'[v] : made'[c] = "setting"
             /\ AtStep(v, "addMessages")' => copy'[v] \subseteq saved'
  <2>1. CASE v = w
    BY <1>1, <2>1
  <2>2. CASE v # w
    <3>1. copy'[v] = copy[v] /\ (AtStep(v, "addChats")' <=> AtStep(v, "addChats"))
          /\ (AtStep(v, "addMessages")' <=> AtStep(v, "addMessages"))
      BY <1>1, <2>2 DEF AtStep
    <3> QED
      BY <1>0, <3>1 DEF Restoring
  <2> QED
    BY <2>1, <2>2
<1>6. Restoring'
  BY <1>5 DEF Restoring, Workers
<1>7. Quiet' => Quiet
  <2>1. CASE w = "events"
    BY <2>1 DEF Quiet, AtStep
  <2>2. CASE w # "events"
    BY <1>1, <2>2 DEF Quiet, AtStep, Workers
  <2> QED
    BY <2>1, <2>2
<1>8. ASSUME NEW c \in store, Saving(c) PROVE Saving(c)'
  <2>1. CASE c \in saved \/ timerArmed
    BY <2>1 DEF Saving
  <2>2. ASSUME NEW f \in Flushers, Contains(work[f], "copyMessages") PROVE Saving(c)'
    <3>1. CASE f # w
      BY <1>1, <2>2, <3>1 DEF Saving, Workers
    <3>2. CASE f = w /\ step # "copyMessages"
      BY <1>1, <2>2, <3>2 DEF Saving
    <3>3. CASE f = w /\ step = "copyMessages"
      BY <1>1, <3>3 DEF Saving
    <3> QED
      BY <3>1, <3>2, <3>3
  <2>3. ASSUME NEW f \in Flushers, AtStep(f, "writeMessages"), c \in copy[f] PROVE Saving(c)'
    <3>1. CASE f # w
      BY <1>1, <2>3, <3>1 DEF Saving, Workers, AtStep
    <3>2. CASE f = w
      BY <2>3, <3>2 DEF Saving, AtStep
    <3> QED
      BY <3>1, <3>2
  <2> QED
    BY <1>8, <2>1, <2>2, <2>3 DEF Saving
<1>9. RefreshWillSave'
  BY <1>0, <1>7, <1>8, WillSaveIff, WillSaveNext
<1> QED
  BY <1>2, <1>3, <1>4, <1>6, <1>9 DEF IndInv

\* Every step that leaves the rest of a plan as it is, but for a request.
LEMMA StepInd ==
    ASSUME IndInv, NEW w \in Workers, NEW step, step \notin {"request", "requestPush"},
           AtStep(w, step), Done(w), Others', UNCHANGED <<store, made, timerArmed>>,
           \A v \in Workers : v # w => copy'[v] = copy[v],
           saved \subseteq saved', messageFile' \subseteq saved',
           step = "copyMessages" => copy'[w] = store,
           step = "writeMessages" => copy[w] \subseteq saved',
           step = "readChats" => \A c \in copy'[w] : made[c] = "setting",
           step = "readMessages" => copy'[w] \subseteq saved'
    PROVE  IndInv'
<1>1. TypeOK /\ Shapes
  BY DEF IndInv
<1>2. /\ work' \in [Workers -> Seq(Steps)]
      /\ \A v \in Workers : v # w => work'[v] = work[v]
      /\ Shape(work'[w])
      /\ AtStep(w, "addChats")' => step = "readChats"
      /\ AtStep(w, "addMessages")' => step = "readMessages"
      /\ step = "copyMessages" => AtStep(w, "writeMessages")'
      /\ step # "copyMessages" /\ Contains(work[w], "copyMessages")
           => Contains(work'[w], "copyMessages")
  BY <1>1, DoneFacts
<1> QED
  BY <1>2, StepKeeps

-----------------------------------------------------------------------------
(* The actions *)

LEMMA InitInd == Init => IndInv
<1> SUFFICES ASSUME Init PROVE IndInv
  OBVIOUS
<1>1. Fresh(LoadPlan) /\ Fresh(<< >>)
  BY LoadPlanFresh, PartsFresh
<1>2. \A w \in Workers : Fresh(work[w])
  BY <1>1 DEF Init, Started
<1>3. work \in [Workers -> Seq(Steps)]
  BY <1>2 DEF Init, Started, Fresh
<1>4. Others
  <2>1. copy \in [Workers -> SUBSET Changes] /\ kills \in 0..MaxKills
    BY CacheAssumption DEF Init, NothingCopied
  <2>2. made \in [Changes -> Operations \cup {"none"}]
    BY DEF Init
  <2>3. timerArmed \in BOOLEAN /\ pushPending \in BOOLEAN /\ (pushPending => timerArmed)
    BY DEF Init
  <2> QED
    BY <2>1, <2>2, <2>3 DEF Init, Others, Contents
<1>5. Shapes
  BY <1>2 DEF Shapes, Fresh
<1>6. FileSaved /\ Restoring /\ RefreshWillSave
  BY <1>2 DEF Init, FileSaved, Restoring, RefreshWillSave, NothingCopied
<1> QED
  BY <1>3, <1>4, <1>5, <1>6, TypeParts DEF IndInv

LEMMA KillInd == ASSUME IndInv, Kill PROVE IndInv'
<1>0. TypeOK /\ Shapes /\ FileSaved /\ Restoring /\ RefreshWillSave
  BY DEF IndInv
<1>1. Fresh(LoadPlan) /\ Fresh(<< >>)
  BY LoadPlanFresh, PartsFresh
<1>2. \A w \in Workers : Fresh(work'[w])
  BY <1>1 DEF Kill, Started
<1>3. work' \in [Workers -> Seq(Steps)]
  BY <1>2 DEF Kill, Started, Fresh
<1>4. Others'
  <2>1. copy' \in [Workers -> SUBSET Changes]
    BY DEF Kill, NothingCopied
  <2>2. kills' \in 0..MaxKills
    BY <1>0, TypeParts, CacheAssumption DEF Kill, Others
  <2>3. timerArmed' \in BOOLEAN /\ pushPending' \in BOOLEAN /\ (pushPending' => timerArmed')
    BY DEF Kill
  <2>4. made' \in [Changes -> Operations \cup {"none"}] /\ Contents'
    BY <1>0, TypeParts DEF Kill, Others, Contents, files
  <2> QED
    BY <2>1, <2>2, <2>3, <2>4 DEF Others, Workers
<1>5. Shapes'
  BY <1>2 DEF Shapes, Fresh, Workers
<1>6. FileSaved'
  BY <1>0 DEF Kill, FileSaved, files
<1>7. Restoring'
  BY DEF Kill, Restoring, NothingCopied, Workers
<1>8. RefreshWillSave'
  BY WillSaveNext DEF Kill
<1> QED
  BY <1>3, <1>4, <1>5, <1>6, <1>7, <1>8, TypeNext DEF IndInv

\* A handler that asks for a refresh is at the request right after its change.
LEMMA ChangeInd ==
    ASSUME IndInv, NEW c \in Changes, NEW op \in Operations, Change(c, op) PROVE IndInv'
<1>0. TypeOK /\ Shapes /\ FileSaved /\ Restoring /\ RefreshWillSave /\ Others
  BY TypeParts DEF IndInv
<1> DEFINE w == RunsOn(op)
<1>1. /\ made[c] = "none" /\ work[w] = << >>
      /\ made' = [made EXCEPT ![c] = op]
      /\ store' = store \cup {c}
      /\ work' = [work EXCEPT ![w] = Plan[op]]
      /\ UNCHANGED <<files, screen, copy, refresh, kills, shown, found>>
  BY DEF Change
<1>2. w \in Workers
  BY DEF RunsOn, Workers
<1>3. op \in {"receipt", "reaction"} => w = "events" /\ "events" \in Workers
  BY DEF RunsOn, Workers
<1>4. Fresh(Plan[op])
  BY PlanFresh
<1>5. /\ op = "receipt" => Plan[op] = <<"requestPush">>
      /\ op = "reaction" => Plan[op] = <<"request">>
  BY DEF Plan
<1> HIDE DEF w, Plan
<1>6. /\ work' \in [Workers -> Seq(Steps)]
      /\ work'[w] = Plan[op]
      /\ \A v \in Workers : v # w => work'[v] = work[v]
  BY <1>0, <1>1, <1>2, <1>4, TypeParts DEF Fresh
<1>7. made' \in [Changes -> Operations \cup {"none"}] /\ made'[c] = op
      /\ \A d \in Changes : d # c => made'[d] = made[d]
  BY <1>0, <1>1 DEF Others
<1>8. Others'
  BY <1>0, <1>1, <1>7 DEF Others, Contents, files, refresh
<1>9. Shapes' /\ FileSaved'
  BY <1>0, <1>1, <1>4, <1>6 DEF Shapes, FileSaved, Fresh, files, Workers
<1>10. Fresh(Plan[op]) => ~(Plan[op] # << >> /\ Head(Plan[op]) \in {"addChats", "addMessages"})
  BY AddsHead DEF Fresh
<1>11. ASSUME NEW v \in Workers
       PROVE  /\ AtStep(v, "addChats")' => \A d \in copy'[v] : made'[d] = "setting"
              /\ AtStep(v, "addMessages")' => copy'[v] \subseteq saved'
  <2>1. CASE v = w
    BY <1>4, <1>6, <1>10, <2>1 DEF AtStep
  <2>2. CASE v # w
    <3>1. copy'[v] = copy[v] /\ saved' = saved /\ copy[v] \subseteq Changes
          /\ (AtStep(v, "addChats")' <=> AtStep(v, "addChats"))
          /\ (AtStep(v, "addMessages")' <=> AtStep(v, "addMessages"))
      BY <1>0, <1>1, <1>6, <2>2 DEF AtStep, files, Others
    <3>2. AtStep(v, "addChats") => \A d \in copy[v] : made[d] = "setting" /\ d # c
      BY <1>0, <1>1 DEF Restoring
    <3>3. AtStep(v, "addMessages") => copy[v] \subseteq saved
      BY <1>0 DEF Restoring
    <3> QED
      BY <1>7, <3>1, <3>2, <3>3
  <2> QED
    BY <2>1, <2>2
<1>12. Restoring'
  BY <1>11 DEF Restoring, Workers
<1>13. ASSUME NEW d \in store, Saving(d) PROVE Saving(d)'
  <2>1. \A f \in Flushers : f \in Workers /\ (work[f] # << >> => work'[f] = work[f])
    BY <1>1, <1>6 DEF Workers
  <2>2. \A f \in Flushers : Contains(work[f], "copyMessages") => Contains(work'[f], "copyMessages")
    BY <1>6, <1>1, <2>1 DEF Contains
  <2>3. \A f \in Flushers : AtStep(f, "writeMessages") => AtStep(f, "writeMessages")'
    BY <2>1 DEF AtStep
  <2> QED
    BY <1>1, <1>13, <2>2, <2>3 DEF Saving, files, refresh
<1>14. op \in {"receipt", "reaction"} => ~Quiet'
  <2>1. op = "receipt" => work'["events"] = <<"requestPush">>
    BY <1>3, <1>5, <1>6
  <2>2. op = "reaction" => work'["events"] = <<"request">>
    BY <1>3, <1>5, <1>6
  <2>3. op = "receipt" => AtStep("events", "requestPush")'
    BY <2>1 DEF AtStep
  <2>4. op = "reaction" => AtStep("events", "request")'
    BY <2>2 DEF AtStep
  <2> QED
    BY <2>3, <2>4 DEF Quiet
<1>15. op \notin {"receipt", "reaction"} /\ Quiet' => Quiet
  BY <1>1, <1>2, <1>6 DEF Quiet, AtStep, Workers
<1>16. ASSUME NEW d \in store', made'[d] \in {"receipt", "reaction"}, Quiet' PROVE Saving(d)'
  <2>1. op \notin {"receipt", "reaction"} /\ d # c /\ d \in store /\ d \in Changes
    BY <1>0, <1>1, <1>7, <1>14, <1>16 DEF Others, Contents
  <2> QED
    BY <1>0, <1>7, <1>13, <1>15, <1>16, <2>1, WillSaveIff
<1>17. RefreshWillSave'
  BY <1>16, WillSaveNext
<1> QED
  BY <1>6, <1>8, <1>9, <1>12, <1>17, TypeNext DEF IndInv

LEMMA ListInd == ASSUME IndInv, NEW w \in Workers, List(w) PROVE IndInv'
<1>1. /\ AtStep(w, "list") /\ Done(w)
      /\ copy' = [copy EXCEPT ![w] = store]
      /\ UNCHANGED <<store, files, screen, refresh, made, kills, shown, found>>
  BY DEF List
<1>2. Others
  BY TypeParts DEF IndInv
<1>3. Others' /\ copy' \in [Workers -> SUBSET Changes]
  BY <1>1, <1>2 DEF Others, Contents, files, refresh, Workers
<1>4. \A v \in Workers : v # w => copy'[v] = copy[v]
  BY <1>1, <1>2 DEF Others
<1> QED
  BY <1>1, <1>3, <1>4, StepInd DEF files, refresh, IndInv, FileSaved

LEMMA PushInd == ASSUME IndInv, NEW w \in Workers, Push(w) PROVE IndInv'
<1>1. /\ AtStep(w, "push") /\ Done(w)
      /\ screen' = copy[w] /\ shown' = shown \cup copy[w]
      /\ UNCHANGED <<store, files, copy, refresh, made, kills, found>>
  BY DEF Push
<1>2. Others
  BY TypeParts DEF IndInv
<1>3. Others'
  BY <1>1, <1>2 DEF Others, Contents, files, refresh, Workers
<1> QED
  BY <1>1, <1>3, StepInd DEF files, refresh, IndInv, FileSaved

LEMMA CopyStoreInd == ASSUME IndInv, NEW w \in Workers, CopyStore(w) PROVE IndInv'
<1>1. /\ AtStep(w, "copyChats") \/ AtStep(w, "copyMessages")
      /\ Done(w)
      /\ copy' = [copy EXCEPT ![w] = store]
      /\ UNCHANGED <<store, files, screen, refresh, made, kills, shown, found>>
  BY DEF CopyStore
<1>2. Others
  BY TypeParts DEF IndInv
<1>3. Others'
  BY <1>1, <1>2 DEF Others, Contents, files, refresh, Workers
<1>4. copy'[w] = store /\ \A v \in Workers : v # w => copy'[v] = copy[v]
  BY <1>1, <1>2 DEF Others
<1> QED
  BY <1>1, <1>3, <1>4, StepInd DEF files, refresh, IndInv, FileSaved

LEMMA WriteChatsInd == ASSUME IndInv, NEW w \in Workers, WriteChats(w) PROVE IndInv'
<1>1. /\ AtStep(w, "writeChats") /\ Done(w)
      /\ chatFile' = copy[w]
      /\ UNCHANGED <<store, messageFile, saved, screen, copy, refresh, made, kills, shown, found>>
  BY DEF WriteChats
<1>2. Others
  BY TypeParts DEF IndInv
<1>3. Others'
  BY <1>1, <1>2 DEF Others, Contents, refresh, Workers
<1> QED
  BY <1>1, <1>3, StepInd DEF refresh, IndInv, FileSaved

LEMMA WriteMessagesInd == ASSUME IndInv, NEW w \in Workers, WriteMessages(w) PROVE IndInv'
<1>1. /\ AtStep(w, "writeMessages") /\ Done(w)
      /\ messageFile' = copy[w] /\ saved' = saved \cup copy[w]
      /\ UNCHANGED <<store, chatFile, screen, copy, refresh, made, kills, shown, found>>
  BY DEF WriteMessages
<1>2. Others
  BY TypeParts DEF IndInv
<1>3. Others'
  BY <1>1, <1>2 DEF Others, Contents, refresh, Workers
<1>4. saved \subseteq saved' /\ messageFile' \subseteq saved' /\ copy[w] \subseteq saved'
  BY <1>1
<1> QED
  BY <1>1, <1>3, <1>4, StepInd DEF refresh

LEMMA ReadInd == ASSUME IndInv, NEW w \in Workers, Read(w) PROVE IndInv'
<1>0. FileSaved /\ Others
  BY TypeParts DEF IndInv
<1>1. /\ Done(w)
      /\ UNCHANGED <<store, files, screen, refresh, made, kills, shown, found>>
  BY DEF Read
<1> DEFINE content == {c \in IF AtStep(w, "readChats") THEN chatFile ELSE messageFile :
                           AtStep(w, "readChats") <=> made[c] = "setting"}
<1>2. copy' = [copy EXCEPT ![w] = content]
  BY DEF Read
<1>3. /\ content \subseteq Changes
      /\ AtStep(w, "readChats") => \A c \in content : made[c] = "setting"
      /\ ~AtStep(w, "readChats") => content \subseteq saved
  BY <1>0 DEF Others, Contents, FileSaved
<1> HIDE DEF content
<1>4. Others'
  BY <1>0, <1>1, <1>2, <1>3 DEF Others, Contents, files, refresh, Workers
<1>5. copy'[w] = content /\ \A v \in Workers : v # w => copy'[v] = copy[v]
  BY <1>0, <1>2 DEF Others
<1>6. messageFile' \subseteq saved' /\ saved' = saved
  BY <1>0, <1>1 DEF FileSaved, files
<1>7. CASE AtStep(w, "readChats")
  BY <1>1, <1>3, <1>4, <1>5, <1>6, <1>7, StepInd DEF files, refresh
<1>8. CASE ~AtStep(w, "readChats")
  <2>1. AtStep(w, "readMessages")
    BY <1>8 DEF Read
  <2> QED
    BY <1>1, <1>3, <1>4, <1>5, <1>6, <1>8, <2>1, StepInd DEF files, refresh
<1> QED
  BY <1>7, <1>8

\* The change that asks is not yet at the mercy of a refresh; now there will be one.
LEMMA RequestInd == ASSUME IndInv, NEW w \in Workers, Request(w) PROVE IndInv'
<1>0. TypeOK /\ Shapes /\ FileSaved /\ Restoring /\ Others
  BY TypeParts DEF IndInv
<1>1. PICK step \in {"request", "requestPush"} : AtStep(w, step)
  BY DEF Request
<1>2. /\ Done(w)
      /\ pushPending' = (pushPending \/ AtStep(w, "requestPush"))
      /\ timerArmed' = TRUE
      /\ UNCHANGED <<store, files, screen, copy, made, kills, shown, found>>
  BY DEF Request
<1>3. /\ work' \in [Workers -> Seq(Steps)]
      /\ \A v \in Workers : v # w => work'[v] = work[v]
      /\ Shape(work'[w])
      /\ ~AtStep(w, "addChats")' /\ ~AtStep(w, "addMessages")'
  BY <1>0, <1>1, <1>2, DoneFacts
<1>4. pushPending' \in BOOLEAN /\ timerArmed' \in BOOLEAN /\ (pushPending' => timerArmed')
  BY <1>2
<1>5. Others'
  BY <1>0, <1>2, <1>4 DEF Others, Contents, files, Workers
<1>6. Shapes' /\ FileSaved'
  BY <1>0, <1>2, <1>3 DEF Shapes, FileSaved, files, Workers
<1>7. \A v \in Workers : /\ AtStep(v, "addChats")' => AtStep(v, "addChats")
                         /\ AtStep(v, "addMessages")' => AtStep(v, "addMessages")
  BY <1>3 DEF AtStep
<1>8. Restoring'
  BY <1>0, <1>2, <1>7 DEF Restoring, files, Workers
<1>9. RefreshWillSave'
  BY <1>2, WillSaveNext DEF Saving
<1> QED
  BY <1>3, <1>5, <1>6, <1>8, <1>9, TypeNext DEF IndInv

\* The goroutine of the timer has all that was changed still to copy.
LEMMA ExpireInd == ASSUME IndInv, NEW f \in Flushers, Expire(f) PROVE IndInv'
<1>0. TypeOK /\ Shapes /\ FileSaved /\ Restoring /\ Others
  BY TypeParts DEF IndInv
<1> DEFINE pre == (IF pushPending THEN Show ELSE << >>) \o SaveChatCache
           plan == (IF pushPending THEN Show ELSE << >>) \o SaveChatCache \o SaveMessageCache
<1>1. /\ timerArmed' = FALSE /\ pushPending' = FALSE
      /\ work' = [work EXCEPT ![f] = plan]
      /\ UNCHANGED <<store, files, screen, copy, made, kills, shown, found>>
  BY DEF Expire
<1>2. Fresh(plan) /\ Fresh(pre) /\ Fresh(SaveMessageCache)
  BY PartsFresh, SavingFresh, TwoFresh
<1>3. /\ Len(SaveMessageCache) = 2 /\ SaveMessageCache[1] = "copyMessages"
  BY DEF SaveMessageCache
<1>4. plan = pre \o SaveMessageCache
  OBVIOUS
<1> HIDE DEF plan, pre
<1>5. Contains(plan, "copyMessages")
  <2> DEFINE n == Len(pre)
  <2>1. n \in Nat /\ Len(plan) = n + 2
    <3>1. pre \in Seq(Steps) /\ SaveMessageCache \in Seq(Steps)
      BY <1>2 DEF Fresh
    <3>2. Len(plan) = Len(pre) + Len(SaveMessageCache)
      BY <1>4, <3>1, ConcatProperties
    <3>3. Len(pre) \in Nat
      BY <3>1, LenProperties
    <3> QED
      BY <1>3, <3>2, <3>3
  <2>2. plan[n + 1] = SaveMessageCache[1]
    <3>1. pre \in Seq(Steps) /\ SaveMessageCache \in Seq(Steps)
      BY <1>2 DEF Fresh
    <3>2. plan[n + 1] = SaveMessageCache[(n + 1) - n]
      BY <1>3, <1>4, <2>1, <3>1, ConcatProperties
    <3> QED
      BY <2>1, <3>2
  <2> HIDE DEF n
  <2> QED
    BY <1>3, <2>1, <2>2 DEF Contains
<1>6. /\ work' \in [Workers -> Seq(Steps)]
      /\ work'[f] = plan /\ \A v \in Workers : v # f => work'[v] = work[v]
  BY <1>0, <1>1, <1>2, TypeParts DEF Fresh, Workers
<1>7. timerArmed' \in BOOLEAN /\ pushPending' \in BOOLEAN /\ (pushPending' => timerArmed')
  BY <1>1
<1>8. Others'
  BY <1>0, <1>1, <1>7 DEF Others, Contents, files, Workers
<1>9. Shapes' /\ FileSaved'
  BY <1>0, <1>1, <1>2, <1>6 DEF Shapes, FileSaved, files, Workers, Fresh
<1>10. ~AtStep(f, "addChats")' /\ ~AtStep(f, "addMessages")'
  BY <1>2, <1>6, AddsHead DEF Fresh, AtStep
<1>11. \A v \in Workers : /\ AtStep(v, "addChats")' => AtStep(v, "addChats")
                          /\ AtStep(v, "addMessages")' => AtStep(v, "addMessages")
  BY <1>6, <1>10 DEF AtStep
<1>12. Restoring'
  BY <1>0, <1>1, <1>11 DEF Restoring, files, Workers
<1>13. RefreshWillSave'
  BY <1>5, <1>6, WillSaveNext DEF Saving
<1> QED
  BY <1>6, <1>8, <1>9, <1>12, <1>13, TypeNext DEF IndInv

LEMMA ConcatContains ==
    ASSUME NEW s, NEW t, s \in Seq(Steps), t \in Seq(Steps), NEW e, Contains(t, e)
    PROVE  Contains(s \o t, e)
<1> DEFINE r == s \o t
           n == Len(s)
           m == Len(t)
<1>1. /\ n \in Nat /\ m \in Nat /\ Len(r) = n + m
      /\ \A i \in 1..(n + m) : r[i] = IF i <= n THEN s[i] ELSE t[i - n]
  BY ConcatProperties, LenProperties
<1>2. PICK i \in 1..m : t[i] = e
  BY DEF Contains
<1> HIDE DEF r, n, m
<1>3. n + i \in 1..(n + m) /\ r[n + i] = e
  BY <1>1, <1>2
<1>4. Contains(r, e)
  BY <1>1, <1>3 DEF Contains
<1> QED
  BY <1>4 DEF r

\* What the loader adds was on disk, so it needs no refresh; and chats.json restores
\* settings only.
LEMMA AddInd == ASSUME IndInv, NEW w \in Workers, Add(w) PROVE IndInv'
<1>0. TypeOK /\ Shapes /\ FileSaved /\ Restoring /\ RefreshWillSave /\ Others
  BY TypeParts DEF IndInv
<1>1. PICK step \in {"addChats", "addMessages"} : AtStep(w, step)
  BY DEF Add
<1>2. UNCHANGED <<files, screen, copy, refresh, made, kills, shown, found>>
  BY DEF Add
<1>3. \/ UNCHANGED store /\ Done(w)
      \/ /\ UNCHANGED store /\ AtStep(w, "addMessages")
         /\ work' = [work EXCEPT ![w] = SaveChatCache \o Tail(@)]
      \/ UNCHANGED work /\ \E c \in copy[w] : store' = store \cup {c}
  BY DEF Add
<1>4. saved' = saved /\ messageFile' \subseteq saved'
  BY <1>0, <1>2 DEF files, FileSaved
<1>5. CASE UNCHANGED store /\ Done(w)
  <2>1. Others'
    BY <1>0, <1>2, <1>5 DEF Others, Contents, files, refresh, Workers
  <2> QED
    BY <1>1, <1>2, <1>4, <1>5, <2>1, StepInd DEF files, refresh
<1>6. CASE /\ UNCHANGED store /\ AtStep(w, "addMessages")
           /\ work' = [work EXCEPT ![w] = SaveChatCache \o Tail(@)]
  <2> DEFINE s == work[w]
             t == Tail(s)
             r == SaveChatCache \o t
  <2>1. s \in Seq(Steps) /\ s # << >> /\ Head(s) = "addMessages" /\ Shape(s)
    BY <1>0, <1>6 DEF TypeOK, Shapes, AtStep
  <2>2. /\ t \in Seq(Steps) /\ Shape(t)
        /\ t # << >> => Head(t) # "addChats" /\ Head(t) # "addMessages"
        /\ Contains(s, "copyMessages") => Contains(t, "copyMessages")
    BY <2>1, TailFacts
  <2>3. Fresh(t) /\ Fresh(SaveChatCache)
    BY <2>2, PartsFresh, AddsHead DEF Fresh
  <2>4. Fresh(r)
    BY <2>3, TwoFresh
  <2>5. Contains(s, "copyMessages") => Contains(r, "copyMessages")
    BY <2>2, <2>3, ConcatContains DEF Fresh
  <2>6. work' = [work EXCEPT ![w] = r]
    BY <1>6
  <2> HIDE DEF s, t, r
  <2>7. /\ work' \in [Workers -> Seq(Steps)]
        /\ work'[w] = r /\ \A v \in Workers : v # w => work'[v] = work[v]
    BY <1>0, <2>4, <2>6, TypeParts DEF Fresh, Workers
  <2>8. ~AtStep(w, "addChats")' /\ ~AtStep(w, "addMessages")'
    BY <2>4, <2>7, AddsHead DEF Fresh, AtStep
  <2>9. Others'
    BY <1>0, <1>2, <1>6 DEF Others, Contents, files, refresh, Workers
  <2>10. Shape(work'[w]) /\ (Contains(work[w], "copyMessages") => Contains(work'[w], "copyMessages"))
    BY <2>4, <2>5, <2>7 DEF Fresh, s
  <2> QED
    BY <1>2, <1>4, <1>6, <2>7, <2>8, <2>9, <2>10, StepKeeps DEF refresh
<1>7. ASSUME UNCHANGED work, NEW c \in copy[w], store' = store \cup {c} PROVE IndInv'
  <2>1. c \in Changes
    BY <1>0 DEF Others
  <2>2. Others'
    BY <1>0, <1>2, <1>7, <2>1 DEF Others, Contents, files, refresh, Workers
  <2>3. work' \in [Workers -> Seq(Steps)]
    BY <1>0, <1>7, TypeParts DEF Workers
  <2>4. Shapes' /\ FileSaved'
    BY <1>0, <1>4, <1>7 DEF Shapes, FileSaved, Workers
  <2>5. Restoring'
    BY <1>0, <1>2, <1>7 DEF Restoring, AtStep, files, Workers
  <2>6. made[c] \in {"receipt", "reaction"} => c \in saved
    BY <1>0, <1>1 DEF Restoring
  <2>7. /\ Quiet' <=> Quiet
        /\ \A d : Saving(d)' <=> Saving(d)
    BY <1>2, <1>7 DEF Quiet, Saving, AtStep, files, refresh
  <2>8. RefreshWillSave'
    <3>1. ASSUME NEW d \in store', made'[d] \in {"receipt", "reaction"}, Quiet' PROVE Saving(d)
      <4>1. CASE d = c
        BY <1>2, <2>6, <3>1, <4>1 DEF Saving
      <4>2. CASE d \in store
        BY <1>0, <1>2, <2>7, <3>1, <4>2, WillSaveIff
      <4> QED
        BY <1>7, <4>1, <4>2
    <3> QED
      BY <2>7, <3>1, WillSaveNext
  <2> QED
    BY <2>2, <2>3, <2>4, <2>5, <2>8, TypeNext DEF IndInv
<1> QED
  BY <1>3, <1>5, <1>6, <1>7

-----------------------------------------------------------------------------

LEMMA StutterInd == ASSUME IndInv, UNCHANGED vars PROVE IndInv'
<1>0. TypeOK /\ Shapes /\ FileSaved /\ Restoring /\ RefreshWillSave /\ Others
  BY TypeParts DEF IndInv
<1>1. UNCHANGED <<store, chatFile, messageFile, saved, screen, work, copy, timerArmed,
                  pushPending, made, kills, shown, found>>
  BY DEF vars, files, refresh
<1>2. Others' /\ work' \in [Workers -> Seq(Steps)]
  BY <1>0, <1>1, TypeParts DEF Others, Contents, Workers
<1>3. Shapes' /\ FileSaved' /\ Restoring'
  BY <1>0, <1>1 DEF Shapes, FileSaved, Restoring, AtStep, Workers
<1>4. RefreshWillSave'
  BY <1>0, <1>1 DEF RefreshWillSave, AtStep
<1> QED
  BY <1>2, <1>3, <1>4, TypeNext DEF IndInv

LEMMA NextInd == IndInv /\ [Next]_vars => IndInv'
<1> SUFFICES ASSUME IndInv, [Next]_vars PROVE IndInv'
  OBVIOUS
<1>1. CASE \E c \in Changes, op \in Operations : Change(c, op)
  BY <1>1, ChangeInd
<1>2. ASSUME NEW w \in Workers, WorkStep(w) PROVE IndInv'
  BY <1>2, ListInd, PushInd, CopyStoreInd, WriteChatsInd, WriteMessagesInd, RequestInd,
     ReadInd, AddInd DEF WorkStep
<1>3. CASE Refresh
  BY <1>3, ExpireInd DEF Refresh
<1>4. CASE Kill
  BY <1>4, KillInd
<1>5. CASE UNCHANGED vars
  BY <1>5, StutterInd
<1> QED
  BY <1>1, <1>2, <1>3, <1>4, <1>5 DEF Next

LEMMA Invariance == Spec => []IndInv
BY InitInd, NextInd, PTL DEF Spec

\* The store, both files, the screen and what every goroutine has still to do have their
\* types; in particular a wish for a push never waits without a timer (TypeOK).
THEOREM TypeCorrect == Spec => []TypeOK
<1>1. IndInv => TypeOK
  BY DEF IndInv
<1> QED
  BY <1>1, Invariance, PTL

\* scheduleCacheRefresh loses no change between a request and the refresh that saves
\* it, whatever else is saved, restored, requested or started in between.
THEOREM NoChangeForgotten == Spec => []RefreshWillSave
<1>1. IndInv => RefreshWillSave
  BY DEF IndInv
<1> QED
  BY <1>1, Invariance, PTL

=============================================================================
