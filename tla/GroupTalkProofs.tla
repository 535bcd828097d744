--------------------------- MODULE GroupTalkProofs ---------------------------
(***************************************************************************)
(* Proofs about the group talks, for any devices, groups, messages and     *)
(* faults: the type invariant, that talks stay well formed, and that a     *)
(* document only ever holds records of its own group.                      *)
(***************************************************************************)
EXTENDS GroupTalkProperties, FirestoreProofs

(* The records with a well-formed talk of messages sent so far: what every *)
(* place that holds records holds, at every moment.                        *)
Sound(n) == {g \in Group : /\ WellFormedTalk(g.talks)
                           /\ \A i \in DOMAIN g.talks : g.talks[i] <= n}

(* The inductive invariant behind TypeOK and TalksWellFormed.              *)
SoundInv == StoreTypeOK(Sound(sent), Ctx) /\ UiTypeOK(Sound(sent))

-----------------------------------------------------------------------------
(* Lemmas about talks and records *)

LEMMA EmptyGroupSound ==
    ASSUME NEW n \in Nat, NEW id \in DocIds
    PROVE  [taskId |-> id, talks |-> <<>>] \in Sound(n)
<1>1. <<>> \in Seq(Nat) /\ DOMAIN <<>> = {}
  OBVIOUS
<1>. QED  BY <1>1 DEF Sound, Group, WellFormedTalk

(* A talk sound up to a message is sound up to a later one.                *)
LEMMA SoundMonotone ==
    ASSUME NEW n \in Nat, NEW m \in Nat, n <= m
    PROVE  Sound(n) \subseteq Sound(m)
<1>1. ASSUME NEW g \in Sound(n) PROVE g \in Sound(m)
  <2>1. g.talks \in Seq(Nat)
    BY DEF Sound, Group
  <2>2. \A i \in DOMAIN g.talks : g.talks[i] \in Nat /\ g.talks[i] <= n
    BY <2>1 DEF Sound
  <2>. QED  BY <2>2 DEF Sound
<1>. QED  BY <1>1

(* A message numbered after all others, put behind a well-formed talk.     *)
LEMMA WithMessageSound ==
    ASSUME NEW n \in Nat, NEW g \in Sound(n)
    PROVE  [g EXCEPT !.talks = WithMessage(@, n + 1)] \in Sound(n + 1)
<1>. DEFINE t == g.talks
            u == WithMessage(t, n + 1)
            base == IF t = <<>> THEN Pads ELSE t
<1>1. g \in Group /\ t \in Seq(Nat) /\ WellFormedTalk(t)
      /\ \A i \in DOMAIN t : t[i] <= n
  BY DEF Sound, Group
<1>2. Pads \in Seq(Nat) /\ Len(Pads) = PadRows /\ \A i \in 1 .. PadRows : Pads[i] = Pad
  BY DEF Pads, PadRows, Pad
<1>3. /\ base \in Seq(Nat) /\ Len(base) >= PadRows
      /\ \A i \in 1 .. PadRows : base[i] = Pad
      /\ \A i \in PadRows + 1 .. Len(base) : base[i] # Pad
      /\ \A i, j \in PadRows + 1 .. Len(base) : i < j => base[i] < base[j]
      /\ \A i \in 1 .. Len(base) : base[i] <= n
  <2>1. CASE t = <<>>
    <3>1. base = Pads
      BY <2>1
    <3>2. Len(base) = 5 /\ \A i \in 1 .. 5 : base[i] = 0
      BY <1>2, <3>1 DEF PadRows, Pad
    <3>. HIDE DEF base
    <3>3. base \in Seq(Nat)
      BY <1>2, <3>1
    <3>4. \A i \in 6 .. Len(base) : FALSE
      BY <3>2
    <3>. QED  BY <3>2, <3>3, <3>4 DEF PadRows, Pad
  <2>2. CASE t # <<>>
    BY <1>1, <2>2 DEF WellFormedTalk, PadRows, Pad
  <2>. QED  BY <2>1, <2>2
<1>4. u = Append(base, n + 1)
  BY DEF WithMessage
<1>. HIDE DEF u, base
<1>5. /\ u \in Seq(Nat) /\ Len(u) = Len(base) + 1
      /\ u[Len(base) + 1] = n + 1
      /\ \A i \in 1 .. Len(base) : u[i] = base[i]
  BY <1>3, <1>4
<1>. DEFINE k == Len(base)
<1>6. k \in Nat /\ k >= 5 /\ Len(u) = k + 1 /\ DOMAIN u = 1 .. k + 1
  BY <1>3, <1>5 DEF PadRows
<1>7. \A i \in 1 .. k : u[i] = base[i] /\ base[i] \in Nat /\ base[i] <= n
  BY <1>3, <1>5
<1>8. /\ \A i \in 6 .. k : base[i] # 0
      /\ \A i, j \in 6 .. k : i < j => base[i] < base[j]
  BY <1>3 DEF PadRows, Pad
<1>9. u[k + 1] = n + 1
  BY <1>5
<1>. HIDE DEF k
<1>10. WellFormedTalk(u)
  <2>1. \A i \in 1 .. PadRows : u[i] = Pad
    BY <1>3, <1>6, <1>7 DEF PadRows
  <2>2. ASSUME NEW i \in 6 .. k + 1 PROVE u[i] # 0
    <3>1. CASE i \in 6 .. k
      BY <1>6, <1>7, <1>8, <3>1
    <3>2. CASE i = k + 1
      BY <1>9, <3>2
    <3>. QED  BY <1>6, <3>1, <3>2
  <2>3. ASSUME NEW i \in 6 .. k + 1, NEW j \in 6 .. k + 1, i < j
        PROVE  u[i] < u[j]
    <3>1. i \in 6 .. k /\ i \in 1 .. k
      BY <1>6, <2>3
    <3>2. CASE j \in 6 .. k
      BY <1>6, <1>7, <1>8, <2>3, <3>1, <3>2
    <3>3. CASE j = k + 1
      BY <1>7, <1>9, <3>1, <3>3
    <3>. QED  BY <1>6, <3>2, <3>3
  <2>. QED  BY <1>6, <2>1, <2>2, <2>3 DEF WellFormedTalk, PadRows, Pad
<1>11. \A i \in DOMAIN u : u[i] <= n + 1
  <2>1. ASSUME NEW i \in 1 .. k + 1 PROVE u[i] <= n + 1
    <3>1. CASE i \in 1 .. k
      BY <1>7, <3>1
    <3>2. CASE i = k + 1
      BY <1>9, <3>2
    <3>. QED  BY <1>6, <3>1, <3>2
  <2>. QED  BY <1>6, <2>1
<1>12. [g EXCEPT !.talks = u] \in Group /\ [g EXCEPT !.talks = u].talks = u
  BY <1>1, <1>5 DEF Group
<1>13. [g EXCEPT !.talks = u] \in Sound(n + 1)
  BY <1>10, <1>11, <1>12 DEF Sound
<1>. QED  BY <1>13 DEF u

-----------------------------------------------------------------------------
(* Types through every step but the sending of a message, for any set Data *)
(* of records with the empty groups in it                                  *)

Records(Data) ==
    /\ Data \subseteq Group
    /\ \A id \in DocIds : [taskId |-> id, talks |-> <<>>] \in Data

DataTypeOK(Data) == StoreTypeOK(Data, Ctx) /\ UiTypeOK(Data)

(* What each set of records gives.                                         *)
LEMMA RecordFacts ==
    ASSUME NEW Data, Records(Data)
    PROVE  /\ Absent \notin Data
           /\ \A g \in Data : g.taskId \in DocIds
BY AbsentAssumption DEF Records, Group

LEMMA ContextTypes ==
    HomeCtx \in Ctx /\ ListCtx \in Ctx /\ \A r \in Nat : DetailCtx(r) \in Ctx
BY DEF Ctx, HomeCtx, ListCtx, DetailCtx

(* The variables of the screens may change device by device.               *)
LEMMA EndProcessType ==
    ASSUME NEW Data, Records(Data), DataTypeOK(Data), NEW d \in Devices,
           NEW why \in {"trapped", "killed"}, EndProcess(d, why)
    PROVE  DataTypeOK(Data)' /\ sent' = sent
<1>1. StoreTypeOK(Data, Ctx)'
  BY DropCallbacksType DEF EndProcess, DataTypeOK
<1>2. UiTypeOK(Data)'
  <2>1. <<>> \in Seq(Data) /\ <<>> \in Seq(DocIds)
    OBVIOUS
  <2>. QED  BY <2>1 DEF EndProcess, DataTypeOK, UiTypeOK, Set
<1>. QED  BY <1>1, <1>2 DEF EndProcess, DataTypeOK

(* Each step keeps the types, for any set of records.                      *)
LEMMA LaunchType ==
    ASSUME NEW Data, Records(Data), DataTypeOK(Data), NEW d \in Devices, Launch(d)
    PROVE  DataTypeOK(Data)' /\ sent' = sent
<1>1. gets' \in [Devices -> Seq(Ctx)]
  BY RequestGetType, ContextTypes DEF Launch, DataTypeOK
<1>. QED  BY <1>1 DEF Launch, DataTypeOK, StoreTypeOK, UiTypeOK, Set

LEMMA RestoreType ==
    ASSUME NEW Data, Records(Data), DataTypeOK(Data), NEW d \in Devices, Restore(d)
    PROVE  groups' \in [Devices -> Seq(Data)] /\ gets' \in [Devices -> Seq(Ctx)]
<1>1. gets' \in [Devices -> Seq(Ctx)]
  BY RequestGetType, ContextTypes DEF Restore, DataTypeOK
<1>2. <<>> \in Seq(Data)
  OBVIOUS
<1>. QED  BY <1>1, <1>2 DEF Restore, DataTypeOK, UiTypeOK, Set

LEMMA TabsType ==
    ASSUME NEW Data, Records(Data), DataTypeOK(Data), NEW d \in Devices,
           ShowGoTab(d) \/ ShowHomeTab(d) \/ Back(d)
    PROVE  DataTypeOK(Data)' /\ sent' = sent
<1>1. CASE ShowGoTab(d)
  <2>1. groups' \in [Devices -> Seq(Data)] /\ gets' \in [Devices -> Seq(Ctx)]
    BY <1>1, RestoreType DEF ShowGoTab, DataTypeOK, StoreTypeOK, UiTypeOK
  <2>2. screen' \in [Devices -> {"home", "list", "opening", "detail"}]
    BY <1>1 DEF ShowGoTab, DataTypeOK, UiTypeOK, Set
  <2>. QED  BY <1>1, <2>1, <2>2 DEF ShowGoTab, DataTypeOK, StoreTypeOK, UiTypeOK
<1>2. CASE ShowHomeTab(d)
  BY <1>2 DEF ShowHomeTab, storeVars, DataTypeOK, StoreTypeOK, UiTypeOK, Set
<1>3. CASE Back(d)
  <2>1. groups' \in [Devices -> Seq(Data)] /\ gets' \in [Devices -> Seq(Ctx)]
    BY <1>3, RestoreType DEF Back
  <2>2. /\ screen' \in [Devices -> {"home", "list", "opening", "detail"}]
        /\ row' \in [Devices -> Nat]
        /\ title' \in [Devices -> DocIds \cup {Absent}]
    BY <1>3 DEF Back, DataTypeOK, UiTypeOK, Set
  <2>. QED  BY <1>3, <2>1, <2>2 DEF Back, DataTypeOK, StoreTypeOK, UiTypeOK
<1>. QED  BY <1>1, <1>2, <1>3

(* Writing to the store, whatever the screen does besides.                 *)
LEMMA WriteDirtyType ==
    ASSUME NEW Data, DataTypeOK(Data), NEW d \in Devices,
           dirty' = [dirty EXCEPT ![d] = @ \cup Touched(d, cache[d], queue'[d])]
    PROVE  dirty' \in [Devices -> SUBSET Listeners(Ctx)]
<1>1. Touched(d, cache[d], queue'[d]) \subseteq Listeners(Ctx)
  BY DEF Touched, DataTypeOK, StoreTypeOK
<1>. QED  BY <1>1 DEF DataTypeOK, StoreTypeOK

LEMMA ListStepsType ==
    ASSUME NEW Data, Records(Data), DataTypeOK(Data), NEW d \in Devices,
           NEW r \in DOMAIN rows[d], DeleteGroup(d, r) \/ OpenDetail(d, r)
    PROVE  DataTypeOK(Data)' /\ sent' = sent
<1>1. rows[d] \in Seq(DocIds) /\ groups[d] \in Seq(Data)
  BY DEF DataTypeOK, UiTypeOK
<1>2. r \in Nat
  BY <1>1
<1>3. CASE DeleteGroup(d, r) /\ r \in DOMAIN groups[d]
  <2>1. groups[d][r] \in Data
    BY <1>1, <1>3
  <2>2. groups[d][r].taskId \in DocIds
    BY <2>1, RecordFacts
  <2>3. queue' \in [Devices -> Seq(Mutations(Data))]
    BY <1>3, <2>2, WriteType DEF DeleteGroup, DataTypeOK
  <2>4. dirty' \in [Devices -> SUBSET Listeners(Ctx)]
    BY <1>3, WriteDirtyType DEF DeleteGroup
  <2>5. groups' \in [Devices -> Seq(Data)] /\ gets' \in [Devices -> Seq(Ctx)]
    BY <1>3, RestoreType DEF DeleteGroup
  <2>. QED  BY <1>3, <2>3, <2>4, <2>5 DEF DeleteGroup, DataTypeOK, StoreTypeOK, UiTypeOK
<1>4. CASE OpenDetail(d, r) /\ r \in DOMAIN groups[d]
  <2>1. groups[d][r] \in Data
    BY <1>1, <1>4
  <2>2. groups[d][r].taskId \in DocIds
    BY <2>1, RecordFacts
  <2>0. /\ screen' = Set(screen, d, "opening")
        /\ row' = Set(row, d, r)
        /\ title' = Set(title, d, groups[d][r].taskId)
    BY <1>4 DEF OpenDetail
  <2>3. /\ screen' \in [Devices -> {"home", "list", "opening", "detail"}]
        /\ row' \in [Devices -> Nat]
        /\ title' \in [Devices -> DocIds \cup {Absent}]
    BY <1>2, <2>0, <2>2 DEF DataTypeOK, UiTypeOK, Set
  <2>4. UNCHANGED <<storeVars, status, groups, rows, created, sent>>
    BY <1>4 DEF OpenDetail
  <2>. QED  BY <2>3, <2>4 DEF storeVars, DataTypeOK, StoreTypeOK, UiTypeOK
<1>5. CASE Trap(d)
  BY <1>5, EndProcessType DEF Trap
<1>. QED  BY <1>3, <1>4, <1>5 DEF DeleteGroup, OpenDetail

LEMMA DetailAppearsType ==
    ASSUME NEW Data, Records(Data), DataTypeOK(Data), NEW d \in Devices,
           DetailAppears(d)
    PROVE  DataTypeOK(Data)' /\ sent' = sent
<1>1. row[d] \in Nat /\ groups[d] \in Seq(Data)
  BY DEF DataTypeOK, UiTypeOK
<1>2. CASE row[d] \in DOMAIN groups[d]
  <2>1. groups[d][row[d]] \in Data
    BY <1>1, <1>2
  <2>2. groups[d][row[d]].taskId \in DocIds /\ DetailCtx(row[d]) \in Ctx
    BY <1>1, <2>1, RecordFacts, ContextTypes
  <2>3. Listen(d, groups[d][row[d]].taskId, DetailCtx(row[d]))
    BY <1>2 DEF DetailAppears, Trap, EndProcess
  <2>4. /\ watched' \in [Devices -> SUBSET Listeners(Ctx)]
        /\ dirty' \in [Devices -> SUBSET Listeners(Ctx)]
    BY <2>2, <2>3, ListenType DEF DataTypeOK
  <2>5. screen' \in [Devices -> {"home", "list", "opening", "detail"}]
    BY <1>2 DEF DetailAppears, DataTypeOK, UiTypeOK, Set
  <2>. QED  BY <1>2, <2>4, <2>5 DEF DetailAppears, DataTypeOK, StoreTypeOK, UiTypeOK
<1>3. CASE Trap(d)
  BY <1>3, EndProcessType DEF Trap
<1>. QED  BY <1>2, <1>3 DEF DetailAppears

LEMMA CreateGroupType ==
    ASSUME NEW Data, Records(Data), DataTypeOK(Data), NEW d \in Devices,
           CreateGroup(d)
    PROVE  DataTypeOK(Data)' /\ sent' = sent
<1>1. PICK id \in DocIds \ created :
          /\ Write(d, id, [taskId |-> id, talks |-> <<>>])
          /\ groups' = [groups EXCEPT ![d] = Append(@, [taskId |-> id, talks |-> <<>>])]
          /\ created' = created \cup {id}
  BY DEF CreateGroup
<1>2. [taskId |-> id, talks |-> <<>>] \in Data
  BY DEF Records
<1>3. queue' \in [Devices -> Seq(Mutations(Data))]
  BY <1>1, <1>2, WriteType DEF DataTypeOK
<1>4. dirty' \in [Devices -> SUBSET Listeners(Ctx)]
  BY WriteDirtyType DEF CreateGroup
<1>5. groups' \in [Devices -> Seq(Data)] /\ created' \in SUBSET DocIds
  BY <1>1, <1>2 DEF DataTypeOK, UiTypeOK
<1>. QED  BY <1>3, <1>4, <1>5 DEF CreateGroup, DataTypeOK, StoreTypeOK, UiTypeOK

LEMMA CallbackType ==
    ASSUME NEW Data, Records(Data), DataTypeOK(Data), NEW d \in Devices, Callback(d)
    PROVE  DataTypeOK(Data)' /\ sent' = sent
<1>. DEFINE res == Head(results[d])
<1>1. groups[d] \in Seq(Data) /\ results[d] \in Seq(Answers(Data, Ctx))
  BY DEF DataTypeOK, UiTypeOK, StoreTypeOK
<1>2. results[d] # <<>> =>
          /\ res.docs \in Seq(Data)
          /\ Tail(results[d]) \in Seq(Answers(Data, Ctx))
  <2>1. results[d] # <<>> => res \in Answers(Data, Ctx)
    BY <1>1
  <2>. QED  BY <1>1, <2>1 DEF Answers
<1>3. CASE DeliverAppend(d)
  <2>1. /\ groups' = [groups EXCEPT ![d] = @ \o res.docs]
        /\ results' = [results EXCEPT ![d] = Tail(@)]
        /\ results[d] # <<>>
    BY <1>3 DEF DeliverAppend
  <2>. HIDE DEF res
  <2>2. groups[d] \o res.docs \in Seq(Data)
    BY <1>1, <1>2, <2>1
  <2>3. /\ groups' \in [Devices -> Seq(Data)]
        /\ groups'[d] \in Seq(Data)
        /\ results' \in [Devices -> Seq(Answers(Data, Ctx))]
    BY <1>2, <2>1, <2>2 DEF DataTypeOK, UiTypeOK, StoreTypeOK
  <2>4. IdsOf(groups'[d]) \in Seq(DocIds)
    <3>1. \A i \in DOMAIN groups'[d] : groups'[d][i].taskId \in DocIds
      BY <2>3, RecordFacts
    <3>. QED  BY <2>3, <3>1 DEF IdsOf
  <2>5. rows' \in [Devices -> Seq(DocIds)]
    BY <1>3, <2>4 DEF DeliverAppend, DataTypeOK, UiTypeOK, Set
  <2>. QED  BY <1>3, <2>3, <2>5 DEF DeliverAppend, DataTypeOK, StoreTypeOK, UiTypeOK
<1>4. CASE DeliverReplace(d) /\ ~Trap(d)
  <2>1. /\ groups' = Set(groups, d, res.docs)
        /\ results' = [results EXCEPT ![d] = Tail(@)]
        /\ results[d] # <<>>
    BY <1>4 DEF DeliverReplace, Refilled
  <2>. HIDE DEF res
  <2>2. /\ groups' \in [Devices -> Seq(Data)]
        /\ results' \in [Devices -> Seq(Answers(Data, Ctx))]
    BY <1>2, <2>1 DEF DataTypeOK, UiTypeOK, StoreTypeOK, Set
  <2>. QED  BY <1>4, <2>2 DEF DeliverReplace, DataTypeOK, StoreTypeOK, UiTypeOK
<1>5. CASE DeliverReplace(d) /\ Trap(d)
  BY <1>5, EndProcessType DEF Trap
<1>6. CASE \E l \in dirty[d] : OnEvent(d, l)
  <2>1. PICK l \in dirty[d] : OnEvent(d, l)
    BY <1>6
  <2>2. l.ctx \in Ctx /\ dirty[d] \ {l} \subseteq Listeners(Ctx)
    BY DEF DataTypeOK, StoreTypeOK, Listeners
  <2>3. gets' \in [Devices -> Seq(Ctx)]
    BY <2>1, <2>2, RequestGetType DEF OnEvent, DataTypeOK, StoreTypeOK
  <2>4. dirty' \in [Devices -> SUBSET Listeners(Ctx)]
    BY <2>1, <2>2 DEF OnEvent, DataTypeOK, StoreTypeOK
  <2>. QED  BY <2>1, <2>3, <2>4 DEF OnEvent, uiVars, DataTypeOK, StoreTypeOK, UiTypeOK
<1>. QED  BY <1>3, <1>4, <1>5, <1>6 DEF Callback

(* Every step but the sending of a message keeps the types for Data, and   *)
(* the number of messages sent.                                            *)
LEMMA OtherStepsType ==
    ASSUME NEW Data, Records(Data), DataTypeOK(Data), NEW d \in Devices,
           \/ Sdk(d) \/ Callback(d) \/ Launch(d) \/ Kill(d)
           \/ UserStep(d) /\ ~Commit(d)
    PROVE  DataTypeOK(Data)' /\ sent' = sent
<1>1. CASE Sdk(d)
  <2>1. StoreTypeOK(Data, Ctx)'
    BY <1>1, SdkStepType, RecordFacts DEF Sdk, DataTypeOK
  <2>. QED  BY <1>1, <2>1 DEF Sdk, uiVars, DataTypeOK, UiTypeOK
<1>2. CASE Kill(d)
  BY <1>2, EndProcessType DEF Kill
<1>3. CASE \E r \in DOMAIN rows[d] : DeleteGroup(d, r) \/ OpenDetail(d, r)
  BY <1>3, ListStepsType
<1>. QED  BY <1>1, <1>2, <1>3, CallbackType, LaunchType, TabsType, DetailAppearsType,
             CreateGroupType DEF UserStep

-----------------------------------------------------------------------------
(* The sending of a message, and the invariant *)

LEMMA SoundRecords == ASSUME NEW n \in Nat PROVE Records(Sound(n))
BY EmptyGroupSound DEF Records, Sound

(* A step that keeps the types for a set keeps them for a larger one.      *)
LEMMA DataTypeMonotone ==
    ASSUME NEW Data, NEW More, Data \subseteq More, DataTypeOK(Data)
    PROVE  DataTypeOK(More)
<1>1. StoreTypeOK(More, Ctx)
  BY StoreTypeMonotone DEF DataTypeOK
<1>2. Seq(Data) \subseteq Seq(More)
  OBVIOUS
<1>. QED  BY <1>1, <1>2 DEF DataTypeOK, UiTypeOK

LEMMA CommitSound ==
    ASSUME NEW n \in Nat, sent = n, DataTypeOK(Sound(n)), NEW d \in Devices, Commit(d)
    PROVE  \/ sent' = n /\ DataTypeOK(Sound(n))'
           \/ sent' = n + 1 /\ DataTypeOK(Sound(n + 1))'
<1>1. CASE Trap(d)
  BY <1>1, EndProcessType, SoundRecords DEF Trap
<1>2. CASE row[d] \in DOMAIN groups[d]
  <2>. DEFINE g == [groups[d][row[d]] EXCEPT !.talks = WithMessage(@, n + 1)]
  <2>1. groups[d][row[d]] \in Sound(n) /\ row[d] \in Nat
    BY <1>2 DEF DataTypeOK, UiTypeOK
  <2>2. g \in Sound(n + 1)
    BY <2>1, WithMessageSound
  <2>3. /\ groups' = [groups EXCEPT ![d][row[d]] = g]
        /\ Save(d, g) /\ Listen(d, g.taskId, DetailCtx(row[d]))
        /\ sent' = n + 1
        /\ UNCHANGED <<server, cache, gets, results,
                       status, screen, row, title, rows, created>>
    BY <1>2 DEF Commit, Trap, EndProcess
  <2>. HIDE DEF g
  <2>4. Records(Sound(n + 1)) /\ n + 1 \in Nat
    BY SoundRecords
  <2>5. DataTypeOK(Sound(n + 1))
    BY SoundMonotone, DataTypeMonotone
  <2>6. g.taskId \in DocIds /\ DetailCtx(row[d]) \in Ctx
    BY <2>1, <2>2, <2>4, RecordFacts, ContextTypes
  <2>7. queue' \in [Devices -> Seq(Mutations(Sound(n + 1)))]
    BY <2>2, <2>3, <2>5, <2>6, WriteType DEF Save, DataTypeOK
  <2>8. /\ watched' \in [Devices -> SUBSET Listeners(Ctx)]
        /\ dirty' \in [Devices -> SUBSET Listeners(Ctx)]
    BY <2>3, <2>5, <2>6, ListenType DEF DataTypeOK
  <2>9. groups' \in [Devices -> Seq(Sound(n + 1))]
    <3>1. groups[d] \in Seq(Sound(n + 1))
      BY <2>5 DEF DataTypeOK, UiTypeOK
    <3>2. [groups[d] EXCEPT ![row[d]] = g] \in Seq(Sound(n + 1))
      BY <1>2, <2>2, <3>1
    <3>. QED  BY <2>3, <2>5, <3>2 DEF DataTypeOK, UiTypeOK
  <2>. QED  BY <2>3, <2>4, <2>5, <2>7, <2>8, <2>9 DEF DataTypeOK, StoreTypeOK, UiTypeOK
<1>. QED  BY <1>1, <1>2 DEF Commit

LEMMA SoundInit == Init => SoundInv
<1>. SUFFICES ASSUME Init PROVE SoundInv
  OBVIOUS
<1>1. sent = 0 /\ \A id \in DocIds : [taskId |-> id, talks |-> <<>>] \in Sound(0)
  BY EmptyGroupSound DEF Init
<1>2. <<>> \in Seq(Sound(0)) /\ <<>> \in Seq(DocIds) /\ <<>> \in Seq(Mutations(Sound(0)))
      /\ <<>> \in Seq(Answers(Sound(0), Ctx)) /\ <<HomeCtx>> \in Seq(Ctx)
  BY ContextTypes
<1>3. StoreTypeOK(Sound(0), Ctx)
  BY <1>1, <1>2 DEF Init, StoreTypeOK
<1>4. UiTypeOK(Sound(0))
  BY <1>1, <1>2, InitialGroupsAssumption DEF Init, UiTypeOK
<1>. QED  BY <1>1, <1>3, <1>4 DEF SoundInv

LEMMA SoundNext == SoundInv /\ [Next]_vars => SoundInv'
<1>. SUFFICES ASSUME SoundInv, [Next]_vars PROVE SoundInv'
  OBVIOUS
<1>1. PICK n \in Nat : sent = n
  BY DEF SoundInv, UiTypeOK
<1>2. DataTypeOK(Sound(n))
  BY <1>1 DEF SoundInv, DataTypeOK
<1>3. CASE UNCHANGED vars
  BY <1>3 DEF vars, storeVars, uiVars, SoundInv, StoreTypeOK, UiTypeOK
<1>4. CASE Next
  <2>1. PICK d \in Devices :
            Sdk(d) \/ Callback(d) \/ UserStep(d) \/ Launch(d) \/ Kill(d)
    BY <1>4 DEF Next
  <2>2. CASE Commit(d)
    BY <1>1, <1>2, <2>2, CommitSound DEF SoundInv, DataTypeOK
  <2>3. CASE ~Commit(d)
    <3>1. DataTypeOK(Sound(n))' /\ sent' = n
      BY <1>1, <1>2, <2>1, <2>3, SoundRecords, OtherStepsType
    <3>. QED  BY <3>1 DEF SoundInv, DataTypeOK
  <2>. QED  BY <2>2, <2>3
<1>. QED  BY <1>3, <1>4

(* Whatever the devices do, all that is held anywhere, on the backend, in  *)
(* caches, queues, answers and arrays, are groups with well-formed talks   *)
(* of messages sent so far.                                                *)
THEOREM SoundAlways == Spec => []SoundInv
<1>. QED  BY SoundInit, SoundNext, PTL DEF Spec

(* The type invariant.                                                     *)
THEOREM TypeCorrect == Spec => []TypeOK
<1>1. SoundInv => TypeOK
  <2>1. ASSUME SoundInv, NEW n \in Nat, sent = n PROVE TypeOK
    <3>1. DataTypeOK(Sound(n)) /\ Sound(n) \subseteq Group
      BY <2>1 DEF SoundInv, DataTypeOK, Sound
    <3>. QED  BY <3>1, DataTypeMonotone DEF TypeOK, DataTypeOK
  <2>. QED  BY <2>1 DEF SoundInv, UiTypeOK
<1>. QED  BY <1>1, SoundAlways, PTL

(* A talk is empty, or the pads and then messages in the order they were   *)
(* sent, wherever it is held: however saves of whole records from stale    *)
(* arrays overwrite one another, talks never mix.                          *)
THEOREM TalksStayWellFormed == Spec => []TalksWellFormed
<1>1. SoundInv => TalksWellFormed
  <2>. SUFFICES ASSUME SoundInv PROVE TalksWellFormed
    OBVIOUS
  <2>1. \A g \in Sound(sent) : WellFormedTalk(g.talks)
    BY DEF Sound
  <2>2. \A val \in Sound(sent) \cup {Absent} : WellFormedDoc(val)
    BY <2>1 DEF WellFormedDoc
  <2>3. \A id \in DocIds : WellFormedDoc(server[id])
    BY <2>2 DEF SoundInv, StoreTypeOK
  <2>4. \A d \in Devices : \A id \in DocIds : WellFormedDoc(cache[d][id])
    BY <2>2 DEF SoundInv, StoreTypeOK
  <2>5. ASSUME NEW d \in Devices, NEW i \in DOMAIN queue[d]
        PROVE  WellFormedDoc(queue[d][i].val)
    <3>1. queue[d][i] \in Mutations(Sound(sent))
      BY <2>5 DEF SoundInv, StoreTypeOK
    <3>. QED  BY <2>2, <3>1 DEF Mutations
  <2>6. ASSUME NEW d \in Devices, NEW i \in DOMAIN groups[d]
        PROVE  WellFormedTalk(groups[d][i].talks)
    <3>1. groups[d][i] \in Sound(sent)
      BY <2>6 DEF SoundInv, UiTypeOK
    <3>. QED  BY <2>1, <3>1
  <2>7. ASSUME NEW d \in Devices, NEW i \in DOMAIN results[d],
               NEW j \in DOMAIN results[d][i].docs
        PROVE  WellFormedTalk(results[d][i].docs[j].talks)
    <3>1. results[d][i] \in Answers(Sound(sent), Ctx)
      BY <2>7 DEF SoundInv, StoreTypeOK
    <3>2. results[d][i].docs \in Seq(Sound(sent))
      BY <3>1 DEF Answers
    <3>. QED  BY <2>1, <2>7, <3>2
  <2>. QED  BY <2>3, <2>4, <2>5, <2>6, <2>7 DEF TalksWellFormed
<1>. QED  BY <1>1, SoundAlways, PTL

-----------------------------------------------------------------------------
(* A document holds records of its own group only                          *)

(* Placing a mutation with a record under its own id.                      *)
LEMMA OwnIdWrite ==
    ASSUME TypeOK, RecordsUnderOwnId, NEW d \in Devices, NEW id \in DocIds, NEW val,
           UnderOwnId(val, id), Write(d, id, val), server' = server, cache' = cache
    PROVE  RecordsUnderOwnId'
<1>1. queue[d] \in Seq(Mutations(Group)) /\ queue \in [Devices -> Seq(Mutations(Group))]
  BY DEF TypeOK, StoreTypeOK
<1>2. queue'[d] = Append(queue[d], [doc |-> id, val |-> val])
      /\ \A e \in Devices \ {d} : queue'[e] = queue[e]
  BY <1>1 DEF Write
<1>3. ASSUME NEW i \in DOMAIN queue'[d]
      PROVE  UnderOwnId(queue'[d][i].val, queue'[d][i].doc)
  <2>1. \/ i \in DOMAIN queue[d] /\ queue'[d][i] = queue[d][i]
        \/ queue'[d][i] = [doc |-> id, val |-> val]
    BY <1>1, <1>2, <1>3
  <2>. QED  BY <2>1 DEF RecordsUnderOwnId
<1>. QED  BY <1>2, <1>3 DEF RecordsUnderOwnId

LEMMA OwnIdSdk ==
    ASSUME TypeOK, RecordsUnderOwnId, NEW d \in Devices, SdkStep(d)
    PROVE  RecordsUnderOwnId'
<1>. DEFINE Own(w) == \A id \in DocIds : UnderOwnId(w[id], id)
            OwnQ(q) == \A i \in DOMAIN q : UnderOwnId(q[i].val, q[i].doc)
<1>0. /\ server \in Docs(Group) /\ cache \in [Devices -> Docs(Group)]
      /\ queue \in [Devices -> Seq(Mutations(Group))]
  BY DEF TypeOK, StoreTypeOK, Docs
<1>1. Own(server) /\ \A e \in Devices : Own(cache[e]) /\ OwnQ(queue[e])
  BY DEF RecordsUnderOwnId
<1>2. queue[d] # <<>> => /\ OwnQ(Tail(queue[d]))
                         /\ Head(queue[d]).doc \in DocIds
                         /\ UnderOwnId(Head(queue[d]).val, Head(queue[d]).doc)
  <2>. SUFFICES ASSUME queue[d] # <<>>
                PROVE  /\ OwnQ(Tail(queue[d]))
                       /\ Head(queue[d]).doc \in DocIds
                       /\ UnderOwnId(Head(queue[d]).val, Head(queue[d]).doc)
    OBVIOUS
  <2>1. queue[d] \in Seq(Mutations(Group)) /\ 1 \in DOMAIN queue[d]
        /\ Head(queue[d]) = queue[d][1]
    BY <1>0
  <2>2. \A i \in DOMAIN Tail(queue[d]) :
            i + 1 \in DOMAIN queue[d] /\ Tail(queue[d])[i] = queue[d][i + 1]
    BY <2>1
  <2>3. OwnQ(Tail(queue[d]))
    BY <1>1, <2>2
  <2>4. queue[d][1] \in Mutations(Group)
    BY <2>1
  <2>5. Head(queue[d]).doc \in DocIds
    BY <2>1, <2>4 DEF Mutations
  <2>6. UnderOwnId(Head(queue[d]).val, Head(queue[d]).doc)
    BY <1>1, <2>1
  <2>. QED  BY <2>3, <2>5, <2>6
<1>3. ASSUME NEW w \in Docs(Group), Own(w), NEW id \in DocIds, NEW val, UnderOwnId(val, id)
      PROVE  Own([w EXCEPT ![id] = val])
  BY <1>3 DEF Docs
<1>4. ASSUME NEW c, Own(c), NEW q, OwnQ(q), Apply(d, c, q), Own(server')
      PROVE  RecordsUnderOwnId'
  <2>1. /\ cache'[d] = c /\ queue'[d] = q
        /\ \A e \in Devices \ {d} : cache'[e] = cache[e] /\ queue'[e] = queue[e]
    BY <1>0, <1>4 DEF Apply
  <2>2. \A e \in Devices : Own(cache'[e]) /\ OwnQ(queue'[e])
    BY <1>1, <1>4, <2>1
  <2>. QED  BY <1>4, <2>2 DEF RecordsUnderOwnId
<1>5. CASE Acknowledge(d)
  <2>. DEFINE m == Head(queue[d])
  <2>1. /\ server' = [server EXCEPT ![m.doc] = m.val]
        /\ Apply(d, [cache[d] EXCEPT ![m.doc] = m.val], Tail(queue[d]))
        /\ queue[d] # <<>>
    BY <1>5 DEF Acknowledge
  <2>2. Own([server EXCEPT ![m.doc] = m.val])
    BY <1>0, <1>1, <1>2, <1>3, <2>1
  <2>3. Own([cache[d] EXCEPT ![m.doc] = m.val])
    BY <1>0, <1>1, <1>2, <1>3, <2>1
  <2>. HIDE DEF Own, OwnQ, m
  <2>. QED  BY <1>2, <1>4, <2>1, <2>2, <2>3
<1>6. CASE Reject(d)
  <2>. HIDE DEF Own, OwnQ
  <2>. QED  BY <1>1, <1>2, <1>4, <1>6 DEF Reject
<1>7. CASE Watch(d)
  <2>. DEFINE c == [id \in DocIds |-> IF id \in WatchedDocs(d) THEN server[id]
                                                            ELSE cache[d][id]]
  <2>1. Own(c)
    BY <1>1
  <2>2. Apply(d, c, queue[d]) /\ server' = server
    BY <1>7 DEF Watch
  <2>. HIDE DEF Own, OwnQ, c
  <2>. QED  BY <1>1, <1>4, <2>1, <2>2
<1>8. CASE AnswerFromServer(d)
  <2>. HIDE DEF Own, OwnQ
  <2>. QED  BY <1>1, <1>4, <1>8 DEF AnswerFromServer
<1>9. CASE AnswerFromCache(d) \/ AnswerWithError(d)
  BY <1>9 DEF AnswerFromCache, AnswerWithError, RecordsUnderOwnId
<1>10. CASE CommitUnacknowledged(d)
  <2>1. PICK k \in 1 .. Len(queue[d]) :
            server' = Overlay(server, SubSeq(queue[d], 1, k))
    BY <1>10 DEF CommitUnacknowledged
  <2>. DEFINE p == SubSeq(queue[d], 1, k)
  <2>2. \A i \in DOMAIN p : i \in DOMAIN queue[d] /\ p[i] = queue[d][i]
    BY <1>0
  <2>3. OwnQ(p)
    BY <1>1, <2>2
  <2>. HIDE DEF p
  <2>4. ASSUME NEW id \in DocIds PROVE UnderOwnId(Overlay(server, p)[id], id)
    BY <1>1, <2>3, OverlayOrigin
  <2>5. /\ \A id \in DocIds : UnderOwnId(server'[id], id)
        /\ cache' = cache /\ queue' = queue
    BY <1>10, <2>1, <2>4 DEF CommitUnacknowledged, p
  <2>. QED  BY <2>5 DEF RecordsUnderOwnId
<1>. QED  BY <1>5, <1>6, <1>7, <1>8, <1>9, <1>10 DEF SdkStep, Answer

LEMMA OwnIdNext == TypeOK /\ RecordsUnderOwnId /\ [Next]_vars => RecordsUnderOwnId'
<1>. SUFFICES ASSUME TypeOK, RecordsUnderOwnId, [Next]_vars PROVE RecordsUnderOwnId'
  OBVIOUS
<1>0. ASSUME UNCHANGED <<server, cache, queue>> PROVE RecordsUnderOwnId'
  BY <1>0 DEF RecordsUnderOwnId
<1>1. CASE UNCHANGED vars
  BY <1>0, <1>1 DEF vars, storeVars
<1>2. ASSUME NEW d \in Devices, Sdk(d) PROVE RecordsUnderOwnId'
  BY <1>2, OwnIdSdk DEF Sdk
<1>3. ASSUME NEW d \in Devices, NEW r \in DOMAIN rows[d], DeleteGroup(d, r)
      PROVE  RecordsUnderOwnId'
  <2>1. CASE r \in DOMAIN groups[d]
    <3>1. groups[d] \in Seq(Group)
      BY DEF TypeOK, UiTypeOK
    <3>2. groups[d][r].taskId \in DocIds
      <4>1. groups[d][r] \in Group
        BY <2>1, <3>1
      <4>. QED  BY <4>1 DEF Group
    <3>. QED  BY <1>3, <2>1, <3>2, OwnIdWrite DEF DeleteGroup, UnderOwnId
  <2>2. CASE Trap(d)
    BY <1>0, <2>2 DEF Trap, EndProcess
  <2>. QED  BY <1>3, <2>1, <2>2 DEF DeleteGroup
<1>4. ASSUME NEW d \in Devices, Commit(d) PROVE RecordsUnderOwnId'
  <2>1. CASE row[d] \in DOMAIN groups[d]
    <3>. DEFINE g == [groups[d][row[d]] EXCEPT !.talks = WithMessage(@, sent + 1)]
    <3>1. groups[d] \in Seq(Group)
      BY DEF TypeOK, UiTypeOK
    <3>2. groups[d][row[d]].taskId \in DocIds /\ g.taskId = groups[d][row[d]].taskId
      <4>1. groups[d][row[d]] \in Group
        BY <2>1, <3>1
      <4>. QED  BY <4>1 DEF Group
    <3>3. Write(d, g.taskId, g) /\ server' = server /\ cache' = cache
      BY <1>4, <2>1 DEF Commit, Save, Trap, EndProcess
    <3>. HIDE DEF g
    <3>. QED  BY <3>2, <3>3, OwnIdWrite DEF UnderOwnId
  <2>2. CASE Trap(d)
    BY <1>0, <2>2 DEF Trap, EndProcess
  <2>. QED  BY <1>4, <2>1, <2>2 DEF Commit
<1>5. ASSUME NEW d \in Devices, CreateGroup(d) PROVE RecordsUnderOwnId'
  <2>1. PICK id \in DocIds \ created : Write(d, id, [taskId |-> id, talks |-> <<>>])
    BY <1>5 DEF CreateGroup
  <2>. QED  BY <1>5, <2>1, OwnIdWrite DEF CreateGroup, UnderOwnId
<1>6. ASSUME NEW d \in Devices, Callback(d) PROVE RecordsUnderOwnId'
  BY <1>0, <1>6 DEF Callback, DeliverAppend, DeliverReplace, OnEvent, Trap, EndProcess
<1>7. ASSUME NEW d \in Devices, Launch(d) \/ Kill(d) PROVE RecordsUnderOwnId'
  BY <1>0, <1>7 DEF Launch, Kill, EndProcess
<1>8. ASSUME NEW d \in Devices, ShowGoTab(d) \/ ShowHomeTab(d) \/ Back(d)
      PROVE  RecordsUnderOwnId'
  BY <1>0, <1>8 DEF ShowGoTab, ShowHomeTab, Back, storeVars
<1>9. ASSUME NEW d \in Devices, DetailAppears(d) PROVE RecordsUnderOwnId'
  BY <1>0, <1>9 DEF DetailAppears, Trap, EndProcess
<1>10. ASSUME NEW d \in Devices, NEW r \in DOMAIN rows[d], OpenDetail(d, r)
       PROVE  RecordsUnderOwnId'
  BY <1>0, <1>10 DEF OpenDetail, storeVars, Trap, EndProcess
<1>11. ASSUME NEW d \in Devices, UserStep(d) PROVE RecordsUnderOwnId'
  BY <1>3, <1>4, <1>5, <1>8, <1>9, <1>10, <1>11 DEF UserStep
<1>. QED  BY <1>1, <1>2, <1>6, <1>7, <1>11 DEF Next

(* Whatever group a row has come to stand for when a message is sent or a  *)
(* row is swiped, no document ever holds the record of another group.      *)
THEOREM RecordsStayUnderOwnId == Spec => []RecordsUnderOwnId
<1>1. Init => RecordsUnderOwnId
  BY DEF Init, RecordsUnderOwnId, UnderOwnId
<1>. QED  BY <1>1, OwnIdNext, TypeCorrect, PTL DEF Spec

-----------------------------------------------------------------------------
(* The acknowledgement of a write changes nothing that its device sees,    *)
(* whatever else is queued behind it.                                      *)
THEOREM AcknowledgementsInvisible == Spec => AcknowledgementInvisible
<1>1. TypeOK => \A d \in Devices : Acknowledge(d) => View(d)' = View(d)
  BY AcknowledgeKeepsView DEF TypeOK
<1>. QED  BY <1>1, TypeCorrect, PTL DEF AcknowledgementInvisible
=============================================================================
