--------------------------- MODULE FirestoreProofs ---------------------------
(***************************************************************************)
(* What the Firestore client does to the types of its documents, for any   *)
(* set Data of contents and any set Ctx of callback contexts.  A screen's  *)
(* module uses these lemmas with the contents it cares about.              *)
(***************************************************************************)
EXTENDS Firestore, FiniteSetTheorems, WellFoundedInduction, TLAPS

Docs(Data) == [DocIds -> Data \cup {Absent}]

(* The view through cache and queue holds what the two hold.               *)
LEMMA OverlayType ==
    ASSUME NEW Data, NEW c \in Docs(Data), NEW q \in Seq(Mutations(Data))
    PROVE  Overlay(c, q) \in Docs(Data)
<1>1. ASSUME NEW id \in DocIds, LastMutation(q, id) # {}
      PROVE  q[CHOOSE i \in LastMutation(q, id) : TRUE].val \in Data \cup {Absent}
  <2>. DEFINE k == CHOOSE i \in LastMutation(q, id) : TRUE
  <2>1. k \in DOMAIN q
    BY <1>1 DEF LastMutation
  <2>. HIDE DEF k
  <2>2. q[k] \in Mutations(Data)
    BY <2>1
  <2>3. q[k].val \in Data \cup {Absent}
    BY <2>2 DEF Mutations
  <2>. QED  BY <2>3 DEF k
<1>. QED  BY <1>1 DEF Overlay, Docs

(* What the overlay shows is the document, or a queued mutation of it.     *)
LEMMA OverlayOrigin ==
    ASSUME NEW c, NEW q, NEW id \in DocIds
    PROVE  \/ Overlay(c, q)[id] = c[id]
           \/ \E i \in DOMAIN q : q[i].doc = id /\ Overlay(c, q)[id] = q[i].val
<1>1. CASE LastMutation(q, id) = {}
  BY <1>1 DEF Overlay
<1>2. CASE LastMutation(q, id) # {}
  <2>. DEFINE k == CHOOSE i \in LastMutation(q, id) : TRUE
  <2>1. k \in LastMutation(q, id)
    BY <1>2
  <2>2. Overlay(c, q)[id] = q[k].val
    BY <1>2 DEF Overlay
  <2>. QED  BY <2>1, <2>2 DEF LastMutation
<1>. QED  BY <1>1, <1>2

(* The answer to a query is a finite sequence of contents, without gaps.   *)
LEMMA ListingType ==
    ASSUME NEW Data, Absent \notin Data, NEW w \in Docs(Data), NEW s \in Listings(w)
    PROVE  Contents(w, s) \in Seq(Data)
<1>1. IsFiniteSet(DocIds)
  BY NumDocsAssumption, FS_Interval DEF DocIds
<1>2. Existing(w) \subseteq DocIds
  BY DEF Existing
<1>3. Cardinality(Existing(w)) \in Nat
  BY <1>1, <1>2, FS_Subset, FS_CardinalityType
<1>. DEFINE n == Cardinality(Existing(w))
<1>4. s \in [1 .. n -> Existing(w)]
  BY DEF Listings
<1>5. \A i \in 1 .. n : w[s[i]] \in Data
  BY <1>4 DEF Existing, Docs
<1>. HIDE DEF n
<1>6. Contents(w, s) \in [1 .. n -> Data]
  BY <1>4, <1>5 DEF Contents
<1>. QED  BY <1>3, <1>6 DEF n

(* A list appended to a list, and a value appended, stay lists of a type.  *)
LEMMA StoreTypeMonotone ==
    ASSUME NEW Data, NEW More, NEW Ctx, Data \subseteq More, StoreTypeOK(Data, Ctx)
    PROVE  StoreTypeOK(More, Ctx)
<1>1. Mutations(Data) \subseteq Mutations(More)
  BY DEF Mutations
<1>2. Answers(Data, Ctx) \subseteq Answers(More, Ctx)
  <2>1. Seq(Data) \subseteq Seq(More)
    OBVIOUS
  <2>. QED  BY <2>1 DEF Answers
<1>3. /\ Seq(Mutations(Data)) \subseteq Seq(Mutations(More))
      /\ Seq(Answers(Data, Ctx)) \subseteq Seq(Answers(More, Ctx))
  BY <1>1, <1>2
<1>4. /\ server \in [DocIds -> More \cup {Absent}]
      /\ cache \in [Devices -> [DocIds -> More \cup {Absent}]]
  BY DEF StoreTypeOK
<1>5. /\ queue \in [Devices -> Seq(Mutations(More))]
      /\ results \in [Devices -> Seq(Answers(More, Ctx))]
  BY <1>3 DEF StoreTypeOK
<1>. QED  BY <1>4, <1>5 DEF StoreTypeOK

-----------------------------------------------------------------------------
(* Calls of the API *)

(* Queueing a mutation with contents of the type keeps the queues' type.   *)
LEMMA WriteType ==
    ASSUME NEW Data, NEW Ctx, StoreTypeOK(Data, Ctx), NEW d \in Devices,
           NEW id \in DocIds, NEW val \in Data \cup {Absent}, Write(d, id, val)
    PROVE  queue' \in [Devices -> Seq(Mutations(Data))]
<1>1. [doc |-> id, val |-> val] \in Mutations(Data)
  BY DEF Mutations
<1>2. queue[d] \in Seq(Mutations(Data))
  BY DEF StoreTypeOK
<1>3. Append(queue[d], [doc |-> id, val |-> val]) \in Seq(Mutations(Data))
  BY <1>1, <1>2
<1>. QED  BY <1>3 DEF Write, StoreTypeOK

(* Each call keeps the types of what it changes.                           *)
LEMMA ListenType ==
    ASSUME NEW Data, NEW Ctx, StoreTypeOK(Data, Ctx), NEW d \in Devices,
           NEW id \in DocIds, NEW ctx \in Ctx, Listen(d, id, ctx)
    PROVE  /\ watched' \in [Devices -> SUBSET Listeners(Ctx)]
           /\ dirty' \in [Devices -> SUBSET Listeners(Ctx)]
<1>1. [doc |-> id, ctx |-> ctx] \in Listeners(Ctx)
  BY DEF Listeners
<1>2. Touched(d, cache[d], queue'[d]) \subseteq Listeners(Ctx)
  BY DEF Touched, StoreTypeOK
<1>. QED  BY <1>1, <1>2 DEF Listen, StoreTypeOK

LEMMA RequestGetType ==
    ASSUME NEW Data, NEW Ctx, StoreTypeOK(Data, Ctx), NEW d \in Devices,
           NEW ctx \in Ctx, RequestGet(d, ctx)
    PROVE  gets' \in [Devices -> Seq(Ctx)]
<1>1. Append(gets[d], ctx) \in Seq(Ctx)
  BY DEF StoreTypeOK
<1>. QED  BY <1>1 DEF RequestGet, StoreTypeOK

LEMMA DropCallbacksType ==
    ASSUME NEW Data, NEW Ctx, StoreTypeOK(Data, Ctx), NEW d \in Devices,
           DropCallbacks(d), UNCHANGED <<server, cache, queue>>
    PROVE  StoreTypeOK(Data, Ctx)'
<1>1. /\ watched' \in [Devices -> SUBSET Listeners(Ctx)]
      /\ dirty' \in [Devices -> SUBSET Listeners(Ctx)]
  BY DEF DropCallbacks, StoreTypeOK
<1>2. /\ gets' \in [Devices -> Seq(Ctx)]
      /\ results' \in [Devices -> Seq(Answers(Data, Ctx))]
  BY DEF DropCallbacks, StoreTypeOK
<1>. QED  BY <1>1, <1>2 DEF StoreTypeOK

-----------------------------------------------------------------------------
(* Steps of the SDK and of the backend *)

LEMMA ApplyType ==
    ASSUME NEW Data, NEW Ctx, StoreTypeOK(Data, Ctx), NEW d \in Devices,
           NEW c \in Docs(Data), NEW q \in Seq(Mutations(Data)), Apply(d, c, q)
    PROVE  /\ cache' \in [Devices -> Docs(Data)]
           /\ queue' \in [Devices -> Seq(Mutations(Data))]
           /\ dirty' \in [Devices -> SUBSET Listeners(Ctx)]
<1>1. Touched(d, c, q) \subseteq Listeners(Ctx)
  BY DEF Touched, StoreTypeOK
<1>2. dirty' \in [Devices -> SUBSET Listeners(Ctx)]
  BY <1>1 DEF Apply, StoreTypeOK
<1>. QED  BY <1>2 DEF Apply, StoreTypeOK, Docs

(* An answer put at the end of the results, its read taken off the gets.   *)
LEMMA AnswerType ==
    ASSUME NEW Data, NEW Ctx, StoreTypeOK(Data, Ctx), NEW d \in Devices,
           gets[d] # <<>>, NEW ok \in BOOLEAN, NEW docs \in Seq(Data)
    PROVE  /\ Append(results[d], [ctx |-> Head(gets[d]), ok |-> ok, docs |-> docs])
                  \in Seq(Answers(Data, Ctx))
           /\ [gets EXCEPT ![d] = Tail(@)] \in [Devices -> Seq(Ctx)]
<1>1. /\ gets[d] \in Seq(Ctx)
      /\ results[d] \in Seq(Answers(Data, Ctx))
  BY DEF StoreTypeOK
<1>2. Head(gets[d]) \in Ctx /\ Tail(gets[d]) \in Seq(Ctx)
  BY <1>1
<1>3. [ctx |-> Head(gets[d]), ok |-> ok, docs |-> docs] \in Answers(Data, Ctx)
  BY <1>2 DEF Answers
<1>. QED  BY <1>1, <1>2, <1>3 DEF StoreTypeOK

(* Every step of the SDK and of the backend keeps the types.               *)
THEOREM SdkStepType ==
    ASSUME NEW Data, NEW Ctx, Absent \notin Data, StoreTypeOK(Data, Ctx),
           NEW d \in Devices, SdkStep(d)
    PROVE  StoreTypeOK(Data, Ctx)'
<1>. USE DEF Docs
<1>0. /\ server \in Docs(Data)
      /\ cache[d] \in Docs(Data)
      /\ queue[d] \in Seq(Mutations(Data))
  BY DEF StoreTypeOK
<1>1. CASE Acknowledge(d)
  <2>. DEFINE m == Head(queue[d])
  <2>1. m \in Mutations(Data) /\ Tail(queue[d]) \in Seq(Mutations(Data))
    BY <1>0, <1>1 DEF Acknowledge
  <2>2. m.doc \in DocIds /\ m.val \in Data \cup {Absent}
    BY <2>1 DEF Mutations
  <2>3. /\ server' = [server EXCEPT ![m.doc] = m.val]
        /\ Apply(d, [cache[d] EXCEPT ![m.doc] = m.val], Tail(queue[d]))
    BY <1>1 DEF Acknowledge
  <2>. HIDE DEF m
  <2>4. [cache[d] EXCEPT ![m.doc] = m.val] \in Docs(Data)
    BY <1>0, <2>2
  <2>5. server' \in Docs(Data)
    BY <1>0, <2>2, <2>3
  <2>6. /\ cache' \in [Devices -> Docs(Data)]
        /\ queue' \in [Devices -> Seq(Mutations(Data))]
        /\ dirty' \in [Devices -> SUBSET Listeners(Ctx)]
    BY <2>1, <2>3, <2>4, ApplyType
  <2>. QED  BY <1>1, <2>5, <2>6 DEF Acknowledge, StoreTypeOK
<1>2. CASE Reject(d)
  <2>1. Tail(queue[d]) \in Seq(Mutations(Data))
    BY <1>0, <1>2 DEF Reject
  <2>2. Apply(d, cache[d], Tail(queue[d]))
    BY <1>2 DEF Reject
  <2>3. /\ cache' \in [Devices -> Docs(Data)]
        /\ queue' \in [Devices -> Seq(Mutations(Data))]
        /\ dirty' \in [Devices -> SUBSET Listeners(Ctx)]
    BY <1>0, <2>1, <2>2, ApplyType
  <2>. QED  BY <1>2, <2>3 DEF Reject, StoreTypeOK
<1>3. CASE Watch(d)
  <2>. DEFINE c == [id \in DocIds |-> IF id \in WatchedDocs(d) THEN server[id]
                                                            ELSE cache[d][id]]
  <2>1. c \in Docs(Data)
    BY <1>0
  <2>2. Apply(d, c, queue[d])
    BY <1>3 DEF Watch
  <2>. HIDE DEF c
  <2>3. /\ cache' \in [Devices -> Docs(Data)]
        /\ queue' \in [Devices -> Seq(Mutations(Data))]
        /\ dirty' \in [Devices -> SUBSET Listeners(Ctx)]
    BY <1>0, <2>1, <2>2, ApplyType
  <2>. QED  BY <1>3, <2>3 DEF Watch, StoreTypeOK
<1>4. CASE AnswerFromServer(d)
  <2>. DEFINE w == Overlay(server, queue[d])
  <2>1. w \in Docs(Data)
    BY <1>0, OverlayType
  <2>2. PICK s \in Listings(w) :
            results' = [results EXCEPT ![d] = Append(@,
                [ctx |-> Head(gets[d]), ok |-> TRUE, docs |-> Contents(w, s)])]
    BY <1>4 DEF AnswerFromServer
  <2>. HIDE DEF w
  <2>3. Contents(w, s) \in Seq(Data)
    BY <2>1, ListingType
  <2>4. /\ results' \in [Devices -> Seq(Answers(Data, Ctx))]
        /\ gets' \in [Devices -> Seq(Ctx)]
    BY <1>4, <2>2, <2>3, AnswerType DEF AnswerFromServer, StoreTypeOK
  <2>5. /\ cache' \in [Devices -> Docs(Data)]
        /\ queue' \in [Devices -> Seq(Mutations(Data))]
        /\ dirty' \in [Devices -> SUBSET Listeners(Ctx)]
    BY <1>0, <1>4, ApplyType DEF AnswerFromServer
  <2>. QED  BY <1>4, <2>4, <2>5 DEF AnswerFromServer, StoreTypeOK
<1>5. CASE AnswerFromCache(d)
  <2>. DEFINE w == View(d)
  <2>1. w \in Docs(Data)
    BY <1>0, OverlayType DEF View
  <2>2. PICK s \in Listings(w) :
            results' = [results EXCEPT ![d] = Append(@,
                [ctx |-> Head(gets[d]), ok |-> TRUE, docs |-> Contents(w, s)])]
    BY <1>5 DEF AnswerFromCache
  <2>. HIDE DEF w
  <2>3. Contents(w, s) \in Seq(Data)
    BY <2>1, ListingType
  <2>4. /\ results' \in [Devices -> Seq(Answers(Data, Ctx))]
        /\ gets' \in [Devices -> Seq(Ctx)]
    BY <1>5, <2>2, <2>3, AnswerType DEF AnswerFromCache, StoreTypeOK
  <2>. QED  BY <1>5, <2>4 DEF AnswerFromCache, StoreTypeOK
<1>6. CASE AnswerWithError(d)
  <2>1. /\ results' \in [Devices -> Seq(Answers(Data, Ctx))]
        /\ gets' \in [Devices -> Seq(Ctx)]
    <3>1. <<>> \in Seq(Data)
      OBVIOUS
    <3>. QED  BY <1>6, <3>1, AnswerType DEF AnswerWithError, StoreTypeOK
  <2>. QED  BY <1>6, <2>1 DEF AnswerWithError, StoreTypeOK
<1>7. CASE CommitUnacknowledged(d)
  <2>1. PICK k \in 1 .. Len(queue[d]) :
            server' = Overlay(server, SubSeq(queue[d], 1, k))
    BY <1>7 DEF CommitUnacknowledged
  <2>2. SubSeq(queue[d], 1, k) \in Seq(Mutations(Data))
    BY <1>0
  <2>3. server' \in Docs(Data)
    BY <1>0, <2>1, <2>2, OverlayType
  <2>. QED  BY <1>7, <2>3 DEF CommitUnacknowledged, StoreTypeOK
<1>. QED  BY <1>1, <1>2, <1>3, <1>4, <1>5, <1>6, <1>7 DEF SdkStep, Answer

-----------------------------------------------------------------------------
(* The view does not change when the backend acknowledges                  *)

(* A set of numbers has a smallest element, a bounded one a greatest.      *)
LEMMA SmallestNumber ==
    ASSUME NEW T, T \subseteq Nat, T # {}
    PROVE  \E x \in T : \A y \in T : x <= y
<1>1. \E x \in T : \A y \in T : ~ (<<y, x>> \in OpToRel(<, Nat))
  BY NatLessThanWellFounded, WFMin
<1>2. PICK x \in T : \A y \in T : ~ (<<y, x>> \in OpToRel(<, Nat))
  BY <1>1
<1>3. ASSUME NEW y \in T PROVE x <= y
  <2>1. ~ (<<y, x>> \in OpToRel(<, Nat))
    BY <1>2
  <2>2. ~ (y < x)
    BY <2>1 DEF OpToRel
  <2>. QED  BY <2>2
<1>. QED  BY <1>3

(* A set of numbers of an interval has a greatest one.                     *)
LEMMA GreatestNumber ==
    ASSUME NEW n \in Nat, NEW T, T \subseteq 1 .. n, T # {}
    PROVE  \E x \in T : \A y \in T : y <= x
<1>. DEFINE U == {n - y : y \in T}
<1>1. U \subseteq Nat /\ U # {}
  <2>1. ASSUME NEW y \in T PROVE n - y \in Nat
    <3>1. y \in 1 .. n
      OBVIOUS
    <3>. QED  BY <3>1
  <2>2. PICK y \in T : TRUE
    OBVIOUS
  <2>3. n - y \in U
    BY <2>2
  <2>. QED  BY <2>1, <2>3
<1>2. PICK u \in U : \A v \in U : u <= v
  BY <1>1, SmallestNumber
<1>3. PICK x \in T : u = n - x
  OBVIOUS
<1>4. ASSUME NEW y \in T PROVE y <= x
  <2>1. n - x <= n - y
    BY <1>2, <1>3
  <2>. QED  BY <2>1
<1>. QED  BY <1>4

(* There is one last mutation of a document at most, and one if any.       *)
LEMMA LastMutationUnique ==
    ASSUME NEW M, NEW q \in Seq(M), NEW id,
           NEW i \in LastMutation(q, id), NEW j \in LastMutation(q, id)
    PROVE  i = j
<1>1. i \in Nat /\ j \in Nat
  BY DEF LastMutation
<1>2. ~(i < j) /\ ~(j < i)
  BY DEF LastMutation
<1>. QED  BY <1>1, <1>2

(* Without its head, a queue has the same last mutations one place before, *)
(* but for the head itself where it is the last of its document.           *)
LEMMA LastMutationOfTail ==
    ASSUME NEW M, NEW q \in Seq(M), q # <<>>, NEW id
    PROVE  /\ \A i : i \in LastMutation(Tail(q), id) => i + 1 \in LastMutation(q, id)
           /\ \A i \in LastMutation(q, id) : i # 1 => i - 1 \in LastMutation(Tail(q), id)
           /\ q[1].doc = id /\ LastMutation(Tail(q), id) = {} => 1 \in LastMutation(q, id)
           /\ 1 \in LastMutation(q, id) => q[1].doc = id
<1>. DEFINE t == Tail(q)
            n == Len(q)
<1>1. /\ n \in Nat /\ n >= 1 /\ DOMAIN q = 1 .. n /\ DOMAIN t = 1 .. n - 1
      /\ \A i \in 1 .. n - 1 : t[i] = q[i + 1]
  BY DEF t
<1>. HIDE DEF t, n
<1>2. ASSUME NEW i \in LastMutation(t, id) PROVE i + 1 \in LastMutation(q, id)
  <2>1. i \in 1 .. n - 1 /\ t[i].doc = id /\ \A j \in 1 .. n - 1 : j > i => t[j].doc # id
    BY <1>1 DEF LastMutation
  <2>2. i + 1 \in 1 .. n /\ q[i + 1].doc = id
    BY <1>1, <2>1
  <2>3. ASSUME NEW j \in 1 .. n, j > i + 1 PROVE q[j].doc # id
    <3>1. j - 1 \in 1 .. n - 1 /\ j - 1 > i /\ (j - 1) + 1 = j
      BY <1>1, <2>1, <2>3
    <3>2. t[j - 1] = q[j]
      BY <1>1, <3>1
    <3>. QED  BY <2>1, <3>1, <3>2
  <2>. QED  BY <1>1, <2>2, <2>3 DEF LastMutation
<1>3. ASSUME NEW i \in LastMutation(q, id), i # 1 PROVE i - 1 \in LastMutation(t, id)
  <2>1. i \in 1 .. n /\ q[i].doc = id /\ \A j \in 1 .. n : j > i => q[j].doc # id
    BY <1>1 DEF LastMutation
  <2>2. i - 1 \in 1 .. n - 1 /\ (i - 1) + 1 = i
    BY <1>1, <1>3, <2>1
  <2>3. t[i - 1].doc = id
    BY <1>1, <2>1, <2>2
  <2>4. ASSUME NEW j \in 1 .. n - 1, j > i - 1 PROVE t[j].doc # id
    <3>1. j + 1 \in 1 .. n /\ j + 1 > i
      BY <1>1, <2>1, <2>4
    <3>. QED  BY <1>1, <2>1, <3>1
  <2>. QED  BY <1>1, <2>2, <2>3, <2>4 DEF LastMutation
<1>4. ASSUME q[1].doc = id, LastMutation(t, id) = {} PROVE 1 \in LastMutation(q, id)
  <2>. DEFINE T == {k \in 1 .. n : q[k].doc = id}
  <2>1. 1 \in T
    BY <1>1, <1>4
  <2>2. PICK k \in T : \A l \in T : l <= k
    BY <1>1, <2>1, GreatestNumber
  <2>3. k \in LastMutation(q, id)
    BY <1>1, <2>2 DEF LastMutation
  <2>. QED  BY <1>3, <1>4, <2>3
<1>. QED  BY <1>2, <1>3, <1>4 DEF LastMutation, t

(* The oldest mutation moved from the queue into the cache shows the same. *)
LEMMA AcknowledgedOverlay ==
    ASSUME NEW c, c \in [DocIds -> {c[id] : id \in DocIds}], NEW M, NEW q \in Seq(M),
           q # <<>>, q[1].doc \in DocIds
    PROVE  Overlay([c EXCEPT ![q[1].doc] = q[1].val], Tail(q)) = Overlay(c, q)
<1>. DEFINE m == q[1]
            new == [c EXCEPT ![m.doc] = m.val]
            t == Tail(q)
<1>1. ASSUME NEW id \in DocIds PROVE Overlay(new, t)[id] = Overlay(c, q)[id]
  <2>1. CASE LastMutation(t, id) # {}
    <3>1. PICK i : i \in LastMutation(t, id)
      BY <2>1
    <3>2. i + 1 \in LastMutation(q, id) /\ i \in 1 .. Len(q) - 1 /\ t[i] = q[i + 1]
      BY <3>1, LastMutationOfTail DEF LastMutation
    <3>3. (CHOOSE j \in LastMutation(t, id) : TRUE) = i
      <4>1. (CHOOSE j \in LastMutation(t, id) : TRUE) \in LastMutation(t, id)
        BY <3>1
      <4>2. t \in Seq(M)
        OBVIOUS
      <4>. QED  BY <3>1, <4>1, <4>2, LastMutationUnique
    <3>4. (CHOOSE j \in LastMutation(q, id) : TRUE) = i + 1
      <4>1. (CHOOSE j \in LastMutation(q, id) : TRUE) \in LastMutation(q, id)
        BY <3>2
      <4>. QED  BY <3>2, <4>1, LastMutationUnique
    <3>. QED  BY <2>1, <3>2, <3>3, <3>4 DEF Overlay
  <2>2. CASE LastMutation(t, id) = {} /\ m.doc = id
    <3>1. 1 \in LastMutation(q, id)
      BY <2>2, LastMutationOfTail
    <3>2. (CHOOSE j \in LastMutation(q, id) : TRUE) = 1
      <4>1. (CHOOSE j \in LastMutation(q, id) : TRUE) \in LastMutation(q, id)
        BY <3>1
      <4>. QED  BY <3>1, <4>1, LastMutationUnique
    <3>3. Overlay(new, t)[id] = m.val
      BY <2>2 DEF Overlay
    <3>. QED  BY <3>1, <3>2, <3>3 DEF Overlay
  <2>3. CASE LastMutation(t, id) = {} /\ m.doc # id
    <3>1. LastMutation(q, id) = {}
      <4>1. SUFFICES ASSUME NEW i \in LastMutation(q, id) PROVE FALSE
        OBVIOUS
      <4>2. i # 1
        BY <2>3, LastMutationOfTail
      <4>. QED  BY <2>3, <4>2, LastMutationOfTail
    <3>2. Overlay(new, t)[id] = c[id]
      BY <2>3 DEF Overlay
    <3>. QED  BY <3>1, <3>2 DEF Overlay
  <2>. QED  BY <2>1, <2>2, <2>3
<1>. QED  BY <1>1 DEF Overlay

(* The device's view is the same before and after an acknowledgement.      *)
THEOREM AcknowledgeKeepsView ==
    ASSUME NEW Data, NEW Ctx, StoreTypeOK(Data, Ctx), NEW d \in Devices, Acknowledge(d)
    PROVE  View(d)' = View(d)
<1>1. queue[d] \in Seq(Mutations(Data)) /\ queue[d] # <<>>
  BY DEF StoreTypeOK, Acknowledge
<1>2. queue[d][1] \in Mutations(Data) /\ Head(queue[d]) = queue[d][1]
  BY <1>1
<1>3. queue[d][1].doc \in DocIds
  BY <1>2 DEF Mutations
<1>4. cache[d] \in [DocIds -> {cache[d][id] : id \in DocIds}]
  BY DEF StoreTypeOK
<1>5. /\ cache'[d] = [cache[d] EXCEPT ![queue[d][1].doc] = queue[d][1].val]
      /\ queue'[d] = Tail(queue[d])
  BY <1>2 DEF Acknowledge, Apply, StoreTypeOK
<1>6. Overlay([cache[d] EXCEPT ![queue[d][1].doc] = queue[d][1].val], Tail(queue[d]))
         = Overlay(cache[d], queue[d])
  BY <1>1, <1>3, <1>4, AcknowledgedOverlay
<1>. QED  BY <1>5, <1>6 DEF View
=============================================================================
