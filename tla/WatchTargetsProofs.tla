-------------------------- MODULE WatchTargetsProofs --------------------------
(***************************************************************************)
(* Proofs about listening, for any documents, targets, bounds and          *)
(* failures.                                                               *)
(*                                                                         *)
(* The argument: the count of outstanding responses of a target is the     *)
(* number of its requests that are not answered plus the number of its     *)
(* answers that are not read, because a request raises the count when it   *)
(* is sent, and nothing is under way on a stream that is not open.  So it  *)
(* is never negative, and a target is active only when nothing of a former *)
(* life of it is under way: what is aggregated then is about its view.     *)
(***************************************************************************)
EXTENDS WatchTargetsProperties, FiniteSetTheorems, FunctionTheorems, SequenceTheorems,
        WellFoundedInduction, TLAPS

IsResponse(m, t) == m.target = t /\ m.type \in {"added", "removed"}

ResponsesIn(w, t) == {i \in 1 .. Len(w) : IsResponse(w[i], t)}

(* Every message but a snapshot is about a target.                         *)
WireInv == \A i \in 1 .. Len(wire) : wire[i].type # "snapshot" => wire[i].target \in Targets

(* Nothing is under way on a stream that is not open.                      *)
QuietInv == stream # "open" => /\ wire = <<>>
                               /\ \A t \in Targets : /\ asked[t] = <<>> /\ agg[t] = Fresh
                                                     /\ ~sub[t].on

AckInv == \A i \in 1 .. Len(unacked) : unacked[i] \in 1 .. Len(hist)

(* OwedIsUnderWay, with the positions of the messages.                     *)
OwedInv ==
    \A t \in Targets : agg[t].owed = Len(asked[t]) + Cardinality(ResponsesIn(wire, t))

(* The inductive invariant.                                                *)
WatchInv == TypeOK /\ OwedInv /\ WireInv /\ QuietInv /\ AckInv /\ WatchAssertionsHold

(* The names of the types.                                                 *)
Kinds      == {"none", "added", "modified", "removed"}
Aggregates == [owed : Nat, current : BOOLEAN, changes : [Docs -> Kinds]]
Writes     == [doc : Docs, there : BOOLEAN]

(* What is marked as modified or removed is among the keys.                *)
Marked(a, ks) == \A d \in Docs : a.changes[d] \in {"modified", "removed"} => d \in ks

-----------------------------------------------------------------------------
(* Responses under way *)

(* The answers among the messages are finitely many.                       *)
LEMMA ResponsesFinite ==
    ASSUME NEW w \in Seq(Messages), NEW t
    PROVE  IsFiniteSet(ResponsesIn(w, t)) /\ Cardinality(ResponsesIn(w, t)) \in Nat
<1>1. IsFiniteSet(1 .. Len(w))
  BY FS_Interval
<1>2. ResponsesIn(w, t) \in SUBSET (1 .. Len(w))
  BY DEF ResponsesIn
<1>. QED  BY <1>1, <1>2, FS_Subset, FS_CardinalityType

(* A message of the lengthened wire is an old one or the new one.          *)
LEMMA AppendedAt ==
    ASSUME NEW w \in Seq(Messages), NEW m \in Messages, NEW i \in 1 .. Len(Append(w, m))
    PROVE  (i \in 1 .. Len(w) /\ Append(w, m)[i] = w[i]) \/ Append(w, m)[i] = m
<1>1. Len(Append(w, m)) = Len(w) + 1 /\ Len(w) \in Nat
  OBVIOUS
<1>2. i \in 1 .. Len(w) \/ i = Len(w) + 1
  BY <1>1
<1>. QED  BY <1>1, <1>2

(* A message more.                                                         *)
LEMMA ResponsesAppend ==
    ASSUME NEW w \in Seq(Messages), NEW m \in Messages, NEW t
    PROVE  Cardinality(ResponsesIn(Append(w, m), t))
               = Cardinality(ResponsesIn(w, t)) + (IF IsResponse(m, t) THEN 1 ELSE 0)
<1>. DEFINE a == Append(w, m)
            n == Len(w) + 1
<1>1. /\ a \in Seq(Messages) /\ Len(a) = n /\ n \in Nat /\ a[n] = m
      /\ \A i \in 1 .. Len(w) : a[i] = w[i]
  OBVIOUS
<1>2. n \notin ResponsesIn(w, t)
  BY DEF ResponsesIn
<1>. HIDE DEF a
<1>3. CASE IsResponse(m, t)
  <2>1. ResponsesIn(a, t) = ResponsesIn(w, t) \cup {n}
    BY <1>1, <1>3 DEF ResponsesIn
  <2>. QED  BY <2>1, <1>2, <1>3, ResponsesFinite, FS_AddElement DEF a
<1>4. CASE ~IsResponse(m, t)
  <2>1. ResponsesIn(a, t) = ResponsesIn(w, t)
    BY <1>1, <1>4 DEF ResponsesIn
  <2>. QED  BY <2>1, <1>4, ResponsesFinite DEF a
<1>. QED  BY <1>3, <1>4

(* The oldest message read.                                                *)
LEMMA ResponsesTail ==
    ASSUME NEW w \in Seq(Messages), w # <<>>, NEW t
    PROVE  Cardinality(ResponsesIn(w, t))
               = Cardinality(ResponsesIn(Tail(w), t)) + (IF IsResponse(Head(w), t) THEN 1 ELSE 0)
<1>. DEFINE v == Tail(w)
            R == ResponsesIn(w, t) \ {1}
            S == ResponsesIn(v, t)
            f == [i \in S |-> i + 1]
<1>1. /\ v \in Seq(Messages) /\ Len(w) \in Nat /\ Len(w) >= 1 /\ Len(v) = Len(w) - 1
      /\ Head(w) = w[1] /\ \A i \in 1 .. Len(v) : v[i] = w[i + 1]
  OBVIOUS
<1>. HIDE DEF v
<1>2. S \subseteq Nat /\ IsFiniteSet(S)
  <2>1. S \subseteq 1 .. Len(v) /\ 1 .. Len(v) \subseteq Nat
    BY <1>1 DEF ResponsesIn
  <2>. QED  BY <2>1, <1>1, ResponsesFinite
<1>3. \A i \in S : i + 1 \in R
  BY <1>1 DEF ResponsesIn
<1>4. \A j \in R : j - 1 \in S /\ j = (j - 1) + 1
  <2>. SUFFICES ASSUME NEW j \in R PROVE j - 1 \in S /\ j = (j - 1) + 1
    OBVIOUS
  <2>1. j \in 2 .. Len(w) /\ IsResponse(w[j], t)
    BY DEF ResponsesIn
  <2>2. j - 1 \in 1 .. Len(v) /\ j = (j - 1) + 1
    BY <2>1, <1>1
  <2>3. v[j - 1] = w[j]
    BY <1>1, <2>2
  <2>. QED  BY <2>1, <2>2, <2>3 DEF ResponsesIn
<1>. HIDE DEF R, S
<1>5. f \in Bijection(S, R)
  <2>1. f \in [S -> R] /\ \A a, b \in S : a # b => f[a] # f[b]
    BY <1>2, <1>3
  <2>2. \A j \in R : \E i \in S : f[i] = j
    BY <1>4
  <2>. QED  BY <2>1, <2>2, Fun_IsBij
<1>6. Cardinality(R) = Cardinality(S) /\ IsFiniteSet(R)
  BY <1>2, <1>5, FS_Bijection DEF ExistsBijection
<1>7. 1 \in ResponsesIn(w, t) <=> IsResponse(Head(w), t)
  BY <1>1 DEF ResponsesIn
<1>8. IsFiniteSet(ResponsesIn(w, t)) /\ Cardinality(ResponsesIn(w, t)) \in Nat
  BY ResponsesFinite
<1>9. Cardinality(R) = IF 1 \in ResponsesIn(w, t) THEN Cardinality(ResponsesIn(w, t)) - 1
                                                  ELSE Cardinality(ResponsesIn(w, t))
  BY <1>8, FS_RemoveElement DEF R
<1>. QED  BY <1>6, <1>7, <1>8, <1>9 DEF S, v

(* Messages more that are no responses.                                    *)
LEMMA ResponsesConcat ==
    ASSUME NEW w \in Seq(Messages), NEW u \in Seq(Messages), NEW t,
           \A i \in 1 .. Len(u) : ~IsResponse(u[i], t)
    PROVE  ResponsesIn(w \o u, t) = ResponsesIn(w, t)
<1>1. /\ Len(w \o u) = Len(w) + Len(u) /\ Len(w) \in Nat /\ Len(u) \in Nat
      /\ \A i \in 1 .. Len(w) : (w \o u)[i] = w[i]
  OBVIOUS
<1>2. \A i \in 1 .. Len(w \o u) : i \notin 1 .. Len(w) =>
          i - Len(w) \in 1 .. Len(u) /\ (w \o u)[i] = u[i - Len(w)]
  BY <1>1
<1>. DEFINE c == w \o u
<1>. HIDE DEF c
<1>. QED  BY <1>1, <1>2 DEF ResponsesIn, c

-----------------------------------------------------------------------------
(* The state of a target *)

(* A fresh state owes nothing and marks nothing.                           *)
LEMMA FreshType ==
    /\ Fresh \in Aggregates /\ Fresh.owed = 0
    /\ Fresh.changes \in [Docs -> Kinds]
    /\ \A d \in Docs : Fresh.changes[d] = "none"
BY DEF Fresh, Aggregates, Kinds

(* What is marked as modified or removed was among the keys.               *)
LEMMA ChangeType ==
    ASSUME NEW ks, NEW d, NEW there \in BOOLEAN
    PROVE  /\ Change(ks, d, there) \in Kinds
           /\ Change(ks, d, there) \in {"modified", "removed"} => d \in ks
<1>1. CASE there /\ d \in ks
  BY <1>1 DEF Change, Kinds
<1>2. CASE there /\ d \notin ks
  BY <1>2 DEF Change, Kinds
<1>3. CASE ~there /\ d \in ks
  BY <1>3 DEF Change, Kinds
<1>4. CASE ~there /\ d \notin ks
  BY <1>4 DEF Change, Kinds
<1>. QED  BY <1>1, <1>2, <1>3, <1>4

(* A reset state owes nothing and marks keys only.                         *)
LEMMA ResetType ==
    ASSUME NEW ks
    PROVE  Reset(ks) \in Aggregates /\ Reset(ks).owed = 0 /\ Marked(Reset(ks), ks)
<1>. DEFINE c == [d \in Docs |-> IF d \in ks THEN "removed" ELSE "none"]
<1>1. c \in [Docs -> Kinds]
  BY DEF Kinds
<1>2. \A d \in Docs : c[d] \in {"modified", "removed"} => d \in ks
  OBVIOUS
<1>3. Reset(ks) = [Fresh EXCEPT !.changes = c]
  BY DEF Reset
<1>. HIDE DEF c
<1>4. Reset(ks).changes = c
  BY <1>3, FreshType DEF Aggregates
<1>. QED  BY <1>1, <1>2, <1>3, <1>4, FreshType DEF Aggregates, Marked

(* A message leaves a target owing nothing, with marks on keys only.       *)
LEMMA AggregatedType ==
    ASSUME NEW a \in Aggregates, a.owed = 0, NEW ks, Marked(a, ks), NEW m \in Messages
    PROVE  /\ Aggregated(a, ks, m) \in Aggregates /\ Aggregated(a, ks, m).owed = 0
           /\ Marked(Aggregated(a, ks, m), ks)
<1>. DEFINE b == IF m.reset THEN Reset(ks) ELSE a
            c == [d \in Docs |-> IF m.changes[d] = Nothing THEN b.changes[d]
                                 ELSE Change(ks, d, m.changes[d].there)]
<1>1. b \in Aggregates /\ b.owed = 0 /\ Marked(b, ks)
  BY ResetType
<1>2. Aggregated(a, ks, m) = [b EXCEPT !.current = TRUE, !.changes = c]
  BY DEF Aggregated
<1>. HIDE DEF b
<1>3. ASSUME NEW d \in Docs
      PROVE  c[d] \in Kinds /\ (c[d] \in {"modified", "removed"} => d \in ks)
  <2>1. CASE m.changes[d] = Nothing
    BY <2>1, <1>1 DEF Aggregates, Marked
  <2>2. CASE m.changes[d] # Nothing
    <3>1. m.changes[d].there \in BOOLEAN
      BY <2>2 DEF Messages, Entry
    <3>. QED  BY <2>2, <3>1, ChangeType
  <2>. QED  BY <2>1, <2>2
<1>4. c \in [Docs -> Kinds]
  BY <1>3
<1>. HIDE DEF c
<1>5. Aggregated(a, ks, m).changes = c
  BY <1>1, <1>2 DEF Aggregates
<1>. QED  BY <1>1, <1>2, <1>3, <1>4, <1>5 DEF Aggregates, Marked

-----------------------------------------------------------------------------
(* The documents of the backend *)

(* A set of numbers has a smallest one.                                    *)
LEMMA SmallestNumber ==
    ASSUME NEW T, T \subseteq Nat, T # {}
    PROVE  \E x \in T : \A y \in T : x <= y
<1>1. PICK x \in T : \A y \in T : ~ (<<y, x>> \in OpToRel(<, Nat))
  BY NatLessThanWellFounded, WFMin
<1>2. ASSUME NEW y \in T PROVE x <= y
  <2>1. ~ (y < x)
    BY <1>1 DEF OpToRel
  <2>. QED  BY <2>1
<1>. QED  BY <1>2

(* A document has a last change, or was never changed.                     *)
LEMMA LastChangeType ==
    ASSUME NEW h, NEW d, NEW v \in Nat
    PROVE  /\ LastChange(h, d, v) \in 0 .. v
           /\ LastChange(h, d, v) > 0 => h[LastChange(h, d, v)].doc = d
           /\ \A j \in LastChange(h, d, v) + 1 .. v : h[j].doc # d
<1>. DEFINE IsLast(i) == /\ i > 0 => h[i].doc = d
                         /\ \A j \in i + 1 .. v : h[j].doc # d
<1>1. \E i \in 0 .. v : IsLast(i)
  <2>. DEFINE C == {v - i : i \in {k \in 1 .. v : h[k].doc = d}}
  <2>1. CASE C = {}
    <3>1. \A k \in 1 .. v : h[k].doc # d
      BY <2>1
    <3>. QED  BY <3>1
  <2>2. CASE C # {}
    <3>1. C \subseteq Nat
      OBVIOUS
    <3>2. PICK c \in C : \A y \in C : c <= y
      BY <2>2, <3>1, SmallestNumber
    <3>3. PICK i \in 1 .. v : h[i].doc = d /\ c = v - i
      OBVIOUS
    <3>4. ASSUME NEW j \in i + 1 .. v PROVE h[j].doc # d
      <4>1. j \in 1 .. v /\ v - j < c
        BY <3>3
      <4>2. h[j].doc = d => v - j \in C
        BY <4>1
      <4>. QED  BY <4>1, <4>2, <3>2, <3>1
    <3>. QED  BY <3>3, <3>4
  <2>. QED  BY <2>1, <2>2
<1>2. LastChange(h, d, v) = CHOOSE i \in 0 .. v : IsLast(i)
  BY DEF LastChange
<1>3. LastChange(h, d, v) \in 0 .. v /\ IsLast(LastChange(h, d, v))
  <2>. HIDE DEF IsLast
  <2>. QED  BY <1>1, <1>2
<1>. QED  BY <1>3

(* A document of the backend is an entry.                                  *)
LEMMA DocAtType ==
    ASSUME NEW h \in Seq(Writes), NEW d
    PROVE  DocAt(h, d, Len(h)) \in Entry
<1>. DEFINE i == LastChange(h, d, Len(h))
<1>1. i \in 0 .. Len(h)
  BY LastChangeType
<1>. HIDE DEF i
<1>2. ASSUME i > 0 PROVE h[i].there \in BOOLEAN
  <2>1. i \in 1 .. Len(h)
    BY <1>1, <1>2
  <2>2. h[i] \in Writes
    BY <2>1, ElementOfSeq
  <2>. QED  BY <2>2 DEF Writes
<1>3. DocAt(h, d, Len(h)) = [version |-> i, there |-> i > 0 /\ h[i].there]
  BY DEF DocAt, i
<1>. QED  BY <1>1, <1>2, <1>3 DEF Entry

(* The count of an existence filter is a number.                           *)
LEMMA KeysFinite ==
    ASSUME NEW h, NEW t \in Targets, NEW v
    PROVE  Cardinality(KeysAt(h, t, v)) \in Nat
<1>1. KeysAt(h, t, v) \subseteq Docs
  BY TargetsAssumption, DistinctAssumption DEF KeysAt, Matches, IsDocumentQuery
<1>. QED  BY <1>1, DocsAssumption, FS_Subset, FS_CardinalityType

(* Messages without documents are messages.                                *)
LEMMA MessageType ==
    ASSUME NEW type \in {"added", "removed", "docs", "snapshot"},
           NEW t \in Targets \cup {Collection}, NEW v \in Nat
    PROVE  Message(type, t, v) \in Messages
BY DEF Message, Messages

(* The part of a target in a snapshot.                                     *)
LEMMA PartType ==
    ASSUME NEW t \in Targets, hist \in Seq(Writes), NEW way
    PROVE  /\ Part(t, way) \in Messages
           /\ Part(t, way).type = "docs" /\ Part(t, way).target = t
<1>. DEFINE c == [d \in Docs |-> Sent(t, way, d)]
            n == IF way = "filter" THEN Cardinality(KeysAt(hist, t, Now)) ELSE Nothing
            m == Message("docs", t, Now)
<1>1. Now \in Nat
  BY DEF Now
<1>2. \A d \in Docs : Sent(t, way, d) \in Entry \cup {Nothing}
  BY <1>1, DocAtType DEF Sent, Entry, Now
<1>3. c \in [Docs -> Entry \cup {Nothing}]
  BY <1>2
<1>4. n \in Nat \cup {Nothing}
  BY KeysFinite
<1>5. m \in Messages /\ m.type = "docs" /\ m.target = t
  BY <1>1, MessageType DEF Message
<1>6. Part(t, way) = [m EXCEPT !.reset = (way = "reset"), !.changes = c, !.count = n]
  BY DEF Part
<1>. HIDE DEF c, n, m
<1>. QED  BY <1>3, <1>4, <1>5, <1>6 DEF Messages

(* Targets are brought up to date in some order.                           *)
LEMMA OrderType ==
    ASSUME NEW B \in SUBSET Targets
    PROVE  SetToSeq(B) \in Seq(B)
<1>1. IsFiniteSet(Docs \cup {Collection})
  BY DocsAssumption, FS_AddElement
<1>2. IsFiniteSet(B)
  BY <1>1, TargetsAssumption, FS_Subset
<1>3. PICK n \in Nat : ExistsBijection(1 .. n, B)
  BY <1>2, FS_NatBijection
<1>4. n = Cardinality(B)
  BY <1>2, <1>3, FS_CountingElements
<1>5. \E f \in [1 .. n -> B] : IsInjective(f)
  BY <1>3 DEF ExistsBijection, Bijection, Injection, IsInjective
<1>6. SetToSeq(B) \in [1 .. n -> B]
  BY <1>4, <1>5 DEF SetToSeq
<1>. QED  BY <1>6, <1>3

-----------------------------------------------------------------------------
(* One lemma per action *)

(* The initial states satisfy the invariant.                               *)
THEOREM InitInv == Init => WatchInv
<1>. SUFFICES ASSUME Init PROVE WatchInv
  OBVIOUS
<1>. USE DEF Init
<1>1. TypeOK
  <2>1. Fresh \in [owed : Nat, current : BOOLEAN,
                   changes : [Docs -> {"none", "added", "modified", "removed"}]]
    BY FreshType DEF Aggregates, Kinds
  <2>2. Unknown \in Entry
    BY DEF Unknown, Entry
  <2>3. /\ agg \in [Targets -> [owed : Nat, current : BOOLEAN,
                     changes : [Docs -> {"none", "added", "modified", "removed"}]]]
        /\ cache \in [Docs -> Entry]
    BY <2>1, <2>2
  <2>4. /\ hist \in Seq([doc : Docs, there : BOOLEAN]) /\ unacked \in Seq(Nat)
        /\ asked \in [Targets -> Seq(Request)] /\ wire \in Seq(Messages)
        /\ sub \in [Targets -> [on : BOOLEAN, told : Nat, current : BOOLEAN]]
    OBVIOUS
  <2>. QED  BY <2>3, <2>4 DEF TypeOK
<1>2. OwedInv
  <2>. SUFFICES ASSUME NEW t \in Targets
                PROVE  agg[t].owed = Len(asked[t]) + Cardinality(ResponsesIn(wire, t))
    BY DEF OwedInv
  <2>1. ResponsesIn(wire, t) = {}
    BY DEF ResponsesIn
  <2>2. Cardinality(ResponsesIn(wire, t)) = 0
    BY <2>1, FS_EmptySet
  <2>. QED  BY <2>2, FreshType
<1>3. WireInv /\ QuietInv /\ AckInv
  BY DEF WireInv, QuietInv, AckInv
<1>4. WatchAssertionsHold
  BY DEF WatchAssertionsHold, Active
<1>. QED  BY <1>1, <1>2, <1>3, <1>4 DEF WatchInv

(* A request that is sent is owed an answer.                               *)
LEMMA SendInv ==
    ASSUME TypeOK, OwedInv, NEW t \in Targets, NEW r \in Request, Send(t, r),
           wire' = wire
    PROVE  /\ asked' \in [Targets -> Seq(Request)] /\ agg' \in [Targets -> Aggregates]
           /\ idle' \in BOOLEAN /\ OwedInv'
<1>. USE DEF Send
<1>1. /\ asked \in [Targets -> Seq(Request)] /\ agg \in [Targets -> Aggregates]
      /\ idle \in BOOLEAN
  BY DEF TypeOK, Aggregates, Kinds
<1>2. CASE stream # "open"
  BY <1>1, <1>2 DEF OwedInv
<1>3. CASE stream = "open"
  <2>1. Append(asked[t], r) \in Seq(Request) /\ Len(Append(asked[t], r)) = Len(asked[t]) + 1
    BY <1>1
  <2>2. asked' \in [Targets -> Seq(Request)]
    BY <1>1, <1>3, <2>1
  <2>3. agg[t] \in Aggregates
    BY <1>1
  <2>4. [agg[t] EXCEPT !.owed = @ + 1] \in Aggregates
    BY <2>3 DEF Aggregates
  <2>5. agg' = [agg EXCEPT ![t] = [agg[t] EXCEPT !.owed = @ + 1]]
    BY <1>1, <1>3
  <2>6. agg' \in [Targets -> Aggregates]
    BY <1>1, <2>4, <2>5
  <2>7. ASSUME NEW u \in Targets
        PROVE  agg'[u].owed = Len(asked'[u]) + Cardinality(ResponsesIn(wire', u))
    <3>1. agg[u].owed = Len(asked[u]) + Cardinality(ResponsesIn(wire, u))
      BY DEF OwedInv
    <3>2. Cardinality(ResponsesIn(wire, u)) \in Nat
      BY ResponsesFinite DEF TypeOK
    <3>3. CASE u = t
      <4>1. agg'[u].owed = agg[u].owed + 1 /\ Len(asked'[u]) = Len(asked[u]) + 1
        BY <1>1, <1>3, <2>1, <2>3, <2>5, <3>3 DEF Aggregates
      <4>2. Len(asked[u]) \in Nat
        BY <1>1, LenProperties
      <4>. QED  BY <3>1, <3>2, <4>1, <4>2
    <3>4. CASE u # t
      BY <1>1, <1>3, <3>1, <3>4
    <3>. QED  BY <3>3, <3>4
  <2>. QED  BY <1>3, <2>2, <2>6, <2>7 DEF OwedInv
<1>. QED  BY <1>2, <1>3

(* A target is listened to.                                                *)
LEMMA ListenInv ==
    ASSUME WatchInv, NEW t \in Targets, Listen(t) PROVE WatchInv'
<1>. USE DEF WatchInv, Listen
<1>1. ListenFrom(saved[t]) \in Request
  BY DEF TypeOK, ListenFrom, Request
<1>2. /\ asked' \in [Targets -> Seq(Request)] /\ agg' \in [Targets -> Aggregates]
      /\ idle' \in BOOLEAN /\ OwedInv'
  BY <1>1, SendInv
<1>3. TypeOK'
  BY <1>2 DEF TypeOK, Aggregates, Kinds, backendVars, diskVars
<1>4. WireInv' /\ AckInv'
  BY DEF WireInv, AckInv, backendVars
<1>5. QuietInv'
  BY DEF QuietInv, Send, backendVars
<1>6. WatchAssertionsHold'
  <2>1. \A u \in listens' : synced'[u] = keys'[u]
    BY DEF TypeOK, WatchAssertionsHold, diskVars
  <2>2. ASSUME NEW u \in Targets, Active(u)' PROVE Marked(agg'[u], synced'[u])
    <3>1. CASE u = t /\ stream = "open"
      <4>1. agg'[u].owed = agg[u].owed + 1 /\ agg[u].owed \in Nat
        BY <3>1 DEF TypeOK, Send
      <4>. QED  BY <2>2, <4>1 DEF Active
    <3>2. CASE u = t /\ stream # "open"
      BY <3>2, FreshType DEF QuietInv, Send, Marked
    <3>3. CASE u # t
      <4>1. agg'[u] = agg[u] /\ synced'[u] = synced[u] /\ Active(u)
        BY <2>2, <3>3 DEF TypeOK, Send, Active
      <4>. QED  BY <4>1 DEF WatchAssertionsHold, Marked
    <3>. QED  BY <3>1, <3>2, <3>3
  <2>3. (idle => listens = {} /\ stream = "open")'
    BY DEF WatchAssertionsHold, Send
  <2>4. (stream = "closed" => listens = {})'
    BY DEF WatchAssertionsHold, Send
  <2>. QED  BY <2>1, <2>2, <2>3, <2>4 DEF WatchAssertionsHold, Marked
<1>. QED  BY <1>2, <1>3, <1>4, <1>5, <1>6

(* A target is not listened to any more.                                   *)
LEMMA StopListeningInv ==
    ASSUME WatchInv, NEW t \in Targets, StopListening(t) PROVE WatchInv'
<1>. USE DEF WatchInv, StopListening
<1>1. Unlisten \in Request
  BY DEF Unlisten, Request
<1>2. /\ asked' \in [Targets -> Seq(Request)] /\ agg' \in [Targets -> Aggregates]
      /\ idle' \in BOOLEAN /\ OwedInv'
  BY <1>1, SendInv
<1>3. TypeOK'
  BY <1>2 DEF TypeOK, Aggregates, Kinds, backendVars, diskVars
<1>4. WireInv' /\ AckInv'
  BY DEF WireInv, AckInv, backendVars
<1>5. QuietInv'
  BY DEF QuietInv, Send, backendVars
<1>6. WatchAssertionsHold'
  <2>1. \A u \in listens' : synced'[u] = keys'[u]
    BY DEF TypeOK, WatchAssertionsHold
  <2>2. ASSUME NEW u \in Targets, Active(u)' PROVE Marked(agg'[u], synced'[u])
    <3>1. u # t
      BY <2>2 DEF Active
    <3>2. agg'[u] = agg[u] /\ synced'[u] = synced[u] /\ Active(u)
      BY <2>2, <3>1 DEF TypeOK, Send, Active
    <3>. QED  BY <3>2 DEF WatchAssertionsHold, Marked
  <2>3. (idle => listens = {} /\ stream = "open")'
    BY DEF WatchAssertionsHold, Send
  <2>4. (stream = "closed" => listens = {})'
    BY DEF WatchAssertionsHold, Send
  <2>. QED  BY <2>1, <2>2, <2>3, <2>4 DEF WatchAssertionsHold, Marked
<1>. QED  BY <1>2, <1>3, <1>4, <1>5, <1>6

(* The stream opens.                                                       *)
LEMMA StreamOpensInv == ASSUME WatchInv, StreamOpens PROVE WatchInv'
<1>. USE DEF WatchInv, StreamOpens
<1>1. \A t \in Targets : ListenFrom(token[t]) \in Request
  BY DEF TypeOK, ListenFrom, Request
<1>2. [Fresh EXCEPT !.owed = 1] \in Aggregates /\ [Fresh EXCEPT !.owed = 1].owed = 1
  BY FreshType DEF Aggregates
<1>3. asked' \in [Targets -> Seq(Request)]
  BY <1>1
<1>4. agg' \in [Targets -> Aggregates]
  BY <1>2, FreshType
<1>5. TypeOK'
  BY <1>3, <1>4 DEF TypeOK, Aggregates, Kinds, backendVars, diskVars
<1>6. OwedInv'
  <2>. SUFFICES ASSUME NEW t \in Targets
                PROVE  agg'[t].owed = Len(asked'[t]) + Cardinality(ResponsesIn(wire', t))
    BY DEF OwedInv
  <2>1. ResponsesIn(wire', t) = {}
    BY DEF QuietInv, ResponsesIn
  <2>2. Cardinality(ResponsesIn(wire', t)) = 0
    BY <2>1, FS_EmptySet
  <2>. QED  BY <2>2, <1>2, FreshType
<1>7. WireInv' /\ QuietInv' /\ AckInv'
  BY DEF WireInv, QuietInv, AckInv, backendVars
<1>8. WatchAssertionsHold'
  <2>1. \A t \in Targets : ~Active(t)'
    BY <1>2 DEF Active
  <2>. QED  BY <2>1 DEF WatchAssertionsHold, diskVars
<1>. QED  BY <1>5, <1>6, <1>7, <1>8

(* The stream is gone: nothing is under way, and no target is active but   *)
(* with a fresh state.                                                     *)
LEMMA StreamGoneInv ==
    ASSUME WatchInv, NEW next \in {"closed", "starting"}, StreamGone(next),
           next = "closed" => listens' = {}, listens' \in {listens, {}},
           token' \in [Targets -> Nat], mem' \in [Targets -> Nat],
           synced' \in [Targets -> SUBSET Docs],
           \A t \in listens' : synced'[t] = synced[t],
           failures' \in Nat, unacked' \in {unacked, <<>>},
           UNCHANGED <<hist, filters, diskVars>>
    PROVE  WatchInv'
<1>. USE DEF WatchInv, StreamGone
<1>1. TypeOK'
  <2>1. agg' \in [Targets -> Aggregates]
    BY FreshType
  <2>2. /\ asked' \in [Targets -> Seq(Request)] /\ wire' \in Seq(Messages)
        /\ sub' \in [Targets -> [on : BOOLEAN, told : Nat, current : BOOLEAN]]
        /\ updates' \in [Docs -> Entry \cup {Nothing}]
    OBVIOUS
  <2>3. unacked \in Seq(Nat) /\ <<>> \in Seq(Nat)
    BY EmptySeq DEF TypeOK
  <2>4. unacked' \in Seq(Nat) /\ listens' \subseteq Targets /\ resets' \subseteq Targets
    BY <2>3 DEF TypeOK
  <2>. QED  BY <2>1, <2>2, <2>4 DEF TypeOK, Aggregates, Kinds, diskVars
<1>2. OwedInv'
  <2>. SUFFICES ASSUME NEW t \in Targets
                PROVE  agg'[t].owed = Len(asked'[t]) + Cardinality(ResponsesIn(wire', t))
    BY DEF OwedInv
  <2>1. ResponsesIn(wire', t) = {}
    BY DEF ResponsesIn
  <2>2. Cardinality(ResponsesIn(wire', t)) = 0
    BY <2>1, FS_EmptySet
  <2>. QED  BY <2>2, FreshType
<1>3. WireInv' /\ QuietInv'
  BY DEF WireInv, QuietInv
<1>4. AckInv'
  BY DEF AckInv
<1>5. WatchAssertionsHold'
  <2>1. \A t \in listens' : synced'[t] = keys'[t]
    BY DEF WatchAssertionsHold, diskVars
  <2>2. ASSUME NEW t \in Targets PROVE Marked(agg'[t], synced'[t])
    BY FreshType DEF Marked
  <2>. QED  BY <2>1, <2>2 DEF WatchAssertionsHold, Marked
<1>. QED  BY <1>1, <1>2, <1>3, <1>4, <1>5

(* The stream breaks.                                                      *)
LEMMA StreamBreaksInv == ASSUME WatchInv, StreamBreaks PROVE WatchInv'
<1>1. PICK next \in {"closed", "starting"} :
          StreamGone(next) /\ (next = "closed" => listens = {})
  BY DEF StreamBreaks
<1>2. /\ failures \in Nat /\ token \in [Targets -> Nat] /\ mem \in [Targets -> Nat]
      /\ synced \in [Targets -> SUBSET Docs]
  BY DEF WatchInv, TypeOK
<1>3. /\ failures' \in Nat
      /\ UNCHANGED <<hist, filters, unacked, listens, token, synced, mem, diskVars>>
  BY <1>2 DEF StreamBreaks
<1>. QED  BY <1>1, <1>2, <1>3, StreamGoneInv

(* The stream is stopped as idle.                                          *)
LEMMA IdleTimeoutInv == ASSUME WatchInv, IdleTimeout PROVE WatchInv'
<1>1. listens = {}
  BY DEF IdleTimeout, WatchInv, WatchAssertionsHold
<1>. QED  BY <1>1, StreamGoneInv DEF IdleTimeout, WatchInv, TypeOK

(* The process ends.                                                       *)
LEMMA KillInv == ASSUME WatchInv, Kill PROVE WatchInv'
<1>1. /\ listens' = {} /\ unacked' = <<>> /\ failures' \in Nat
      /\ token' \in [Targets -> Nat] /\ mem' \in [Targets -> Nat]
      /\ synced' \in [Targets -> SUBSET Docs]
  BY DEF Kill, WatchInv, TypeOK
<1>. QED  BY <1>1, StreamGoneInv DEF Kill

-----------------------------------------------------------------------------
(* The backend *)

(* A document is written.                                                  *)
LEMMA BackendWritesInv ==
    ASSUME WatchInv, NEW d \in Docs, NEW own \in BOOLEAN, BackendWrites(d, own)
    PROVE  WatchInv'
<1>. USE DEF WatchInv, BackendWrites
<1>1. PICK w \in Writes : hist' = Append(hist, w)
  BY DEF Writes
<1>2. hist \in Seq(Writes) /\ unacked \in Seq(Nat)
  BY DEF TypeOK, Writes
<1>3. hist' \in Seq(Writes) /\ Len(hist') = Len(hist) + 1 /\ Len(hist) \in Nat
  BY <1>1, <1>2
<1>4. unacked' \in Seq(Nat)
  BY <1>2, <1>3 DEF Now
<1>5. TypeOK'
  BY <1>3, <1>4 DEF TypeOK, Writes, streamVars, aggVars, diskVars
<1>6. OwedInv' /\ WireInv' /\ QuietInv'
  BY DEF OwedInv, WireInv, QuietInv, streamVars, aggVars
<1>7. AckInv'
  <2>1. CASE own
    <3>. SUFFICES ASSUME NEW i \in 1 .. Len(unacked') PROVE unacked'[i] \in 1 .. Len(hist')
      BY DEF AckInv
    <3>1. unacked' = Append(unacked, Len(hist) + 1)
      BY <2>1 DEF Now
    <3>2. CASE i = Len(unacked) + 1
      BY <1>2, <1>3, <3>1, <3>2
    <3>3. CASE i \in 1 .. Len(unacked)
      <4>1. unacked'[i] = unacked[i] /\ unacked[i] \in 1 .. Len(hist)
        BY <1>2, <1>3, <3>1, <3>3 DEF AckInv
      <4>. QED  BY <1>3, <4>1
    <3>4. i = Len(unacked) + 1 \/ i \in 1 .. Len(unacked)
      BY <1>2, <1>3, <3>1
    <3>. QED  BY <3>2, <3>3, <3>4
  <2>2. CASE ~own
    BY <1>3, <2>2 DEF AckInv
  <2>. QED  BY <2>1, <2>2
<1>8. WatchAssertionsHold'
  BY DEF WatchAssertionsHold, Active, streamVars, aggVars, diskVars
<1>. QED  BY <1>5, <1>6, <1>7, <1>8

(* A request is answered.                                                  *)
LEMMA BackendServesInv ==
    ASSUME WatchInv, NEW t \in Targets, BackendServes(t) PROVE WatchInv'
<1>. USE DEF WatchInv, BackendServes
<1>. DEFINE r == Head(asked[t])
            m == Message(IF r.type = "listen" THEN "added" ELSE "removed", t, 0)
<1>1. asked \in [Targets -> Seq(Request)] /\ asked[t] \in Seq(Request) /\ wire \in Seq(Messages)
  BY DEF TypeOK
<1>2. r \in Request
  BY <1>1, HeadTailProperties
<1>3. m \in Messages /\ m.target = t /\ m.type \in {"added", "removed"} /\ wire' = Append(wire, m)
  <2>1. m \in Messages /\ m.target = t /\ m.type \in {"added", "removed"}
    BY MessageType DEF Message
  <2>. QED  BY <2>1
<1>4. sub' = [sub EXCEPT ![t] = [on |-> r.type = "listen", told |-> r.from, current |-> FALSE]]
  OBVIOUS
<1>. HIDE DEF m, r
<1>5. /\ asked' = [asked EXCEPT ![t] = Tail(asked[t])]
      /\ Tail(asked[t]) \in Seq(Request) /\ Len(Tail(asked[t])) = Len(asked[t]) - 1
  BY <1>1, HeadTailProperties
<1>6. TypeOK'
  <2>1. asked' \in [Targets -> Seq(Request)] /\ wire' \in Seq(Messages)
    BY <1>1, <1>3, <1>5
  <2>2. sub' \in [Targets -> [on : BOOLEAN, told : Nat, current : BOOLEAN]]
    <3>1. sub \in [Targets -> [on : BOOLEAN, told : Nat, current : BOOLEAN]]
      BY DEF TypeOK
    <3>2. r.from \in Nat /\ (r.type = "listen") \in BOOLEAN
      BY <1>2 DEF Request
    <3>. QED  BY <1>4, <3>1, <3>2
  <2>. QED  BY <2>1, <2>2 DEF TypeOK, aggVars, diskVars
<1>7. OwedInv'
  <2>. SUFFICES ASSUME NEW u \in Targets
                PROVE  agg'[u].owed = Len(asked'[u]) + Cardinality(ResponsesIn(wire', u))
    BY DEF OwedInv
  <2>1. agg'[u].owed = Len(asked[u]) + Cardinality(ResponsesIn(wire, u))
    BY DEF OwedInv, aggVars
  <2>2. Cardinality(ResponsesIn(wire, u)) \in Nat /\ Len(asked[u]) \in Nat
    BY <1>1, ResponsesFinite, LenProperties
  <2>3. Cardinality(ResponsesIn(wire', u))
            = Cardinality(ResponsesIn(wire, u)) + (IF u = t THEN 1 ELSE 0)
    BY <1>1, <1>3, ResponsesAppend DEF IsResponse
  <2>4. CASE u = t
    <3>1. Len(asked'[u]) = Len(asked[u]) - 1
      BY <1>1, <1>5, <2>4
    <3>. QED  BY <2>1, <2>2, <2>3, <2>4, <3>1
  <2>5. CASE u # t
    <3>1. asked'[u] = asked[u]
      BY <1>1, <1>5, <2>5
    <3>. QED  BY <2>1, <2>2, <2>3, <2>5, <3>1
  <2>. QED  BY <2>4, <2>5
<1>8. WireInv'
  <2>1. \A i \in 1 .. Len(wire') : (i \in 1 .. Len(wire) /\ wire'[i] = wire[i]) \/ wire'[i] = m
    BY <1>1, <1>3, AppendedAt
  <2>. QED  BY <1>3, <2>1 DEF WireInv
<1>9. QuietInv' /\ AckInv'
  BY DEF QuietInv, AckInv
<1>10. WatchAssertionsHold'
  BY DEF WatchAssertionsHold, Active, aggVars, diskVars
<1>. QED  BY <1>6, <1>7, <1>8, <1>9, <1>10

(* A snapshot is sent.                                                     *)
LEMMA BackendSyncsInv == ASSUME WatchInv, BackendSyncs PROVE WatchInv'
<1>. DEFINE behind == {t \in Targets : Behind(t)}
            order  == SetToSeq(behind)
            last   == Message("snapshot", Collection, Now)
<1>. USE DEF WatchInv
<1>1. hist \in Seq(Writes) /\ wire \in Seq(Messages) /\ Now \in Nat
  BY DEF TypeOK, Writes, Now
<1>2. behind \in SUBSET Targets /\ order \in Seq(behind)
  BY OrderType
<1>3. last \in Messages /\ last.type = "snapshot" /\ last.target = Collection
  BY <1>1, MessageType DEF Message
<1>4. /\ behind # {}
      /\ filters' \in {filters, filters + 1}
      /\ sub' = [t \in Targets |-> IF t \in behind
                                   THEN [on |-> TRUE, told |-> Now, current |-> TRUE]
                                   ELSE sub[t]]
      /\ UNCHANGED <<hist, failures, unacked, asked, stream, idle, listens, token, aggVars,
                     synced, mem, diskVars>>
  BY DEF BackendSyncs
<1>5. PICK way : wire' = wire \o [i \in DOMAIN order |-> Part(order[i], way[order[i]])]
                              \o <<last>>
  BY DEF BackendSyncs
<1>. DEFINE parts == [i \in DOMAIN order |-> Part(order[i], way[order[i]])]
<1>6. /\ parts \in Seq(Messages) /\ Len(parts) = Len(order) /\ Len(order) \in Nat
      /\ \A i \in 1 .. Len(parts) : parts[i].type = "docs" /\ parts[i].target \in Targets
  <2>1. DOMAIN order = 1 .. Len(order) /\ Len(order) \in Nat
    BY <1>2, LenProperties
  <2>2. \A i \in 1 .. Len(order) : order[i] \in Targets
    BY <1>2, ElementOfSeq
  <2>3. ASSUME NEW i \in 1 .. Len(order)
        PROVE  parts[i] \in Messages /\ parts[i].type = "docs" /\ parts[i].target \in Targets
    BY <1>1, <2>1, <2>2, PartType
  <2>4. parts = [i \in 1 .. Len(order) |-> parts[i]]
    BY <2>1
  <2>. HIDE DEF parts, order
  <2>5. parts \in [1 .. Len(order) -> Messages]
    BY <2>3, <2>4
  <2>6. parts \in Seq(Messages) /\ Len(parts) = Len(order)
    BY <2>1, <2>5
  <2>. QED  BY <2>1, <2>3, <2>6
<1>. HIDE DEF parts, last, order
<1>7. wire' = Append(wire \o parts, last) /\ wire \o parts \in Seq(Messages)
  BY <1>1, <1>3, <1>5, <1>6 DEF parts
<1>8. TypeOK'
  <2>1. wire' \in Seq(Messages)
    BY <1>3, <1>7
  <2>2. sub' \in [Targets -> [on : BOOLEAN, told : Nat, current : BOOLEAN]]
    BY <1>1, <1>4 DEF TypeOK
  <2>3. filters' \in Nat
    BY <1>4 DEF TypeOK
  <2>. HIDE DEF behind
  <2>. QED  BY <1>4, <2>1, <2>2, <2>3 DEF TypeOK, aggVars, diskVars
<1>9. OwedInv'
  <2>. SUFFICES ASSUME NEW t \in Targets
                PROVE  agg'[t].owed = Len(asked'[t]) + Cardinality(ResponsesIn(wire', t))
    BY DEF OwedInv
  <2>1. ResponsesIn(wire \o parts, t) = ResponsesIn(wire, t)
    BY <1>1, <1>6, ResponsesConcat DEF IsResponse
  <2>2. Cardinality(ResponsesIn(wire', t)) = Cardinality(ResponsesIn(wire \o parts, t)) + 0
    BY <1>3, <1>7, ResponsesAppend DEF IsResponse
  <2>3. Cardinality(ResponsesIn(wire, t)) \in Nat
    BY <1>1, ResponsesFinite
  <2>. QED  BY <1>4, <2>1, <2>2, <2>3 DEF OwedInv, aggVars
<1>10. WireInv'
  <2>. DEFINE w == wire \o parts
  <2>1. ASSUME NEW i \in 1 .. Len(w) PROVE w[i].type # "snapshot" => w[i].target \in Targets
    <3>1. CASE i <= Len(wire)
      BY <1>1, <1>6, <3>1, ConcatProperties DEF WireInv
    <3>2. CASE i > Len(wire)
      <4>1. i - Len(wire) \in 1 .. Len(parts) /\ w[i] = parts[i - Len(wire)]
        BY <1>1, <1>6, <3>2, ConcatProperties
      <4>. QED  BY <4>1, <1>6
    <3>. QED  BY <1>1, <3>1, <3>2
  <2>. HIDE DEF w
  <2>2. \A i \in 1 .. Len(wire') : (i \in 1 .. Len(w) /\ wire'[i] = w[i]) \/ wire'[i] = last
    BY <1>3, <1>7, AppendedAt DEF w
  <2>. QED  BY <1>3, <2>1, <2>2 DEF WireInv
<1>11. QuietInv'
  <2>1. PICK t \in Targets : sub[t].on
    BY <1>4 DEF Behind
  <2>2. stream = "open"
    BY <2>1 DEF QuietInv
  <2>. QED  BY <1>4, <2>2 DEF QuietInv
<1>12. AckInv'
  BY <1>4 DEF AckInv
<1>13. WatchAssertionsHold'
  BY <1>4 DEF WatchAssertionsHold, Active, aggVars, diskVars
<1>. QED  BY <1>8, <1>9, <1>10, <1>11, <1>12, <1>13

-----------------------------------------------------------------------------
(* What the client reads *)

(* The message read, and the count of the answers that are left.           *)
LEMMA ReadOne ==
    ASSUME WatchInv, NEW type, Reads(type)
    PROVE  /\ Head(wire) \in Messages /\ wire' \in Seq(Messages) /\ stream = "open"
           /\ type # "snapshot" => Head(wire).target \in Targets
           /\ WireInv'
           /\ \A t \in Targets :
                  /\ Cardinality(ResponsesIn(wire, t))
                         = Cardinality(ResponsesIn(wire', t))
                               + (IF IsResponse(Head(wire), t) THEN 1 ELSE 0)
                  /\ Cardinality(ResponsesIn(wire', t)) \in Nat
<1>. USE DEF WatchInv, Reads
<1>1. wire \in Seq(Messages) /\ wire # <<>>
  BY DEF TypeOK
<1>2. /\ wire' = Tail(wire) /\ wire' \in Seq(Messages) /\ Head(wire) \in Messages
      /\ Len(wire') = Len(wire) - 1 /\ Len(wire) \in Nat \ {0} /\ Head(wire) = wire[1]
      /\ \A i \in 1 .. Len(wire') : wire'[i] = wire[i + 1]
  BY <1>1, HeadTailProperties, LenProperties
<1>3. stream = "open"
  BY <1>1 DEF QuietInv
<1>4. type # "snapshot" => Head(wire).target \in Targets
  BY <1>2 DEF WireInv
<1>5. WireInv'
  BY <1>2 DEF WireInv
<1>6. \A t \in Targets :
         /\ Cardinality(ResponsesIn(wire, t))
                = Cardinality(ResponsesIn(wire', t))
                      + (IF IsResponse(Head(wire), t) THEN 1 ELSE 0)
         /\ Cardinality(ResponsesIn(wire', t)) \in Nat
  BY <1>1, <1>2, ResponsesTail, ResponsesFinite
<1>. QED  BY <1>2, <1>3, <1>4, <1>5, <1>6

(* An answer of a target is read: it is owed one less.                     *)
LEMMA AnswerRead ==
    ASSUME WatchInv, NEW type \in {"added", "removed"}, Reads(type),
           NEW t, t = Head(wire).target, NEW a \in Aggregates,
           a.owed = agg[t].owed - 1,
           a.owed = 0 => \A d \in Docs : a.changes[d] = "none",
           agg' = [agg EXCEPT ![t] = a],
           UNCHANGED <<backendVars, unacked, asked, stream, idle, listens, token, updates,
                       resets, synced, mem, diskVars>>
    PROVE  WatchInv'
<1>. USE DEF WatchInv
<1>1. /\ Head(wire) \in Messages /\ wire' \in Seq(Messages) /\ stream = "open"
      /\ t \in Targets /\ WireInv' /\ Head(wire).type = type
  BY ReadOne DEF Reads
<1>2. agg \in [Targets -> Aggregates] /\ asked \in [Targets -> Seq(Request)]
  BY DEF TypeOK, Aggregates, Kinds
<1>3. TypeOK'
  <2>1. agg' \in [Targets -> Aggregates]
    BY <1>1, <1>2
  <2>. QED  BY <1>1, <2>1 DEF TypeOK, Aggregates, Kinds, backendVars, diskVars
<1>4. OwedInv'
  <2>. SUFFICES ASSUME NEW u \in Targets
                PROVE  agg'[u].owed = Len(asked'[u]) + Cardinality(ResponsesIn(wire', u))
    BY DEF OwedInv
  <2>1. agg[u].owed = Len(asked[u]) + Cardinality(ResponsesIn(wire, u))
    BY DEF OwedInv
  <2>2. /\ Cardinality(ResponsesIn(wire, u))
               = Cardinality(ResponsesIn(wire', u)) + (IF u = t THEN 1 ELSE 0)
        /\ Cardinality(ResponsesIn(wire', u)) \in Nat
    BY <1>1, ReadOne DEF IsResponse
  <2>3. Len(asked[u]) \in Nat /\ asked' = asked
    BY <1>2, LenProperties
  <2>4. agg'[u] = IF u = t THEN a ELSE agg[u]
    BY <1>2
  <2>. QED  BY <2>1, <2>2, <2>3, <2>4
<1>5. QuietInv' /\ AckInv'
  BY <1>1 DEF QuietInv, AckInv, backendVars
<1>6. WatchAssertionsHold'
  <2>1. ASSUME NEW u \in Targets, Active(u)' PROVE Marked(agg'[u], synced'[u])
    <3>1. CASE u = t
      <4>1. agg'[u] = a
        BY <1>2, <3>1, <1>1
      <4>. QED  BY <2>1, <4>1 DEF Active, Marked
    <3>2. CASE u # t
      <4>1. agg'[u] = agg[u] /\ synced'[u] = synced[u] /\ Active(u)
        BY <2>1, <3>2, <1>2 DEF Active
      <4>. QED  BY <4>1 DEF WatchAssertionsHold, Marked
    <3>. QED  BY <3>1, <3>2
  <2>. QED  BY <2>1 DEF WatchAssertionsHold, Marked, diskVars
<1>. QED  BY <1>1, <1>3, <1>4, <1>5, <1>6

(* A target whose answer is read was owed one.                             *)
LEMMA AnswerWasOwed ==
    ASSUME WatchInv, NEW type \in {"added", "removed"}, Reads(type)
    PROVE  LET t == Head(wire).target
           IN  t \in Targets /\ agg[t] \in Aggregates /\ agg[t].owed \in Nat \ {0}
<1>. DEFINE t == Head(wire).target
<1>1. t \in Targets /\ IsResponse(Head(wire), t)
  BY ReadOne DEF Reads, IsResponse
<1>2. agg[t] \in Aggregates /\ Len(asked[t]) \in Nat
  BY <1>1, LenProperties DEF WatchInv, TypeOK, Aggregates, Kinds
<1>3. /\ Cardinality(ResponsesIn(wire, t)) = Cardinality(ResponsesIn(wire', t)) + 1
      /\ Cardinality(ResponsesIn(wire', t)) \in Nat
  BY <1>1, ReadOne
<1>4. agg[t].owed = Len(asked[t]) + Cardinality(ResponsesIn(wire, t))
  BY <1>1 DEF WatchInv, OwedInv
<1>. QED  BY <1>1, <1>2, <1>3, <1>4

(* ADD is read.                                                            *)
LEMMA ReadAddedInv == ASSUME WatchInv, ReadAdded PROVE WatchInv'
<1>. DEFINE t == Head(wire).target
            b == [agg[t] EXCEPT !.owed = @ - 1]
            a == IF b.owed = 0 THEN [b EXCEPT !.changes = Fresh.changes] ELSE b
<1>1. agg[t] \in Aggregates /\ agg[t].owed \in Nat \ {0} /\ Reads("added")
  BY AnswerWasOwed DEF ReadAdded
<1>2. b \in Aggregates /\ b.owed = agg[t].owed - 1
  BY <1>1 DEF Aggregates
<1>3. agg' = [agg EXCEPT ![t] = a]
  BY DEF ReadAdded
<1>. HIDE DEF b
<1>4. /\ a \in Aggregates /\ a.owed = agg[t].owed - 1
      /\ a.owed = 0 => \A d \in Docs : a.changes[d] = "none"
  <2>1. CASE b.owed = 0
    <3>1. a = [b EXCEPT !.changes = Fresh.changes]
      BY <2>1
    <3>2. a \in Aggregates /\ a.owed = b.owed /\ a.changes = Fresh.changes
      BY <1>2, <3>1, FreshType DEF Aggregates
    <3>. QED  BY <1>2, <3>2, FreshType
  <2>2. CASE b.owed # 0
    BY <1>2, <2>2
  <2>. QED  BY <2>1, <2>2
<1>. HIDE DEF a
<1>. QED  BY <1>1, <1>3, <1>4, AnswerRead DEF ReadAdded

(* REMOVE is read.                                                         *)
LEMMA ReadRemovedInv == ASSUME WatchInv, ReadRemoved PROVE WatchInv'
<1>. DEFINE t == Head(wire).target
            a == IF agg[t].owed = 1 THEN Fresh ELSE [agg[t] EXCEPT !.owed = @ - 1]
<1>1. /\ t \in Targets /\ agg[t] \in Aggregates /\ agg[t].owed \in Nat \ {0}
      /\ Reads("removed")
  BY AnswerWasOwed DEF ReadRemoved
<1>2. agg' = [agg EXCEPT ![t] = a]
  BY DEF ReadRemoved
<1>3. /\ a \in Aggregates /\ a.owed = agg[t].owed - 1
      /\ a.owed = 0 => \A d \in Docs : a.changes[d] = "none"
  <2>1. CASE agg[t].owed = 1
    BY <2>1, FreshType
  <2>2. CASE agg[t].owed # 1
    <3>1. a = [agg[t] EXCEPT !.owed = @ - 1]
      BY <2>2
    <3>. HIDE DEF a
    <3>. QED  BY <1>1, <2>2, <3>1 DEF Aggregates
  <2>. QED  BY <2>1, <2>2
<1>. HIDE DEF a
<1>. QED  BY <1>1, <1>2, <1>3, AnswerRead DEF ReadRemoved

(* Documents of a target are read.                                         *)
LEMMA DocsRead ==
    ASSUME WatchInv, Reads("docs"),
           agg' \in [Targets -> Aggregates], \A t \in Targets : agg'[t].owed = agg[t].owed,
           \A t \in Targets : Active(t) => Marked(agg'[t], synced[t]),
           updates' \in [Docs -> Entry \cup {Nothing}], resets' \subseteq Targets,
           UNCHANGED <<backendVars, unacked, asked, stream, idle, listens, token, synced,
                       mem, diskVars>>
    PROVE  WatchInv'
<1>. USE DEF WatchInv
<1>1. /\ wire' \in Seq(Messages) /\ stream = "open" /\ WireInv' /\ Head(wire).type = "docs"
  BY ReadOne DEF Reads
<1>2. TypeOK'
  BY <1>1 DEF TypeOK, Aggregates, Kinds, backendVars, diskVars
<1>3. OwedInv'
  <2>. SUFFICES ASSUME NEW t \in Targets
                PROVE  agg'[t].owed = Len(asked'[t]) + Cardinality(ResponsesIn(wire', t))
    BY DEF OwedInv
  <2>1. agg[t].owed = Len(asked[t]) + Cardinality(ResponsesIn(wire, t))
    BY DEF OwedInv
  <2>2. /\ Cardinality(ResponsesIn(wire, t)) = Cardinality(ResponsesIn(wire', t)) + 0
        /\ Cardinality(ResponsesIn(wire', t)) \in Nat
    BY <1>1, ReadOne DEF IsResponse
  <2>. QED  BY <2>1, <2>2
<1>4. QuietInv' /\ AckInv'
  BY <1>1 DEF QuietInv, AckInv, backendVars
<1>5. WatchAssertionsHold'
  BY DEF WatchAssertionsHold, Active, Marked, diskVars
<1>. QED  BY <1>1, <1>2, <1>3, <1>4, <1>5

(* Documents of a former life of a target are read.                        *)
LEMMA ReadDocsIgnoredInv == ASSUME WatchInv, ReadDocsIgnored PROVE WatchInv'
<1>1. /\ agg' = agg /\ agg \in [Targets -> Aggregates]
      /\ updates' \in [Docs -> Entry \cup {Nothing}] /\ resets' \subseteq Targets
  BY DEF ReadDocsIgnored, aggVars, WatchInv, TypeOK, Aggregates, Kinds
<1>2. \A t \in Targets : Active(t) => Marked(agg'[t], synced[t])
  BY <1>1 DEF WatchInv, WatchAssertionsHold, Marked
<1>. QED  BY <1>1, <1>2, DocsRead DEF ReadDocsIgnored

(* Documents of an active target are read.                                 *)
LEMMA ReadDocsInv == ASSUME WatchInv, ReadDocs PROVE WatchInv'
<1>. DEFINE m == Head(wire)
            t == m.target
            ks == synced[t]
            a == Aggregated(agg[t], ks, m)
            news == [d \in Docs |-> IF m.changes[d] = Nothing THEN updates[d] ELSE m.changes[d]]
            gone == m.count = 0 /\ IsDocumentQuery(t)
            mismatch == /\ m.count # Nothing /\ ~IsDocumentQuery(t)
                        /\ DocumentCount(ks, a) # m.count
            e == [a EXCEPT !.changes[t] = Change(ks, t, FALSE)]
            c == IF mismatch THEN Reset(ks) ELSE IF gone THEN e ELSE a
<1>1. Reads("docs") /\ m \in Messages /\ t \in Targets /\ Active(t)
  BY ReadOne DEF ReadDocs
<1>2. /\ agg' = [agg EXCEPT ![t] = c]
      /\ updates' = IF gone THEN [news EXCEPT ![t] = Unknown] ELSE news
      /\ resets' = IF mismatch THEN resets \cup {t} ELSE resets
  BY DEF ReadDocs
<1>3. agg \in [Targets -> Aggregates] /\ agg[t] \in Aggregates /\ agg[t].owed = 0
  BY <1>1 DEF WatchInv, TypeOK, Aggregates, Kinds, Active
<1>4. \A u \in Targets : Active(u) => Marked(agg[u], synced[u])
  BY DEF WatchInv, WatchAssertionsHold, Marked
<1>5. a \in Aggregates /\ a.owed = 0 /\ Marked(a, ks)
  BY <1>1, <1>3, <1>4, AggregatedType
<1>6. resets' \subseteq Targets
  BY <1>1, <1>2 DEF WatchInv, TypeOK
<1>7. updates' \in [Docs -> Entry \cup {Nothing}]
  <2>1. \A d \in Docs : news[d] \in Entry \cup {Nothing}
    BY <1>1 DEF WatchInv, TypeOK, Messages
  <2>2. news \in [Docs -> Entry \cup {Nothing}]
    BY <2>1
  <2>3. Unknown \in Entry
    BY DEF Unknown, Entry
  <2>. HIDE DEF news, gone
  <2>. QED  BY <1>2, <2>2, <2>3
<1>. HIDE DEF a, news
<1>8. e \in Aggregates /\ e.owed = 0 /\ Marked(e, ks)
  <2>. DEFINE k == Change(ks, t, FALSE)
              f == [a.changes EXCEPT ![t] = k]
  <2>1. k \in Kinds /\ (k \in {"modified", "removed"} => t \in ks)
    BY ChangeType
  <2>. HIDE DEF k
  <2>2. a.changes \in [Docs -> Kinds]
    BY <1>5 DEF Aggregates
  <2>3. /\ f \in [Docs -> Kinds]
        /\ \A d \in Docs : f[d] \in {"modified", "removed"} => d \in ks
    BY <1>5, <2>1, <2>2 DEF Marked
  <2>4. e = [a EXCEPT !.changes = f]
    BY <1>5 DEF k, Aggregates
  <2>. HIDE DEF f, e
  <2>5. e.changes = f /\ e.owed = 0 /\ e \in Aggregates
    BY <1>5, <2>3, <2>4 DEF Aggregates
  <2>. QED  BY <2>3, <2>5 DEF Marked
<1>. HIDE DEF e
<1>9. c \in Aggregates /\ c.owed = 0 /\ Marked(c, ks)
  BY <1>5, <1>8, ResetType
<1>. HIDE DEF c
<1>10. /\ agg' \in [Targets -> Aggregates]
       /\ \A u \in Targets : agg'[u].owed = agg[u].owed
       /\ \A u \in Targets : Active(u) => Marked(agg'[u], synced[u])
  <2>1. \A u \in Targets : agg'[u] = IF u = t THEN c ELSE agg[u]
    BY <1>1, <1>2, <1>3
  <2>2. agg' \in [Targets -> Aggregates]
    BY <1>2, <1>3, <1>9
  <2>. QED  BY <1>3, <1>4, <1>9, <2>1, <2>2
<1>. QED  BY <1>1, <1>6, <1>7, <1>10, DocsRead DEF ReadDocs

(* A snapshot is read and raised.                                          *)
LEMMA ReadSnapshotInv == ASSUME WatchInv, ReadSnapshot PROVE WatchInv'
<1>. DEFINE v == Head(wire).version
            active == {t \in Targets : Active(t)}
            again == listens \cap resets
            more == <<Unlisten, ListenFrom(0)>>
<1>. USE DEF WatchInv
<1>1. /\ Reads("snapshot") /\ Head(wire) \in Messages /\ v \in Nat
      /\ wire' \in Seq(Messages) /\ stream = "open" /\ WireInv' /\ Head(wire).type = "snapshot"
  <2>1. Reads("snapshot")
    BY DEF ReadSnapshot
  <2>. QED  BY <2>1, ReadOne DEF Reads, Messages
<1>2. /\ agg \in [Targets -> Aggregates] /\ asked \in [Targets -> Seq(Request)]
      /\ listens \subseteq Targets /\ again \subseteq listens
  BY DEF TypeOK, Aggregates, Kinds
<1>3. more \in Seq(Request) /\ Len(more) = 2
  BY DEF Unlisten, ListenFrom, Request
<1>. HIDE DEF more
<1>4. ASSUME NEW t \in Targets
      PROVE  /\ agg'[t] \in Aggregates
             /\ agg'[t].owed = agg[t].owed + (IF t \in again THEN 2 ELSE 0)
             /\ t \in active => \A d \in Docs : agg'[t].changes[d] = "none"
  <2>1. agg'[t] = [agg[t] EXCEPT !.owed = IF t \in again THEN @ + 2 ELSE @,
                                 !.changes = IF t \in active THEN Fresh.changes ELSE @]
    BY DEF ReadSnapshot
  <2>. DEFINE o == IF t \in again THEN agg[t].owed + 2 ELSE agg[t].owed
              c == IF t \in active THEN Fresh.changes ELSE agg[t].changes
  <2>2. agg[t] \in Aggregates
    BY <1>2
  <2>3. agg'[t] = [agg[t] EXCEPT !.owed = o, !.changes = c]
    BY <2>1
  <2>4. o \in Nat /\ o = agg[t].owed + (IF t \in again THEN 2 ELSE 0)
    BY <2>2 DEF Aggregates
  <2>5. c \in [Docs -> Kinds] /\ (t \in active => \A d \in Docs : c[d] = "none")
    BY <2>2, FreshType DEF Aggregates
  <2>. HIDE DEF again, active, o, c
  <2>. QED  BY <2>2, <2>3, <2>4, <2>5 DEF Aggregates
<1>5. ASSUME NEW t \in Targets
      PROVE  /\ asked'[t] \in Seq(Request) /\ Len(asked[t]) \in Nat
             /\ Len(asked'[t]) = Len(asked[t]) + (IF t \in again THEN 2 ELSE 0)
  <2>1. asked'[t] = IF t \in again THEN asked[t] \o more ELSE asked[t]
    BY DEF ReadSnapshot, more
  <2>2. asked[t] \in Seq(Request) /\ Len(asked[t]) \in Nat
    BY <1>2, LenProperties
  <2>3. asked[t] \o more \in Seq(Request) /\ Len(asked[t] \o more) = Len(asked[t]) + 2
    <3>1. /\ asked[t] \o more \in Seq(Request)
          /\ Len(asked[t] \o more) = Len(asked[t]) + Len(more)
      BY <1>3, <2>2, ConcatProperties
    <3>. QED  BY <1>3, <3>1
  <2>. HIDE DEF again
  <2>4. CASE t \in again
    BY <2>1, <2>2, <2>3, <2>4
  <2>5. CASE t \notin again
    BY <2>1, <2>2, <2>5
  <2>. QED  BY <2>4, <2>5
<1>6. TypeOK'
  <2>1. agg' \in [Targets -> Aggregates] /\ asked' \in [Targets -> Seq(Request)]
    <3>1. agg' = [t \in Targets |-> agg'[t]] /\ asked' = [t \in Targets |-> asked'[t]]
      BY DEF ReadSnapshot
    <3>. QED  BY <1>4, <1>5, <3>1
  <2>2. cache' \in [Docs -> Entry]
    <3>1. \A d \in Docs : Synthesized(v)[d] \in Entry \cup {Nothing}
      BY <1>1 DEF Synthesized, Entry, TypeOK
    <3>2. cache' = Cached(Synthesized(v))
      BY DEF ReadSnapshot
    <3>. QED  BY <3>1, <3>2 DEF Cached, TypeOK
  <2>3. /\ token' \in [Targets -> Nat] /\ mem' \in [Targets -> Nat]
        /\ saved' \in [Targets -> Nat]
    BY <1>1 DEF ReadSnapshot, TypeOK
  <2>4. \A t \in Targets, ks \in SUBSET Docs : KeysAfter(ks, agg[t]) \in SUBSET Docs
    BY DEF KeysAfter, ChangesOf
  <2>5. synced' \in [Targets -> SUBSET Docs] /\ keys' \in [Targets -> SUBSET Docs]
    BY <2>4 DEF ReadSnapshot, TypeOK
  <2>6. updates' \in [Docs -> Entry \cup {Nothing}] /\ resets' \subseteq Targets
    BY DEF ReadSnapshot
  <2>7. UNCHANGED <<backendVars, unacked, stream, idle, listens>>
    BY DEF ReadSnapshot
  <2>. QED  BY <1>1, <2>1, <2>2, <2>3, <2>5, <2>6, <2>7 DEF TypeOK, Aggregates, Kinds, backendVars
<1>7. OwedInv'
  <2>. SUFFICES ASSUME NEW t \in Targets
                PROVE  agg'[t].owed = Len(asked'[t]) + Cardinality(ResponsesIn(wire', t))
    BY DEF OwedInv
  <2>1. agg[t].owed = Len(asked[t]) + Cardinality(ResponsesIn(wire, t))
    BY DEF OwedInv
  <2>2. /\ Cardinality(ResponsesIn(wire, t)) = Cardinality(ResponsesIn(wire', t)) + 0
        /\ Cardinality(ResponsesIn(wire', t)) \in Nat
    BY <1>1, ReadOne DEF IsResponse
  <2>. HIDE DEF again, active
  <2>3. CASE t \in again
    <3>1. agg'[t].owed = agg[t].owed + 2
      BY <1>4, <2>3
    <3>2. Len(asked'[t]) = Len(asked[t]) + 2 /\ Len(asked[t]) \in Nat
      BY <1>5, <2>3
    <3>. QED  BY <2>1, <2>2, <3>1, <3>2
  <2>4. CASE t \notin again
    <3>1. agg'[t].owed = agg[t].owed + 0
      BY <1>4, <2>4
    <3>2. Len(asked'[t]) = Len(asked[t]) + 0 /\ Len(asked[t]) \in Nat
      BY <1>5, <2>4
    <3>. QED  BY <2>1, <2>2, <3>1, <3>2
  <2>. QED  BY <2>3, <2>4
<1>8. QuietInv' /\ AckInv'
  BY <1>1 DEF QuietInv, AckInv, ReadSnapshot, backendVars
<1>9. WatchAssertionsHold'
  <2>1. \A t \in listens' : synced'[t] = keys'[t]
    BY <1>2 DEF ReadSnapshot, WatchAssertionsHold
  <2>2. ASSUME NEW t \in Targets, Active(t)' PROVE Marked(agg'[t], synced'[t])
    <3>1. t \in listens /\ agg'[t].owed = 0
      BY <2>2 DEF Active, ReadSnapshot
    <3>2. agg[t].owed = 0
      <4>1. agg[t].owed \in Nat
        BY <1>2 DEF Aggregates
      <4>. HIDE DEF again
      <4>. QED  BY <1>4, <3>1, <4>1
    <3>3. t \in active
      BY <3>1, <3>2 DEF Active
    <3>. QED  BY <1>4, <3>3 DEF Marked
  <2>. QED  BY <2>1, <2>2 DEF WatchAssertionsHold, Marked, ReadSnapshot
<1>. QED  BY <1>1, <1>6, <1>7, <1>8, <1>9

(* An own write is acknowledged.                                           *)
LEMMA AcknowledgedInv == ASSUME WatchInv, Acknowledged PROVE WatchInv'
<1>. DEFINE v == Head(unacked)
            d == hist[v].doc
            new == [version |-> v, there |-> hist[v].there]
<1>. USE DEF WatchInv
<1>1. /\ unacked' = Tail(unacked)
      /\ cache' = IF cache[d].version < v THEN [cache EXCEPT ![d] = new] ELSE cache
      /\ UNCHANGED <<backendVars, streamVars, listens, token, aggVars, synced, mem, saved, keys>>
  BY DEF Acknowledged
<1>2. /\ unacked \in Seq(Nat) /\ Len(unacked) \in Nat \ {0}
      /\ v = unacked[1] /\ unacked' \in Seq(Nat) /\ Len(unacked') = Len(unacked) - 1
      /\ \A i \in 1 .. Len(unacked') : unacked'[i] = unacked[i + 1]
  BY <1>1, HeadTailProperties, LenProperties DEF TypeOK, Acknowledged
<1>3. v \in 1 .. Len(hist) /\ hist[v] \in Writes
  <2>1. v \in 1 .. Len(hist)
    BY <1>2 DEF AckInv
  <2>2. hist \in Seq(Writes)
    BY DEF TypeOK, Writes
  <2>. QED  BY <2>1, <2>2, ElementOfSeq
<1>4. new \in Entry
  BY <1>3 DEF Entry, Writes
<1>5. TypeOK'
  <2>. HIDE DEF new, v
  <2>. QED  BY <1>1, <1>2, <1>4 DEF TypeOK, backendVars, streamVars, aggVars
<1>6. AckInv'
  BY <1>1, <1>2 DEF AckInv, backendVars
<1>7. OwedInv' /\ WireInv' /\ QuietInv' /\ WatchAssertionsHold'
  BY <1>1 DEF OwedInv, WireInv, QuietInv, WatchAssertionsHold, Active, streamVars, aggVars,
              backendVars
<1>. QED  BY <1>5, <1>6, <1>7

-----------------------------------------------------------------------------
(* The theorems *)

(* Every step keeps the invariant.                                         *)
THEOREM StepInv == WatchInv /\ [Next]_vars => WatchInv'
<1>. SUFFICES ASSUME WatchInv, [Next]_vars PROVE WatchInv'
  OBVIOUS
<1>1. CASE \E t \in Targets : Listen(t) \/ StopListening(t) \/ BackendServes(t)
  BY <1>1, ListenInv, StopListeningInv, BackendServesInv
<1>2. CASE StreamOpens \/ StreamBreaks \/ IdleTimeout \/ Kill
  BY <1>2, StreamOpensInv, StreamBreaksInv, IdleTimeoutInv, KillInv
<1>3. CASE \E d \in Docs, own \in BOOLEAN : BackendWrites(d, own)
  BY <1>3, BackendWritesInv
<1>4. CASE BackendSyncs \/ Acknowledged
  BY <1>4, BackendSyncsInv, AcknowledgedInv
<1>5. CASE Read
  BY <1>5, ReadAddedInv, ReadRemovedInv, ReadDocsInv, ReadDocsIgnoredInv, ReadSnapshotInv
     DEF Read
<1>6. CASE UNCHANGED vars
  BY <1>6 DEF vars, backendVars, streamVars, aggVars, diskVars, WatchInv, TypeOK, OwedInv,
              WireInv, QuietInv, AckInv, WatchAssertionsHold, Active
<1>. QED  BY <1>1, <1>2, <1>3, <1>4, <1>5, <1>6 DEF Next

(* The two ways of counting answers under way are one.                     *)
LEMMA OwedForm == WatchInv => OwedIsUnderWay
<1>. SUFFICES ASSUME WatchInv, NEW t \in Targets
              PROVE  agg[t].owed = Len(asked[t]) + Cardinality(Responses(t))
  BY DEF OwedIsUnderWay
<1>1. DOMAIN wire = 1 .. Len(wire)
  BY LenProperties DEF WatchInv, TypeOK
<1>2. Responses(t) = ResponsesIn(wire, t)
  BY <1>1 DEF Responses, ResponsesIn, IsResponse
<1>. QED  BY <1>2 DEF WatchInv, OwedInv

(* The invariant holds in every state.                                     *)
THEOREM WatchAlways == Spec => []WatchInv
<1>. QED  BY InitInv, StepInv, PTL DEF Spec

(* Every variable keeps its type.                                          *)
THEOREM WatchTypeCorrect == Spec => []TypeOK
<1>1. WatchInv => TypeOK
  BY DEF WatchInv
<1>. QED  BY <1>1, WatchAlways, PTL

(* The count of outstanding responses of a target is at any time the       *)
(* number of its requests and answers under way, over requests in any      *)
(* order, broken streams, idleness and restarts (TargetState,              *)
(* RecordPendingTargetRequest and RecordTargetResponse).                   *)
THEOREM OwedAlwaysUnderWay == Spec => []OwedIsUnderWay
<1>. QED  BY WatchAlways, OwedForm, PTL

(* The assertions of the watch stream's code never fail: no modification   *)
(* or removal of a document that is not in the view, no stream stopped as  *)
(* idle that is needed, no view with other keys than those on disk.        *)
THEOREM WatchAssertionsAlwaysHold == Spec => []WatchAssertionsHold
<1>1. WatchInv => WatchAssertionsHold
  BY DEF WatchInv
<1>. QED  BY <1>1, WatchAlways, PTL
=============================================================================
