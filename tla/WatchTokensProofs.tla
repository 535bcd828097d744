--------------------------- MODULE WatchTokensProofs ---------------------------
(***************************************************************************)
(* Proofs about what resume tokens stand for and what the cache holds.     *)
(***************************************************************************)
EXTENDS WatchTargetsProofs

-----------------------------------------------------------------------------
(* The wire *)

IsSnapshot(m) == m.type = "snapshot"

(* No snapshot from position i on and before position j.                   *)
NoSnapshot(w, i, j) == \A k \in i .. j - 1 : ~IsSnapshot(w[k])

(* From position i on, no message is for a former life of the target.      *)
Present(w, t, i) == \A k \in i .. Len(w) : ~IsResponse(w[k], t)

(* The version that the client has the target at when it comes to the      *)
(* message at position i: that of the last snapshot before it that counts  *)
(* for the target, or else that of its token.                              *)
IsBase(w, t, i, from, b) ==
    \/ \E s \in 1 .. i - 1 : /\ IsSnapshot(w[s]) /\ Present(w, t, s)
                             /\ NoSnapshot(w, s + 1, i) /\ b = w[s].version
    \/ /\ \A s \in 1 .. i - 1 : IsSnapshot(w[s]) => ~Present(w, t, s)
       /\ b = from

IsFirst(w, i) == i \in 1 .. Len(w) /\ IsSnapshot(w[i]) /\ NoSnapshot(w, 1, i)

-----------------------------------------------------------------------------
(* What the backend's history says of entries and messages                 *)

(* The backend held the entry of the document at the entry's version.      *)
Historic(h, d, e) ==
    /\ e.version \in 0 .. Len(h)
    /\ e.version > 0 => e.there = DocAt(h, d, e.version).there
    /\ e.there => LastChange(h, d, e.version) = e.version

(* A change in the message, and its filter, say what was so at its version.*)
Reported(h, m, d) ==
    /\ d \in Matches(m.target)
    /\ m.changes[d].there = DocAt(h, d, m.version).there
    /\ m.changes[d].version > 0 /\ Historic(h, d, m.changes[d])
    /\ LastChange(h, d, m.version) <= m.changes[d].version

Reports(h, m) ==
    /\ m.version \in 0 .. Len(h)
    /\ \A d \in Docs : m.changes[d] # Nothing => Reported(h, m, d)
    /\ m.count # Nothing => m.count = Cardinality(KeysAt(h, m.target, m.version))

(* For a client that has the target at version b, the message lacks        *)
(* nothing: what it does not tell of is as it was.                         *)
Covers(h, m, b) ==
    \A d \in Matches(m.target) :
        /\ DocAt(h, d, m.version).there =>
              m.changes[d] # Nothing \/ (~m.reset /\ LastChange(h, d, m.version) <= b)
        /\ ~DocAt(h, d, m.version).there /\ DocAt(h, d, b).there =>
              m.changes[d] # Nothing \/ m.reset \/ m.count = 0

(* What is aggregated is right for the version.                            *)
Fits(h, t, v, a) ==
    \A d \in Docs :
        /\ a.changes[d] \in {"added", "modified"} => d \in KeysAt(h, t, v)
        /\ a.changes[d] = "removed" => d \notin KeysAt(h, t, v)

(* A snapshot of the same version is behind the message.                   *)
Announced(w, j) ==
    \E i \in j + 1 .. Len(w) : /\ IsSnapshot(w[i]) /\ NoSnapshot(w, j, i)
                               /\ w[i].version = w[j].version

-----------------------------------------------------------------------------
(* The inductive invariant *)

(* The targets of which the backend tells every deletion: it may leave     *)
(* those in a collection to an existence filter.                           *)
Exact(t) == filters = 0 \/ IsDocumentQuery(t)

(* The backend has taken every request of the target.                      *)
Settled(t) == stream = "open" /\ t \in listens /\ asked[t] = <<>>

(* The cache, and the updates of it that are aggregated.                   *)
HistoryInv ==
    /\ \A d \in Docs : Historic(hist, d, cache[d])
    /\ \A d \in Docs : updates[d] # Nothing =>
          Historic(hist, d, updates[d]) /\ (filters = 0 => updates[d].version > 0)

(* No token is ahead of a snapshot under way, and snapshots do not go back.*)
VersionInv ==
    /\ \A t \in Targets :
          /\ token[t] \in Version /\ mem[t] \in Version /\ saved[t] \in Version
          /\ sub[t].told \in Version
          /\ \A i \in 1 .. Len(asked[t]) : asked[t][i].from \in Version
    /\ \A i \in 1 .. Len(wire) : IsSnapshot(wire[i]) =>
          /\ wire[i].version \in Version
          /\ \A t \in Targets : /\ token[t] <= wire[i].version
                                /\ mem[t] <= wire[i].version
                                /\ saved[t] <= wire[i].version
          /\ \A j \in 1 .. i : IsSnapshot(wire[j]) => wire[j].version <= wire[i].version

ReportInv ==
    \A j \in 1 .. Len(wire) : wire[j].type = "docs" =>
        /\ Reports(hist, wire[j]) /\ Announced(wire, j)
        /\ wire[j].count # Nothing => filters > 0

(* The keys are those of the tokens, and what is asked for last is to go   *)
(* on from the token.                                                      *)
TargetRight(t) ==
    /\ keys[t] = KeysAt(hist, t, saved[t])
    /\ t \in listens => synced[t] = KeysAt(hist, t, token[t]) /\ mem[t] = token[t]
    /\ (stream = "open" /\ t \in listens /\ asked[t] # <<>>) =>
          asked[t][Len(asked[t])] = ListenFrom(token[t])
    /\ Settled(t) => sub[t].on

TargetInv ==
    /\ \A t \in resets : t = Collection /\ filters > 0
    /\ \A t \in Targets : Exact(t) => TargetRight(t)

(* The documents of the keys are in the cache, not older than the tokens.  *)
CachedInv ==
    filters = 0 =>
    /\ \A t \in listens : \A d \in synced[t] :
          LastChange(hist, d, token[t]) <= cache[d].version
    /\ \A t \in Targets : \A d \in keys[t] :
          LastChange(hist, d, saved[t]) <= cache[d].version

(* What is aggregated for an active target is right for the next snapshot. *)
MarksRight(t) ==
    (\E d \in Docs : agg[t].changes[d] # "none") =>
        \E i \in 1 .. Len(wire) : IsFirst(wire, i) /\ Fits(hist, t, wire[i].version, agg[t])

MarksInv == \A t \in Targets : (Exact(t) /\ Active(t)) => MarksRight(t)

(* With what is aggregated, the target is at version v.                    *)
Done(t, v) ==
    /\ KeysAfter(synced[t], agg[t]) = KeysAt(hist, t, v)
    /\ \A d \in KeysAt(hist, t, v) :
          \/ LastChange(hist, d, v) <= token[t]
          \/ updates[d] # Nothing /\ LastChange(hist, d, v) <= updates[d].version

(* The messages for the present life of a target lead from its token, or   *)
(* from one snapshot to the next, and the last to what the backend thinks  *)
(* it has told.                                                            *)
DocsCover(t) ==
    \A j \in 1 .. Len(wire), b \in Version :
        (/\ wire[j].type = "docs" /\ wire[j].target = t
         /\ Present(wire, t, j) /\ IsBase(wire, t, j, token[t], b))
            => Covers(hist, wire[j], b)

DocsBefore(w, t, i) ==
    \E j \in 1 .. i - 1 : /\ w[j].type = "docs" /\ w[j].target = t
                          /\ Present(w, t, j) /\ NoSnapshot(w, j, i)

SnapshotsEarned(t) ==
    \A i \in 1 .. Len(wire), b \in Version :
        (IsSnapshot(wire[i]) /\ Present(wire, t, i) /\ IsBase(wire, t, i, token[t], b)) =>
            \/ wire[i].version = b
            \/ DocsBefore(wire, t, i)
            \/ Active(t) /\ IsFirst(wire, i) /\ Done(t, wire[i].version)

ToldRight(t) ==
    \A b \in Version : IsBase(wire, t, Len(wire) + 1, token[t], b) => sub[t].told = b

Delivered(t) == DocsCover(t) /\ SnapshotsEarned(t) /\ ToldRight(t)

DeliveryInv == \A t \in Targets : (Exact(t) /\ Settled(t)) => Delivered(t)

TokensInv ==
    /\ HistoryInv /\ VersionInv /\ ReportInv /\ TargetInv /\ CachedInv /\ MarksInv
    /\ DeliveryInv

-----------------------------------------------------------------------------
(* The last change of a document *)

(* A document, as its last change left it.                                 *)
LEMMA DocAtIs ==
    ASSUME NEW h, NEW d, NEW v
    PROVE  DocAt(h, d, v) = [version |-> LastChange(h, d, v),
                             there   |-> LastChange(h, d, v) > 0
                                            /\ h[LastChange(h, d, v)].there]
BY DEF DocAt

(* There is one last change only.                                          *)
LEMMA LastChangeIs ==
    ASSUME NEW h, NEW d, NEW v \in Nat, NEW i \in 0 .. v,
           i > 0 => h[i].doc = d, \A j \in i + 1 .. v : h[j].doc # d
    PROVE  LastChange(h, d, v) = i
<1>. DEFINE l == LastChange(h, d, v)
<1>1. l \in 0 .. v /\ (l > 0 => h[l].doc = d) /\ \A j \in l + 1 .. v : h[j].doc # d
  BY LastChangeType
<1>. HIDE DEF l
<1>2. ~ (l < i)
  <2>1. l < i => i \in l + 1 .. v /\ i > 0
    BY <1>1
  <2>. QED  BY <1>1, <2>1
<1>3. ~ (i < l)
  <2>1. i < l => l \in i + 1 .. v /\ l > 0
    BY <1>1
  <2>. QED  BY <1>1, <2>1
<1>. QED  BY <1>1, <1>2, <1>3 DEF l

(* At its last change, and until the next, a document is the same.         *)
LEMMA SameSince ==
    ASSUME NEW h, NEW d, NEW v \in Nat, NEW b \in 0 .. v, LastChange(h, d, v) <= b
    PROVE  LastChange(h, d, b) = LastChange(h, d, v) /\ DocAt(h, d, b) = DocAt(h, d, v)
<1>. DEFINE l == LastChange(h, d, v)
<1>1. l \in 0 .. v /\ (l > 0 => h[l].doc = d) /\ \A j \in l + 1 .. v : h[j].doc # d
  BY LastChangeType
<1>. HIDE DEF l
<1>2. l \in 0 .. b /\ \A j \in l + 1 .. b : j \in l + 1 .. v
  BY <1>1 DEF l
<1>3. LastChange(h, d, b) = l
  BY <1>1, <1>2, LastChangeIs
<1>. QED  BY <1>3, DocAtIs DEF l

(* A version that is a change of the document is its last at that version. *)
LEMMA LastAtChange ==
    ASSUME NEW h, NEW d, NEW v \in Nat, v > 0, h[v].doc = d,
           h[v].there \in BOOLEAN
    PROVE  LastChange(h, d, v) = v /\ DocAt(h, d, v) = [version |-> v, there |-> h[v].there]
<1>1. LastChange(h, d, v) = v
  BY LastChangeIs
<1>. QED  BY <1>1, DocAtIs

(* At version 0 there is no document.                                      *)
LEMMA NoneAtZero ==
    ASSUME NEW h, NEW d
    PROVE  LastChange(h, d, 0) = 0 /\ ~DocAt(h, d, 0).there
<1>1. LastChange(h, d, 0) = 0
  BY LastChangeType
<1>2. ~ (LastChange(h, d, 0) > 0)
  BY <1>1
<1>. QED  BY <1>1, <1>2, DocAtIs

(* What the backend applies leaves the past as it was.                     *)
LEMMA PastStays ==
    ASSUME NEW h \in Seq(Writes), NEW w \in Writes, NEW d, NEW v \in 0 .. Len(h)
    PROVE  /\ LastChange(Append(h, w), d, v) = LastChange(h, d, v)
           /\ DocAt(Append(h, w), d, v) = DocAt(h, d, v)
<1>. DEFINE l == LastChange(h, d, v)
            g == Append(h, w)
<1>1. l \in 0 .. v /\ (l > 0 => h[l].doc = d) /\ \A j \in l + 1 .. v : h[j].doc # d
  BY LastChangeType
<1>2. Len(h) \in Nat /\ v \in Nat /\ \A j \in 1 .. v : g[j] = h[j]
  OBVIOUS
<1>. HIDE DEF l, g
<1>3. LastChange(g, d, v) = l
  <2>1. l > 0 => g[l].doc = d
    BY <1>1, <1>2
  <2>2. \A j \in l + 1 .. v : g[j].doc # d
    BY <1>1, <1>2
  <2>. QED  BY <1>1, <1>2, <2>1, <2>2, LastChangeIs
<1>4. l > 0 => g[l].there = h[l].there
  BY <1>1, <1>2
<1>. QED  BY <1>3, <1>4, DocAtIs DEF l, g

(* A document that is there was last changed at a version of its own.      *)
LEMMA ThereSince ==
    ASSUME NEW h, NEW d, NEW v \in Nat, DocAt(h, d, v).there
    PROVE  LastChange(h, d, v) > 0
BY DocAtIs

-----------------------------------------------------------------------------
(* What the wire says of a target, as messages come and go                 *)

(* Where no snapshot lies between, the base is the same.                   *)
LEMMA BaseSlides ==
    ASSUME NEW w, NEW t, NEW f, NEW b, NEW i \in Nat \ {0}, NEW j \in Nat, i <= j,
           NoSnapshot(w, i, j)
    PROVE  IsBase(w, t, j, f, b) <=> IsBase(w, t, i, f, b)
<1>1. \A s \in 1 .. j - 1 : IsSnapshot(w[s]) => s \in 1 .. i - 1
  <2>. SUFFICES ASSUME NEW s \in 1 .. j - 1, IsSnapshot(w[s]) PROVE s \in 1 .. i - 1
    OBVIOUS
  <2>1. s \notin i .. j - 1
    BY DEF NoSnapshot
  <2>. QED  BY <2>1
<1>2. \A s \in 1 .. i - 1 : s \in 1 .. j - 1
  OBVIOUS
<1>3. ASSUME NEW s \in 1 .. i - 1
      PROVE  NoSnapshot(w, s + 1, j) <=> NoSnapshot(w, s + 1, i)
  <2>1. \A k \in s + 1 .. i - 1 : k \in s + 1 .. j - 1
    OBVIOUS
  <2>2. \A k \in s + 1 .. j - 1 : k \in s + 1 .. i - 1 \/ k \in i .. j - 1
    OBVIOUS
  <2>. QED  BY <2>1, <2>2 DEF NoSnapshot
<1>. QED  BY <1>1, <1>2, <1>3 DEF IsBase

(* The messages of a lengthened wire.                                      *)
LEMMA ConcatAt ==
    ASSUME NEW w \in Seq(Messages), NEW u \in Seq(Messages)
    PROVE  /\ w \o u \in Seq(Messages) /\ Len(w \o u) = Len(w) + Len(u)
           /\ Len(w) \in Nat /\ Len(u) \in Nat
           /\ \A i \in 1 .. Len(w) : (w \o u)[i] = w[i]
           /\ \A i \in 1 .. Len(u) : (w \o u)[Len(w) + i] = u[i]
OBVIOUS

(* Messages more that are no responses for the target.                     *)
LEMMA BaseConcat ==
    ASSUME NEW w \in Seq(Messages), NEW u \in Seq(Messages), NEW t, NEW f, NEW b,
           \A i \in 1 .. Len(u) : ~IsResponse(u[i], t), NEW i \in 1 .. Len(w) + 1
    PROVE  /\ Present(w \o u, t, i) <=> Present(w, t, i)
           /\ IsBase(w \o u, t, i, f, b) <=> IsBase(w, t, i, f, b)
<1>. DEFINE c == w \o u
<1>1. /\ Len(c) = Len(w) + Len(u) /\ Len(w) \in Nat /\ Len(u) \in Nat
      /\ \A k \in 1 .. Len(w) : c[k] = w[k]
      /\ \A k \in 1 .. Len(u) : c[Len(w) + k] = u[k]
  BY ConcatAt
<1>. HIDE DEF c
<1>2. ASSUME NEW s \in 1 .. Len(w) + 1 PROVE Present(c, t, s) <=> Present(w, t, s)
  <2>1. \A k \in s .. Len(w) : k \in s .. Len(c) /\ k \in 1 .. Len(w)
    BY <1>1
  <2>2. ASSUME NEW k \in s .. Len(c), k \notin s .. Len(w) PROVE ~IsResponse(c[k], t)
    <3>1. k - Len(w) \in 1 .. Len(u) /\ k = Len(w) + (k - Len(w))
      BY <1>1, <2>2
    <3>2. c[k] = u[k - Len(w)]
      BY <1>1, <3>1
    <3>. QED  BY <3>1, <3>2
  <2>. QED  BY <1>1, <2>1, <2>2 DEF Present
<1>3. \A s \in 1 .. i - 1 : s \in 1 .. Len(w) + 1 /\ s \in 1 .. Len(w)
  BY <1>1
<1>4. ASSUME NEW s \in 1 .. i - 1 PROVE NoSnapshot(c, s + 1, i) <=> NoSnapshot(w, s + 1, i)
  <2>1. \A k \in s + 1 .. i - 1 : k \in 1 .. Len(w)
    BY <1>1
  <2>. QED  BY <1>1, <2>1 DEF NoSnapshot
<1>5. \A s \in 1 .. i - 1 : c[s] = w[s] /\ (Present(c, t, s) <=> Present(w, t, s))
  BY <1>1, <1>2, <1>3
<1>6. IsBase(c, t, i, f, b) <=> IsBase(w, t, i, f, b)
  BY <1>4, <1>5 DEF IsBase
<1>. QED  BY <1>2, <1>6 DEF c

(* A response for the target more: all before it is of a former life.      *)
LEMMA BaseResponse ==
    ASSUME NEW w \in Seq(Messages), NEW m \in Messages, NEW t, IsResponse(m, t),
           NEW f, NEW b
    PROVE  /\ \A i \in 1 .. Len(w) + 1 : ~Present(Append(w, m), t, i)
           /\ IsBase(Append(w, m), t, Len(w) + 2, f, b) => b = f
<1>. DEFINE c == Append(w, m)
<1>1. Len(c) = Len(w) + 1 /\ Len(w) \in Nat /\ c[Len(w) + 1] = m
  OBVIOUS
<1>. HIDE DEF c
<1>2. ASSUME NEW i \in 1 .. Len(w) + 1 PROVE ~Present(c, t, i)
  <2>1. Len(w) + 1 \in i .. Len(c)
    BY <1>1
  <2>. QED  BY <1>1, <2>1 DEF Present
<1>3. \A s \in 1 .. (Len(w) + 2) - 1 : s \in 1 .. Len(w) + 1
  BY <1>1
<1>4. IsBase(c, t, Len(w) + 2, f, b) => b = f
  BY <1>2, <1>3 DEF IsBase
<1>. QED  BY <1>2, <1>4 DEF c

(* The oldest message taken: positions are one less.                       *)
LEMMA TailAt ==
    ASSUME NEW w \in Seq(Messages), w # <<>>
    PROVE  /\ Tail(w) \in Seq(Messages) /\ Len(w) \in Nat \ {0} /\ Len(Tail(w)) = Len(w) - 1
           /\ Head(w) = w[1] /\ Head(w) \in Messages
           /\ \A i \in 1 .. Len(Tail(w)) : i + 1 \in 1 .. Len(w) /\ Tail(w)[i] = w[i + 1]
<1>1. /\ Tail(w) \in Seq(Messages) /\ Len(w) \in Nat \ {0} /\ Len(Tail(w)) = Len(w) - 1
      /\ Head(w) = w[1] /\ Head(w) \in Messages
  OBVIOUS
<1>2. \A i \in 1 .. Len(Tail(w)) : Tail(w)[i] = w[i + 1]
  OBVIOUS
<1>3. \A i \in 1 .. Len(Tail(w)) : i + 1 \in 1 .. Len(w)
  BY <1>1
<1>. QED  BY <1>1, <1>2, <1>3

(* What is present from a place of the tail is present one place further on.*)
LEMMA PresentTail ==
    ASSUME NEW w \in Seq(Messages), w # <<>>, NEW t, NEW i \in Nat \ {0}
    PROVE  Present(Tail(w), t, i) <=> Present(w, t, i + 1)
<1>. DEFINE v == Tail(w)
<1>1. /\ Len(w) \in Nat \ {0} /\ Len(v) = Len(w) - 1
      /\ \A k \in 1 .. Len(v) : v[k] = w[k + 1]
  BY TailAt
<1>. HIDE DEF v
<1>2. \A k \in i .. Len(v) : k \in 1 .. Len(v) /\ k + 1 \in i + 1 .. Len(w)
  BY <1>1
<1>3. \A k \in i + 1 .. Len(w) : k - 1 \in i .. Len(v) /\ k = (k - 1) + 1
  BY <1>1
<1>4. Present(w, t, i + 1) => Present(v, t, i)
  BY <1>1, <1>2 DEF Present
<1>5. ASSUME Present(v, t, i), NEW k \in i + 1 .. Len(w) PROVE ~IsResponse(w[k], t)
  <2>1. v[k - 1] = w[k] /\ k - 1 \in i .. Len(v)
    BY <1>1, <1>2, <1>3
  <2>. QED  BY <1>5, <2>1 DEF Present
<1>. QED  BY <1>4, <1>5 DEF Present, v

(* So is a stretch without a snapshot.                                     *)
LEMMA NoSnapshotTail ==
    ASSUME NEW w \in Seq(Messages), w # <<>>, NEW i \in Nat \ {0},
           NEW j \in 1 .. Len(w)
    PROVE  NoSnapshot(Tail(w), i, j) <=> NoSnapshot(w, i + 1, j + 1)
<1>. DEFINE v == Tail(w)
<1>1. /\ Len(w) \in Nat \ {0} /\ Len(v) = Len(w) - 1
      /\ \A k \in 1 .. Len(v) : v[k] = w[k + 1]
  BY TailAt
<1>. HIDE DEF v
<1>2. \A k \in i .. j - 1 : k \in 1 .. Len(v) /\ k + 1 \in i + 1 .. (j + 1) - 1
  BY <1>1
<1>3. \A k \in i + 1 .. (j + 1) - 1 : k - 1 \in i .. j - 1 /\ k = (k - 1) + 1
  BY <1>1
<1>4. NoSnapshot(w, i + 1, j + 1) => NoSnapshot(v, i, j)
  BY <1>1, <1>2 DEF NoSnapshot
<1>5. ASSUME NoSnapshot(v, i, j), NEW k \in i + 1 .. (j + 1) - 1 PROVE ~IsSnapshot(w[k])
  <2>1. v[k - 1] = w[k] /\ k - 1 \in i .. j - 1
    BY <1>1, <1>2, <1>3
  <2>. QED  BY <1>5, <2>1 DEF NoSnapshot
<1>. QED  BY <1>4, <1>5 DEF NoSnapshot, v

(* What is read, and is no snapshot that counts for the target, leaves the *)
(* bases as they were; such a snapshot becomes the base to start from.     *)
LEMMA BaseTail ==
    ASSUME NEW w \in Seq(Messages), w # <<>>, NEW t, NEW f, NEW b,
           NEW i \in 1 .. Len(w), NEW g,
           IsBase(Tail(w), t, i, g, b),
           IF IsSnapshot(Head(w)) /\ Present(w, t, 1) THEN g = Head(w).version ELSE g = f
    PROVE  IsBase(w, t, i + 1, f, b)
<1>. DEFINE v == Tail(w)
<1>1. /\ Len(w) \in Nat \ {0} /\ Len(v) = Len(w) - 1 /\ Head(w) = w[1]
      /\ \A k \in 1 .. Len(v) : v[k] = w[k + 1]
  BY TailAt
<1>2. \A s \in Nat \ {0} : Present(v, t, s) <=> Present(w, t, s + 1)
  BY PresentTail
<1>3. \A s \in Nat \ {0} : NoSnapshot(v, s, i) <=> NoSnapshot(w, s + 1, i + 1)
  BY NoSnapshotTail
<1>4. IsBase(v, t, i, g, b)
  OBVIOUS
<1>. HIDE DEF v
<1>5. \A s \in 1 .. i - 1 : s \in 1 .. Len(v) /\ s + 1 \in 1 .. (i + 1) - 1 /\ s + 1 \in Nat \ {0}
  BY <1>1
<1>6. CASE \E s \in 1 .. i - 1 : /\ IsSnapshot(v[s]) /\ Present(v, t, s)
                                 /\ NoSnapshot(v, s + 1, i) /\ b = v[s].version
  <2>1. PICK s \in 1 .. i - 1 : /\ IsSnapshot(v[s]) /\ Present(v, t, s)
                                /\ NoSnapshot(v, s + 1, i) /\ b = v[s].version
    BY <1>6
  <2>2. /\ s + 1 \in 1 .. (i + 1) - 1 /\ IsSnapshot(w[s + 1]) /\ Present(w, t, s + 1)
        /\ NoSnapshot(w, (s + 1) + 1, i + 1) /\ b = w[s + 1].version
    <3>1. /\ s \in 1 .. Len(v) /\ s + 1 \in 1 .. (i + 1) - 1
          /\ s \in Nat \ {0} /\ s + 1 \in Nat \ {0}
      BY <1>5
    <3>2. v[s] = w[s + 1] /\ Present(w, t, s + 1)
      BY <1>1, <1>2, <2>1, <3>1
    <3>3. NoSnapshot(w, (s + 1) + 1, i + 1)
      BY <1>3, <2>1, <3>1
    <3>. QED  BY <2>1, <3>1, <3>2, <3>3
  <2>. QED  BY <2>2 DEF IsBase
<1>7. CASE (\A s \in 1 .. i - 1 : IsSnapshot(v[s]) => ~Present(v, t, s)) /\ b = g
  <2>1. ASSUME NEW s \in 1 .. (i + 1) - 1, s # 1, IsSnapshot(w[s]) PROVE ~Present(w, t, s)
    <3>1. s - 1 \in 1 .. i - 1 /\ s = (s - 1) + 1 /\ s - 1 \in 1 .. Len(v)
      BY <1>1, <2>1
    <3>2. v[s - 1] = w[s]
      BY <1>1, <3>1
    <3>. QED  BY <1>2, <1>7, <2>1, <3>1, <3>2
  <2>2. CASE IsSnapshot(w[1]) /\ Present(w, t, 1)
    <3>1. ASSUME NEW s \in 2 .. i PROVE ~IsSnapshot(w[s])
      <4>1. s - 1 \in 1 .. i - 1 /\ s - 1 \in 1 .. Len(v) /\ (s - 1) + 1 = s
            /\ s \in 1 .. (i + 1) - 1 /\ s # 1
        BY <1>1
      <4>2. Present(w, t, s)
        BY <2>2, <4>1 DEF Present
      <4>. QED  BY <2>1, <4>1, <4>2
    <3>2. NoSnapshot(w, 1 + 1, i + 1) /\ 1 \in 1 .. (i + 1) - 1
      BY <3>1 DEF NoSnapshot
    <3>3. b = w[1].version
      BY <1>1, <1>7, <2>2
    <3>. QED  BY <2>2, <3>2, <3>3 DEF IsBase
  <2>3. CASE ~ (IsSnapshot(w[1]) /\ Present(w, t, 1))
    <3>1. b = f
      BY <1>1, <1>7, <2>3
    <3>. QED  BY <2>1, <2>3, <3>1 DEF IsBase
  <2>. QED  BY <2>2, <2>3
<1>. QED  BY <1>4, <1>6, <1>7 DEF IsBase

(* The keys of a target are documents.                                     *)
LEMMA KeysAreDocs ==
    ASSUME NEW h, NEW t \in Targets, NEW v
    PROVE  KeysAt(h, t, v) \subseteq Docs /\ Matches(t) \subseteq Docs
BY TargetsAssumption, DistinctAssumption DEF KeysAt, Matches, IsDocumentQuery

(* So do the keys of a target, what is historic, and what messages say.    *)
LEMMA KeysStay ==
    ASSUME NEW h \in Seq(Writes), NEW w \in Writes, NEW t, NEW v \in 0 .. Len(h)
    PROVE  KeysAt(Append(h, w), t, v) = KeysAt(h, t, v)
BY PastStays DEF KeysAt

(* What was held at a version stays history as writes are added.           *)
LEMMA HistoricStays ==
    ASSUME NEW h \in Seq(Writes), NEW w \in Writes, NEW d, NEW e, Historic(h, d, e)
    PROVE  Historic(Append(h, w), d, e)
<1>. DEFINE g == Append(h, w)
<1>1. Len(g) = Len(h) + 1 /\ Len(h) \in Nat
  OBVIOUS
<1>2. e.version \in 0 .. Len(h)
  BY DEF Historic
<1>3. /\ LastChange(g, d, e.version) = LastChange(h, d, e.version)
      /\ DocAt(g, d, e.version) = DocAt(h, d, e.version)
  BY <1>2, PastStays
<1>. HIDE DEF g
<1>4. e.version \in 0 .. Len(g)
  BY <1>1, <1>2
<1>5. Historic(g, d, e)
  BY <1>3, <1>4 DEF Historic
<1>. QED  BY <1>5 DEF g

(* What a message reports stays a report of the longer history.            *)
LEMMA ReportsStay ==
    ASSUME NEW h \in Seq(Writes), NEW w \in Writes, NEW m, Reports(h, m)
    PROVE  Reports(Append(h, w), m)
<1>. DEFINE g == Append(h, w)
<1>1. Len(g) = Len(h) + 1 /\ Len(h) \in Nat
  OBVIOUS
<1>2. m.version \in 0 .. Len(h)
  BY DEF Reports
<1>3. \A d : /\ LastChange(g, d, m.version) = LastChange(h, d, m.version)
             /\ DocAt(g, d, m.version) = DocAt(h, d, m.version)
  BY <1>2, PastStays
<1>4. KeysAt(g, m.target, m.version) = KeysAt(h, m.target, m.version)
  BY <1>2, KeysStay
<1>5. \A d, e : Historic(h, d, e) => Historic(g, d, e)
  BY HistoricStays
<1>. HIDE DEF g
<1>6. m.version \in 0 .. Len(g)
  BY <1>1, <1>2
<1>7. \A d \in Docs : m.changes[d] # Nothing => Reported(g, m, d)
  BY <1>3, <1>5 DEF Reports, Reported
<1>8. Reports(g, m)
  BY <1>4, <1>6, <1>7 DEF Reports
<1>. QED  BY <1>8 DEF g

(* What a message covers it covers in the longer history.                  *)
LEMMA CoversStay ==
    ASSUME NEW h \in Seq(Writes), NEW w \in Writes, NEW m, m.version \in 0 .. Len(h),
           NEW b \in 0 .. Len(h), Covers(h, m, b)
    PROVE  Covers(Append(h, w), m, b)
<1>1. \A d : /\ LastChange(Append(h, w), d, m.version) = LastChange(h, d, m.version)
             /\ DocAt(Append(h, w), d, m.version) = DocAt(h, d, m.version)
             /\ DocAt(Append(h, w), d, b) = DocAt(h, d, b)
  BY PastStays
<1>. QED  BY <1>1 DEF Covers

(* An aggregate that fits the keys of a version fits them still.           *)
LEMMA FitsStays ==
    ASSUME NEW h \in Seq(Writes), NEW w \in Writes, NEW t, NEW v \in 0 .. Len(h), NEW a,
           Fits(h, t, v, a)
    PROVE  Fits(Append(h, w), t, v, a)
BY KeysStay DEF Fits

-----------------------------------------------------------------------------
(* What is aggregated *)

(* Where the aggregated changes fit, and leave out nothing, they lead to   *)
(* the keys of the version.                                                *)
LEMMA FittingKeys ==
    ASSUME NEW h, NEW t \in Targets, NEW v, NEW ks \in SUBSET Docs, NEW a \in Aggregates,
           Fits(h, t, v, a), Marked(a, ks),
           \A d \in Docs : a.changes[d] = "none" => (d \in ks <=> d \in KeysAt(h, t, v))
    PROVE  KeysAfter(ks, a) = KeysAt(h, t, v)
<1>. DEFINE K == KeysAt(h, t, v)
<1>1. K \subseteq Docs
  BY KeysAreDocs
<1>2. \A d \in Docs : /\ a.changes[d] \in {"none", "added", "modified", "removed"}
                      /\ a.changes[d] \in {"added", "modified"} => d \in K
                      /\ a.changes[d] = "removed" => d \notin K
                      /\ a.changes[d] \in {"modified", "removed"} => d \in ks
                      /\ a.changes[d] = "none" => (d \in ks <=> d \in K)
  BY DEF Fits, Marked, Aggregates, Kinds
<1>. HIDE DEF K
<1>3. KeysAfter(ks, a) \subseteq Docs
  BY DEF KeysAfter, ChangesOf
<1>4. \A d \in Docs : d \in KeysAfter(ks, a)
          <=> (d \in ks /\ a.changes[d] # "removed") \/ a.changes[d] = "added"
  BY DEF KeysAfter, ChangesOf
<1>5. \A d \in Docs : d \in KeysAfter(ks, a) <=> d \in K
  BY <1>2, <1>4
<1>. QED  BY <1>1, <1>3, <1>5 DEF K

(* A client that has the keys of version b, aggregates changes that fit,   *)
(* and reads documents that lack nothing.                                  *)
LEMMA DocsAggregated ==
    ASSUME NEW h, NEW t \in Targets, NEW m \in Messages, m.target = t,
           NEW b \in 0 .. m.version, NEW ks, ks = KeysAt(h, t, b), NEW a \in Aggregates,
           Reports(h, m), Covers(h, m, b), Fits(h, t, m.version, a),
           NEW d \in Docs
    PROVE  LET k == Aggregated(a, ks, m).changes[d]
               K == KeysAt(h, t, m.version)
           IN  /\ k \in {"added", "modified"} => d \in K
               /\ k = "removed" => d \notin K
               /\ k = "none" /\ (m.count = 0 => d \notin ks) => (d \in ks <=> d \in K)
<1>. DEFINE r == IF m.reset THEN Reset(ks) ELSE a
            k == Aggregated(a, ks, m).changes[d]
            v == m.version
            K == KeysAt(h, t, v)
<1>1. r \in Aggregates
  BY ResetType
<1>2. k = IF m.changes[d] = Nothing THEN r.changes[d] ELSE Change(ks, d, m.changes[d].there)
  <2>. DEFINE c == [x \in Docs |-> IF m.changes[x] = Nothing THEN r.changes[x]
                                   ELSE Change(ks, x, m.changes[x].there)]
  <2>1. Aggregated(a, ks, m) = [r EXCEPT !.current = TRUE, !.changes = c]
    BY DEF Aggregated
  <2>. HIDE DEF r, c
  <2>2. Aggregated(a, ks, m).changes = c
    BY <1>1, <2>1 DEF Aggregates
  <2>. QED  BY <2>2 DEF c
<1>3. d \in K <=> d \in Matches(t) /\ DocAt(h, d, v).there
  BY DEF KeysAt
<1>4. d \in ks <=> d \in Matches(t) /\ DocAt(h, d, b).there
  BY DEF KeysAt
<1>. HIDE DEF K
<1>5. CASE m.changes[d] # Nothing
  <2>1. d \in Matches(t) /\ (m.changes[d].there <=> d \in K)
    BY <1>3, <1>5 DEF Reports, Reported
  <2>2. k = Change(ks, d, m.changes[d].there)
    BY <1>2, <1>5
  <2>. HIDE DEF k
  <2>3. CASE d \in K
    BY <2>1, <2>2, <2>3 DEF Change, k, K
  <2>4. CASE d \notin K
    BY <2>1, <2>2, <2>4 DEF Change, k, K
  <2>. QED  BY <2>3, <2>4
<1>6. CASE m.changes[d] = Nothing /\ m.reset
  <2>1. k = IF d \in ks THEN "removed" ELSE "none"
    <3>1. k = Reset(ks).changes[d]
      BY <1>2, <1>6
    <3>2. Reset(ks).changes[d] = IF d \in ks THEN "removed" ELSE "none"
      BY FreshType DEF Reset, Aggregates
    <3>. QED  BY <3>1, <3>2
  <2>2. d \notin K
    BY <1>3, <1>6 DEF Covers
  <2>. HIDE DEF k
  <2>3. CASE d \in ks
    BY <2>1, <2>2, <2>3 DEF k, K
  <2>4. CASE d \notin ks
    BY <2>1, <2>2, <2>4 DEF k, K
  <2>. QED  BY <2>3, <2>4
<1>7. CASE m.changes[d] = Nothing /\ ~m.reset
  <2>1. k = a.changes[d]
    BY <1>2, <1>7
  <2>2. /\ k \in {"added", "modified"} => d \in K
        /\ k = "removed" => d \notin K
    BY <2>1 DEF Fits, K
  <2>3. ASSUME d \in K PROVE d \in ks
    <3>1. d \in Matches(t) /\ DocAt(h, d, v).there /\ LastChange(h, d, v) <= b
      BY <1>3, <1>7, <2>3 DEF Covers
    <3>2. m.version \in Nat
      BY DEF Messages
    <3>3. DocAt(h, d, b).there
      BY <3>1, <3>2, SameSince
    <3>. QED  BY <1>4, <3>1, <3>3
  <2>4. ASSUME d \in ks, d \notin K PROVE m.count = 0
    BY <1>3, <1>4, <1>7, <2>4 DEF Covers
  <2>. HIDE DEF k
  <2>5. k = "none" /\ (m.count = 0 => d \notin ks) => (d \in ks <=> d \in K)
    BY <2>3, <2>4
  <2>. QED  BY <2>2, <2>5 DEF k, K
<1>. QED  BY <1>5, <1>6, <1>7

-----------------------------------------------------------------------------
(* Steps that take nothing from the wire                                   *)

(* The initial states satisfy the invariant.                               *)
LEMMA InitTokens == Init => TokensInv
<1>. SUFFICES ASSUME Init PROVE TokensInv
  OBVIOUS
<1>. USE DEF Init
<1>1. Len(hist) = 0 /\ Len(wire) = 0
  OBVIOUS
<1>2. HistoryInv
  BY <1>1 DEF HistoryInv, Historic, Unknown
<1>3. VersionInv
  BY <1>1 DEF VersionInv, Version
<1>4. ReportInv /\ CachedInv /\ DeliveryInv
  BY <1>1 DEF ReportInv, CachedInv, DeliveryInv, Settled
<1>5. TargetInv
  <2>1. \A t \in Targets : KeysAt(hist, t, 0) = {}
    BY NoneAtZero DEF KeysAt
  <2>. QED  BY <2>1 DEF TargetInv, TargetRight, Settled
<1>6. MarksInv
  BY FreshType DEF MarksInv, MarksRight
<1>. QED  BY <1>2, <1>3, <1>4, <1>5, <1>6 DEF TokensInv

(* The stream is gone, or is opened: nothing is under way, and targets are *)
(* still listened to with what they had, or not at all.                    *)
LEMMA EmptyWire ==
    ASSUME TokensInv, wire' = <<>>, UNCHANGED <<hist, filters, keys, cache, saved>>,
           \A d \in Docs : updates'[d] \in {updates[d], Nothing}, resets' \subseteq resets,
           \A t \in Targets, d \in Docs : agg'[t].changes[d] = "none",
           listens' \subseteq listens, listens \subseteq Targets,
           \A t \in Targets : /\ token'[t] \in {token[t], 0} /\ mem'[t] \in {mem[t], 0}
                              /\ sub'[t].told \in {sub[t].told, 0},
           \A t \in listens' : token'[t] = token[t] /\ mem'[t] = mem[t] /\ synced'[t] = synced[t],
           \A t \in Targets : asked'[t] = <<>> \/ asked'[t] = <<ListenFrom(token'[t])>>,
           stream' = "open" => \A t \in listens' : asked'[t] # <<>>,
           hist \in Seq(Writes)
    PROVE  TokensInv'
<1>. USE DEF TokensInv
<1>1. Len(wire') = 0 /\ 0 \in Version
  BY DEF Version
<1>2. HistoryInv'
  BY DEF HistoryInv
<1>3. \A t \in Targets : /\ token'[t] \in Version /\ mem'[t] \in Version /\ saved'[t] \in Version
                         /\ sub'[t].told \in Version
  BY <1>1 DEF VersionInv
<1>4. \A t \in Targets : \A i \in 1 .. Len(asked'[t]) : asked'[t][i].from \in Version
  <2>. SUFFICES ASSUME NEW t \in Targets, NEW i \in 1 .. Len(asked'[t])
                PROVE  asked'[t][i].from \in Version
    OBVIOUS
  <2>1. asked'[t] # <<>> /\ asked'[t] = <<ListenFrom(token'[t])>>
    OBVIOUS
  <2>2. asked'[t][i] = ListenFrom(token'[t])
    BY <2>1
  <2>. QED  BY <1>3, <2>2 DEF ListenFrom
<1>5. VersionInv'
  BY <1>1, <1>3, <1>4 DEF VersionInv, Version
<1>6. ReportInv'
  BY <1>1 DEF ReportInv
<1>7. TargetInv'
  <2>. SUFFICES ASSUME NEW t \in Targets, Exact(t)' PROVE TargetRight(t)'
    BY DEF TargetInv
  <2>1. TargetRight(t)
    BY DEF TargetInv, Exact
  <2>2. ASSUME t \in listens'
        PROVE  /\ synced'[t] = KeysAt(hist', t, token'[t]) /\ mem'[t] = token'[t]
               /\ ~Settled(t)'
               /\ stream' = "open" => asked'[t][Len(asked'[t])] = ListenFrom(token'[t])
    <3>1. t \in listens /\ asked'[t] # <<>> => asked'[t] = <<ListenFrom(token'[t])>>
      BY <2>2
    <3>2. \A x : Len(<<x>>) = 1 /\ <<x>>[1] = x
      OBVIOUS
    <3>3. ~Settled(t)'
      BY <2>2 DEF Settled
    <3>4. synced'[t] = KeysAt(hist', t, token'[t]) /\ mem'[t] = token'[t]
      BY <2>1, <2>2, <3>1 DEF TargetRight
    <3>5. stream' = "open" => asked'[t][Len(asked'[t])] = ListenFrom(token'[t])
      BY <2>2, <3>1, <3>2
    <3>. QED  BY <3>3, <3>4, <3>5
  <2>3. ~Settled(t)'
    BY DEF Settled
  <2>4. keys'[t] = KeysAt(hist', t, saved'[t])
    BY <2>1 DEF TargetRight
  <2>. QED  BY <2>2, <2>3, <2>4 DEF TargetRight
<1>8. CachedInv'
  BY DEF CachedInv
<1>9. MarksInv'
  BY DEF MarksInv, MarksRight
<1>10. DeliveryInv'
  <2>1. \A t \in Targets : ~Settled(t)'
    BY DEF Settled
  <2>. QED  BY <2>1 DEF DeliveryInv
<1>. QED  BY <1>2, <1>5, <1>6, <1>7, <1>8, <1>9, <1>10

(* The stream breaks, is stopped as idle, or the process ends.             *)
LEMMA StreamEnds ==
    ASSUME WatchInv, TokensInv, StreamBreaks \/ IdleTimeout \/ Kill PROVE TokensInv'
<1>1. PICK next \in {"starting", "closed"} : StreamGone(next)
  BY DEF StreamBreaks, IdleTimeout, Kill
<1>2. /\ wire' = <<>> /\ resets' = {} /\ stream' # "open"
      /\ \A d \in Docs : updates'[d] = Nothing
      /\ \A t \in Targets : asked'[t] = <<>> /\ agg'[t] = Fresh /\ sub'[t].told = 0
  BY <1>1 DEF StreamGone
<1>3. /\ UNCHANGED <<hist, filters, keys, cache, saved>> /\ listens' \subseteq listens
      /\ \A t \in Targets : token'[t] \in {token[t], 0} /\ mem'[t] \in {mem[t], 0}
      /\ \A t \in listens' : token'[t] = token[t] /\ mem'[t] = mem[t] /\ synced'[t] = synced[t]
  BY DEF StreamBreaks, IdleTimeout, Kill, diskVars
<1>4. hist \in Seq(Writes) /\ listens \subseteq Targets
  BY DEF WatchInv, TypeOK, Writes
<1>. QED  BY <1>2, <1>3, <1>4, FreshType, EmptyWire

(* The stream opens.                                                       *)
LEMMA OpensTokens == ASSUME WatchInv, TokensInv, StreamOpens PROVE TokensInv'
<1>1. /\ wire' = <<>> /\ resets' = resets /\ updates' = updates /\ stream' = "open"
      /\ UNCHANGED <<hist, filters, keys, cache, saved, listens, token, mem, synced, sub>>
  BY DEF StreamOpens, WatchInv, QuietInv, backendVars, diskVars
<1>2. hist \in Seq(Writes) /\ listens \subseteq Targets
  BY DEF WatchInv, TypeOK, Writes
<1>3. ASSUME NEW t \in Targets
      PROVE  /\ asked'[t] = <<>> \/ asked'[t] = <<ListenFrom(token'[t])>>
             /\ t \in listens => asked'[t] # <<>>
             /\ \A d \in Docs : agg'[t].changes[d] = "none"
  <2>1. asked'[t] = IF t \in listens THEN <<ListenFrom(token[t])>> ELSE <<>>
    BY DEF StreamOpens
  <2>2. agg'[t] = Fresh \/ agg'[t] = [Fresh EXCEPT !.owed = 1]
    BY DEF StreamOpens
  <2>3. agg'[t].changes = Fresh.changes
    BY <2>2, FreshType DEF Aggregates
  <2>. QED  BY <1>1, <2>1, <2>3, FreshType
<1>. QED  BY <1>1, <1>2, <1>3, EmptyWire

(* A target that a step leaves alone.                                      *)
LEMMA OtherTarget ==
    ASSUME NEW t \in Targets, UNCHANGED <<hist, wire, updates, filters>>,
           sub'[t] = sub[t], asked'[t] = asked[t], token'[t] = token[t], mem'[t] = mem[t],
           saved'[t] = saved[t], keys'[t] = keys[t], synced'[t] = synced[t], agg'[t] = agg[t],
           t \in listens' <=> t \in listens, stream' = "open" => stream = "open"
    PROVE  /\ Exact(t)' <=> Exact(t)
           /\ TargetRight(t) => TargetRight(t)'
           /\ Active(t)' => Active(t)
           /\ MarksRight(t) => MarksRight(t)'
           /\ Settled(t)' => Settled(t)
           /\ Delivered(t) => Delivered(t)'
<1>1. /\ Exact(t)' <=> Exact(t)
      /\ Active(t)' <=> Active(t)
      /\ Settled(t)' => Settled(t)
  BY DEF Exact, Active, Settled
<1>2. TargetRight(t) => TargetRight(t)'
  BY <1>1 DEF TargetRight
<1>3. MarksRight(t) => MarksRight(t)'
  BY DEF MarksRight
<1>4. DocsCover(t) => DocsCover(t)'
  BY DEF DocsCover, Version
<1>5. \A v : Done(t, v) => Done(t, v)'
  BY DEF Done
<1>6. SnapshotsEarned(t) => SnapshotsEarned(t)'
  BY <1>1, <1>5 DEF SnapshotsEarned, Version
<1>7. ToldRight(t) => ToldRight(t)'
  BY DEF ToldRight, Version
<1>. QED  BY <1>1, <1>2, <1>3, <1>4, <1>6, <1>7 DEF Delivered

(* A request more, if the stream is open.                                  *)
LEMMA RequestSent ==
    ASSUME WatchInv, NEW t \in Targets, NEW r \in Request, Send(t, r)
    PROVE  /\ \A u \in Targets : u # t => asked'[u] = asked[u] /\ agg'[u] = agg[u]
           /\ stream # "open" => asked' = asked /\ agg' = agg
           /\ stream = "open" => /\ asked'[t] # <<>> /\ asked'[t][Len(asked'[t])] = r
                                 /\ agg'[t].owed > 0
           /\ \A i \in 1 .. Len(asked'[t]) : (i \in 1 .. Len(asked[t]) /\ asked'[t][i] = asked[t][i])
                                              \/ asked'[t][i] = r
<1>1. /\ asked \in [Targets -> Seq(Request)] /\ agg \in [Targets -> Aggregates]
      /\ asked[t] \in Seq(Request) /\ agg[t].owed \in Nat
  BY DEF WatchInv, TypeOK, Aggregates, Kinds
<1>2. CASE stream = "open"
  <2>1. /\ asked' = [asked EXCEPT ![t] = Append(@, r)]
        /\ agg' = [agg EXCEPT ![t].owed = @ + 1]
    BY <1>2 DEF Send
  <2>2. asked'[t] = Append(asked[t], r) /\ \A u \in Targets : u # t => asked'[u] = asked[u]
    BY <1>1, <2>1
  <2>3. \A u \in Targets : u # t => agg'[u] = agg[u]
    BY <1>1, <2>1
  <2>4. agg'[t].owed = agg[t].owed + 1
    BY <1>1, <2>1 DEF Aggregates
  <2>5. PICK q \in Seq(Request) : q = asked[t]
    BY <1>1
  <2>6. /\ Append(q, r) # <<>> /\ Append(q, r)[Len(Append(q, r))] = r
        /\ \A i \in 1 .. Len(Append(q, r)) :
              (i \in 1 .. Len(q) /\ Append(q, r)[i] = q[i]) \/ Append(q, r)[i] = r
    <3>1. Append(q, r) # <<>> /\ Append(q, r)[Len(Append(q, r))] = r
      OBVIOUS
    <3>2. Len(Append(q, r)) = Len(q) + 1 /\ Len(q) \in Nat
      OBVIOUS
    <3>3. ASSUME NEW i \in 1 .. Len(Append(q, r))
          PROVE  (i \in 1 .. Len(q) /\ Append(q, r)[i] = q[i]) \/ Append(q, r)[i] = r
      <4>1. i \in 1 .. Len(q) \/ i = Len(q) + 1
        BY <3>2
      <4>. QED  BY <4>1, <3>2
    <3>. QED  BY <3>1, <3>3
  <2>. QED  BY <1>1, <1>2, <2>2, <2>3, <2>4, <2>5, <2>6
<1>3. CASE stream # "open"
  <2>1. asked' = asked /\ agg' = agg
    BY <1>3 DEF Send
  <2>. QED  BY <1>3, <2>1
<1>. QED  BY <1>2, <1>3

(* The application listens to a target.                                    *)
LEMMA ListenTokens ==
    ASSUME WatchInv, TokensInv, NEW t \in Targets, Listen(t) PROVE TokensInv'
<1>. USE DEF TokensInv
<1>. DEFINE r == ListenFrom(saved[t])
<1>1. /\ UNCHANGED <<hist, sub, filters, wire, updates, resets, saved, keys, cache>>
      /\ listens' = listens \cup {t} /\ stream' = (IF stream = "closed" THEN "starting" ELSE stream)
      /\ Send(t, r)
  BY DEF Listen, backendVars, diskVars
<1>2. /\ token'[t] = saved[t] /\ mem'[t] = saved[t] /\ synced'[t] = keys[t]
      /\ \A u \in Targets : u # t => /\ token'[u] = token[u] /\ mem'[u] = mem[u]
                                     /\ synced'[u] = synced[u]
  BY DEF Listen, WatchInv, TypeOK
<1>3. saved[t] \in Nat /\ r \in Request /\ r.from = saved[t]
  BY DEF WatchInv, TypeOK, ListenFrom, Request
<1>4. /\ \A u \in Targets : u # t => asked'[u] = asked[u] /\ agg'[u] = agg[u]
      /\ stream # "open" => asked' = asked /\ agg' = agg
      /\ stream = "open" => /\ asked'[t] # <<>> /\ asked'[t][Len(asked'[t])] = r
                            /\ agg'[t].owed > 0
      /\ \A i \in 1 .. Len(asked'[t]) : (i \in 1 .. Len(asked[t]) /\ asked'[t][i] = asked[t][i])
                                         \/ asked'[t][i] = r
  BY <1>1, <1>3, RequestSent
<1>5. \A u \in Targets : u # t =>
          /\ Exact(u)' <=> Exact(u)
          /\ TargetRight(u) => TargetRight(u)'
          /\ Active(u)' => Active(u)
          /\ MarksRight(u) => MarksRight(u)'
          /\ Settled(u)' => Settled(u)
          /\ Delivered(u) => Delivered(u)'
  BY <1>1, <1>2, <1>4, OtherTarget
<1>6. ~Settled(t)' /\ (Active(t)' => \A d \in Docs : agg'[t].changes[d] = "none")
  <2>1. CASE stream = "open"
    BY <1>1, <1>4, <2>1 DEF Settled, Active
  <2>2. CASE stream # "open"
    <3>1. agg'[t] = Fresh /\ stream' # "open"
      BY <1>1, <1>4, <2>2 DEF WatchInv, QuietInv
    <3>. QED  BY <3>1, FreshType DEF Settled
  <2>. QED  BY <2>1, <2>2
<1>7. HistoryInv' /\ ReportInv'
  BY <1>1 DEF HistoryInv, ReportInv
<1>8. VersionInv'
  <2>1. ASSUME NEW u \in Targets
        PROVE  /\ token'[u] \in {token[u], saved[u]} /\ mem'[u] \in {mem[u], saved[u]}
               /\ saved'[u] = saved[u] /\ sub'[u] = sub[u]
    BY <1>1, <1>2
  <2>2. ASSUME NEW u \in Targets, NEW i \in 1 .. Len(asked'[u])
        PROVE  asked'[u][i].from \in Version
    <3>1. CASE u = t
      BY <1>3, <1>4, <3>1 DEF VersionInv
    <3>2. CASE u # t
      BY <1>4, <3>2 DEF VersionInv
    <3>. QED  BY <3>1, <3>2
  <2>3. Version' = Version
    BY <1>1 DEF Version
  <2>. QED  BY <1>1, <2>1, <2>2, <2>3 DEF VersionInv
<1>9. TargetInv'
  <2>1. \A u \in resets' : u = Collection /\ filters' > 0
    BY <1>1 DEF TargetInv
  <2>2. ASSUME Exact(t)' PROVE TargetRight(t)'
    <3>1. TargetRight(t) /\ t \notin listens
      BY <1>1, <2>2 DEF TargetInv, Exact, Listen
    <3>2. keys'[t] = KeysAt(hist', t, saved'[t]) /\ synced'[t] = KeysAt(hist', t, token'[t])
          /\ mem'[t] = token'[t]
      BY <1>1, <1>2, <3>1 DEF TargetRight
    <3>3. stream' = "open" => asked'[t][Len(asked'[t])] = ListenFrom(token'[t])
      BY <1>1, <1>2, <1>4
    <3>. QED  BY <1>6, <3>2, <3>3 DEF TargetRight
  <2>. QED  BY <1>5, <2>1, <2>2 DEF TargetInv
<1>10. CachedInv'
  <2>1. ASSUME filters' = 0, NEW u \in listens', NEW d \in synced'[u]
        PROVE  LastChange(hist', d, token'[u]) <= cache'[d].version
    <3>1. CASE u = t
      BY <1>1, <1>2, <2>1, <3>1 DEF CachedInv
    <3>2. CASE u # t
      <4>1. u \in listens /\ u \in Targets
        BY <1>1, <2>1, <3>2 DEF WatchInv, TypeOK
      <4>. QED  BY <1>1, <1>2, <2>1, <3>2, <4>1 DEF CachedInv
    <3>. QED  BY <3>1, <3>2
  <2>. QED  BY <1>1, <2>1 DEF CachedInv
<1>11. MarksInv'
  <2>1. Active(t)' => MarksRight(t)'
    BY <1>6 DEF MarksRight
  <2>. QED  BY <1>5, <2>1 DEF MarksInv
<1>12. DeliveryInv'
  BY <1>5, <1>6 DEF DeliveryInv
<1>. QED  BY <1>7, <1>8, <1>9, <1>10, <1>11, <1>12

(* The application stops listening to a target.                            *)
LEMMA StopTokens ==
    ASSUME WatchInv, TokensInv, NEW t \in Targets, StopListening(t) PROVE TokensInv'
<1>. USE DEF TokensInv
<1>1. /\ UNCHANGED <<hist, sub, filters, wire, stream, updates, resets, keys, cache>>
      /\ t \in listens /\ listens' = listens \ {t} /\ Send(t, Unlisten)
  BY DEF StopListening, backendVars
<1>2. /\ token'[t] = 0 /\ mem'[t] = 0 /\ saved'[t] = mem[t]
      /\ \A u \in Targets : u # t => /\ token'[u] = token[u] /\ mem'[u] = mem[u]
                                     /\ synced'[u] = synced[u] /\ saved'[u] = saved[u]
  BY DEF StopListening, WatchInv, TypeOK
<1>3. Unlisten \in Request /\ Unlisten.from = 0 /\ 0 \in Version
  BY DEF Unlisten, Request, Version, WatchInv, TypeOK
<1>4. /\ \A u \in Targets : u # t => asked'[u] = asked[u] /\ agg'[u] = agg[u]
      /\ \A i \in 1 .. Len(asked'[t]) : (i \in 1 .. Len(asked[t]) /\ asked'[t][i] = asked[t][i])
                                         \/ asked'[t][i] = Unlisten
  BY <1>1, <1>3, RequestSent
<1>5. \A u \in Targets : u # t =>
          /\ Exact(u)' <=> Exact(u)
          /\ TargetRight(u) => TargetRight(u)'
          /\ Active(u)' => Active(u)
          /\ MarksRight(u) => MarksRight(u)'
          /\ Settled(u)' => Settled(u)
          /\ Delivered(u) => Delivered(u)'
  BY <1>1, <1>2, <1>4, OtherTarget
<1>6. ~Settled(t)' /\ ~Active(t)'
  BY <1>1 DEF Settled, Active
<1>7. HistoryInv' /\ ReportInv'
  BY <1>1 DEF HistoryInv, ReportInv
<1>8. VersionInv'
  <2>1. ASSUME NEW u \in Targets
        PROVE  /\ token'[u] \in {token[u], 0} /\ mem'[u] \in {mem[u], 0}
               /\ saved'[u] \in {saved[u], mem[u]} /\ sub'[u] = sub[u]
    BY <1>1, <1>2
  <2>2. ASSUME NEW u \in Targets, NEW i \in 1 .. Len(asked'[u])
        PROVE  asked'[u][i].from \in Version
    <3>1. CASE u = t
      BY <1>3, <1>4, <3>1 DEF VersionInv
    <3>2. CASE u # t
      BY <1>4, <3>2 DEF VersionInv
    <3>. QED  BY <3>1, <3>2
  <2>3. Version' = Version
    BY <1>1 DEF Version
  <2>4. \A i \in 1 .. Len(wire) : wire[i].version \in Version => 0 <= wire[i].version
    BY DEF Version
  <2>. QED  BY <1>1, <1>3, <2>1, <2>2, <2>3, <2>4 DEF VersionInv
<1>9. TargetInv'
  <2>1. \A u \in resets' : u = Collection /\ filters' > 0
    BY <1>1 DEF TargetInv
  <2>2. ASSUME Exact(t)' PROVE TargetRight(t)'
    <3>1. TargetRight(t)
      BY <1>1, <2>2 DEF TargetInv, Exact
    <3>2. synced[t] = keys[t]
      BY <1>1 DEF WatchInv, WatchAssertionsHold
    <3>3. keys'[t] = KeysAt(hist', t, saved'[t])
      BY <1>1, <1>2, <3>1, <3>2 DEF TargetRight
    <3>. QED  BY <1>1, <1>6, <3>3 DEF TargetRight
  <2>. QED  BY <1>5, <2>1, <2>2 DEF TargetInv
<1>10. CachedInv'
  <2>. SUFFICES ASSUME filters' = 0 PROVE
          /\ \A u \in listens' : \A d \in synced'[u] :
                LastChange(hist', d, token'[u]) <= cache'[d].version
          /\ \A u \in Targets : \A d \in keys'[u] :
                LastChange(hist', d, saved'[u]) <= cache'[d].version
    BY DEF CachedInv
  <2>1. ASSUME NEW u \in listens', NEW d \in synced'[u]
        PROVE  LastChange(hist', d, token'[u]) <= cache'[d].version
    <3>1. u \in listens /\ u \in Targets /\ u # t
      BY <1>1, <2>1 DEF WatchInv, TypeOK
    <3>. QED  BY <1>1, <1>2, <2>1, <3>1 DEF CachedInv
  <2>2. ASSUME NEW d \in keys'[t] PROVE LastChange(hist', d, saved'[t]) <= cache'[d].version
    <3>1. synced[t] = keys[t] /\ mem[t] = token[t]
      BY <1>1 DEF WatchInv, WatchAssertionsHold, TargetInv, TargetRight, Exact
    <3>. QED  BY <1>1, <1>2, <2>2, <3>1 DEF CachedInv
  <2>. QED  BY <1>1, <1>2, <2>1, <2>2 DEF CachedInv
<1>11. MarksInv' /\ DeliveryInv'
  BY <1>5, <1>6 DEF MarksInv, DeliveryInv
<1>. QED  BY <1>7, <1>8, <1>9, <1>10, <1>11

(* An own write is acknowledged: the cache has the document as the write   *)
(* left it.                                                                *)
LEMMA AcknowledgedTokens == ASSUME WatchInv, TokensInv, Acknowledged PROVE TokensInv'
<1>. USE DEF TokensInv
<1>. DEFINE v == Head(unacked)
            d == hist[v].doc
            new == [version |-> v, there |-> hist[v].there]
<1>1. /\ cache' = IF cache[d].version < v THEN [cache EXCEPT ![d] = new] ELSE cache
      /\ unacked # <<>>
      /\ UNCHANGED <<hist, sub, filters, asked, wire, stream, listens, token, agg, updates,
                     resets, synced, mem, saved, keys>>
  BY DEF Acknowledged, backendVars, streamVars, aggVars
<1>2. v \in 1 .. Len(hist)
  BY <1>1 DEF WatchInv, TypeOK, AckInv
<1>3. Len(hist) \in Nat /\ hist[v] \in Writes
  <2>1. hist \in Seq(Writes)
    BY DEF WatchInv, TypeOK, Writes
  <2>. QED  BY <1>2, <2>1, ElementOfSeq, LenProperties
<1>4. Historic(hist, d, new)
  <2>1. LastChange(hist, d, v) = v /\ DocAt(hist, d, v) = [version |-> v, there |-> hist[v].there]
    BY <1>2, <1>3, LastAtChange DEF Writes
  <2>. HIDE DEF v, d
  <2>. QED  BY <1>2, <1>3, <2>1 DEF Historic
<1>5. \A x \in Docs : /\ cache'[x] = cache[x] \/ (x = d /\ cache'[x] = new)
                      /\ cache[x].version <= cache'[x].version
  <2>1. cache \in [Docs -> Entry] /\ new.version = v
    BY DEF WatchInv, TypeOK
  <2>2. \A x \in Docs : cache[x].version \in Nat
    BY <2>1 DEF Entry
  <2>. HIDE DEF v, d, new
  <2>3. CASE cache[d].version < v
    BY <1>1, <1>2, <2>1, <2>2, <2>3
  <2>4. CASE ~ (cache[d].version < v)
    BY <1>1, <2>1, <2>2, <2>4
  <2>. QED  BY <2>3, <2>4
<1>. HIDE DEF new, d, v
<1>6. HistoryInv'
  BY <1>1, <1>4, <1>5 DEF HistoryInv
<1>7. CachedInv'
  <2>1. \A t \in Targets : synced[t] \subseteq Docs /\ keys[t] \subseteq Docs
    BY DEF WatchInv, TypeOK
  <2>2. listens \subseteq Targets /\ hist \in Seq(Writes)
    BY DEF WatchInv, TypeOK, Writes
  <2>3. ASSUME NEW t \in Targets, NEW x
        PROVE  LastChange(hist, x, token[t]) \in Nat /\ LastChange(hist, x, saved[t]) \in Nat
    <3>1. token[t] \in Nat /\ saved[t] \in Nat
      BY DEF WatchInv, TypeOK
    <3>. QED  BY <3>1, LastChangeType
  <2>4. \A x \in Docs : cache[x].version \in Nat /\ cache'[x].version \in Nat
    BY <1>1, AcknowledgedInv DEF WatchInv, TypeOK, Entry
  <2>5. ASSUME filters = 0, NEW t \in listens, NEW x \in synced[t]
        PROVE  LastChange(hist, x, token[t]) <= cache'[x].version
    <3>1. x \in Docs /\ t \in Targets /\ LastChange(hist, x, token[t]) <= cache[x].version
      BY <2>1, <2>2, <2>5 DEF CachedInv
    <3>. QED  BY <1>5, <2>3, <2>4, <3>1
  <2>6. ASSUME filters = 0, NEW t \in Targets, NEW x \in keys[t]
        PROVE  LastChange(hist, x, saved[t]) <= cache'[x].version
    <3>1. x \in Docs /\ LastChange(hist, x, saved[t]) <= cache[x].version
      BY <2>1, <2>6 DEF CachedInv
    <3>. QED  BY <1>5, <2>3, <2>4, <3>1
  <2>. QED  BY <1>1, <2>5, <2>6 DEF CachedInv
<1>8. VersionInv' /\ ReportInv' /\ TargetInv'
  BY <1>1 DEF VersionInv, Version, ReportInv, TargetInv, TargetRight, Exact, Settled
<1>9. \A t \in Targets : /\ Exact(t)' <=> Exact(t)
                         /\ Active(t)' => Active(t)
                         /\ MarksRight(t) => MarksRight(t)'
                         /\ Settled(t)' => Settled(t)
                         /\ Delivered(t) => Delivered(t)'
  BY <1>1, OtherTarget
<1>. QED  BY <1>6, <1>7, <1>8, <1>9 DEF MarksInv, DeliveryInv

-----------------------------------------------------------------------------
(* Steps of the backend                                                    *)

(* A base is a version of the history, and not ahead of what follows.      *)
LEMMA BaseVersion ==
    ASSUME VersionInv, NEW t \in Targets, NEW i \in 1 .. Len(wire) + 1, NEW b,
           IsBase(wire, t, i, token[t], b), Len(wire) \in Nat
    PROVE  /\ b \in Version
           /\ \A k \in i .. Len(wire) : IsSnapshot(wire[k]) => b <= wire[k].version
<1>1. CASE \E s \in 1 .. i - 1 : IsSnapshot(wire[s]) /\ b = wire[s].version
  <2>1. PICK s \in 1 .. i - 1 : IsSnapshot(wire[s]) /\ b = wire[s].version
    BY <1>1
  <2>2. s \in 1 .. Len(wire) /\ \A k \in i .. Len(wire) : k \in 1 .. Len(wire) /\ s \in 1 .. k
    OBVIOUS
  <2>. QED  BY <2>1, <2>2 DEF VersionInv
<1>2. CASE b = token[t]
  <2>1. \A k \in i .. Len(wire) : k \in 1 .. Len(wire)
    OBVIOUS
  <2>. QED  BY <1>2, <2>1 DEF VersionInv
<1>. QED  BY <1>1, <1>2 DEF IsBase

(* A device writes: the past stays as it was.                              *)
LEMMA WritesTokens ==
    ASSUME WatchInv, TokensInv, NEW d \in Docs, NEW own \in BOOLEAN, BackendWrites(d, own)
    PROVE  TokensInv'
<1>. USE DEF TokensInv
<1>1. /\ UNCHANGED <<sub, filters, asked, wire, stream, listens, token, agg, updates, resets,
                     synced, mem, saved, keys, cache>>
      /\ \E there \in BOOLEAN : hist' = Append(hist, [doc |-> d, there |-> there])
  BY DEF BackendWrites, streamVars, aggVars, diskVars
<1>2. PICK w \in Writes : hist' = Append(hist, w)
  BY <1>1 DEF Writes
<1>3. hist \in Seq(Writes) /\ Len(wire) \in Nat
  BY DEF WatchInv, TypeOK, Writes
<1>4. Version \subseteq Version'
  <2>1. Len(hist') = Len(hist) + 1 /\ Len(hist) \in Nat
    BY <1>2, <1>3
  <2>. QED  BY <2>1 DEF Version
<1>5. \A x : \A v \in Version : LastChange(hist', x, v) = LastChange(hist, x, v)
  BY <1>2, <1>3, PastStays DEF Version
<1>6. \A t : \A v \in Version : KeysAt(hist', t, v) = KeysAt(hist, t, v)
  BY <1>2, <1>3, KeysStay DEF Version
<1>7. HistoryInv'
  <2>1. \A x, e : Historic(hist, x, e) => Historic(hist', x, e)
    BY <1>2, <1>3, HistoricStays
  <2>. QED  BY <1>1, <2>1 DEF HistoryInv
<1>8. VersionInv'
  BY <1>1, <1>4 DEF VersionInv
<1>9. ReportInv'
  <2>1. \A m : Reports(hist, m) => Reports(hist', m)
    BY <1>2, <1>3, ReportsStay
  <2>. QED  BY <1>1, <2>1 DEF ReportInv
<1>10. TargetInv'
  <2>1. \A t \in Targets : /\ KeysAt(hist', t, saved[t]) = KeysAt(hist, t, saved[t])
                           /\ KeysAt(hist', t, token[t]) = KeysAt(hist, t, token[t])
    BY <1>6 DEF VersionInv
  <2>. QED  BY <1>1, <2>1 DEF TargetInv, TargetRight, Exact, Settled
<1>11. CachedInv'
  <2>1. \A t \in Targets : \A x :
            /\ LastChange(hist', x, saved[t]) = LastChange(hist, x, saved[t])
            /\ LastChange(hist', x, token[t]) = LastChange(hist, x, token[t])
    BY <1>5 DEF VersionInv
  <2>2. listens \subseteq Targets
    BY DEF WatchInv, TypeOK
  <2>. QED  BY <1>1, <2>1, <2>2 DEF CachedInv
<1>12. MarksInv'
  <2>1. \A t, a : \A v \in Version : Fits(hist, t, v, a) => Fits(hist', t, v, a)
    BY <1>2, <1>3, FitsStays DEF Version
  <2>2. \A i \in 1 .. Len(wire) : IsFirst(wire, i) => wire[i].version \in Version
    BY DEF VersionInv, IsFirst
  <2>3. ASSUME NEW t \in Targets, MarksRight(t) PROVE MarksRight(t)'
    BY <1>1, <2>1, <2>2, <2>3 DEF MarksRight
  <2>. QED  BY <1>1, <2>3 DEF MarksInv, Exact, Active
<1>13. ASSUME NEW t \in Targets, Delivered(t) PROVE Delivered(t)'
  <2>1. \A i \in 1 .. Len(wire) + 1 : \A b : IsBase(wire, t, i, token[t], b) => b \in Version
    BY <1>3, BaseVersion
  <2>2. DocsCover(t)'
    <3>. SUFFICES ASSUME NEW j \in 1 .. Len(wire), NEW b \in Version',
                         wire[j].type = "docs", wire[j].target = t,
                         Present(wire, t, j), IsBase(wire, t, j, token[t], b)
                  PROVE  Covers(hist', wire[j], b)
      BY <1>1 DEF DocsCover
    <3>1. b \in Version /\ j \in 1 .. Len(wire) + 1
      BY <1>3, <2>1
    <3>2. Covers(hist, wire[j], b)
      BY <1>13, <3>1 DEF Delivered, DocsCover
    <3>3. wire[j].version \in 0 .. Len(hist)
      BY DEF ReportInv, Reports
    <3>. QED  BY <1>2, <1>3, <3>1, <3>2, <3>3, CoversStay DEF Version
  <2>3. ASSUME NEW v \in Version, Done(t, v) PROVE Done(t, v)'
    BY <1>1, <1>5, <1>6, <2>3 DEF Done
  <2>4. SnapshotsEarned(t)'
    <3>. SUFFICES ASSUME NEW i \in 1 .. Len(wire), NEW b \in Version',
                         IsSnapshot(wire[i]), Present(wire, t, i),
                         IsBase(wire, t, i, token[t], b)
                  PROVE  \/ wire[i].version = b
                         \/ DocsBefore(wire, t, i)
                         \/ Active(t)' /\ IsFirst(wire, i) /\ Done(t, wire[i].version)'
      BY <1>1 DEF SnapshotsEarned
    <3>1. b \in Version /\ i \in 1 .. Len(wire) + 1
      BY <1>3, <2>1
    <3>2. \/ wire[i].version = b
          \/ DocsBefore(wire, t, i)
          \/ Active(t) /\ IsFirst(wire, i) /\ Done(t, wire[i].version)
      BY <1>13, <3>1 DEF Delivered, SnapshotsEarned
    <3>3. PICK v \in Version : v = wire[i].version
      BY DEF VersionInv
    <3>4. Done(t, v) => Done(t, v)'
      BY <2>3
    <3>5. wire'[i].version = v
      BY <1>1, <3>3
    <3>. QED  BY <1>1, <3>2, <3>3, <3>4, <3>5 DEF Active, Done
  <2>5. ToldRight(t)'
    <3>1. Len(wire) + 1 \in 1 .. Len(wire) + 1
      BY <1>3
    <3>. QED  BY <1>1, <1>13, <2>1, <3>1 DEF Delivered, ToldRight
  <2>. QED  BY <2>2, <2>4, <2>5 DEF Delivered
<1>14. DeliveryInv'
  BY <1>1, <1>13 DEF DeliveryInv, Exact, Settled
<1>. QED  BY <1>7, <1>8, <1>9, <1>10, <1>11, <1>12, <1>14

(* What is announced, and which snapshot is first, is so on a longer wire. *)
LEMMA NoSnapshotConcat ==
    ASSUME NEW w \in Seq(Messages), NEW u \in Seq(Messages), NEW i \in Nat \ {0},
           NEW j \in 1 .. Len(w) + 1
    PROVE  NoSnapshot(w \o u, i, j) <=> NoSnapshot(w, i, j)
<1>1. \A k \in i .. j - 1 : k \in 1 .. Len(w)
  BY ConcatAt
<1>. QED  BY <1>1, ConcatAt DEF NoSnapshot

(* What is said of a message on the wire holds when more is sent after it. *)
LEMMA GrownWire ==
    ASSUME NEW w \in Seq(Messages), NEW u \in Seq(Messages), NEW i \in 1 .. Len(w)
    PROVE  /\ i \in 1 .. Len(w \o u) /\ (w \o u)[i] = w[i]
           /\ Announced(w, i) => Announced(w \o u, i)
           /\ IsFirst(w, i) => IsFirst(w \o u, i)
           /\ \A t : (\A k \in 1 .. Len(u) : ~IsResponse(u[k], t)) /\ DocsBefore(w, t, i)
                  => DocsBefore(w \o u, t, i)
<1>. DEFINE c == w \o u
<1>1. /\ Len(c) = Len(w) + Len(u) /\ Len(w) \in Nat /\ Len(u) \in Nat
      /\ \A k \in 1 .. Len(w) : k \in 1 .. Len(c) /\ c[k] = w[k]
  BY ConcatAt
<1>2. \A k \in Nat \ {0} : \A j \in 1 .. Len(w) + 1 : NoSnapshot(c, k, j) <=> NoSnapshot(w, k, j)
  BY NoSnapshotConcat
<1>3. \A t : (\A k \in 1 .. Len(u) : ~IsResponse(u[k], t)) =>
          \A j \in 1 .. Len(w) + 1 : Present(c, t, j) <=> Present(w, t, j)
  BY BaseConcat
<1>. HIDE DEF c
<1>4. ASSUME Announced(w, i) PROVE Announced(c, i)
  <2>1. PICK k \in i + 1 .. Len(w) : /\ IsSnapshot(w[k]) /\ NoSnapshot(w, i, k)
                                     /\ w[k].version = w[i].version
    BY <1>4 DEF Announced
  <2>2. k \in i + 1 .. Len(c) /\ k \in 1 .. Len(w) /\ k \in 1 .. Len(w) + 1 /\ i \in Nat \ {0}
    BY <1>1
  <2>3. NoSnapshot(c, i, k) /\ c[k] = w[k] /\ c[i] = w[i]
    BY <1>1, <1>2, <2>1, <2>2
  <2>. QED  BY <2>1, <2>2, <2>3 DEF Announced
<1>5. ASSUME IsFirst(w, i) PROVE IsFirst(c, i)
  <2>1. i \in 1 .. Len(w) + 1 /\ 1 \in Nat \ {0}
    BY <1>1
  <2>. QED  BY <1>1, <1>2, <1>5, <2>1 DEF IsFirst
<1>6. ASSUME NEW t, \A k \in 1 .. Len(u) : ~IsResponse(u[k], t), DocsBefore(w, t, i)
      PROVE  DocsBefore(c, t, i)
  <2>1. PICK j \in 1 .. i - 1 : /\ w[j].type = "docs" /\ w[j].target = t
                                /\ Present(w, t, j) /\ NoSnapshot(w, j, i)
    BY <1>6 DEF DocsBefore
  <2>2. j \in 1 .. Len(w) /\ j \in 1 .. Len(w) + 1 /\ i \in 1 .. Len(w) + 1 /\ j \in Nat \ {0}
    BY <1>1
  <2>3. c[j] = w[j] /\ Present(c, t, j) /\ NoSnapshot(c, j, i)
    BY <1>1, <1>2, <1>3, <1>6, <2>1, <2>2
  <2>. QED  BY <2>1, <2>3 DEF DocsBefore
<1>7. i \in 1 .. Len(c) /\ c[i] = w[i]
  BY <1>1
<1>. QED  BY <1>4, <1>5, <1>6, <1>7 DEF c

(* What was under way for a target that gets no response is as it was.     *)
LEMMA GrownDelivery ==
    ASSUME TypeOK, NEW t \in Targets, Delivered(t), NEW u \in Seq(Messages), wire' = wire \o u,
           \A k \in 1 .. Len(u) : ~IsResponse(u[k], t),
           UNCHANGED <<hist, listens, token, synced, agg, updates>>
    PROVE  /\ \A j \in 1 .. Len(wire), b \in Version :
                 (/\ wire'[j].type = "docs" /\ wire'[j].target = t
                  /\ Present(wire', t, j) /\ IsBase(wire', t, j, token'[t], b))
                     => Covers(hist', wire'[j], b)
           /\ \A i \in 1 .. Len(wire), b \in Version :
                 (/\ IsSnapshot(wire'[i]) /\ Present(wire', t, i)
                  /\ IsBase(wire', t, i, token'[t], b)) =>
                     \/ wire'[i].version = b
                     \/ DocsBefore(wire', t, i)
                     \/ Active(t)' /\ IsFirst(wire', i) /\ Done(t, wire[i].version)'
           /\ \A b \in Version :
                 IsBase(wire', t, Len(wire) + 1, token'[t], b) => sub[t].told = b
<1>1. wire \in Seq(Messages) /\ Len(wire) \in Nat
  BY LenProperties DEF TypeOK
<1>2. \A i \in 1 .. Len(wire) + 1 : \A b :
          /\ Present(wire', t, i) <=> Present(wire, t, i)
          /\ IsBase(wire', t, i, token[t], b) <=> IsBase(wire, t, i, token[t], b)
  BY <1>1, BaseConcat
<1>3. \A i \in 1 .. Len(wire) :
          /\ i \in 1 .. Len(wire) + 1 /\ wire'[i] = wire[i]
          /\ IsFirst(wire, i) => IsFirst(wire', i)
          /\ DocsBefore(wire, t, i) => DocsBefore(wire', t, i)
  BY <1>1, GrownWire
<1>4. \A j \in 1 .. Len(wire), b \in Version :
          (/\ wire'[j].type = "docs" /\ wire'[j].target = t
           /\ Present(wire', t, j) /\ IsBase(wire', t, j, token'[t], b))
              => Covers(hist', wire'[j], b)
  BY <1>2, <1>3 DEF Delivered, DocsCover
<1>5. ASSUME NEW i \in 1 .. Len(wire), NEW b \in Version,
             IsSnapshot(wire'[i]), Present(wire', t, i), IsBase(wire', t, i, token'[t], b)
      PROVE  \/ wire'[i].version = b
             \/ DocsBefore(wire', t, i)
             \/ Active(t)' /\ IsFirst(wire', i) /\ Done(t, wire[i].version)'
  <2>1. \/ wire[i].version = b
        \/ DocsBefore(wire, t, i)
        \/ Active(t) /\ IsFirst(wire, i) /\ Done(t, wire[i].version)
    BY <1>2, <1>3, <1>5 DEF Delivered, SnapshotsEarned
  <2>2. Active(t)' <=> Active(t)
    BY DEF Active
  <2>3. PICK v : v = wire[i].version
    OBVIOUS
  <2>4. v = wire'[i].version /\ (Done(t, v) => Done(t, v)')
    BY <1>3, <2>3 DEF Done
  <2>5. Done(t, wire[i].version) => Done(t, wire[i].version)'
    BY <2>3, <2>4 DEF Done
  <2>. QED  BY <1>3, <2>1, <2>2, <2>5
<1>6. \A b \in Version : IsBase(wire', t, Len(wire) + 1, token'[t], b) => sub[t].told = b
  <2>1. Len(wire) + 1 \in 1 .. Len(wire) + 1
    BY <1>1
  <2>. QED  BY <1>2, <2>1 DEF Delivered, ToldRight
<1>. QED  BY <1>4, <1>5, <1>6

(* A request is taken and answered.                                        *)
LEMMA ServesTokens ==
    ASSUME WatchInv, TokensInv, NEW t \in Targets, BackendServes(t) PROVE TokensInv'
<1>. USE DEF TokensInv
<1>. DEFINE r == Head(asked[t])
            m == Message(IF r.type = "listen" THEN "added" ELSE "removed", t, 0)
            u == <<m>>
<1>1. /\ UNCHANGED <<hist, filters, stream, listens, token, agg, updates, resets, synced, mem,
                     saved, keys, cache>>
      /\ asked[t] # <<>> /\ wire' = Append(wire, m)
      /\ \A x \in Targets : x # t => asked'[x] = asked[x] /\ sub'[x] = sub[x]
      /\ asked'[t] = Tail(asked[t])
      /\ sub'[t] = [on |-> (r.type = "listen"), told |-> r.from, current |-> FALSE]
  BY DEF BackendServes, backendVars, aggVars, diskVars, WatchInv, TypeOK
<1>2. m \in Messages /\ m.target = t /\ m.type \in {"added", "removed"}
  BY MessageType DEF Message
<1>. HIDE DEF m
<1>3. /\ wire \in Seq(Messages) /\ Len(wire) \in Nat /\ asked[t] \in Seq(Request)
      /\ asked \in [Targets -> Seq(Request)] /\ agg[t].owed \in Nat
  BY LenProperties DEF WatchInv, TypeOK
<1>4. /\ u \in Seq(Messages) /\ Len(u) = 1 /\ u[1] = m /\ wire' = wire \o u
      /\ Len(wire') = Len(wire) + 1 /\ wire'[Len(wire) + 1] = m
  BY <1>1, <1>2, <1>3
<1>5. /\ Len(asked[t]) \in Nat \ {0} /\ Len(asked'[t]) = Len(asked[t]) - 1
      /\ r = asked[t][1] /\ asked'[t] \in Seq(Request)
      /\ \A i \in 1 .. Len(asked'[t]) : i + 1 \in 1 .. Len(asked[t]) /\ asked'[t][i] = asked[t][i + 1]
      /\ asked'[t] = <<>> <=> Len(asked[t]) = 1
  <2>1. PICK q \in Seq(Request) : q = asked[t]
    BY <1>3
  <2>2. q # <<>> /\ asked'[t] = Tail(q)
    BY <1>1, <2>1
  <2>3. /\ Len(q) \in Nat \ {0} /\ Len(Tail(q)) = Len(q) - 1 /\ Head(q) = q[1]
        /\ Tail(q) \in Seq(Request) /\ \A i \in 1 .. Len(Tail(q)) : Tail(q)[i] = q[i + 1]
    BY <2>2
  <2>4. Tail(q) = <<>> <=> Len(q) = 1
    BY <2>3, EmptySeq
  <2>5. \A i \in 1 .. Len(Tail(q)) : i + 1 \in 1 .. Len(q)
    BY <2>3
  <2>. QED  BY <2>1, <2>2, <2>3, <2>4, <2>5
<1>. HIDE DEF r, u
<1>6. ~Active(t)
  <2>1. agg[t].owed = Len(asked[t]) + Cardinality(ResponsesIn(wire, t))
    BY DEF WatchInv, OwedInv
  <2>2. Cardinality(ResponsesIn(wire, t)) \in Nat
    BY <1>3, ResponsesFinite
  <2>. QED  BY <1>5, <2>1, <2>2 DEF Active
<1>7. \A i \in 1 .. Len(wire') : i \in 1 .. Len(wire) \/ (i = Len(wire) + 1 /\ wire'[i] = m)
  BY <1>3, <1>4
<1>8. HistoryInv' /\ CachedInv'
  BY <1>1 DEF HistoryInv, CachedInv
<1>9. VersionInv'
  <2>1. ASSUME NEW x \in Targets
        PROVE  /\ sub'[x].told \in Version
               /\ \A i \in 1 .. Len(asked'[x]) : asked'[x][i].from \in Version
    <3>1. CASE x = t
      <4>1. \A i \in 1 .. Len(asked[t]) : asked[t][i].from \in Version
        BY DEF VersionInv
      <4>2. r.from \in Version
        BY <1>5, <4>1
      <4>3. sub'[t].told = r.from
        BY <1>1
      <4>4. \A i \in 1 .. Len(asked'[t]) : asked'[t][i].from \in Version
        BY <1>5, <4>1
      <4>. QED  BY <3>1, <4>2, <4>3, <4>4
    <3>2. CASE x # t
      BY <1>1, <3>2 DEF VersionInv
    <3>. QED  BY <3>1, <3>2
  <2>2. \A i \in 1 .. Len(wire') : IsSnapshot(wire'[i]) => i \in 1 .. Len(wire) /\ wire'[i] = wire[i]
    BY <1>2, <1>3, <1>4, <1>7, GrownWire DEF IsSnapshot
  <2>3. \A i \in 1 .. Len(wire) : \A j \in 1 .. i : j \in 1 .. Len(wire) /\ j \in 1 .. Len(wire')
    BY <1>3, <1>4
  <2>. QED  BY <1>1, <2>1, <2>2, <2>3 DEF VersionInv, Version
<1>10. ReportInv'
  <2>1. ASSUME NEW j \in 1 .. Len(wire'), wire'[j].type = "docs"
        PROVE  /\ j \in 1 .. Len(wire) /\ wire'[j] = wire[j]
               /\ Announced(wire, j) => Announced(wire', j)
    BY <1>2, <1>3, <1>4, <1>7, <2>1, GrownWire
  <2>. QED  BY <1>1, <2>1 DEF ReportInv
<1>11. TargetInv'
  <2>1. \A x \in resets' : x = Collection /\ filters' > 0
    BY <1>1 DEF TargetInv
  <2>2. ASSUME NEW x \in Targets, x # t, Exact(x)' PROVE TargetRight(x)'
    BY <1>1, <2>2 DEF TargetInv, TargetRight, Exact, Settled
  <2>3. ASSUME Exact(t)' PROVE TargetRight(t)'
    <3>1. TargetRight(t)
      BY <1>1, <2>3 DEF TargetInv, Exact
    <3>2. ASSUME stream = "open", t \in listens, asked'[t] # <<>>
          PROVE  asked'[t][Len(asked'[t])] = ListenFrom(token[t])
      <4>1. Len(asked'[t]) \in 1 .. Len(asked'[t]) /\ Len(asked'[t]) + 1 = Len(asked[t])
        BY <1>5, <3>2
      <4>. QED  BY <1>1, <1>5, <3>1, <3>2, <4>1 DEF TargetRight
    <3>3. ASSUME Settled(t)' PROVE sub'[t].on
      <4>1. /\ Len(asked[t]) = 1 /\ stream = "open" /\ t \in listens
        BY <1>1, <1>5, <3>3 DEF Settled
      <4>2. r = ListenFrom(token[t])
        BY <1>1, <1>5, <3>1, <4>1 DEF TargetRight
      <4>3. r.type = "listen"
        BY <4>2 DEF ListenFrom
      <4>4. sub'[t].on = (r.type = "listen")
        BY <1>1
      <4>. QED  BY <4>3, <4>4
    <3>. QED  BY <1>1, <3>1, <3>2, <3>3 DEF TargetRight
  <2>. QED  BY <2>1, <2>2, <2>3 DEF TargetInv
<1>12. MarksInv'
  <2>1. ASSUME NEW x \in Targets, MarksRight(x) PROVE MarksRight(x)'
    BY <1>1, <1>3, <1>4, <2>1, GrownWire DEF MarksRight
  <2>. QED  BY <1>1, <2>1 DEF MarksInv, Exact, Active
<1>13. Version' = Version
  BY <1>1 DEF Version
<1>14. ASSUME NEW x \in Targets, x # t, Delivered(x) PROVE Delivered(x)'
  <2>1. \A k \in 1 .. Len(u) : ~IsResponse(u[k], x)
    BY <1>2, <1>4, <1>14 DEF IsResponse
  <2>2. TypeOK /\ UNCHANGED <<hist, listens, token, synced, agg, updates>>
    BY <1>1 DEF WatchInv
  <2>3. /\ \A j \in 1 .. Len(wire), b \in Version :
                 (/\ wire'[j].type = "docs" /\ wire'[j].target = x
                  /\ Present(wire', x, j) /\ IsBase(wire', x, j, token'[x], b))
                     => Covers(hist', wire'[j], b)
        /\ \A i \in 1 .. Len(wire), b \in Version :
                 (/\ IsSnapshot(wire'[i]) /\ Present(wire', x, i)
                  /\ IsBase(wire', x, i, token'[x], b)) =>
                     \/ wire'[i].version = b
                     \/ DocsBefore(wire', x, i)
                     \/ Active(x)' /\ IsFirst(wire', i) /\ Done(x, wire[i].version)'
        /\ \A b \in Version :
                 IsBase(wire', x, Len(wire) + 1, token'[x], b) => sub[x].told = b
    BY <1>4, <1>14, <2>1, <2>2, GrownDelivery
  <2>4. DocsCover(x)'
    <3>1. \A j \in 1 .. Len(wire') : wire'[j].type = "docs" => j \in 1 .. Len(wire)
      BY <1>2, <1>7
    <3>. QED  BY <1>13, <2>3, <3>1 DEF DocsCover
  <2>5. SnapshotsEarned(x)'
    <3>1. \A j \in 1 .. Len(wire') : IsSnapshot(wire'[j]) => j \in 1 .. Len(wire)
      BY <1>2, <1>7 DEF IsSnapshot
    <3>. QED  BY <1>13, <2>3, <3>1 DEF SnapshotsEarned
  <2>6. ToldRight(x)'
    <3>1. NoSnapshot(wire', Len(wire) + 1, Len(wire') + 1)
      BY <1>2, <1>3, <1>4 DEF NoSnapshot, IsSnapshot
    <3>2. Len(wire) + 1 \in Nat \ {0} /\ Len(wire') + 1 \in Nat /\ Len(wire) + 1 <= Len(wire') + 1
      BY <1>3, <1>4
    <3>3. \A b : IsBase(wire', x, Len(wire') + 1, token'[x], b)
                     => IsBase(wire', x, Len(wire) + 1, token'[x], b)
      BY <3>1, <3>2, BaseSlides
    <3>. QED  BY <1>1, <1>13, <1>14, <2>3, <3>3 DEF ToldRight
  <2>. QED  BY <2>4, <2>5, <2>6 DEF Delivered
<1>15. ASSUME Exact(t)', Settled(t)' PROVE Delivered(t)'
  <2>1. IsResponse(m, t)
    BY <1>2 DEF IsResponse
  <2>2. /\ \A i \in 1 .. Len(wire) + 1 : ~Present(wire', t, i)
        /\ \A b : IsBase(wire', t, Len(wire) + 2, token[t], b) => b = token[t]
    BY <1>1, <1>2, <1>3, <2>1, BaseResponse
  <2>3. DocsCover(t)' /\ SnapshotsEarned(t)'
    BY <1>4, <2>2 DEF DocsCover, SnapshotsEarned
  <2>4. sub'[t].told = token[t]
    <3>1. /\ Len(asked[t]) = 1 /\ stream = "open" /\ t \in listens /\ TargetRight(t)
      BY <1>1, <1>5, <1>15 DEF Settled, TargetInv, Exact
    <3>2. r = ListenFrom(token[t])
      BY <1>1, <1>5, <3>1 DEF TargetRight
    <3>. QED  BY <1>1, <3>2 DEF ListenFrom
  <2>5. Len(wire') + 1 = Len(wire) + 2
    BY <1>3, <1>4
  <2>6. ToldRight(t)'
    BY <1>1, <2>2, <2>4, <2>5 DEF ToldRight
  <2>. QED  BY <2>3, <2>6 DEF Delivered
<1>16. DeliveryInv'
  <2>1. \A x \in Targets : x # t => (Exact(x)' => Exact(x)) /\ (Settled(x)' => Settled(x))
    BY <1>1 DEF Exact, Settled
  <2>. QED  BY <1>14, <1>15, <2>1 DEF DeliveryInv
<1>. QED  BY <1>8, <1>9, <1>10, <1>11, <1>12, <1>16

(* A target to be brought up to date comes up in the order.                *)
LEMMA OrderCovers ==
    ASSUME NEW B \in SUBSET Targets, NEW t \in B
    PROVE  \E i \in 1 .. Len(SetToSeq(B)) : SetToSeq(B)[i] = t
<1>1. IsFiniteSet(Docs \cup {Collection})
  BY DocsAssumption, FS_AddElement
<1>2. IsFiniteSet(B)
  BY <1>1, TargetsAssumption, FS_Subset
<1>3. PICK n \in Nat : ExistsBijection(1 .. n, B)
  BY <1>2, FS_NatBijection
<1>4. n = Cardinality(B)
  BY <1>2, <1>3, FS_CountingElements
<1>5. \E f \in [1 .. n -> B] : IsInjective(f)
  BY <1>3 DEF ExistsBijection, Bijection, Injection, IsInjective
<1>6. SetToSeq(B) \in [1 .. n -> B] /\ IsInjective(SetToSeq(B))
  BY <1>4, <1>5 DEF SetToSeq
<1>7. PICK f : f = SetToSeq(B)
  OBVIOUS
<1>8. f \in Injection(1 .. n, B)
  BY <1>6, <1>7 DEF Injection
<1>9. Cardinality(1 .. n) = n
  BY FS_Interval
<1>10. f \in Surjection(1 .. n, B)
  BY <1>2, <1>4, <1>8, <1>9, FS_Injection
<1>11. \E i \in 1 .. n : f[i] = t
  BY <1>10 DEF Surjection
<1>12. Len(f) = n
  BY <1>6, <1>7
<1>. QED  BY <1>7, <1>11, <1>12

(* The part of a target in a snapshot, field by field.                     *)
LEMMA PartIs ==
    ASSUME NEW t \in Targets, NEW way
    PROVE  /\ Part(t, way).type = "docs" /\ Part(t, way).target = t
           /\ Part(t, way).version = Now /\ Part(t, way).reset = (way = "reset")
           /\ \A d \in Docs : Part(t, way).changes[d] = Sent(t, way, d)
           /\ Part(t, way).count = IF way = "filter" THEN Cardinality(KeysAt(hist, t, Now))
                                                     ELSE Nothing
<1>. DEFINE c == [d \in Docs |-> Sent(t, way, d)]
            n == IF way = "filter" THEN Cardinality(KeysAt(hist, t, Now)) ELSE Nothing
<1>. DEFINE r == (way = "reset")
            m == Message("docs", t, Now)
<1>1. Part(t, way) = [m EXCEPT !.reset = r, !.changes = c, !.count = n]
  BY DEF Part
<1>. HIDE DEF n, c, r
<1>2. /\ Part(t, way).type = "docs" /\ Part(t, way).target = t
      /\ Part(t, way).version = Now /\ Part(t, way).reset = r
      /\ Part(t, way).changes = c /\ Part(t, way).count = n
  <2>1. m = [type |-> "docs", target |-> t, version |-> Now, reset |-> FALSE,
             changes |-> [d \in Docs |-> Nothing], count |-> Nothing]
    BY DEF Message
  <2>. HIDE DEF m
  <2>. QED  BY <1>1, <2>1
<1>. QED  BY <1>2 DEF n, c, r

(* What is sent of a document.                                             *)
LEMMA SentIs ==
    ASSUME NEW t \in Targets, NEW way, NEW d \in Docs, hist \in Seq(Writes),
           NEW from, from = (IF way = "reset" THEN 0 ELSE sub[t].told),
           from \in 0 .. Now
    PROVE  /\ (/\ d \in Matches(t) /\ LastChange(hist, d, Now) > from
               /\ DocAt(hist, d, Now).there)
                  => Sent(t, way, d) = [version |-> LastChange(hist, d, Now), there |-> TRUE]
           /\ (/\ d \in Matches(t) /\ LastChange(hist, d, Now) > from
               /\ ~DocAt(hist, d, Now).there /\ way = "changes" /\ DocAt(hist, d, from).there)
                  => Sent(t, way, d) = [version |-> Now, there |-> FALSE]
           /\ Sent(t, way, d) # Nothing =>
                 /\ d \in Matches(t) /\ LastChange(hist, d, Now) > from
                 /\ DocAt(hist, d, Now).there
                       \/ (way = "changes" /\ DocAt(hist, d, from).there)
<1>. DEFINE new == DocAt(hist, d, Now)
            last == LastChange(hist, d, Now)
<1>1. new \in Entry /\ new.version = last
  BY DocAtType, DocAtIs DEF Now
<1>2. new.there => new = [version |-> last, there |-> TRUE]
  BY <1>1 DEF Entry
<1>3. last \in Nat
  BY <1>1 DEF Entry
<1>4. from \in Nat
  OBVIOUS
<1>. HIDE DEF new
<1>. DEFINE changed == d \in Matches(t) /\ new.version > from
            was == way = "changes" /\ DocAt(hist, d, from).there
<1>5. Sent(t, way, d) =
        CASE changed /\ new.there          -> new
          [] changed /\ ~new.there /\ was  -> [version |-> Now, there |-> FALSE]
          [] OTHER                         -> Nothing
  BY DEF Sent, new
<1>6. changed <=> d \in Matches(t) /\ last > from
  BY <1>1
<1>. HIDE DEF last, changed, was
<1>7. CASE changed /\ new.there
  <2>1. Sent(t, way, d) = new
    BY <1>5, <1>7
  <2>. QED  BY <1>2, <1>6, <1>7, <2>1 DEF new, last, was
<1>8. CASE changed /\ ~new.there /\ was
  <2>1. Sent(t, way, d) = [version |-> Now, there |-> FALSE]
    BY <1>5, <1>8
  <2>. QED  BY <1>6, <1>8, <2>1 DEF new, last, was
<1>9. CASE ~ (changed /\ new.there) /\ ~ (changed /\ ~new.there /\ was)
  <2>1. Sent(t, way, d) = Nothing
    BY <1>5, <1>9
  <2>. QED  BY <1>6, <1>9, <2>1 DEF new, last, was
<1>. QED  BY <1>7, <1>8, <1>9

(* The part of a target tells what is so, and lacks nothing for a client   *)
(* that has the target at the version the backend has told it.             *)
LEMMA PartTells ==
    ASSUME NEW t \in Targets, hist \in Seq(Writes), sub[t].told \in 0 .. Now,
           NEW way \in {"changes", "reset", "filter"}
    PROVE  /\ Reports(hist, Part(t, way))
           /\ Part(t, way).count # Nothing => way = "filter"
           /\ (way = "filter" => IsDocumentQuery(t)) => Covers(hist, Part(t, way), sub[t].told)
<1>1. PICK m : m = Part(t, way)
  OBVIOUS
<1>2. PICK told : told = sub[t].told
  OBVIOUS
<1>3. PICK from : from = (IF way = "reset" THEN 0 ELSE sub[t].told)
  OBVIOUS
<1>4. PICK n : n = Now
  OBVIOUS
<1>5. /\ m.type = "docs" /\ m.target = t /\ m.version = n /\ m.reset = (way = "reset")
      /\ \A d \in Docs : m.changes[d] = Sent(t, way, d)
      /\ m.count = IF way = "filter" THEN Cardinality(KeysAt(hist, t, n)) ELSE Nothing
  BY <1>1, <1>4, PartIs
<1>6. /\ n \in Nat /\ n = Len(hist) /\ told \in 0 .. n /\ from \in 0 .. n
      /\ from = IF way = "reset" THEN 0 ELSE told
  <2>1. Now \in Nat /\ 0 \in 0 .. Now
    BY LenProperties DEF Now
  <2>. QED  BY <2>1, <1>2, <1>3, <1>4 DEF Now
<1>7. ASSUME NEW d \in Docs
      PROVE  /\ (d \in Matches(t) /\ LastChange(hist, d, n) > from /\ DocAt(hist, d, n).there)
                    => m.changes[d] = [version |-> LastChange(hist, d, n), there |-> TRUE]
             /\ (/\ d \in Matches(t) /\ LastChange(hist, d, n) > from
                 /\ ~DocAt(hist, d, n).there /\ way = "changes" /\ DocAt(hist, d, from).there)
                    => m.changes[d] = [version |-> n, there |-> FALSE]
             /\ m.changes[d] # Nothing =>
                   /\ d \in Matches(t) /\ LastChange(hist, d, n) > from
                   /\ DocAt(hist, d, n).there
                         \/ (way = "changes" /\ DocAt(hist, d, from).there)
  <2>1. m.changes[d] = Sent(t, way, d) /\ from \in 0 .. Now
    BY <1>4, <1>5, <1>6
  <2>. QED  BY <1>3, <1>4, <2>1, SentIs
<1>8. ASSUME NEW d PROVE LastChange(hist, d, n) \in 0 .. n
  BY <1>6, LastChangeType
<1>9. \A v, b : [version |-> v, there |-> b] \in Entry => Nothing # [version |-> v, there |-> b]
  BY NothingAssumption
<1>10. ASSUME NEW d \in Docs, m.changes[d] # Nothing PROVE Reported(hist, m, d)
  <2>1. CASE DocAt(hist, d, n).there
    <3>1. /\ d \in Matches(t) /\ LastChange(hist, d, n) > from
          /\ m.changes[d] = [version |-> LastChange(hist, d, n), there |-> TRUE]
      BY <1>7, <1>10, <2>1
    <3>2. PICK l : l = LastChange(hist, d, n)
      OBVIOUS
    <3>3. l \in 0 .. n /\ l > 0
      BY <1>6, <1>8, <3>1, <3>2
    <3>4. LastChange(hist, d, l) = l /\ DocAt(hist, d, l) = DocAt(hist, d, n)
      BY <1>6, <3>2, <3>3, SameSince
    <3>5. DocAt(hist, d, n).there = TRUE
      <4>1. DocAt(hist, d, n) \in Entry
        BY <1>6, DocAtType
      <4>. QED  BY <2>1, <4>1 DEF Entry
    <3>6. m.changes[d].version = l /\ m.changes[d].there = TRUE
      BY <3>1, <3>2
    <3>7. Historic(hist, d, m.changes[d])
      BY <1>6, <3>3, <3>4, <3>5, <3>6 DEF Historic
    <3>8. m.changes[d].version > 0 /\ LastChange(hist, d, m.version) <= m.changes[d].version
      BY <1>5, <1>6, <3>2, <3>3, <3>6
    <3>9. m.changes[d].there = DocAt(hist, d, m.version).there /\ d \in Matches(m.target)
      BY <1>5, <3>1, <3>5, <3>6
    <3>. QED  BY <3>7, <3>8, <3>9 DEF Reported
  <2>2. CASE ~DocAt(hist, d, n).there
    <3>1. /\ d \in Matches(t) /\ LastChange(hist, d, n) > from
          /\ m.changes[d] = [version |-> n, there |-> FALSE]
      BY <1>7, <1>10, <2>2
    <3>2. n > 0 /\ LastChange(hist, d, n) <= n
      BY <1>6, <1>8, <3>1
    <3>3. DocAt(hist, d, n).there = FALSE
      <4>1. DocAt(hist, d, n) \in Entry
        BY <1>6, DocAtType
      <4>. QED  BY <2>2, <4>1 DEF Entry
    <3>4. m.changes[d].version = n /\ m.changes[d].there = FALSE
      BY <3>1
    <3>5. Historic(hist, d, m.changes[d])
      <4>1. m.changes[d].version \in 0 .. Len(hist)
        BY <1>6, <3>4
      <4>2. m.changes[d].there = DocAt(hist, d, m.changes[d].version).there
        BY <3>3, <3>4
      <4>3. ~m.changes[d].there
        BY <3>4
      <4>. QED  BY <4>1, <4>2, <4>3 DEF Historic
    <3>6. m.changes[d].version > 0 /\ LastChange(hist, d, m.version) <= m.changes[d].version
      BY <1>5, <1>6, <3>2, <3>4
    <3>7. m.changes[d].there = DocAt(hist, d, m.version).there /\ d \in Matches(m.target)
      BY <1>5, <3>1, <3>3, <3>4
    <3>. QED  BY <3>5, <3>6, <3>7 DEF Reported
  <2>. QED  BY <2>1, <2>2
<1>11. Reports(hist, m) /\ (m.count # Nothing => way = "filter")
  BY <1>5, <1>6, <1>10 DEF Reports
<1>12. ASSUME way = "filter" => IsDocumentQuery(t), NEW d \in Matches(t)
       PROVE  /\ DocAt(hist, d, n).there =>
                    m.changes[d] # Nothing \/ (~m.reset /\ LastChange(hist, d, n) <= told)
              /\ ~DocAt(hist, d, n).there /\ DocAt(hist, d, told).there =>
                    m.changes[d] # Nothing \/ m.reset \/ m.count = 0
  <2>1. d \in Docs
    BY KeysAreDocs
  <2>2. CASE DocAt(hist, d, n).there /\ LastChange(hist, d, n) > from
    <3>1. m.changes[d] = [version |-> LastChange(hist, d, n), there |-> TRUE]
      BY <1>7, <1>12, <2>1, <2>2
    <3>2. m.changes[d] \in Entry
      BY <1>6, <1>8, <3>1 DEF Entry
    <3>. QED  BY <2>2, <3>2, NothingAssumption
  <2>3. CASE DocAt(hist, d, n).there /\ ~(LastChange(hist, d, n) > from)
    <3>1. LastChange(hist, d, n) > 0
      BY <1>6, <2>3, ThereSince
    <3>2. way # "reset" /\ LastChange(hist, d, n) <= told
      BY <1>6, <1>8, <2>3, <3>1
    <3>. QED  BY <1>5, <2>3, <3>2
  <2>4. CASE ~DocAt(hist, d, n).there /\ DocAt(hist, d, told).there
    <3>1. CASE way = "reset"
      BY <1>5, <2>4, <3>1
    <3>2. CASE way # "reset"
      <4>1. from = told
        BY <1>6, <3>2
      <4>2. LastChange(hist, d, n) > told
        <5>1. LastChange(hist, d, n) <= told => DocAt(hist, d, told) = DocAt(hist, d, n)
          BY <1>6, SameSince
        <5>. QED  BY <1>6, <1>8, <2>4, <5>1
      <4>3. CASE way = "changes"
        <5>1. m.changes[d] = [version |-> n, there |-> FALSE]
          BY <1>7, <1>12, <2>1, <2>4, <4>1, <4>2, <4>3
        <5>2. m.changes[d] \in Entry
          BY <1>6, <5>1 DEF Entry
        <5>. QED  BY <2>4, <5>2, NothingAssumption
      <4>4. CASE way = "filter"
        <5>1. Matches(t) = {d}
          BY <1>12, <4>4 DEF Matches
        <5>2. KeysAt(hist, t, n) = {}
          BY <2>4, <5>1 DEF KeysAt
        <5>. QED  BY <1>5, <2>4, <4>4, <5>2, FS_EmptySet
      <4>. QED  BY <3>2, <4>3, <4>4
    <3>. QED  BY <3>1, <3>2
  <2>. QED  BY <2>2, <2>3, <2>4
<1>13. (way = "filter" => IsDocumentQuery(t)) => Covers(hist, m, told)
  BY <1>5, <1>12 DEF Covers
<1>. QED  BY <1>1, <1>2, <1>11, <1>13

(* A snapshot as last message is the base of what is to come.              *)
LEMMA BaseAtLast ==
    ASSUME NEW w \in Seq(Messages), Len(w) \in Nat \ {0}, IsSnapshot(w[Len(w)]),
           NEW t, NEW f, NEW b, IsBase(w, t, Len(w) + 1, f, b)
    PROVE  b = w[Len(w)].version
<1>. DEFINE n == Len(w)
<1>1. n \in 1 .. (n + 1) - 1 /\ \A k \in n .. n : k = n
  OBVIOUS
<1>2. Present(w, t, n)
  BY <1>1 DEF Present, IsSnapshot, IsResponse
<1>3. ASSUME NEW s \in 1 .. (n + 1) - 1, NoSnapshot(w, s + 1, n + 1) PROVE s = n
  <2>1. n \notin s + 1 .. (n + 1) - 1
    BY <1>3 DEF NoSnapshot
  <2>. QED  BY <2>1
<1>. QED  BY <1>1, <1>2, <1>3 DEF IsBase

(* A place in what is put behind a messages.                               *)
LEMMA BehindOffset ==
    ASSUME NEW a \in Nat, NEW c \in Nat, NEW j \in a + 1 .. a + c, NEW q \in j .. a + c
    PROVE  q - a \in 1 .. c /\ q = a + (q - a)
OBVIOUS

(* What a synchronisation puts on the wire: the parts of the targets that  *)
(* are behind, and a snapshot.                                             *)
LEMMA SyncsWire ==
    ASSUME WatchInv, BackendSyncs
    PROVE  \E u \in Seq(Messages) :
              /\ wire' = wire \o u /\ Len(u) \in Nat \ {0}
              /\ IsSnapshot(u[Len(u)]) /\ u[Len(u)].version = Now
              /\ \A i \in 1 .. Len(u) - 1 :
                    \E t \in Targets, way \in {"changes", "reset", "filter"} :
                        u[i] = Part(t, way) /\ (way = "filter" => filters' > 0)
              /\ \A t \in Targets : Behind(t) => \E i \in 1 .. Len(u) - 1 : u[i].target = t
<1>. DEFINE behind == {t \in Targets : Behind(t)}
            order  == SetToSeq(behind)
            last   == Message("snapshot", Collection, Now)
<1>1. hist \in Seq(Writes) /\ wire \in Seq(Messages) /\ Now \in Nat /\ filters \in Nat
  BY DEF WatchInv, TypeOK, Writes, Now
<1>2. /\ behind \in SUBSET Targets /\ order \in Seq(behind)
      /\ \A t \in behind : \E i \in 1 .. Len(order) : order[i] = t
  BY OrderType, OrderCovers
<1>3. last \in Messages /\ last.type = "snapshot" /\ last.version = Now
  BY <1>1, MessageType DEF Message
<1>4. PICK way \in [behind -> {"changes", "reset", "filter"}] :
          /\ wire' = wire \o [i \in DOMAIN order |-> Part(order[i], way[order[i]])] \o <<last>>
          /\ filters' = IF \E t \in behind : way[t] = "filter" THEN filters + 1 ELSE filters
  BY DEF BackendSyncs
<1>. DEFINE parts == [i \in DOMAIN order |-> Part(order[i], way[order[i]])]
<1>5. DOMAIN order = 1 .. Len(order) /\ Len(order) \in Nat
  BY <1>2, LenProperties
<1>6. \A i \in 1 .. Len(order) : order[i] \in behind
  BY <1>2, ElementOfSeq
<1>7. \A i \in 1 .. Len(order) : way[order[i]] = "filter" => filters' > 0
  BY <1>1, <1>4, <1>6
<1>8. behind \subseteq Targets /\ \A t \in Targets : Behind(t) <=> t \in behind
  OBVIOUS
<1>. HIDE DEF order, last, behind
<1>9. ASSUME NEW i \in 1 .. Len(order)
      PROVE  /\ parts[i] \in Messages /\ parts[i].target = order[i]
             /\ parts[i] = Part(order[i], way[order[i]])
  BY <1>1, <1>5, <1>6, <1>8, PartType
<1>10. parts = [i \in 1 .. Len(order) |-> parts[i]]
  BY <1>5
<1>. HIDE DEF parts
<1>11. parts \in Seq(Messages) /\ Len(parts) = Len(order)
  BY <1>5, <1>9, <1>10
<1>12. PICK u : u = parts \o <<last>>
  OBVIOUS
<1>13. <<last>> \in Seq(Messages) /\ Len(<<last>>) = 1 /\ <<last>>[1] = last
  BY <1>3
<1>14. /\ u \in Seq(Messages) /\ Len(u) = Len(order) + 1 /\ u[Len(u)] = last
       /\ \A i \in 1 .. Len(order) : u[i] = parts[i]
  BY <1>5, <1>11, <1>12, <1>13, ConcatAt
<1>15. wire' = wire \o u
  <2>1. wire' = wire \o parts \o <<last>>
    BY <1>4 DEF parts
  <2>2. wire \o parts \o <<last>> = wire \o (parts \o <<last>>)
    BY <1>1, <1>11, <1>13, ConcatAssociative
  <2>. QED  BY <1>12, <2>1, <2>2
<1>16. Len(u) - 1 = Len(order) /\ Len(u) \in Nat \ {0}
  BY <1>5, <1>14
<1>17. \A i \in 1 .. Len(u) - 1 :
           \E t \in Targets, y \in {"changes", "reset", "filter"} :
               u[i] = Part(t, y) /\ (y = "filter" => filters' > 0)
  <2>. SUFFICES ASSUME NEW i \in 1 .. Len(order)
                PROVE  \E t \in Targets, y \in {"changes", "reset", "filter"} :
                           u[i] = Part(t, y) /\ (y = "filter" => filters' > 0)
    BY <1>16
  <2>1. order[i] \in Targets /\ way[order[i]] \in {"changes", "reset", "filter"}
    BY <1>4, <1>6, <1>8
  <2>. QED  BY <1>7, <1>9, <1>14, <2>1
<1>18. \A t \in Targets : Behind(t) => \E i \in 1 .. Len(u) - 1 : u[i].target = t
  <2>. SUFFICES ASSUME NEW t \in Targets, Behind(t)
                PROVE  \E i \in 1 .. Len(order) : u[i].target = t
    BY <1>16
  <2>1. PICK i \in 1 .. Len(order) : order[i] = t
    BY <1>2, <1>8
  <2>. QED  BY <1>9, <1>14, <2>1
<1>. QED  BY <1>3, <1>14, <1>15, <1>16, <1>17, <1>18 DEF IsSnapshot

(* The targets are brought up to date.                                     *)
LEMMA SyncsTokens == ASSUME WatchInv, TokensInv, BackendSyncs PROVE TokensInv'
<1>. USE DEF TokensInv
<1>1. /\ UNCHANGED <<hist, asked, stream, listens, token, agg, updates, resets, synced, mem,
                     saved, keys, cache>>
      /\ filters' \in {filters, filters + 1}
      /\ \A t \in Targets : sub'[t] = IF Behind(t)
                                      THEN [on |-> TRUE, told |-> Now, current |-> TRUE]
                                      ELSE sub[t]
  BY DEF BackendSyncs, aggVars, diskVars
<1>2. PICK u \in Seq(Messages) :
          /\ wire' = wire \o u /\ Len(u) \in Nat \ {0}
          /\ IsSnapshot(u[Len(u)]) /\ u[Len(u)].version = Now
          /\ \A i \in 1 .. Len(u) - 1 :
                \E t \in Targets, way \in {"changes", "reset", "filter"} :
                    u[i] = Part(t, way) /\ (way = "filter" => filters' > 0)
          /\ \A t \in Targets : Behind(t) => \E i \in 1 .. Len(u) - 1 : u[i].target = t
  BY SyncsWire
<1>3. /\ hist \in Seq(Writes) /\ wire \in Seq(Messages) /\ filters \in Nat
      /\ Len(wire) \in Nat /\ Now \in Nat /\ Now \in Version /\ Version' = Version
      /\ filters' = 0 => filters = 0
      /\ filters > 0 => filters' > 0
  BY <1>1, LenProperties DEF WatchInv, TypeOK, Writes, Now, Version
<1>. DEFINE n == Len(wire) + Len(u)
<1>4. /\ wire' \in Seq(Messages) /\ Len(wire') = n /\ n \in Nat
      /\ \A i \in 1 .. Len(wire) : wire'[i] = wire[i]
      /\ \A i \in 1 .. Len(u) : wire'[Len(wire) + i] = u[i]
      /\ IsSnapshot(wire'[n]) /\ wire'[n].version = Now
  BY <1>2, <1>3, ConcatAt
<1>5. ASSUME NEW i \in 1 .. Len(u) - 1
      PROVE  /\ u[i].type = "docs" /\ u[i].version = Now /\ u[i].target \in Targets
             /\ Reports(hist, u[i]) /\ (u[i].count # Nothing => filters' > 0)
             /\ (filters' = 0 \/ IsDocumentQuery(u[i].target))
                    => Covers(hist, u[i], sub[u[i].target].told)
  <2>1. PICK t \in Targets, way \in {"changes", "reset", "filter"} :
            u[i] = Part(t, way) /\ (way = "filter" => filters' > 0)
    BY <1>2
  <2>2. u[i].type = "docs" /\ u[i].version = Now /\ u[i].target = t
    BY <2>1, PartIs
  <2>3. sub[t].told \in 0 .. Now
    BY DEF VersionInv, Version, Now
  <2>4. /\ Reports(hist, u[i]) /\ (u[i].count # Nothing => way = "filter")
        /\ (way = "filter" => IsDocumentQuery(t)) => Covers(hist, u[i], sub[t].told)
    BY <1>3, <2>1, <2>3, PartTells
  <2>. QED  BY <2>1, <2>2, <2>4
<1>6. \A t : \A k \in 1 .. Len(u) : ~IsResponse(u[k], t)
  <2>1. \A k \in 1 .. Len(u) : k \in 1 .. Len(u) - 1 \/ k = Len(u)
    BY <1>2
  <2>. QED  BY <1>2, <1>5, <2>1 DEF IsSnapshot, IsResponse
<1>7. ASSUME NEW i \in 1 .. n
      PROVE  \/ i \in 1 .. Len(wire) /\ wire'[i] = wire[i]
             \/ /\ i - Len(wire) \in 1 .. Len(u) - 1 /\ wire'[i] = u[i - Len(wire)]
                /\ ~IsSnapshot(wire'[i])
             \/ i = n
  <2>1. CASE i \in 1 .. Len(wire)
    BY <1>4, <2>1
  <2>2. CASE i \notin 1 .. Len(wire) /\ i # n
    <3>1. i - Len(wire) \in 1 .. Len(u) - 1 /\ i = Len(wire) + (i - Len(wire))
      BY <1>2, <1>3, <2>2
    <3>2. wire'[i] = u[i - Len(wire)]
      BY <1>2, <1>4, <3>1
    <3>. QED  BY <1>5, <3>1, <3>2 DEF IsSnapshot
  <2>. QED  BY <2>1, <2>2
<1>8. \A i \in Len(wire) + 1 .. n : NoSnapshot(wire', Len(wire) + 1, i)
  <2>. SUFFICES ASSUME NEW i \in Len(wire) + 1 .. n, NEW k \in Len(wire) + 1 .. i - 1
                PROVE  ~IsSnapshot(wire'[k])
    BY DEF NoSnapshot
  <2>1. k \in 1 .. n /\ k \notin 1 .. Len(wire) /\ k # n
    BY <1>3, <1>4
  <2>. QED  BY <1>7, <2>1
<1>. HIDE DEF n
<1>9. HistoryInv' /\ CachedInv'
  BY <1>1, <1>3 DEF HistoryInv, CachedInv
<1>10. VersionInv'
  <2>1. ASSUME NEW t \in Targets
        PROVE  /\ sub'[t].told \in Version
               /\ token[t] <= Now /\ mem[t] <= Now /\ saved[t] <= Now
    <3>1. sub[t].told \in Version /\ token[t] \in Version /\ mem[t] \in Version /\ saved[t] \in Version
      BY DEF VersionInv
    <3>. QED  BY <1>1, <1>3, <3>1 DEF Version, Now
  <2>2. ASSUME NEW i \in 1 .. Len(wire'), IsSnapshot(wire'[i])
        PROVE  /\ wire'[i].version \in Version /\ wire'[i].version <= Now
               /\ i = n \/ (i \in 1 .. Len(wire) /\ wire'[i] = wire[i])
    <3>1. i = n \/ (i \in 1 .. Len(wire) /\ wire'[i] = wire[i])
      BY <1>4, <1>7, <2>2
    <3>2. wire'[i].version \in Version
      BY <1>3, <1>4, <2>2, <3>1 DEF VersionInv
    <3>. QED  BY <3>1, <3>2 DEF Version, Now
  <2>3. ASSUME NEW i \in 1 .. Len(wire'), IsSnapshot(wire'[i]), NEW j \in 1 .. i,
               IsSnapshot(wire'[j])
        PROVE  wire'[j].version <= wire'[i].version
    <3>1. j \in 1 .. Len(wire')
      BY <1>4
    <3>2. CASE i = n
      BY <1>4, <2>2, <2>3, <3>1, <3>2
    <3>3. CASE i # n
      <4>1. i \in 1 .. Len(wire) /\ wire'[i] = wire[i] /\ j \in 1 .. Len(wire)
        BY <2>2, <2>3, <3>3, <1>3
      <4>2. wire'[j] = wire[j]
        BY <1>4, <4>1
      <4>. QED  BY <2>3, <4>1, <4>2 DEF VersionInv
    <3>. QED  BY <3>2, <3>3
  <2>4. ASSUME NEW i \in 1 .. Len(wire'), IsSnapshot(wire'[i]), NEW t \in Targets
        PROVE  /\ token[t] <= wire'[i].version /\ mem[t] <= wire'[i].version
               /\ saved[t] <= wire'[i].version
    <3>1. CASE i = n
      BY <1>4, <2>1, <3>1
    <3>2. CASE i # n
      BY <2>2, <2>4, <3>2 DEF VersionInv
    <3>. QED  BY <3>1, <3>2
  <2>5. \A t \in Targets : /\ token[t] \in Version /\ mem[t] \in Version /\ saved[t] \in Version
                           /\ \A i \in 1 .. Len(asked[t]) : asked[t][i].from \in Version
    BY DEF VersionInv
  <2>. QED  BY <1>1, <1>3, <2>1, <2>2, <2>3, <2>4, <2>5 DEF VersionInv
<1>11. ReportInv'
  <2>. SUFFICES ASSUME NEW j \in 1 .. Len(wire'), wire'[j].type = "docs"
                PROVE  /\ Reports(hist, wire'[j]) /\ Announced(wire', j)
                       /\ wire'[j].count # Nothing => filters' > 0
    BY <1>1 DEF ReportInv
  <2>1. CASE j \in 1 .. Len(wire)
    <3>1. wire'[j] = wire[j] /\ (Announced(wire, j) => Announced(wire', j))
      BY <1>2, <1>3, <2>1, GrownWire
    <3>. QED  BY <1>3, <2>1, <3>1 DEF ReportInv
  <2>2. CASE j \notin 1 .. Len(wire)
    <3>1. j \in 1 .. n /\ j # n
      BY <1>4 DEF IsSnapshot
    <3>2. j - Len(wire) \in 1 .. Len(u) - 1 /\ wire'[j] = u[j - Len(wire)]
      BY <1>7, <2>2, <3>1
    <3>3. /\ Reports(hist, wire'[j]) /\ wire'[j].version = Now
          /\ wire'[j].count # Nothing => filters' > 0
      BY <1>5, <3>2
    <3>4. NoSnapshot(wire', j, n) /\ n \in j + 1 .. Len(wire')
      <4>1. n \in Len(wire) + 1 .. n /\ j \in Len(wire) + 1 .. n
        BY <1>2, <1>3, <1>4, <2>2, <3>1 DEF n
      <4>2. \A k \in j .. n - 1 : k \in Len(wire) + 1 .. n - 1
        BY <1>3, <1>4, <4>1
      <4>3. n \in j + 1 .. Len(wire')
        BY <1>4, <3>1
      <4>. QED  BY <1>8, <4>1, <4>2, <4>3 DEF NoSnapshot
    <3>5. Announced(wire', j)
      BY <1>4, <3>3, <3>4 DEF Announced
    <3>. QED  BY <3>3, <3>5
  <2>. QED  BY <2>1, <2>2
<1>12. TargetInv'
  <2>1. \A t \in resets' : t = Collection /\ filters' > 0
    BY <1>1, <1>3 DEF TargetInv
  <2>2. ASSUME NEW t \in Targets, Exact(t)' PROVE TargetRight(t)'
    <3>1. TargetRight(t)
      BY <1>3, <2>2 DEF TargetInv, Exact
    <3>2. Settled(t)' => Settled(t)
      BY <1>1 DEF Settled
    <3>3. Settled(t)' => sub'[t].on
      BY <1>1, <3>1, <3>2 DEF TargetRight
    <3>. QED  BY <1>1, <3>1, <3>3 DEF TargetRight
  <2>. QED  BY <2>1, <2>2 DEF TargetInv
<1>13. MarksInv'
  <2>1. ASSUME NEW t \in Targets, MarksRight(t) PROVE MarksRight(t)'
    <3>1. \A i \in 1 .. Len(wire) : i \in 1 .. Len(wire') /\ wire'[i] = wire[i]
                                     /\ (IsFirst(wire, i) => IsFirst(wire', i))
      BY <1>2, <1>3, GrownWire
    <3>2. \A i \in 1 .. Len(wire) : Fits(hist', t, wire'[i].version, agg'[t])
                                       <=> Fits(hist, t, wire[i].version, agg[t])
      BY <1>1, <3>1
    <3>. QED  BY <1>1, <2>1, <3>1, <3>2 DEF MarksRight
  <2>. QED  BY <1>1, <1>3, <2>1 DEF MarksInv, Exact, Active
<1>14. ASSUME NEW t \in Targets, Exact(t)', Settled(t)' PROVE Delivered(t)'
  <2>1. Delivered(t) /\ TargetRight(t) /\ sub[t].on
    BY <1>1, <1>3, <1>14 DEF DeliveryInv, TargetInv, TargetRight, Exact, Settled
  <2>2. /\ \A j \in 1 .. Len(wire), b \in Version :
                 (/\ wire'[j].type = "docs" /\ wire'[j].target = t
                  /\ Present(wire', t, j) /\ IsBase(wire', t, j, token'[t], b))
                     => Covers(hist', wire'[j], b)
        /\ \A i \in 1 .. Len(wire), b \in Version :
                 (/\ IsSnapshot(wire'[i]) /\ Present(wire', t, i)
                  /\ IsBase(wire', t, i, token'[t], b)) =>
                     \/ wire'[i].version = b
                     \/ DocsBefore(wire', t, i)
                     \/ Active(t)' /\ IsFirst(wire', i) /\ Done(t, wire[i].version)'
        /\ \A b \in Version :
                 IsBase(wire', t, Len(wire) + 1, token'[t], b) => sub[t].told = b
    BY <1>1, <1>2, <1>6, <2>1, GrownDelivery DEF WatchInv
  <2>3. ASSUME NEW i \in Len(wire) + 1 .. n, NEW b \in Version,
               IsBase(wire', t, i, token'[t], b)
        PROVE  sub[t].told = b
    <3>1. NoSnapshot(wire', Len(wire) + 1, i)
      BY <1>8
    <3>2. Len(wire) + 1 \in Nat \ {0} /\ i \in Nat /\ Len(wire) + 1 <= i
      BY <1>3, <1>4
    <3>3. IsBase(wire', t, Len(wire) + 1, token'[t], b)
      BY <2>3, <3>1, <3>2, BaseSlides
    <3>. QED  BY <2>2, <3>3
  <2>4. ASSUME ~Behind(t) PROVE sub[t].told = Now
    <3>1. sub[t].told \in Version /\ ~ (sub[t].told < Now)
      BY <2>1, <2>4 DEF Behind, VersionInv
    <3>. QED  BY <3>1 DEF Version, Now
  <2>5. DocsCover(t)'
    <3>. SUFFICES ASSUME NEW j \in 1 .. Len(wire'), NEW b \in Version,
                         wire'[j].type = "docs", wire'[j].target = t,
                         Present(wire', t, j), IsBase(wire', t, j, token'[t], b)
                  PROVE  Covers(hist', wire'[j], b)
      BY <1>3 DEF DocsCover
    <3>1. CASE j \in 1 .. Len(wire)
      BY <2>2, <3>1
    <3>2. CASE j \notin 1 .. Len(wire)
      <4>1. j \in 1 .. n /\ j # n
        BY <1>4 DEF IsSnapshot
      <4>2. j - Len(wire) \in 1 .. Len(u) - 1 /\ wire'[j] = u[j - Len(wire)]
        BY <1>7, <3>2, <4>1
      <4>3. j \in Len(wire) + 1 .. n
        BY <1>3, <1>4, <3>2, <4>1
      <4>4. sub[t].told = b
        BY <2>3, <4>3
      <4>5. Covers(hist, wire'[j], sub[t].told)
        BY <1>5, <1>14, <4>2 DEF Exact
      <4>. QED  BY <1>1, <4>4, <4>5
    <3>. QED  BY <3>1, <3>2
  <2>6. SnapshotsEarned(t)'
    <3>. SUFFICES ASSUME NEW i \in 1 .. Len(wire'), NEW b \in Version,
                         IsSnapshot(wire'[i]), Present(wire', t, i),
                         IsBase(wire', t, i, token'[t], b)
                  PROVE  \/ wire'[i].version = b
                         \/ DocsBefore(wire', t, i)
                         \/ Active(t)' /\ IsFirst(wire', i) /\ Done(t, wire[i].version)'
      BY <1>3 DEF SnapshotsEarned
    <3>1. CASE i \in 1 .. Len(wire)
      BY <2>2, <3>1
    <3>2. CASE i \notin 1 .. Len(wire)
      <4>1. i = n
        BY <1>4, <1>7, <3>2
      <4>2. i \in Len(wire) + 1 .. n
        BY <1>2, <1>3, <1>4, <4>1 DEF n
      <4>3. sub[t].told = b
        BY <2>3, <4>2
      <4>4. CASE ~Behind(t)
        BY <1>4, <2>4, <4>1, <4>3, <4>4
      <4>5. CASE Behind(t)
        <5>1. PICK k \in 1 .. Len(u) - 1 : u[k].target = t
          BY <1>2, <4>5
        <5>2. PICK j : j = Len(wire) + k
          OBVIOUS
        <5>3. j \in 1 .. i - 1 /\ j \in Len(wire) + 1 .. n /\ k \in 1 .. Len(u)
          BY <1>2, <1>3, <4>1, <5>2 DEF n
        <5>4. wire'[j] = u[k] /\ u[k].type = "docs"
          BY <1>4, <1>5, <5>2, <5>3
        <5>5. Present(wire', t, j)
          <6>1. ASSUME NEW q \in j .. Len(wire') PROVE ~IsResponse(wire'[q], t)
            <7>1. q - Len(wire) \in 1 .. Len(u) /\ q = Len(wire) + (q - Len(wire))
              <8>1. Len(wire) \in Nat /\ Len(u) \in Nat
                BY <1>2, <1>3
              <8>2. j \in Len(wire) + 1 .. Len(wire) + Len(u)
                BY <5>3 DEF n
              <8>3. q \in j .. Len(wire) + Len(u)
                BY <1>4 DEF n
              <8>. QED  BY <8>1, <8>2, <8>3, BehindOffset
            <7>2. wire'[q] = u[q - Len(wire)]
              BY <1>4, <7>1
            <7>. QED  BY <1>6, <7>1, <7>2
          <6>. QED  BY <6>1 DEF Present
        <5>6. NoSnapshot(wire', j, i)
          <6>1. \A q \in j .. i - 1 : q \in Len(wire) + 1 .. i - 1
            BY <1>3, <5>3
          <6>. QED  BY <1>8, <4>2, <6>1 DEF NoSnapshot
        <5>. QED  BY <5>1, <5>3, <5>4, <5>5, <5>6 DEF DocsBefore
      <4>. QED  BY <4>4, <4>5
    <3>. QED  BY <3>1, <3>2
  <2>7. ToldRight(t)'
    <3>1. \A b : IsBase(wire', t, Len(wire') + 1, token'[t], b) => b = Now
      <4>1. Len(wire') \in Nat \ {0}
        BY <1>2, <1>3, <1>4 DEF n
      <4>. QED  BY <1>4, <4>1, BaseAtLast
    <3>2. sub'[t].told = Now
      BY <1>1, <2>4
    <3>. QED  BY <3>1, <3>2 DEF ToldRight
  <2>. QED  BY <2>5, <2>6, <2>7 DEF Delivered
<1>15. DeliveryInv'
  BY <1>14 DEF DeliveryInv
<1>. QED  BY <1>9, <1>10, <1>11, <1>12, <1>13, <1>15

-----------------------------------------------------------------------------
(* What the client reads *)

(* There is one first snapshot only.                                       *)
LEMMA FirstUnique ==
    ASSUME NEW w, NEW i, NEW j, Len(w) \in Nat, IsFirst(w, i), IsFirst(w, j)
    PROVE  i = j
<1>1. i \in 1 .. Len(w) /\ j \in 1 .. Len(w) /\ IsSnapshot(w[i]) /\ IsSnapshot(w[j])
  BY DEF IsFirst
<1>2. i \notin 1 .. j - 1 /\ j \notin 1 .. i - 1
  BY <1>1 DEF IsFirst, NoSnapshot
<1>. QED  BY <1>1, <1>2

(* What is announced, and which snapshot is first, when the oldest message *)
(* is taken.                                                               *)
LEMMA FirstTail ==
    ASSUME NEW w \in Seq(Messages), w # <<>>, NEW i \in 1 .. Len(Tail(w))
    PROVE  /\ Announced(w, i + 1) => Announced(Tail(w), i)
           /\ IsFirst(w, i + 1) => IsFirst(Tail(w), i) /\ ~IsSnapshot(Head(w))
<1>. DEFINE v == Tail(w)
<1>1. /\ Len(w) \in Nat \ {0} /\ Len(v) = Len(w) - 1 /\ Head(w) = w[1]
      /\ \A k \in 1 .. Len(v) : v[k] = w[k + 1]
  BY TailAt
<1>2. \A k \in Nat \ {0} : \A j \in 1 .. Len(w) : NoSnapshot(v, k, j) <=> NoSnapshot(w, k + 1, j + 1)
  BY NoSnapshotTail
<1>3. i \in 1 .. Len(v)
  OBVIOUS
<1>. HIDE DEF v
<1>4. ASSUME Announced(w, i + 1) PROVE Announced(v, i)
  <2>1. PICK k \in (i + 1) + 1 .. Len(w) : /\ IsSnapshot(w[k]) /\ NoSnapshot(w, i + 1, k)
                                           /\ w[k].version = w[i + 1].version
    BY <1>4 DEF Announced
  <2>2. PICK j : j = k - 1
    OBVIOUS
  <2>3. j \in i + 1 .. Len(v) /\ j \in 1 .. Len(v) /\ j \in 1 .. Len(w) /\ k = j + 1 /\ i \in Nat \ {0}
    BY <1>1, <1>3, <2>1, <2>2
  <2>4. NoSnapshot(v, i, j) /\ v[j] = w[k] /\ v[i] = w[i + 1]
    BY <1>1, <1>2, <1>3, <2>1, <2>3
  <2>. QED  BY <2>1, <2>3, <2>4 DEF Announced
<1>5. ASSUME IsFirst(w, i + 1) PROVE IsFirst(v, i) /\ ~IsSnapshot(Head(w))
  <2>1. IsSnapshot(w[i + 1]) /\ NoSnapshot(w, 1, i + 1)
    BY <1>5 DEF IsFirst
  <2>2. \A k \in 1 + 1 .. (i + 1) - 1 : k \in 1 .. (i + 1) - 1
    OBVIOUS
  <2>3. NoSnapshot(w, 1 + 1, i + 1) /\ 1 \in 1 .. (i + 1) - 1
    BY <1>1, <1>3, <2>1, <2>2 DEF NoSnapshot
  <2>4. ~IsSnapshot(w[1])
    BY <2>1, <2>3 DEF NoSnapshot
  <2>5. i \in 1 .. Len(w) /\ 1 \in Nat \ {0}
    BY <1>1, <1>3
  <2>6. NoSnapshot(v, 1, i)
    BY <1>2, <2>3, <2>5
  <2>. QED  BY <1>1, <1>3, <2>1, <2>4, <2>6 DEF IsFirst
<1>. QED  BY <1>4, <1>5 DEF v

(* When what is read is no snapshot, the first snapshot stays the first.   *)
LEMMA FirstStays ==
    ASSUME NEW w \in Seq(Messages), w # <<>>, ~IsSnapshot(Head(w)), NEW i, IsFirst(w, i)
    PROVE  i - 1 \in 1 .. Len(Tail(w)) /\ IsFirst(Tail(w), i - 1) /\ Tail(w)[i - 1] = w[i]
<1>1. i \in 1 .. Len(w) /\ i # 1
  BY TailAt DEF IsFirst
<1>2. i - 1 \in 1 .. Len(Tail(w)) /\ i = (i - 1) + 1
  BY <1>1, TailAt
<1>3. IsFirst(Tail(w), i - 1)
  <2>1. IsFirst(w, (i - 1) + 1)
    BY <1>2
  <2>. QED  BY <1>2, <2>1, FirstTail
<1>. QED  BY <1>2, <1>3, TailAt

(* The documents that are behind a snapshot's back, when the oldest        *)
(* message is taken.                                                       *)
LEMMA DocsBeforeTail ==
    ASSUME NEW w \in Seq(Messages), w # <<>>, NEW t, NEW i \in 1 .. Len(Tail(w)),
           DocsBefore(w, t, i + 1)
    PROVE  \/ DocsBefore(Tail(w), t, i)
           \/ /\ Head(w).type = "docs" /\ Head(w).target = t /\ Present(w, t, 1)
              /\ NoSnapshot(w, 1, i + 1)
<1>. DEFINE v == Tail(w)
<1>1. /\ Len(w) \in Nat \ {0} /\ Len(v) = Len(w) - 1 /\ Head(w) = w[1]
      /\ \A k \in 1 .. Len(v) : v[k] = w[k + 1]
  BY TailAt
<1>2. \A k \in Nat \ {0} : \A j \in 1 .. Len(w) : NoSnapshot(v, k, j) <=> NoSnapshot(w, k + 1, j + 1)
  BY NoSnapshotTail
<1>3. \A k \in Nat \ {0} : Present(v, t, k) <=> Present(w, t, k + 1)
  BY PresentTail
<1>4. i \in 1 .. Len(v) /\ i \in 1 .. Len(w)
  BY <1>1
<1>5. PICK j \in 1 .. (i + 1) - 1 : /\ w[j].type = "docs" /\ w[j].target = t
                                    /\ Present(w, t, j) /\ NoSnapshot(w, j, i + 1)
  BY DEF DocsBefore
<1>. HIDE DEF v
<1>6. CASE j = 1
  BY <1>1, <1>5, <1>6
<1>7. CASE j # 1
  <2>1. PICK k : k = j - 1
    OBVIOUS
  <2>2. k \in 1 .. i - 1 /\ k \in Nat \ {0} /\ k \in 1 .. Len(v) /\ j = k + 1
    BY <1>1, <1>4, <1>5, <1>7, <2>1
  <2>3. v[k] = w[j] /\ Present(v, t, k) /\ NoSnapshot(v, k, i)
    BY <1>1, <1>2, <1>3, <1>4, <1>5, <2>2
  <2>4. DocsBefore(v, t, i)
    BY <1>5, <2>2, <2>3 DEF DocsBefore
  <2>. QED  BY <2>4 DEF v
<1>. QED  BY <1>6, <1>7

(* When every request is taken, a target is active if the messages are for *)
(* its present life.                                                       *)
LEMMA ActiveIsPresent ==
    ASSUME WatchInv, NEW t \in Targets, t \in listens
    PROVE  /\ Active(t) => asked[t] = <<>> /\ Present(wire, t, 1)
           /\ asked[t] = <<>> /\ Present(wire, t, 1) => Active(t)
<1>1. /\ wire \in Seq(Messages) /\ asked[t] \in Seq(Request) /\ Len(asked[t]) \in Nat
      /\ asked[t] = <<>> <=> Len(asked[t]) = 0
  BY LenProperties, EmptySeq DEF WatchInv, TypeOK
<1>2. agg[t].owed = Len(asked[t]) + Cardinality(ResponsesIn(wire, t))
  BY DEF WatchInv, OwedInv
<1>3. IsFiniteSet(ResponsesIn(wire, t)) /\ Cardinality(ResponsesIn(wire, t)) \in Nat
  BY <1>1, ResponsesFinite
<1>4. Cardinality(ResponsesIn(wire, t)) = 0 <=> ResponsesIn(wire, t) = {}
  BY <1>3, FS_EmptySet
<1>5. ResponsesIn(wire, t) = {} <=> Present(wire, t, 1)
  BY DEF ResponsesIn, Present
<1>6. agg[t].owed = 0 <=> Len(asked[t]) = 0 /\ Cardinality(ResponsesIn(wire, t)) = 0
  BY <1>1, <1>2, <1>3
<1>. QED  BY <1>1, <1>4, <1>5, <1>6 DEF Active

(* What is left on the wire says what it said, and the tokens are not      *)
(* ahead of the snapshots left.                                            *)
LEMMA ReadKeeps ==
    ASSUME WatchInv, VersionInv, ReportInv, wire # <<>>, wire' = Tail(wire),
           UNCHANGED <<hist, sub, filters>>, NEW q \in Version,
           \A i \in 2 .. Len(wire) : IsSnapshot(wire[i]) => q <= wire[i].version,
           \A t \in Targets :
               /\ token'[t] \in {token[t], 0, q} /\ mem'[t] \in {mem[t], q}
               /\ saved'[t] \in {saved[t], q}
               /\ \A i \in 1 .. Len(asked'[t]) : asked'[t][i].from \in Version
    PROVE  VersionInv' /\ ReportInv'
<1>1. /\ wire \in Seq(Messages) /\ Len(wire) \in Nat \ {0} /\ Len(wire') = Len(wire) - 1
      /\ \A i \in 1 .. Len(wire') : i + 1 \in 1 .. Len(wire) /\ wire'[i] = wire[i + 1]
  BY TailAt DEF WatchInv, TypeOK
<1>2. Version' = Version /\ 0 \in Version
  BY DEF Version
<1>3. ASSUME NEW i \in 1 .. Len(wire'), IsSnapshot(wire'[i])
      PROVE  /\ wire'[i].version \in Version
             /\ \A t \in Targets : /\ token'[t] <= wire'[i].version
                                   /\ mem'[t] <= wire'[i].version
                                   /\ saved'[t] <= wire'[i].version
             /\ \A j \in 1 .. i : IsSnapshot(wire'[j]) => wire'[j].version <= wire'[i].version
  <2>1. i + 1 \in 1 .. Len(wire) /\ i + 1 \in 2 .. Len(wire) /\ wire'[i] = wire[i + 1]
    BY <1>1
  <2>2. wire'[i].version \in Version /\ q <= wire'[i].version /\ 0 <= wire'[i].version
    BY <1>3, <2>1 DEF VersionInv, Version
  <2>3. \A t \in Targets : /\ token[t] <= wire'[i].version /\ mem[t] <= wire'[i].version
                           /\ saved[t] <= wire'[i].version
    BY <1>3, <2>1 DEF VersionInv
  <2>4. ASSUME NEW j \in 1 .. i, IsSnapshot(wire'[j])
        PROVE  wire'[j].version <= wire'[i].version
    <3>1. j \in 1 .. Len(wire') /\ j + 1 \in 1 .. i + 1
      BY <1>1
    <3>2. wire'[j] = wire[j + 1]
      BY <1>1, <3>1
    <3>. QED  BY <1>3, <2>1, <2>4, <3>1, <3>2 DEF VersionInv
  <2>. QED  BY <2>2, <2>3, <2>4
<1>4. VersionInv'
  <2>1. \A t \in Targets : token[t] \in Version /\ mem[t] \in Version /\ saved[t] \in Version
                           /\ sub[t].told \in Version
    BY DEF VersionInv
  <2>2. \A t \in Targets : token'[t] \in Version /\ mem'[t] \in Version /\ saved'[t] \in Version
                           /\ sub'[t].told \in Version
    BY <1>2, <2>1
  <2>. QED  BY <1>2, <1>3, <2>2 DEF VersionInv
<1>5. ReportInv'
  <2>. SUFFICES ASSUME NEW j \in 1 .. Len(wire'), wire'[j].type = "docs"
                PROVE  /\ Reports(hist, wire'[j]) /\ Announced(wire', j)
                       /\ wire'[j].count # Nothing => filters > 0
    BY DEF ReportInv
  <2>1. j + 1 \in 1 .. Len(wire) /\ wire'[j] = wire[j + 1]
    BY <1>1
  <2>2. Announced(wire, j + 1) => Announced(wire', j)
    BY <1>1, FirstTail
  <2>. QED  BY <2>1, <2>2 DEF ReportInv
<1>. QED  BY <1>4, <1>5

(* A message is read.  It stays so that what is under way for a target     *)
(* leads from its token, if a snapshot that counts for the target makes    *)
(* its token, and what leads to the next snapshot is aggregated.           *)
LEMMA ShiftDelivered ==
    ASSUME WatchInv, VersionInv, ReportInv, wire # <<>>, wire' = Tail(wire),
           NEW t \in Targets, Delivered(t), UNCHANGED hist, sub'[t] = sub[t],
           IF IsSnapshot(Head(wire)) /\ Present(wire, t, 1) THEN token'[t] = Head(wire).version
                                                           ELSE token'[t] = token[t],
           \A i \in 1 .. Len(wire) :
               /\ IsFirst(wire, i) /\ ~IsSnapshot(Head(wire))
               /\ \/ Active(t) /\ Done(t, wire[i].version)
                  \/ /\ Head(wire).type = "docs" /\ Head(wire).target = t
                     /\ Present(wire, t, 1) /\ Head(wire).version = wire[i].version
               => Active(t)' /\ \E v : v = wire[i].version /\ Done(t, v)'
    PROVE  Delivered(t)'
<1>1. /\ wire \in Seq(Messages) /\ Len(wire) \in Nat \ {0} /\ Len(wire') = Len(wire) - 1
      /\ Head(wire) = wire[1]
      /\ \A i \in 1 .. Len(wire') : /\ i + 1 \in 1 .. Len(wire) /\ wire'[i] = wire[i + 1]
                                    /\ i \in 1 .. Len(wire) /\ i \in Nat \ {0}
  BY TailAt DEF WatchInv, TypeOK
<1>2. Version' = Version
  BY DEF Version
<1>3. \A i \in Nat \ {0} : Present(wire', t, i) <=> Present(wire, t, i + 1)
  BY <1>1, PresentTail
<1>4. \A i \in 1 .. Len(wire) : \A b :
          IsBase(wire', t, i, token'[t], b) => IsBase(wire, t, i + 1, token[t], b)
  BY <1>1, BaseTail
<1>5. DocsCover(t)'
  BY <1>1, <1>2, <1>3, <1>4 DEF DocsCover, Delivered
<1>6. SnapshotsEarned(t)'
  <2>. SUFFICES ASSUME NEW i \in 1 .. Len(wire'), NEW b \in Version,
                       IsSnapshot(wire'[i]), Present(wire', t, i),
                       IsBase(wire', t, i, token'[t], b)
                PROVE  \/ wire'[i].version = b
                       \/ DocsBefore(wire', t, i)
                       \/ Active(t)' /\ IsFirst(wire', i) /\ Done(t, wire[i].version)'
    BY <1>2 DEF SnapshotsEarned
  <2>1. /\ i + 1 \in 1 .. Len(wire) /\ wire'[i] = wire[i + 1]
        /\ Present(wire, t, i + 1) /\ IsBase(wire, t, i + 1, token[t], b)
    BY <1>1, <1>3, <1>4
  <2>2. \/ wire[i + 1].version = b
        \/ DocsBefore(wire, t, i + 1)
        \/ Active(t) /\ IsFirst(wire, i + 1) /\ Done(t, wire[i + 1].version)
    BY <2>1 DEF SnapshotsEarned, Delivered
  <2>3. IsFirst(wire, i + 1) => IsFirst(wire', i) /\ ~IsSnapshot(Head(wire))
    BY <1>1, FirstTail
  <2>4. ASSUME Active(t)', NEW v, v = wire[i + 1].version, Done(t, v)', IsFirst(wire, i + 1)
        PROVE  Active(t)' /\ IsFirst(wire', i) /\ Done(t, wire[i].version)'
    <3>1. v = wire'[i].version
      BY <2>1, <2>4
    <3>. QED  BY <2>3, <2>4, <3>1 DEF Done
  <2>5. CASE DocsBefore(wire, t, i + 1)
    <3>1. \/ DocsBefore(wire', t, i)
          \/ /\ Head(wire).type = "docs" /\ Head(wire).target = t /\ Present(wire, t, 1)
             /\ NoSnapshot(wire, 1, i + 1)
      BY <1>1, <2>5, DocsBeforeTail
    <3>2. ASSUME Head(wire).type = "docs", Head(wire).target = t, Present(wire, t, 1),
                 NoSnapshot(wire, 1, i + 1)
          PROVE  Active(t)' /\ IsFirst(wire', i) /\ Done(t, wire[i].version)'
      <4>1. IsFirst(wire, i + 1)
        BY <2>1, <3>2 DEF IsFirst
      <4>2. PICK k \in 1 + 1 .. Len(wire) : /\ IsSnapshot(wire[k]) /\ NoSnapshot(wire, 1, k)
                                            /\ wire[k].version = wire[1].version
        BY <1>1, <3>2 DEF ReportInv, Announced
      <4>3. IsFirst(wire, k)
        BY <4>2 DEF IsFirst
      <4>4. k = i + 1
        BY <1>1, <4>1, <4>3, FirstUnique
      <4>5. Head(wire).version = wire[i + 1].version
        BY <1>1, <4>2, <4>4
      <4>. QED  BY <2>1, <2>3, <2>4, <3>2, <4>1, <4>5
    <3>. QED  BY <3>1, <3>2
  <2>6. CASE Active(t) /\ IsFirst(wire, i + 1) /\ Done(t, wire[i + 1].version)
    BY <2>1, <2>3, <2>4, <2>6
  <2>. QED  BY <2>1, <2>2, <2>5, <2>6
<1>7. ToldRight(t)'
  <2>1. Len(wire') + 1 \in 1 .. Len(wire) /\ (Len(wire') + 1) + 1 = Len(wire) + 1
    BY <1>1
  <2>2. \A b : IsBase(wire', t, Len(wire') + 1, token'[t], b)
                  => IsBase(wire, t, Len(wire) + 1, token[t], b)
    BY <1>4, <2>1
  <2>. QED  BY <1>2, <2>2 DEF ToldRight, Delivered
<1>. QED  BY <1>5, <1>6, <1>7 DEF Delivered

(* The state of a target when nothing but a message is read, of which the  *)
(* target aggregates nothing.                                              *)
LEMMA ReadPast ==
    ASSUME WatchInv, TokensInv, wire # <<>>, wire' = Tail(wire), ~IsSnapshot(Head(wire)),
           UNCHANGED <<hist, sub, filters, asked, stream, listens, token, updates, synced>>,
           NEW t \in Targets, Exact(t), Active(t)' => Active(t) /\ agg'[t] = agg[t]
    PROVE  /\ Active(t)' => MarksRight(t)'
           /\ (/\ Settled(t)'
               /\ Active(t) => Active(t)'
               /\ Head(wire).type = "docs" /\ Head(wire).target = t => ~Present(wire, t, 1))
                  => Delivered(t)'
<1>. USE DEF TokensInv
<1>1. wire \in Seq(Messages)
  BY DEF WatchInv, TypeOK
<1>2. \A i \in 1 .. Len(wire) : IsFirst(wire, i) =>
          i - 1 \in 1 .. Len(wire') /\ IsFirst(wire', i - 1) /\ wire'[i - 1] = wire[i]
  BY <1>1, FirstStays
<1>3. ASSUME Active(t)' PROVE MarksRight(t)'
  <2>1. MarksRight(t) /\ agg'[t] = agg[t]
    BY <1>3 DEF MarksInv
  <2>2. ASSUME NEW d \in Docs, agg'[t].changes[d] # "none"
        PROVE  \E i \in 1 .. Len(wire') : /\ IsFirst(wire', i)
                                          /\ Fits(hist', t, wire'[i].version, agg'[t])
    <3>1. PICK i \in 1 .. Len(wire) : IsFirst(wire, i) /\ Fits(hist, t, wire[i].version, agg[t])
      BY <2>1, <2>2 DEF MarksRight
    <3>2. i - 1 \in 1 .. Len(wire') /\ IsFirst(wire', i - 1) /\ wire'[i - 1] = wire[i]
      BY <1>2, <3>1
    <3>3. Fits(hist', t, wire'[i - 1].version, agg'[t])
      BY <2>1, <3>1, <3>2
    <3>. QED  BY <3>2, <3>3
  <2>. QED  BY <2>2 DEF MarksRight
<1>4. ASSUME Settled(t)', Active(t) => Active(t)',
             Head(wire).type = "docs" /\ Head(wire).target = t => ~Present(wire, t, 1)
      PROVE  Delivered(t)'
  <2>1. Delivered(t)
    BY <1>4 DEF DeliveryInv, Settled
  <2>2. ASSUME Active(t), NEW v, Done(t, v) PROVE Active(t)' /\ Done(t, v)'
    BY <1>4, <2>2 DEF Done
  <2>3. \A i \in 1 .. Len(wire) :
            /\ IsFirst(wire, i) /\ ~IsSnapshot(Head(wire))
            /\ \/ Active(t) /\ Done(t, wire[i].version)
               \/ /\ Head(wire).type = "docs" /\ Head(wire).target = t
                  /\ Present(wire, t, 1) /\ Head(wire).version = wire[i].version
            => Active(t)' /\ \E v : v = wire[i].version /\ Done(t, v)'
    <3>. SUFFICES ASSUME NEW i \in 1 .. Len(wire), Active(t), Done(t, wire[i].version)
                  PROVE  Active(t)' /\ \E v : v = wire[i].version /\ Done(t, v)'
      BY <1>4
    <3>1. PICK v : v = wire[i].version
      OBVIOUS
    <3>2. Active(t)' /\ Done(t, v)'
      BY <2>2, <3>1
    <3>. QED  BY <3>1, <3>2
  <2>. QED  BY <2>1, <2>3, ShiftDelivered
<1>. QED  BY <1>3, <1>4

(* What every message but a snapshot leaves alone stays right.             *)
LEMMA ReadRest ==
    ASSUME WatchInv, TokensInv, wire # <<>>, wire' = Tail(wire),
           UNCHANGED <<hist, sub, filters, asked, stream, listens, token, synced, mem, saved,
                       keys, cache>>,
           \A t \in resets' : t = Collection /\ filters > 0
    PROVE  VersionInv' /\ ReportInv' /\ TargetInv' /\ CachedInv'
<1>. USE DEF TokensInv
<1>1. VersionInv' /\ ReportInv'
  <2>1. 0 \in Version
    BY DEF Version, WatchInv, TypeOK
  <2>2. \A i \in 1 .. Len(wire) : IsSnapshot(wire[i]) => 0 <= wire[i].version
    BY DEF VersionInv, Version
  <2>3. \A i \in 2 .. Len(wire) : i \in 1 .. Len(wire)
    OBVIOUS
  <2>4. \A t \in Targets : \A i \in 1 .. Len(asked'[t]) : asked'[t][i].from \in Version
    BY DEF VersionInv
  <2>. QED  BY <2>1, <2>2, <2>3, <2>4, ReadKeeps
<1>2. TargetInv'
  BY DEF TargetInv, TargetRight, Exact, Settled
<1>3. CachedInv'
  BY DEF CachedInv
<1>. QED  BY <1>1, <1>2, <1>3

(* An answer is read.                                                      *)
LEMMA AnswerTokens ==
    ASSUME WatchInv, TokensInv, NEW type \in {"added", "removed"}, Reads(type),
           NEW t, t = Head(wire).target, NEW a \in Aggregates,
           a.owed = 0 => \A d \in Docs : a.changes[d] = "none",
           agg' = [agg EXCEPT ![t] = a],
           UNCHANGED <<backendVars, unacked, asked, stream, idle, listens, token, updates,
                       resets, synced, mem, diskVars>>
    PROVE  TokensInv'
<1>. USE DEF TokensInv
<1>1. /\ wire # <<>> /\ wire' = Tail(wire) /\ ~IsSnapshot(Head(wire))
      /\ Head(wire).type # "docs"
      /\ UNCHANGED <<hist, sub, filters, asked, stream, listens, token, updates, resets,
                     synced, mem, saved, keys, cache>>
  BY DEF Reads, IsSnapshot, backendVars, diskVars
<1>2. t \in Targets /\ ~Active(t)
  BY AnswerWasOwed DEF Active
<1>3. agg'[t] = a /\ \A u \in Targets : u # t => agg'[u] = agg[u]
  BY <1>2 DEF WatchInv, TypeOK
<1>4. VersionInv' /\ ReportInv' /\ TargetInv' /\ CachedInv'
  BY <1>1, ReadRest DEF TargetInv
<1>5. HistoryInv'
  BY <1>1 DEF HistoryInv
<1>6. ASSUME NEW u \in Targets, u # t
      PROVE  (Exact(u)' <=> Exact(u)) /\ (Active(u)' <=> Active(u)) /\ agg'[u] = agg[u]
  BY <1>1, <1>3, <1>6 DEF Exact, Active
<1>7. MarksInv'
  <2>1. ASSUME Active(t)' PROVE MarksRight(t)'
    BY <1>3, <2>1 DEF Active, MarksRight
  <2>2. ASSUME NEW u \in Targets, u # t, Exact(u)', Active(u)' PROVE MarksRight(u)'
    BY <1>1, <1>6, <2>2, ReadPast
  <2>. QED  BY <2>1, <2>2 DEF MarksInv
<1>8. DeliveryInv'
  <2>. SUFFICES ASSUME NEW u \in Targets, Exact(u)', Settled(u)' PROVE Delivered(u)'
    BY DEF DeliveryInv
  <2>1. CASE u # t
    BY <1>1, <1>6, <2>1, ReadPast
  <2>2. CASE u = t
    <3>1. Delivered(t)
      BY <1>1, <2>2 DEF DeliveryInv, Exact, Settled
    <3>. QED  BY <1>1, <1>2, <2>2, <3>1, ShiftDelivered
  <2>. QED  BY <2>1, <2>2
<1>. QED  BY <1>4, <1>5, <1>7, <1>8

(* ADD is read.                                                            *)
LEMMA ReadAddedTokens == ASSUME WatchInv, TokensInv, ReadAdded PROVE TokensInv'
<1>. DEFINE t == Head(wire).target
            b == [agg[t] EXCEPT !.owed = @ - 1]
            a == IF b.owed = 0 THEN [b EXCEPT !.changes = Fresh.changes] ELSE b
<1>1. agg[t] \in Aggregates /\ agg[t].owed \in Nat \ {0} /\ Reads("added")
  BY AnswerWasOwed DEF ReadAdded
<1>2. b \in Aggregates
  BY <1>1 DEF Aggregates
<1>3. agg' = [agg EXCEPT ![t] = a]
  BY DEF ReadAdded
<1>. HIDE DEF b
<1>4. a \in Aggregates /\ (a.owed = 0 => \A d \in Docs : a.changes[d] = "none")
  <2>1. CASE b.owed = 0
    <3>1. a = [b EXCEPT !.changes = Fresh.changes]
      BY <2>1
    <3>2. a \in Aggregates /\ a.changes = Fresh.changes
      BY <1>2, <3>1, FreshType DEF Aggregates
    <3>. QED  BY <3>2, FreshType
  <2>2. CASE b.owed # 0
    BY <1>2, <2>2
  <2>. QED  BY <2>1, <2>2
<1>. HIDE DEF a
<1>. QED  BY <1>1, <1>3, <1>4, AnswerTokens DEF ReadAdded

(* REMOVE is read.                                                         *)
LEMMA ReadRemovedTokens == ASSUME WatchInv, TokensInv, ReadRemoved PROVE TokensInv'
<1>. DEFINE t == Head(wire).target
            b == [agg[t] EXCEPT !.owed = @ - 1]
            a == IF agg[t].owed = 1 THEN Fresh ELSE b
<1>1. agg[t] \in Aggregates /\ agg[t].owed \in Nat \ {0} /\ Reads("removed")
  BY AnswerWasOwed DEF ReadRemoved
<1>2. b \in Aggregates /\ b.owed = agg[t].owed - 1
  BY <1>1 DEF Aggregates
<1>3. agg' = [agg EXCEPT ![t] = a]
  BY DEF ReadRemoved
<1>. HIDE DEF b
<1>4. a \in Aggregates /\ (a.owed = 0 => \A d \in Docs : a.changes[d] = "none")
  <2>1. CASE agg[t].owed = 1
    BY <2>1, FreshType
  <2>2. CASE agg[t].owed # 1
    BY <1>1, <1>2, <2>2
  <2>. QED  BY <2>1, <2>2
<1>. HIDE DEF a
<1>. QED  BY <1>1, <1>3, <1>4, AnswerTokens DEF ReadRemoved

(* The documents of a target that owes an answer are read.                 *)
LEMMA ReadDocsIgnoredTokens == ASSUME WatchInv, TokensInv, ReadDocsIgnored PROVE TokensInv'
<1>. USE DEF TokensInv
<1>1. /\ wire # <<>> /\ wire' = Tail(wire) /\ ~IsSnapshot(Head(wire))
      /\ ~Active(Head(wire).target)
      /\ UNCHANGED <<hist, sub, filters, asked, stream, listens, token, agg, updates, resets,
                     synced, mem, saved, keys, cache>>
  BY DEF ReadDocsIgnored, Reads, IsSnapshot, backendVars, aggVars, diskVars
<1>2. VersionInv' /\ ReportInv' /\ TargetInv' /\ CachedInv'
  BY <1>1, ReadRest DEF TargetInv
<1>3. HistoryInv'
  BY <1>1 DEF HistoryInv
<1>4. \A u \in Targets : (Exact(u)' <=> Exact(u)) /\ (Active(u)' <=> Active(u))
  BY <1>1 DEF Exact, Active
<1>5. MarksInv'
  BY <1>1, <1>4, ReadPast DEF MarksInv
<1>6. DeliveryInv'
  <2>. SUFFICES ASSUME NEW u \in Targets, Exact(u)', Settled(u)' PROVE Delivered(u)'
    BY DEF DeliveryInv
  <2>1. Head(wire).target = u => ~Present(wire, u, 1)
    <3>1. u \in listens /\ asked[u] = <<>>
      BY <1>1 DEF Settled
    <3>. QED  BY <1>1, <3>1, ActiveIsPresent
  <2>. QED  BY <1>1, <1>4, <2>1, ReadPast
<1>. QED  BY <1>2, <1>3, <1>5, <1>6

(* The documents read are those of the first snapshot to come.             *)
LEMMA DocsOfFirst ==
    ASSUME WatchInv, ReportInv, Reads("docs")
    PROVE  /\ wire \in Seq(Messages) /\ Len(wire) \in Nat \ {0} /\ Head(wire) = wire[1]
           /\ \E k \in 1 .. Len(wire) : IsFirst(wire, k) /\ wire[k].version = Head(wire).version
           /\ \A i : IsFirst(wire, i) => wire[i].version = Head(wire).version
<1>1. /\ wire \in Seq(Messages) /\ Len(wire) \in Nat \ {0} /\ Head(wire) = wire[1]
      /\ 1 \in 1 .. Len(wire) /\ wire[1].type = "docs"
  BY TailAt DEF Reads, WatchInv, TypeOK
<1>2. PICK k \in 1 + 1 .. Len(wire) : /\ IsSnapshot(wire[k]) /\ NoSnapshot(wire, 1, k)
                                      /\ wire[k].version = wire[1].version
  BY <1>1 DEF ReportInv, Announced
<1>3. k \in 1 .. Len(wire) /\ IsFirst(wire, k)
  BY <1>1, <1>2 DEF IsFirst
<1>. QED  BY <1>1, <1>2, <1>3, FirstUnique

(* With the documents of a target read, the target is at their version.    *)
LEMMA DocsDone ==
    ASSUME WatchInv, TokensInv, ReadDocs, NEW m, m = Head(wire), NEW t, t = m.target, Exact(t),
           NEW v, v = m.version
    PROVE  Fits(hist, t, v, agg'[t]) /\ Done(t, v)'
<1>. USE DEF TokensInv
<1>. DEFINE ks == synced[t]
            a == Aggregated(agg[t], ks, m)
            news == [d \in Docs |-> IF m.changes[d] = Nothing THEN updates[d] ELSE m.changes[d]]
            gone == m.count = 0 /\ IsDocumentQuery(t)
            mismatch == /\ m.count # Nothing /\ ~IsDocumentQuery(t)
                        /\ DocumentCount(ks, a) # m.count
            e == [a EXCEPT !.changes[t] = Change(ks, t, FALSE)]
            c == IF mismatch THEN Reset(ks) ELSE IF gone THEN e ELSE a
            K == KeysAt(hist, t, v)
<1>1. /\ Reads("docs") /\ m \in Messages /\ t \in Targets /\ Active(t) /\ stream = "open"
      /\ UNCHANGED <<hist, token, synced>>
  BY ReadOne DEF ReadDocs, backendVars
<1>2. /\ agg' = [agg EXCEPT ![t] = c]
      /\ updates' = IF gone THEN [news EXCEPT ![t] = Unknown] ELSE news
  BY DEF ReadDocs
<1>3. /\ wire \in Seq(Messages) /\ Len(wire) \in Nat \ {0} /\ m = wire[1] /\ m.type = "docs"
      /\ 1 \in 1 .. Len(wire)
  BY <1>1, DocsOfFirst DEF Reads
<1>4. PICK k \in 1 .. Len(wire) : IsFirst(wire, k) /\ wire[k].version = v
  BY <1>1, DocsOfFirst
<1>5. Delivered(t) /\ TargetRight(t) /\ Present(wire, t, 1) /\ t \in listens
  BY <1>1, ActiveIsPresent DEF Active, Settled, DeliveryInv, TargetInv
<1>6. PICK b : b = token[t]
  OBVIOUS
<1>7. b \in Version /\ b \in 0 .. v /\ v \in Version /\ ks = KeysAt(hist, t, b) /\ v \in Nat
  <2>1. b \in Version /\ b <= v /\ v \in Version
    BY <1>1, <1>4, <1>6 DEF VersionInv, IsFirst
  <2>. QED  BY <1>5, <1>6, <2>1 DEF TargetRight, Version
<1>8. Covers(hist, m, b)
  <2>1. IsBase(wire, t, 1, token[t], b)
    BY <1>6 DEF IsBase
  <2>. QED  BY <1>3, <1>5, <1>7, <2>1 DEF Delivered, DocsCover
<1>9. Reports(hist, m) /\ (m.count # Nothing => filters > 0)
  BY <1>3 DEF ReportInv
<1>10. agg[t] \in Aggregates /\ ks \in SUBSET Docs /\ filters \in Nat
  BY <1>1 DEF WatchInv, TypeOK, Aggregates, Kinds
<1>11. Fits(hist, t, v, agg[t])
  <2>1. CASE \E d \in Docs : agg[t].changes[d] # "none"
    <3>1. PICK i \in 1 .. Len(wire) : IsFirst(wire, i) /\ Fits(hist, t, wire[i].version, agg[t])
      BY <1>1, <2>1 DEF MarksInv, MarksRight
    <3>2. wire[i].version = v
      BY <1>1, <3>1, DocsOfFirst
    <3>. QED  BY <3>1, <3>2
  <2>2. CASE \A d \in Docs : agg[t].changes[d] = "none"
    BY <2>2 DEF Fits
  <2>. QED  BY <2>1, <2>2
<1>12. ~mismatch /\ (m.count = 0 => gone)
  <2>1. m.count # Nothing => IsDocumentQuery(t)
    BY <1>9, <1>10 DEF Exact
  <2>2. 0 # Nothing
    BY NothingAssumption
  <2>. QED  BY <2>1, <2>2
<1>13. \A d \in Docs :
           /\ a.changes[d] \in {"added", "modified"} => d \in K
           /\ a.changes[d] = "removed" => d \notin K
           /\ a.changes[d] = "none" /\ (m.count = 0 => d \notin ks) => (d \in ks <=> d \in K)
  BY <1>1, <1>7, <1>8, <1>9, <1>10, <1>11, DocsAggregated
<1>14. WatchInv'
  BY ReadDocsInv
<1>15. PICK x : x = agg'[t]
  OBVIOUS
<1>16. x = c
  BY <1>1, <1>2, <1>15 DEF WatchInv, TypeOK
<1>17. x \in Aggregates
  BY <1>1, <1>14, <1>15 DEF WatchInv, TypeOK, Aggregates, Kinds
<1>18. Marked(x, ks)
  <2>1. Active(t)'
    <3>1. ReadDocs => listens' = listens
      BY DEF ReadDocs
    <3>2. agg'[t].owed = agg[t].owed
      <4>1. a \in Aggregates /\ a.owed = 0
        <5>1. Marked(agg[t], ks) /\ agg[t].owed = 0
          BY <1>1 DEF Active, WatchInv, WatchAssertionsHold, Marked
        <5>. QED  BY <1>1, <1>10, <5>1, AggregatedType
      <4>. HIDE DEF a
      <4>2. e.owed = 0
        BY <4>1 DEF Aggregates
      <4>. QED  BY <1>1, <1>12, <1>15, <1>16, <4>1, <4>2 DEF Active
    <3>. QED  BY <1>1, <3>1, <3>2 DEF Active
  <2>. QED  BY <1>1, <1>14, <1>15, <2>1 DEF WatchInv, WatchAssertionsHold, Marked
<1>19. a \in Aggregates
  <2>1. Marked(agg[t], ks) /\ agg[t].owed = 0
    BY <1>1 DEF Active, WatchInv, WatchAssertionsHold, Marked
  <2>. QED  BY <1>1, <1>10, <2>1, AggregatedType
<1>. HIDE DEF a, e, news
<1>20. CASE m.count # 0
  <2>1. x = a /\ updates' = news
    BY <1>2, <1>12, <1>16, <1>20
  <2>2. Fits(hist, t, v, x)
    BY <1>13, <2>1 DEF Fits
  <2>3. \A d \in Docs : x.changes[d] = "none" => (d \in ks <=> d \in K)
    BY <1>13, <1>20, <2>1
  <2>4. KeysAfter(ks, x) = K
    BY <1>1, <1>10, <1>17, <1>18, <2>2, <2>3, FittingKeys
  <2>5. ASSUME NEW d \in K
        PROVE  \/ LastChange(hist, d, v) <= token[t]
               \/ updates'[d] # Nothing /\ LastChange(hist, d, v) <= updates'[d].version
    <3>1. d \in Docs /\ d \in Matches(t) /\ DocAt(hist, d, v).there
      BY <1>1, KeysAreDocs DEF KeysAt
    <3>2. CASE m.changes[d] = Nothing
      BY <1>6, <1>8, <3>1, <3>2 DEF Covers
    <3>3. CASE m.changes[d] # Nothing
      <4>1. updates'[d] = m.changes[d]
        BY <2>1, <3>1, <3>3 DEF news
      <4>2. LastChange(hist, d, v) <= m.changes[d].version
        BY <1>9, <3>1, <3>3 DEF Reports, Reported
      <4>. QED  BY <3>3, <4>1, <4>2
    <3>. QED  BY <3>2, <3>3
  <2>. QED  BY <1>1, <1>15, <2>2, <2>4, <2>5 DEF Done
<1>21. CASE m.count = 0
  <2>1. x = e /\ IsDocumentQuery(t)
    BY <1>12, <1>16, <1>21
  <2>2. K = {}
    <3>1. m.count = Cardinality(K)
      BY <1>9, <1>21, NothingAssumption DEF Reports
    <3>2. IsFiniteSet(K)
      BY <1>1, KeysAreDocs, DocsAssumption, FS_Subset
    <3>. QED  BY <1>21, <3>1, <3>2, FS_EmptySet
  <2>3. Matches(t) = {t} /\ t \in Docs /\ ks \subseteq {t}
    BY <1>1, <1>7, <2>1, TargetsAssumption DEF Matches, IsDocumentQuery, KeysAt
  <2>4. x.changes[t] = Change(ks, t, FALSE) /\ \A d \in Docs : d # t => x.changes[d] = a.changes[d]
    <3>. DEFINE q == Change(ks, t, FALSE)
                f == [a.changes EXCEPT ![t] = q]
    <3>. HIDE DEF q
    <3>1. a.changes \in [Docs -> Kinds]
      BY <1>19 DEF Aggregates
    <3>2. f[t] = q /\ \A d \in Docs : d # t => f[d] = a.changes[d]
      BY <2>3, <3>1
    <3>3. e = [a EXCEPT !.changes = f]
      BY <1>19 DEF Aggregates, e, q
    <3>. HIDE DEF f
    <3>4. e.changes = f
      BY <1>19, <3>3 DEF Aggregates
    <3>. QED  BY <2>1, <3>2, <3>4 DEF q
  <2>5. x.changes[t] \in {"removed", "none"} /\ (x.changes[t] = "none" => t \notin ks)
    <3>1. CASE t \in ks
      BY <2>4, <3>1 DEF Change
    <3>2. CASE t \notin ks
      BY <2>4, <3>2 DEF Change
    <3>. QED  BY <3>1, <3>2
  <2>6. \A d \in Docs : /\ x.changes[d] \notin {"added", "modified"}
                        /\ x.changes[d] = "none" => d \notin ks
    <3>. SUFFICES ASSUME NEW d \in Docs
                  PROVE  /\ x.changes[d] \notin {"added", "modified"}
                         /\ x.changes[d] = "none" => d \notin ks
      OBVIOUS
    <3>1. CASE d = t
      BY <2>5, <3>1
    <3>2. CASE d # t
      <4>1. d \notin ks /\ x.changes[d] = a.changes[d]
        BY <2>3, <2>4, <3>2
      <4>. QED  BY <1>13, <2>2, <4>1
    <3>. QED  BY <3>1, <3>2
  <2>7. Fits(hist, t, v, x)
    BY <2>2, <2>6 DEF Fits
  <2>8. \A d \in Docs : x.changes[d] = "none" => (d \in ks <=> d \in K)
    BY <2>2, <2>6
  <2>9. KeysAfter(ks, x) = K
    BY <1>1, <1>10, <1>17, <1>18, <2>7, <2>8, FittingKeys
  <2>. QED  BY <1>1, <1>15, <2>2, <2>7, <2>9 DEF Done
<1>. QED  BY <1>20, <1>21

(* The documents of an active target are read.                             *)
LEMMA DocsTokens ==
    ASSUME WatchInv, TokensInv, ReadDocs, NEW m, m = Head(wire), NEW t, t = m.target
    PROVE  TokensInv'
<1>. USE DEF TokensInv
<1>. DEFINE ks == synced[t]
            a == Aggregated(agg[t], ks, m)
            news == [d \in Docs |-> IF m.changes[d] = Nothing THEN updates[d] ELSE m.changes[d]]
            gone == m.count = 0 /\ IsDocumentQuery(t)
            mismatch == /\ m.count # Nothing /\ ~IsDocumentQuery(t)
                        /\ DocumentCount(ks, a) # m.count
            v == m.version
<1>1. /\ Reads("docs") /\ m \in Messages /\ t \in Targets /\ Active(t) /\ stream = "open"
      /\ UNCHANGED <<hist, sub, filters, asked, stream, listens, token, synced, mem, saved,
                     keys, cache>>
  BY ReadOne DEF ReadDocs, backendVars, diskVars
<1>2. /\ updates' = IF gone THEN [news EXCEPT ![t] = Unknown] ELSE news
      /\ resets' = IF mismatch THEN resets \cup {t} ELSE resets
      /\ \A u \in Targets : u # t => agg'[u] = agg[u]
  <2>1. \E c : agg' = [agg EXCEPT ![t] = c]
    BY DEF ReadDocs
  <2>2. \A u \in Targets : u # t => agg'[u] = agg[u]
    BY <2>1 DEF WatchInv, TypeOK
  <2>. QED  BY <2>2 DEF ReadDocs
<1>3. /\ wire \in Seq(Messages) /\ Len(wire) \in Nat \ {0} /\ m = wire[1] /\ m.type = "docs"
      /\ 1 \in 1 .. Len(wire) /\ wire # <<>> /\ wire' = Tail(wire) /\ ~IsSnapshot(m)
  BY <1>1, DocsOfFirst DEF Reads, IsSnapshot
<1>4. \A i \in 1 .. Len(wire) : IsFirst(wire, i) =>
          /\ i - 1 \in 1 .. Len(wire') /\ IsFirst(wire', i - 1) /\ wire'[i - 1] = wire[i]
          /\ wire[i].version = v
  BY <1>1, <1>3, FirstStays, DocsOfFirst
<1>5. PICK k \in 1 .. Len(wire) : IsFirst(wire, k) /\ wire[k].version = v
  BY <1>1, DocsOfFirst
<1>6. Reports(hist, m) /\ (m.count # Nothing => filters > 0)
  BY <1>3 DEF ReportInv
<1>7. Unknown.version = 0 /\ Unknown.there = FALSE /\ 0 # Nothing
  BY NothingAssumption DEF Unknown
<1>8. ASSUME NEW d \in Docs
      PROVE  \/ updates'[d] = updates[d]
             \/ m.changes[d] # Nothing /\ updates'[d] = m.changes[d]
             \/ gone /\ d = t /\ updates'[d] = Unknown
  <2>1. CASE ~gone
    <3>1. updates'[d] = news[d]
      BY <1>2, <2>1
    <3>. QED  BY <3>1
  <2>2. CASE gone
    <3>1. updates' = [news EXCEPT ![t] = Unknown]
      BY <1>2, <2>2
    <3>. HIDE DEF gone
    <3>2. CASE d = t
      BY <2>2, <3>1, <3>2
    <3>3. CASE d # t
      BY <3>1, <3>3
    <3>. QED  BY <3>2, <3>3
  <2>. QED  BY <2>1, <2>2
<1>9. HistoryInv'
  <2>. SUFFICES ASSUME NEW d \in Docs, updates'[d] # Nothing
                PROVE  Historic(hist, d, updates'[d]) /\ (filters = 0 => updates'[d].version > 0)
    BY <1>1 DEF HistoryInv
  <2>1. CASE updates'[d] = updates[d]
    BY <2>1 DEF HistoryInv
  <2>2. CASE m.changes[d] # Nothing /\ updates'[d] = m.changes[d]
    BY <1>6, <2>2 DEF Reports, Reported
  <2>3. CASE gone /\ updates'[d] = Unknown
    <3>1. filters # 0
      BY <1>6, <1>7, <2>3
    <3>2. Unknown.version \in 0 .. Len(hist) /\ ~ (Unknown.version > 0)
      BY <1>7, LenProperties DEF WatchInv, TypeOK
    <3>. QED  BY <1>7, <2>3, <3>1, <3>2 DEF Historic
  <2>. QED  BY <1>8, <2>1, <2>2, <2>3
<1>10. \A u \in resets' : u = Collection /\ filters > 0
  BY <1>2, <1>6 DEF TargetInv, IsDocumentQuery
<1>11. VersionInv' /\ ReportInv' /\ TargetInv' /\ CachedInv'
  BY <1>1, <1>3, <1>10, ReadRest
<1>12. PICK r : r = v
  OBVIOUS
<1>13. ASSUME Exact(t) PROVE Fits(hist, t, r, agg'[t]) /\ Done(t, r)'
  BY <1>12, <1>13, DocsDone
<1>14. Exact(t)' <=> Exact(t)
  BY <1>1 DEF Exact
<1>15. ASSUME NEW u \in Targets, u # t
       PROVE  (Exact(u)' <=> Exact(u)) /\ (Active(u)' <=> Active(u)) /\ agg'[u] = agg[u]
  BY <1>1, <1>2, <1>15 DEF Exact, Active
<1>16. Active(t)'
  <2>1. /\ agg[t].owed = Len(asked[t]) + Cardinality(ResponsesIn(wire, t))
        /\ agg'[t].owed = Len(asked'[t]) + Cardinality(ResponsesIn(wire', t))
    BY <1>1, ReadDocsInv DEF WatchInv, OwedInv
  <2>2. /\ Cardinality(ResponsesIn(wire, t)) = Cardinality(ResponsesIn(wire', t)) + 0
        /\ Cardinality(ResponsesIn(wire', t)) \in Nat
    BY <1>1, <1>3, ReadOne DEF IsResponse
  <2>3. agg[t].owed = 0 /\ t \in listens
    BY <1>1 DEF Active
  <2>. QED  BY <1>1, <2>1, <2>2, <2>3 DEF Active
<1>17. MarksInv'
  <2>1. ASSUME Exact(t)' PROVE MarksRight(t)'
    <3>1. Fits(hist', t, wire'[k - 1].version, agg'[t])
      BY <1>1, <1>4, <1>5, <1>12, <1>13, <1>14, <2>1
    <3>. QED  BY <1>4, <1>5, <3>1 DEF MarksRight
  <2>2. ASSUME NEW u \in Targets, u # t, Exact(u), Active(u) PROVE MarksRight(u)'
    <3>1. MarksRight(u)
      BY <2>2 DEF MarksInv
    <3>2. ASSUME NEW d \in Docs, agg'[u].changes[d] # "none"
          PROVE  \E i \in 1 .. Len(wire') : /\ IsFirst(wire', i)
                                            /\ Fits(hist', u, wire'[i].version, agg'[u])
      <4>1. PICK i \in 1 .. Len(wire) : IsFirst(wire, i) /\ Fits(hist, u, wire[i].version, agg[u])
        BY <1>15, <2>2, <3>1, <3>2 DEF MarksRight
      <4>2. Fits(hist', u, wire'[i - 1].version, agg'[u])
        BY <1>1, <1>4, <1>15, <2>2, <4>1
      <4>. QED  BY <1>4, <4>1, <4>2
    <3>. QED  BY <3>2 DEF MarksRight
  <2>. QED  BY <1>15, <2>1, <2>2 DEF MarksInv
<1>18. ASSUME NEW u \in Targets, u # t, Done(u, r) PROVE Done(u, r)'
  <2>1. agg'[u] = agg[u]
    BY <1>15, <1>18
  <2>2. ASSUME NEW d \in KeysAt(hist, u, r)
        PROVE  \/ LastChange(hist, d, r) <= token[u]
               \/ updates'[d] # Nothing /\ LastChange(hist, d, r) <= updates'[d].version
    <3>1. d \in Docs /\ DocAt(hist, d, r).there
      BY KeysAreDocs DEF KeysAt
    <3>2. CASE updates'[d] = updates[d]
      BY <1>18, <3>2 DEF Done
    <3>3. CASE m.changes[d] # Nothing /\ updates'[d] = m.changes[d]
      BY <1>6, <1>12, <3>1, <3>3 DEF Reports, Reported
    <3>4. CASE gone /\ d = t
      <4>1. Cardinality(KeysAt(hist, t, r)) = 0
        BY <1>6, <1>7, <1>12, <3>4 DEF Reports
      <4>2. IsFiniteSet(KeysAt(hist, t, r))
        BY <1>1, KeysAreDocs, DocsAssumption, FS_Subset
      <4>3. KeysAt(hist, t, r) = {}
        BY <4>1, <4>2, FS_EmptySet
      <4>4. d \in KeysAt(hist, t, r)
        BY <3>1, <3>4 DEF KeysAt, Matches
      <4>. QED  BY <4>3, <4>4
    <3>. QED  BY <1>8, <3>1, <3>2, <3>3, <3>4
  <2>. QED  BY <1>1, <1>18, <2>1, <2>2 DEF Done
<1>19. ASSUME NEW u \in Targets, Exact(u)', Settled(u)' PROVE Delivered(u)'
  <2>1. Delivered(u)
    BY <1>1, <1>19 DEF DeliveryInv, Exact, Settled
  <2>2. \A i \in 1 .. Len(wire) :
            /\ IsFirst(wire, i) /\ ~IsSnapshot(m)
            /\ \/ Active(u) /\ Done(u, wire[i].version)
               \/ /\ m.type = "docs" /\ m.target = u
                  /\ Present(wire, u, 1) /\ m.version = wire[i].version
            => Active(u)' /\ \E x : x = wire[i].version /\ Done(u, x)'
    <3>. SUFFICES ASSUME NEW i \in 1 .. Len(wire), IsFirst(wire, i),
                         (Active(u) /\ Done(u, wire[i].version)) \/ u = t
                  PROVE  Active(u)' /\ \E x : x = wire[i].version /\ Done(u, x)'
      OBVIOUS
    <3>1. wire[i].version = r
      BY <1>4, <1>12
    <3>2. CASE u = t
      BY <1>13, <1>14, <1>16, <1>19, <3>1, <3>2
    <3>3. CASE u # t
      <4>1. Done(u, r) /\ Active(u)
        BY <3>1, <3>3 DEF Done
      <4>. QED  BY <1>15, <1>18, <3>1, <3>3, <4>1
    <3>. QED  BY <3>2, <3>3
  <2>. QED  BY <1>1, <1>3, <2>1, <2>2, ShiftDelivered
<1>. QED  BY <1>9, <1>11, <1>17, <1>19 DEF DeliveryInv

(* So the step that reads documents keeps the invariant.                   *)
LEMMA ReadDocsTokens == ASSUME WatchInv, TokensInv, ReadDocs PROVE TokensInv'
<1>1. PICK m : m = Head(wire)
  OBVIOUS
<1>2. PICK t : t = m.target
  OBVIOUS
<1>. QED  BY <1>1, <1>2, DocsTokens

(* When a snapshot is read, an active target is at its version.            *)
LEMMA SnapshotDone ==
    ASSUME WatchInv, TokensInv, Reads("snapshot"), NEW v, v = Head(wire).version,
           NEW t \in Targets, Exact(t), Active(t)
    PROVE  /\ Done(t, v) /\ v \in Version /\ token[t] \in 0 .. v
           /\ synced[t] = KeysAt(hist, t, token[t])
<1>. USE DEF TokensInv
<1>1. /\ wire \in Seq(Messages) /\ Len(wire) \in Nat \ {0} /\ Head(wire) = wire[1]
      /\ 1 \in 1 .. Len(wire) /\ IsSnapshot(wire[1]) /\ stream = "open"
  <2>1. wire \in Seq(Messages) /\ wire # <<>> /\ Head(wire).type = "snapshot"
    BY DEF Reads, WatchInv, TypeOK
  <2>2. Len(wire) \in Nat \ {0} /\ Head(wire) = wire[1]
    BY <2>1, TailAt
  <2>3. stream = "open"
    BY ReadOne
  <2>. QED  BY <2>1, <2>2, <2>3 DEF IsSnapshot
<1>2. Delivered(t) /\ TargetRight(t) /\ Present(wire, t, 1) /\ t \in listens
  BY <1>1, ActiveIsPresent DEF Active, Settled, DeliveryInv, TargetInv
<1>3. PICK b : b = token[t]
  OBVIOUS
<1>4. b \in Version /\ v \in Version /\ b <= v
  BY <1>1, <1>3 DEF VersionInv
<1>5. v = b \/ Done(t, v)
  <2>1. IsBase(wire, t, 1, token[t], b)
    BY <1>3 DEF IsBase
  <2>2. \/ wire[1].version = b
        \/ DocsBefore(wire, t, 1)
        \/ Done(t, wire[1].version)
    BY <1>1, <1>2, <1>4, <2>1 DEF Delivered, SnapshotsEarned
  <2>3. ~DocsBefore(wire, t, 1)
    BY DEF DocsBefore
  <2>. QED  BY <1>1, <2>2, <2>3 DEF Done
<1>6. ASSUME v = b PROVE Done(t, v)
  <2>1. synced[t] = KeysAt(hist, t, v)
    BY <1>2, <1>3, <1>6 DEF TargetRight
  <2>2. synced[t] \in SUBSET Docs /\ agg[t] \in Aggregates /\ Marked(agg[t], synced[t])
    BY DEF WatchInv, TypeOK, WatchAssertionsHold, Marked, Aggregates, Kinds
  <2>3. Fits(hist, t, v, agg[t])
    <3>1. CASE \E d \in Docs : agg[t].changes[d] # "none"
      <4>1. PICK i \in 1 .. Len(wire) : IsFirst(wire, i) /\ Fits(hist, t, wire[i].version, agg[t])
        BY <3>1 DEF MarksInv, MarksRight
      <4>2. IsFirst(wire, 1)
        BY <1>1 DEF IsFirst, NoSnapshot
      <4>3. i = 1
        BY <1>1, <4>1, <4>2, FirstUnique
      <4>. QED  BY <1>1, <4>1, <4>3
    <3>2. CASE \A d \in Docs : agg[t].changes[d] = "none"
      BY <3>2 DEF Fits
    <3>. QED  BY <3>1, <3>2
  <2>4. KeysAfter(synced[t], agg[t]) = KeysAt(hist, t, v)
    BY <2>1, <2>2, <2>3, FittingKeys
  <2>5. \A d : LastChange(hist, d, v) <= token[t]
    <3>1. v \in Nat
      BY <1>4 DEF Version
    <3>. QED  BY <1>3, <1>6, <3>1, LastChangeType
  <2>. QED  BY <2>4, <2>5 DEF Done
<1>. QED  BY <1>2, <1>3, <1>4, <1>5, <1>6 DEF TargetRight, Version

(* What a snapshot does to the cache.                                      *)
LEMMA SnapshotCached ==
    ASSUME WatchInv, ReadSnapshot, NEW v, v = Head(wire).version, NEW d \in Docs
    PROVE  \E e : /\ \/ e = updates[d]
                     \/ /\ d \in Targets /\ Active(d) /\ updates[d] = Nothing
                        /\ d \notin synced[d] /\ e = [version |-> v, there |-> FALSE]
                  /\ updates[d] # Nothing => e = updates[d]
                  /\ cache'[d] = IF e # Nothing /\ (e = Unknown \/ e.version > cache[d].version)
                                 THEN e ELSE cache[d]
<1>. DEFINE news == Synthesized(v)
            e == news[d]
<1>1. cache' = Cached(news)
  BY DEF ReadSnapshot
<1>2. e = IF /\ d \in Targets /\ Active(d) /\ agg[d].current
             /\ updates[d] = Nothing /\ d \notin synced[d]
          THEN [version |-> v, there |-> FALSE] ELSE updates[d]
  BY DEF Synthesized
<1>. HIDE DEF news
<1>3. cache'[d] = IF e # Nothing /\ (e = Unknown \/ e.version > cache[d].version)
                  THEN e ELSE cache[d]
  BY <1>1 DEF Cached
<1>. QED  BY <1>2, <1>3

(* While every deletion is told, the cache does not go back.               *)
LEMMA CacheGrows ==
    ASSUME WatchInv, TokensInv, ReadSnapshot, NEW v \in Nat, v = Head(wire).version, v > 0,
           filters = 0, NEW d \in Docs
    PROVE  /\ cache[d].version <= cache'[d].version
           /\ updates[d] # Nothing => updates[d].version <= cache'[d].version
<1>. USE DEF TokensInv
<1>1. PICK e : /\ \/ e = updates[d]
                  \/ e = [version |-> v, there |-> FALSE]
               /\ updates[d] # Nothing => e = updates[d]
               /\ cache'[d] = IF e # Nothing /\ (e = Unknown \/ e.version > cache[d].version)
                              THEN e ELSE cache[d]
  BY SnapshotCached
<1>2. cache[d].version \in Nat
  BY DEF WatchInv, TypeOK, Entry
<1>3. Unknown.version = 0
  BY DEF Unknown
<1>4. e # Nothing => e.version \in Nat /\ e.version > 0
  <2>1. CASE e = updates[d]
    <3>1. e # Nothing => e.version > 0 /\ e \in Entry
      BY <2>1 DEF HistoryInv, WatchInv, TypeOK
    <3>. QED  BY <3>1 DEF Entry
  <2>2. CASE e = [version |-> v, there |-> FALSE]
    BY <2>2
  <2>. QED  BY <1>1, <2>1, <2>2
<1>5. e # Nothing => e # Unknown
  BY <1>3, <1>4
<1>6. CASE e # Nothing /\ e.version > cache[d].version
  <2>1. cache'[d] = e
    BY <1>1, <1>6
  <2>. QED  BY <1>1, <1>2, <1>4, <1>6, <2>1
<1>7. CASE ~ (e # Nothing /\ e.version > cache[d].version)
  <2>1. cache'[d] = cache[d]
    BY <1>1, <1>5, <1>7
  <2>. QED  BY <1>1, <1>2, <1>4, <1>7, <2>1
<1>. QED  BY <1>6, <1>7

(* What a document target of which nothing was sent concludes is so.       *)
LEMMA SnapshotHistory == ASSUME WatchInv, TokensInv, ReadSnapshot PROVE HistoryInv'
<1>. USE DEF TokensInv
<1>1. /\ Reads("snapshot") /\ hist' = hist /\ \A d \in Docs : updates'[d] = Nothing
  BY DEF ReadSnapshot, backendVars
<1>2. PICK v : v = Head(wire).version
  OBVIOUS
<1>3. ASSUME NEW d \in Docs, d \in Targets, Active(d), updates[d] = Nothing, d \notin synced[d]
      PROVE  v \in Version /\ ~DocAt(hist, d, v).there
  <2>1. Exact(d) /\ Matches(d) = {d}
    BY DistinctAssumption DEF Exact, IsDocumentQuery, Matches
  <2>2. PICK b : b = token[d]
    OBVIOUS
  <2>3. Done(d, v) /\ v \in Version /\ b \in 0 .. v /\ synced[d] = KeysAt(hist, d, b)
    BY <1>1, <1>2, <1>3, <2>1, <2>2, SnapshotDone
  <2>4. ASSUME DocAt(hist, d, v).there PROVE FALSE
    <3>1. d \in KeysAt(hist, d, v)
      BY <2>1, <2>4 DEF KeysAt
    <3>2. LastChange(hist, d, v) <= b
      BY <1>3, <2>2, <2>3, <3>1 DEF Done
    <3>3. v \in Nat
      BY <2>3 DEF Version
    <3>4. DocAt(hist, d, b) = DocAt(hist, d, v)
      BY <2>3, <3>2, <3>3, SameSince
    <3>5. d \in KeysAt(hist, d, b)
      BY <2>1, <2>4, <3>4 DEF KeysAt
    <3>. QED  BY <1>3, <2>3, <3>5
  <2>. QED  BY <2>3, <2>4
<1>4. ASSUME NEW d \in Docs, v \in Version, ~DocAt(hist, d, v).there
      PROVE  Historic(hist, d, [version |-> v, there |-> FALSE])
  <2>1. DocAt(hist, d, v).there = FALSE
    <3>1. DocAt(hist, d, v).there = (LastChange(hist, d, v) > 0
                                        /\ hist[LastChange(hist, d, v)].there)
      BY DocAtIs
    <3>. QED  BY <1>4, <3>1
  <2>. QED  BY <1>4, <2>1 DEF Historic, Version
<1>5. ASSUME NEW d \in Docs PROVE Historic(hist, d, cache'[d])
  <2>1. PICK e : /\ \/ e = updates[d]
                    \/ /\ d \in Targets /\ Active(d) /\ updates[d] = Nothing
                       /\ d \notin synced[d] /\ e = [version |-> v, there |-> FALSE]
                 /\ cache'[d] = IF e # Nothing /\ (e = Unknown \/ e.version > cache[d].version)
                                THEN e ELSE cache[d]
    BY <1>2, SnapshotCached
  <2>2. e # Nothing => Historic(hist, d, e)
    BY <1>3, <1>4, <2>1 DEF HistoryInv
  <2>3. Historic(hist, d, cache[d])
    BY DEF HistoryInv
  <2>. QED  BY <2>1, <2>2, <2>3
<1>. QED  BY <1>1, <1>5 DEF HistoryInv

(* The documents of an active target are in the cache, as of the snapshot. *)
LEMMA SnapshotInCache ==
    ASSUME WatchInv, TokensInv, ReadSnapshot, NEW v \in Nat, v = Head(wire).version, v > 0,
           filters = 0, NEW t \in Targets, Active(t), NEW d \in KeysAt(hist, t, v)
    PROVE  LastChange(hist, d, v) <= cache'[d].version
<1>. USE DEF TokensInv
<1>1. Exact(t) /\ Reads("snapshot") /\ t \in listens
  BY DEF Exact, ReadSnapshot, Active
<1>2. d \in Docs /\ d \in Matches(t) /\ DocAt(hist, d, v).there
  BY KeysAreDocs DEF KeysAt
<1>3. PICK b : b = token[t]
  OBVIOUS
<1>4. Done(t, v) /\ b \in 0 .. v /\ synced[t] = KeysAt(hist, t, b)
  BY <1>1, <1>3, SnapshotDone
<1>5. /\ cache[d].version \in Nat /\ cache'[d].version \in Nat
      /\ updates[d] # Nothing => updates[d].version \in Nat
  BY <1>2, ReadSnapshotInv DEF WatchInv, TypeOK, Entry
<1>6. /\ cache[d].version <= cache'[d].version
      /\ updates[d] # Nothing => updates[d].version <= cache'[d].version
  BY <1>2, CacheGrows
<1>7. LastChange(hist, d, v) \in Nat
  BY LastChangeType
<1>8. CASE LastChange(hist, d, v) <= b
  <2>1. LastChange(hist, d, b) = LastChange(hist, d, v) /\ DocAt(hist, d, b) = DocAt(hist, d, v)
    BY <1>4, <1>8, SameSince
  <2>2. d \in synced[t]
    BY <1>2, <1>4, <2>1 DEF KeysAt
  <2>3. LastChange(hist, d, b) <= cache[d].version
    BY <1>1, <1>3, <2>2 DEF CachedInv
  <2>. QED  BY <1>5, <1>6, <1>7, <2>1, <2>3
<1>9. CASE updates[d] # Nothing /\ LastChange(hist, d, v) <= updates[d].version
  BY <1>5, <1>6, <1>7, <1>9
<1>. QED  BY <1>3, <1>4, <1>8, <1>9 DEF Done

(* What a snapshot does to a target that is not asked for again.           *)
LEMMA SnapshotTarget ==
    ASSUME WatchInv, ReadSnapshot, NEW v, v = Head(wire).version, NEW t \in Targets
    PROVE  /\ token'[t] \in {token[t], 0, v} /\ mem'[t] \in {mem[t], v}
           /\ saved'[t] \in {saved[t], v}
           /\ asked'[t] = asked[t] \/ asked'[t] = asked[t] \o <<Unlisten, ListenFrom(0)>>
           /\ t \notin listens \cap resets =>
                 asked'[t] = asked[t] /\ agg'[t].owed = agg[t].owed
           /\ Active(t) =>
                 /\ t \notin listens \cap resets => token'[t] = v
                 /\ mem'[t] = v
                 /\ keys'[t] = KeysAfter(keys[t], agg[t])
                 /\ synced'[t] = KeysAfter(synced[t], agg[t])
                 /\ saved'[t] = v \/ (saved'[t] = saved[t] /\ ChangesOf(agg[t], "none") = Docs)
                 /\ \A d \in Docs : agg'[t].changes[d] = "none"
           /\ ~Active(t) =>
                 /\ t \notin listens \cap resets => token'[t] = token[t]
                 /\ mem'[t] = mem[t] /\ keys'[t] = keys[t] /\ synced'[t] = synced[t]
                 /\ saved'[t] = saved[t]
<1>. DEFINE active == {u \in Targets : Active(u)}
            again == listens \cap resets
<1>1. t \in active <=> Active(t)
  OBVIOUS
<1>2. /\ token'[t] = IF t \in again THEN 0 ELSE IF t \in active THEN v ELSE token[t]
      /\ mem'[t] = IF t \in active THEN v ELSE mem[t]
      /\ keys'[t] = IF t \in active THEN KeysAfter(keys[t], agg[t]) ELSE keys[t]
      /\ synced'[t] = IF t \in active THEN KeysAfter(synced[t], agg[t]) ELSE synced[t]
      /\ asked'[t] = IF t \in again THEN asked[t] \o <<Unlisten, ListenFrom(0)>> ELSE asked[t]
  BY DEF ReadSnapshot
<1>3. \E old : saved'[t] = IF t \in active /\ ShouldPersist(t, old) THEN v ELSE saved[t]
  BY DEF ReadSnapshot
<1>4. agg'[t].owed = (IF t \in again THEN agg[t].owed + 2 ELSE agg[t].owed)
      /\ agg'[t].changes = (IF t \in active THEN Fresh.changes ELSE agg[t].changes)
  <2>. DEFINE o == IF t \in again THEN agg[t].owed + 2 ELSE agg[t].owed
              c == IF t \in active THEN Fresh.changes ELSE agg[t].changes
  <2>1. agg'[t] = [agg[t] EXCEPT !.owed = o, !.changes = c]
    BY DEF ReadSnapshot
  <2>2. agg[t] \in Aggregates
    BY DEF WatchInv, TypeOK, Aggregates, Kinds
  <2>. HIDE DEF o, c, again, active
  <2>3. agg'[t].owed = o /\ agg'[t].changes = c
    BY <2>1, <2>2 DEF Aggregates
  <2>. QED  BY <2>3 DEF o, c
<1>. HIDE DEF active
<1>5. \/ saved'[t] = saved[t] /\ ~Active(t)
      \/ Active(t) /\ (saved'[t] = v \/ (saved'[t] = saved[t] /\ ChangesOf(agg[t], "none") = Docs))
  BY <1>1, <1>3 DEF ShouldPersist
<1>6. CASE Active(t)
  BY <1>1, <1>2, <1>4, <1>5, <1>6, FreshType
<1>7. CASE ~Active(t)
  BY <1>1, <1>2, <1>4, <1>5, <1>7
<1>. QED  BY <1>6, <1>7

(* A snapshot is read and raised.                                          *)
LEMMA ReadSnapshotTokens == ASSUME WatchInv, TokensInv, ReadSnapshot PROVE TokensInv'
<1>. USE DEF TokensInv
<1>1. /\ Reads("snapshot") /\ stream = "open" /\ resets' = {}
      /\ UNCHANGED <<hist, sub, filters, stream, listens>>
  BY ReadOne DEF ReadSnapshot, backendVars
<1>2. /\ wire \in Seq(Messages) /\ Len(wire) \in Nat \ {0} /\ Head(wire) = wire[1]
      /\ 1 \in 1 .. Len(wire) /\ IsSnapshot(wire[1]) /\ wire # <<>> /\ wire' = Tail(wire)
  BY <1>1, TailAt DEF Reads, IsSnapshot, WatchInv, TypeOK
<1>3. PICK v : v = Head(wire).version
  OBVIOUS
<1>4. /\ v \in Version /\ v \in Nat /\ 0 \in Version
      /\ \A i \in 2 .. Len(wire) : IsSnapshot(wire[i]) => v <= wire[i].version
  <2>1. v \in Version
    BY <1>2, <1>3 DEF VersionInv
  <2>2. \A i \in 2 .. Len(wire) : i \in 1 .. Len(wire) /\ 1 \in 1 .. i
    OBVIOUS
  <2>3. \A i \in 2 .. Len(wire) : IsSnapshot(wire[i]) => v <= wire[i].version
    BY <1>2, <1>3, <2>2 DEF VersionInv
  <2>. QED  BY <2>1, <2>3, LenProperties DEF Version, WatchInv, TypeOK
<1>5. ASSUME NEW t \in Targets, Exact(t) PROVE t \notin listens \cap resets
  <2>1. t \in resets => ~IsDocumentQuery(t) /\ filters > 0
    BY DEF TargetInv, IsDocumentQuery
  <2>2. filters \in Nat
    BY DEF WatchInv, TypeOK
  <2>. QED  BY <1>5, <2>1, <2>2 DEF Exact
<1>6. filters = 0 => \A t \in Targets : t \notin listens \cap resets
  BY <1>5 DEF Exact
<1>7. VersionInv' /\ ReportInv'
  <2>1. ASSUME NEW t \in Targets, NEW i \in 1 .. Len(asked'[t])
        PROVE  asked'[t][i].from \in Version
    <3>1. PICK q \in Seq(Request) : q = asked[t]
      BY DEF WatchInv, TypeOK
    <3>2. Len(q) \in Nat /\ \A k \in 1 .. Len(q) : q[k].from \in Version
      BY <3>1, LenProperties DEF VersionInv
    <3>3. PICK more : more = <<Unlisten, ListenFrom(0)>>
      OBVIOUS
    <3>4. /\ more \in Seq(Request) /\ Len(more) = 2
          /\ more[1].from \in Version /\ more[2].from \in Version
      BY <1>4, <3>3 DEF Unlisten, ListenFrom, Request
    <3>5. CASE asked'[t] = q
      BY <3>2, <3>5
    <3>6. CASE asked'[t] = q \o more
      <4>1. /\ Len(q \o more) = Len(q) + 2
            /\ \A k \in 1 .. Len(q) : (q \o more)[k] = q[k]
            /\ \A k \in 1 .. 2 : (q \o more)[Len(q) + k] = more[k]
        <5>1. Len(q \o more) = Len(q) + Len(more)
          BY <3>4, ConcatProperties
        <5>2. \A k \in 1 .. Len(q) : (q \o more)[k] = q[k]
          BY <3>4
        <5>3. \A k \in 1 .. 2 : (q \o more)[Len(q) + k] = more[k]
          <6>1. more \in Seq(Request)
            BY <3>4
          <6>2. \A k \in 1 .. Len(more) : (q \o more)[Len(q) + k] = more[k]
            BY ONLY <6>1, q \in Seq(Request)
          <6>. QED  BY <3>4, <6>2
        <5>. QED  BY <3>4, <5>1, <5>2, <5>3
      <4>2. i \in 1 .. Len(q) \/ i = Len(q) + 1 \/ i = Len(q) + 2
        BY <3>2, <3>6, <4>1
      <4>3. (q \o more)[Len(q) + 1] = more[1] /\ (q \o more)[Len(q) + 2] = more[2]
        BY <4>1
      <4>. QED  BY <3>2, <3>4, <3>6, <4>1, <4>2, <4>3
    <3>. QED  BY <1>3, <3>1, <3>3, <3>5, <3>6, SnapshotTarget
  <2>2. \A t \in Targets : /\ token'[t] \in {token[t], 0, v} /\ mem'[t] \in {mem[t], v}
                           /\ saved'[t] \in {saved[t], v}
    BY <1>3, SnapshotTarget
  <2>. QED  BY <1>1, <1>2, <1>4, <2>1, <2>2, ReadKeeps
<1>8. HistoryInv'
  BY SnapshotHistory
<1>9. ASSUME NEW t \in Targets
      PROVE  /\ Exact(t)' <=> Exact(t)
             /\ t \notin listens \cap resets =>
                   (Active(t)' <=> Active(t)) /\ (Settled(t)' <=> Settled(t))
  BY <1>1, <1>3, SnapshotTarget DEF Exact, Active, Settled
<1>10. ASSUME NEW t \in Targets, Exact(t), Active(t)
       PROVE  /\ t \in listens /\ token'[t] = v /\ mem'[t] = v
              /\ synced'[t] = KeysAt(hist, t, v) /\ keys'[t] = KeysAt(hist, t, v)
              /\ \/ saved'[t] = v
                 \/ saved'[t] = saved[t] /\ keys'[t] = keys[t]
  <2>1. t \in listens /\ keys[t] = synced[t] /\ keys[t] \subseteq Docs
    BY <1>10 DEF Active, WatchInv, WatchAssertionsHold, TypeOK
  <2>2. KeysAfter(synced[t], agg[t]) = KeysAt(hist, t, v)
    BY <1>1, <1>3, <1>10, SnapshotDone DEF Done
  <2>3. ASSUME ChangesOf(agg[t], "none") = Docs PROVE KeysAfter(keys[t], agg[t]) = keys[t]
    <3>1. ChangesOf(agg[t], "removed") = {} /\ ChangesOf(agg[t], "added") = {}
      BY <2>3 DEF ChangesOf
    <3>. QED  BY <3>1 DEF KeysAfter
  <2>4. /\ token'[t] = v /\ mem'[t] = v
        /\ keys'[t] = KeysAfter(keys[t], agg[t]) /\ synced'[t] = KeysAfter(synced[t], agg[t])
        /\ saved'[t] = v \/ (saved'[t] = saved[t] /\ ChangesOf(agg[t], "none") = Docs)
    BY <1>3, <1>5, <1>10, SnapshotTarget
  <2>. QED  BY <2>1, <2>2, <2>3, <2>4
<1>11. ASSUME NEW t \in Targets, Exact(t), ~Active(t)
       PROVE  /\ token'[t] = token[t] /\ mem'[t] = mem[t] /\ synced'[t] = synced[t]
              /\ keys'[t] = keys[t] /\ saved'[t] = saved[t]
  BY <1>3, <1>5, <1>11, SnapshotTarget
<1>12. TargetInv'
  <2>. SUFFICES ASSUME NEW t \in Targets, Exact(t) PROVE TargetRight(t)'
    BY <1>1, <1>9 DEF TargetInv
  <2>1. TargetRight(t)
    BY DEF TargetInv
  <2>2. asked'[t] = asked[t] /\ (Settled(t)' <=> Settled(t))
    BY <1>3, <1>5, <1>9, SnapshotTarget
  <2>3. CASE Active(t)
    <3>1. asked[t] = <<>>
      BY <2>3, ActiveIsPresent DEF Active
    <3>2. keys'[t] = KeysAt(hist, t, saved'[t])
      BY <1>10, <2>1, <2>3 DEF TargetRight
    <3>. QED  BY <1>1, <1>10, <2>1, <2>2, <2>3, <3>1, <3>2 DEF TargetRight
  <2>4. CASE ~Active(t)
    BY <1>1, <1>11, <2>1, <2>2, <2>4 DEF TargetRight
  <2>. QED  BY <2>3, <2>4
<1>13. CachedInv'
  <2>. SUFFICES ASSUME filters = 0
                PROVE  /\ \A t \in listens : \A d \in synced'[t] :
                             LastChange(hist, d, token'[t]) <= cache'[d].version
                       /\ \A t \in Targets : \A d \in keys'[t] :
                             LastChange(hist, d, saved'[t]) <= cache'[d].version
    BY <1>1 DEF CachedInv
  <2>1. listens \subseteq Targets /\ \A t \in Targets : Exact(t)
    BY DEF WatchInv, TypeOK, Exact
  <2>2. WatchInv'
    BY ReadSnapshotInv
  <2>3. \A d \in Docs : cache[d].version \in Nat /\ cache'[d].version \in Nat
    BY <2>2 DEF WatchInv, TypeOK, Entry
  <2>4. \A t \in Targets : /\ synced[t] \subseteq Docs /\ keys[t] \subseteq Docs
                           /\ synced'[t] \subseteq Docs /\ keys'[t] \subseteq Docs
    BY <2>2 DEF WatchInv, TypeOK
  <2>5. CASE v = 0
    <3>1. \A t \in Targets : token[t] = 0 /\ saved[t] = 0
      <4>1. \A t \in Targets : /\ token[t] <= v /\ saved[t] <= v
                               /\ token[t] \in Nat /\ saved[t] \in Nat
        BY <1>2, <1>3 DEF VersionInv, WatchInv, TypeOK
      <4>. QED  BY <2>5, <4>1
    <3>2. \A t \in Targets : token'[t] = 0 /\ saved'[t] = 0
      BY <1>3, <2>5, <3>1, SnapshotTarget
    <3>3. \A d \in Docs : LastChange(hist, d, 0) <= cache'[d].version
      BY <2>3, NoneAtZero
    <3>. QED  BY <2>1, <2>4, <3>2, <3>3
  <2>6. CASE v # 0
    <3>1. \A d \in Docs : cache[d].version <= cache'[d].version
      BY <1>3, <1>4, <2>6, CacheGrows
    <3>2. \A t \in Targets : Active(t) => \A d \in KeysAt(hist, t, v) :
              LastChange(hist, d, v) <= cache'[d].version
      BY <1>3, <1>4, <2>6, SnapshotInCache
    <3>3. ASSUME NEW d \in Docs, NEW l \in Nat, l <= cache[d].version
          PROVE  l <= cache'[d].version
      BY <2>3, <3>1, <3>3
    <3>4. \A d : \A t \in Targets : LastChange(hist, d, token[t]) \in Nat
                                /\ LastChange(hist, d, saved[t]) \in Nat
      BY LastChangeType DEF WatchInv, TypeOK
    <3>5. ASSUME NEW t \in listens, NEW d \in synced'[t]
          PROVE  LastChange(hist, d, token'[t]) <= cache'[d].version
      <4>1. t \in Targets /\ d \in Docs /\ Exact(t)
        BY <2>1, <2>4, <3>5
      <4>2. CASE Active(t)
        BY <1>10, <3>2, <3>5, <4>1, <4>2
      <4>3. CASE ~Active(t)
        <5>1. LastChange(hist, d, token[t]) <= cache[d].version
          BY <1>11, <3>5, <4>1, <4>3 DEF CachedInv
        <5>. QED  BY <1>11, <3>3, <3>4, <4>1, <4>3, <5>1
      <4>. QED  BY <4>2, <4>3
    <3>6. ASSUME NEW t \in Targets, NEW d \in keys'[t]
          PROVE  LastChange(hist, d, saved'[t]) <= cache'[d].version
      <4>1. d \in Docs /\ Exact(t)
        BY <2>1, <2>4, <3>6
      <4>2. CASE Active(t) /\ saved'[t] = v
        BY <1>10, <3>2, <3>6, <4>1, <4>2
      <4>3. CASE ~Active(t) \/ saved'[t] # v
        <5>1. saved'[t] = saved[t] /\ keys'[t] = keys[t]
          BY <1>10, <1>11, <4>1, <4>3
        <5>2. LastChange(hist, d, saved[t]) <= cache[d].version
          BY <3>6, <5>1 DEF CachedInv
        <5>. QED  BY <3>3, <3>4, <4>1, <5>1, <5>2
      <4>. QED  BY <4>2, <4>3
    <3>. QED  BY <3>5, <3>6
  <2>. QED  BY <2>5, <2>6
<1>14. MarksInv'
  <2>. SUFFICES ASSUME NEW t \in Targets, Exact(t), Active(t) PROVE MarksRight(t)'
    BY <1>5, <1>9 DEF MarksInv
  <2>1. \A d \in Docs : agg'[t].changes[d] = "none"
    BY <1>3, SnapshotTarget
  <2>. QED  BY <2>1 DEF MarksRight
<1>15. DeliveryInv'
  <2>. SUFFICES ASSUME NEW t \in Targets, Exact(t), Settled(t) PROVE Delivered(t)'
    BY <1>5, <1>9 DEF DeliveryInv
  <2>1. Delivered(t)
    BY DEF DeliveryInv
  <2>2. Active(t) <=> Present(wire, t, 1)
    BY ActiveIsPresent DEF Settled
  <2>3. IF IsSnapshot(Head(wire)) /\ Present(wire, t, 1) THEN token'[t] = Head(wire).version
                                                         ELSE token'[t] = token[t]
    BY <1>2, <1>3, <1>10, <1>11, <2>2
  <2>4. IsSnapshot(Head(wire)) /\ hist' = hist /\ sub'[t] = sub[t]
    BY <1>1, <1>2
  <2>. QED  BY <1>2, <2>1, <2>3, <2>4, ShiftDelivered
<1>. QED  BY <1>7, <1>8, <1>12, <1>13, <1>14, <1>15

-----------------------------------------------------------------------------
(* The theorems *)

(* Every step keeps the invariant.                                         *)
THEOREM StepTokens == WatchInv /\ TokensInv /\ [Next]_vars => TokensInv'
<1>. SUFFICES ASSUME WatchInv, TokensInv, [Next]_vars PROVE TokensInv'
  OBVIOUS
<1>1. CASE \E t \in Targets : Listen(t) \/ StopListening(t) \/ BackendServes(t)
  BY <1>1, ListenTokens, StopTokens, ServesTokens
<1>2. CASE StreamOpens \/ StreamBreaks \/ IdleTimeout \/ Kill
  BY <1>2, OpensTokens, StreamEnds
<1>3. CASE \E d \in Docs, own \in BOOLEAN : BackendWrites(d, own)
  BY <1>3, WritesTokens
<1>4. CASE BackendSyncs \/ Acknowledged
  BY <1>4, SyncsTokens, AcknowledgedTokens
<1>5. CASE Read
  BY <1>5, ReadAddedTokens, ReadRemovedTokens, ReadDocsTokens, ReadDocsIgnoredTokens,
     ReadSnapshotTokens DEF Read
<1>6. CASE UNCHANGED vars
  <2>1. UNCHANGED <<hist, sub, filters, asked, wire, stream, listens, token, agg, updates,
                    resets, synced, mem, saved, keys, cache>>
    BY <1>6 DEF vars, backendVars, streamVars, aggVars, diskVars
  <2>2. \A t \in Targets : /\ Exact(t)' <=> Exact(t)
                           /\ TargetRight(t) => TargetRight(t)'
                           /\ Active(t)' => Active(t)
                           /\ MarksRight(t) => MarksRight(t)'
                           /\ Settled(t)' => Settled(t)
                           /\ Delivered(t) => Delivered(t)'
    BY <2>1, OtherTarget
  <2>3. HistoryInv' /\ VersionInv' /\ ReportInv' /\ CachedInv'
    BY <2>1 DEF TokensInv, HistoryInv, VersionInv, Version, ReportInv, CachedInv
  <2>4. TargetInv' /\ MarksInv' /\ DeliveryInv'
    BY <2>1, <2>2 DEF TokensInv, TargetInv, MarksInv, DeliveryInv
  <2>. QED  BY <2>3, <2>4 DEF TokensInv
<1>. QED  BY <1>1, <1>2, <1>3, <1>4, <1>5, <1>6 DEF Next

(* The invariant holds in every state.                                     *)
THEOREM TokensAlways == Spec => []TokensInv
<1>. QED  BY InitTokens, StepTokens, WatchAlways, PTL DEF Spec

(* A resume token, in memory or on disk, over targets dropped and asked    *)
(* for again, broken streams, resets and restarts, is never ahead of the   *)
(* keys and of the cache: what the backend will not send again to a target *)
(* that resumes from it, the client has (TargetData, ApplyRemoteEvent,     *)
(* ShouldPersistTargetData).                                               *)
THEOREM TokensAlwaysEarned == Spec => []TokensEarned
<1>1. WatchInv /\ TokensInv => TokensEarned
  <2>. SUFFICES ASSUME WatchInv, TokensInv, filters = 0
                PROVE  /\ \A t \in listens : Earned(t, synced[t], token[t])
                       /\ \A t \in Targets : Earned(t, keys[t], saved[t])
    BY DEF TokensEarned
  <2>. USE DEF TokensInv
  <2>1. listens \subseteq Targets /\ \A t \in Targets : TargetRight(t)
    BY DEF WatchInv, TypeOK, TargetInv, Exact
  <2>2. \A d \in Docs : cache[d].version \in Nat
    BY DEF WatchInv, TypeOK, Entry
  <2>3. \A t \in Targets : /\ synced[t] \subseteq Docs /\ keys[t] \subseteq Docs
                           /\ token[t] \in Nat /\ saved[t] \in Nat
    BY DEF WatchInv, TypeOK
  <2>4. \A d : \A t \in Targets : /\ LastChange(hist, d, token[t]) \in Nat
                                   /\ LastChange(hist, d, saved[t]) \in Nat
    BY <2>3, LastChangeType
  <2>5. ASSUME NEW t \in listens PROVE Earned(t, synced[t], token[t])
    <3>1. t \in Targets /\ synced[t] = KeysAt(hist, t, token[t])
      BY <2>1, <2>5 DEF TargetRight
    <3>2. \A d \in synced[t] : cache[d].version >= LastChange(hist, d, token[t])
      BY <2>2, <2>3, <2>4, <2>5, <3>1 DEF CachedInv
    <3>. QED  BY <3>1, <3>2 DEF Earned
  <2>6. ASSUME NEW t \in Targets PROVE Earned(t, keys[t], saved[t])
    <3>1. keys[t] = KeysAt(hist, t, saved[t])
      BY <2>1 DEF TargetRight
    <3>2. \A d \in keys[t] : cache[d].version >= LastChange(hist, d, saved[t])
      BY <2>2, <2>3, <2>4, <2>6 DEF CachedInv
    <3>. QED  BY <3>1, <3>2 DEF Earned
  <2>. QED  BY <2>5, <2>6
<1>. QED  BY <1>1, WatchAlways, TokensAlways, PTL

(* The cache, put together from documents of several targets, deletions    *)
(* that are concluded from what was not sent, filters and acknowledgements *)
(* of own writes, never holds what the backend did not hold at that        *)
(* version (RemoteDocumentCache, CreateRemoteEvent, ApplyRemoteEvent).     *)
THEOREM CacheAlwaysHistory == Spec => []CacheIsHistory
<1>1. TokensInv => CacheIsHistory
  BY DEF TokensInv, HistoryInv, CacheIsHistory, Historic, Version
<1>. QED  BY <1>1, TokensAlways, PTL
=============================================================================
