------------------------- MODULE WritePipelineProofs -------------------------
(***************************************************************************)
(* Proofs of the safety of the write pipeline, and that it implements      *)
(* WriteDelivery, for any users, capacity, bounds and failures.            *)
(*                                                                         *)
(* The argument: the ids of a queue increase, so that looking for what     *)
(* follows the last batch of the pipeline (Position) continues where the   *)
(* pipeline ends; what the backend has received and answered is the        *)
(* pipeline, in order, whence an answer and the first batch belong         *)
(* together; and the tasks on the worker queue name, from one to the next, *)
(* the user that the tasks before them leave signed in (Chained), so that  *)
(* a token is that of the user whose queue is in use when it is taken.     *)
(***************************************************************************)
EXTENDS WritePipelineProperties, SequenceTheorems, TLAPS

Increasing(q) ==
    /\ \A i \in 1 .. Len(q) : q[i].id > 0
    /\ \A i, j \in 1 .. Len(q) : i < j => q[i].id < q[j].id

(* The queue q has batches of u, in the order they were written.           *)
OwnQueue(q, u, n) ==
    /\ Increasing(q)
    /\ \A i \in 1 .. Len(q) : q[i].user = u /\ q[i].id <= n

Prefix(p, q) ==
    /\ Len(p) <= Len(q)
    /\ \A i \in 1 .. Len(p) : p[i] = q[i]

(* The pipeline p consists of the answers a and then the requests c.       *)
Joined(p, a, c) ==
    /\ Len(p) = Len(a) + Len(c)
    /\ \A i \in 1 .. Len(a) : p[i] = a[i]
    /\ \A i \in 1 .. Len(c) : p[Len(a) + i] = c[i]

(* From one task to the next the user stays the same, unless the task is   *)
(* the change of the user.                                                 *)
Before(ts, u, i) == IF i = 1 THEN u ELSE ts[i - 1].user

Chained(ts, u, a) ==
    /\ \A i \in 1 .. Len(ts) : ts[i].type # "user" => ts[i].user = Before(ts, u, i)
    /\ a = Before(ts, u, Len(ts) + 1)

IsFreshToken(t) == t.type = "token" /\ t.fresh

QueuesInv   == \A u \in Users : OwnQueue(batches[u], u, written)
PrefixInv   == Prefix(pipeline, batches[user]) /\ Len(pipeline) <= MaxPendingWrites
ChannelInv  == IF state = "Open" /\ handshake = "complete" THEN Joined(pipeline, down, up)
                                                           ELSE up = <<>> /\ down = <<>>
StreamInv ==
    /\ state = "Open" <=> handshake # "none"
    /\ state = "Open" => caller = user
    /\ idle => state = "Open" /\ handshake = "complete" /\ pipeline = <<>>
    /\ refusing => state = "Open" /\ (handshake = "sent" \/ up # <<>>)
    /\ token # "none" => state = "Starting"
TasksInv ==
    /\ Chained(tasks, user, authUser)
    /\ \A i \in 1 .. Len(tasks) : IsFreshToken(tasks[i]) => state = "Starting" /\ token = "none"
    /\ \A i, j \in 1 .. Len(tasks) :
          IsFreshToken(tasks[i]) /\ IsFreshToken(tasks[j]) => i = j
OrderInv ==
    /\ accepted \subseteq applied
    /\ \A i \in 1 .. Len(down) : down[i] \in applied
    /\ \A b \in applied : b.id <= written
    /\ \A b \in applied : \A u \in Users : \A i \in 1 .. Len(batches[u]) :
          batches[u][i].id < b.id /\ u = b.user => batches[u][i] \in applied

(* The inductive invariant.                                                *)
PipelineInv == /\ TypeOK /\ QueuesInv /\ PrefixInv /\ ChannelInv
               /\ StreamInv /\ TasksInv /\ OrderInv

-----------------------------------------------------------------------------
(* Queues and the pipeline *)

LEMMA BatchFacts ==
    ASSUME NEW q \in Seq(Batch), NEW i \in 1 .. Len(q)
    PROVE  q[i] \in Batch /\ q[i].id \in Nat /\ q[i].user \in Users
<1>1. q[i] \in Batch
  OBVIOUS
<1>. QED  BY <1>1 DEF Batch

(* Position finds the end of the pipeline in the queue.                    *)
LEMMA PositionFound ==
    ASSUME NEW q \in Seq(Batch), NEW p \in Seq(Batch), Increasing(q), Prefix(p, q)
    PROVE  Position(p, q) = Len(p)
<1>. DEFINE Ends(k) == \A i \in DOMAIN q : q[i].id <= LastId(p) <=> i <= k
<1>1. Len(p) \in 0 .. Len(q) /\ Len(q) \in Nat
  BY DEF Prefix
<1>2. Ends(Len(p))
  <2>1. CASE p = <<>>
    <3>1. LastId(p) = 0 /\ Len(p) = 0
      BY <2>1 DEF LastId
    <3>2. ASSUME NEW i \in 1 .. Len(q) PROVE q[i].id > 0 /\ q[i].id \in Nat /\ ~(i <= 0)
      BY BatchFacts DEF Increasing
    <3>3. ASSUME NEW i \in 1 .. Len(q) PROVE q[i].id <= LastId(p) <=> i <= Len(p)
      BY <3>1, <3>2
    <3>. QED  BY <3>3
  <2>2. CASE p # <<>>
    <3>1. LastId(p) = q[Len(p)].id /\ Len(p) \in 1 .. Len(q)
      BY <2>2, <1>1 DEF LastId, Prefix
    <3>2. ASSUME NEW i \in 1 .. Len(q)
          PROVE  q[i].id <= q[Len(p)].id <=> i <= Len(p)
      <4>1. q[i].id \in Nat /\ q[Len(p)].id \in Nat
        BY <3>1, BatchFacts
      <4>2. i < Len(p) => q[i].id < q[Len(p)].id
        BY <3>1 DEF Increasing
      <4>3. i > Len(p) => q[i].id > q[Len(p)].id
        BY <3>1 DEF Increasing
      <4>. QED  BY <4>1, <4>2, <4>3, <3>1
    <3>. QED  BY <3>1, <3>2
  <2>. QED  BY <2>1, <2>2
<1>3. ASSUME NEW k \in 0 .. Len(q), Ends(k) PROVE k = Len(p)
  <2>1. \A i \in 1 .. Len(q) : i <= k <=> i <= Len(p)
    BY <1>2, <1>3
  <2>2. k > Len(p) => k \in 1 .. Len(q)
    BY <1>1
  <2>3. Len(p) > k => Len(p) \in 1 .. Len(q)
    BY <1>1
  <2>. QED  BY <1>1, <2>1, <2>2, <2>3
<1>4. Position(p, q) = CHOOSE k \in 0 .. Len(q) : Ends(k)
  BY DEF Position
<1>5. \E k \in 0 .. Len(q) : Ends(k)
  BY <1>1, <1>2
<1>. HIDE DEF Ends
<1>. QED  BY <1>3, <1>4, <1>5

(* The pipeline is filled with what follows in the queue.                  *)
LEMMA FilledPrefix ==
    ASSUME NEW q \in Seq(Batch), NEW p \in Seq(Batch), Increasing(q), Prefix(p, q),
           Len(p) <= MaxPendingWrites
    PROVE  /\ Filled(p, q) \in Seq(Batch)
           /\ Prefix(Filled(p, q), q) /\ Prefix(p, Filled(p, q))
           /\ Len(Filled(p, q)) <= MaxPendingWrites
           /\ q # <<>> => Filled(p, q) # <<>>
<1>. DEFINE room == MaxPendingWrites - Len(p)
            last == IF Len(p) + room < Len(q) THEN Len(p) + room ELSE Len(q)
            more == SubSeq(q, Len(p) + 1, last)
<1>1. /\ Len(p) \in Nat /\ Len(q) \in Nat /\ Len(p) <= Len(q) /\ MaxPendingWrites \in Nat
      /\ \A i \in 1 .. Len(p) : p[i] = q[i]
  BY CapacityAssumption DEF Prefix
<1>2. last \in Len(p) .. Len(q) /\ last <= MaxPendingWrites
  BY <1>1
<1>3. Filled(p, q) = p \o more
  BY PositionFound DEF Filled
<1>4. /\ more \in Seq(Batch) /\ Len(more) = last - Len(p)
      /\ \A i \in 1 .. Len(more) : more[i] = q[Len(p) + i]
  <2>. HIDE DEF last
  <2>1. \A i \in Len(p) + 1 .. last : q[i] \in Batch
    BY <1>1, <1>2
  <2>2. /\ more \in Seq(Batch)
        /\ Len(more) = IF Len(p) + 1 <= last THEN last - (Len(p) + 1) + 1 ELSE 0
        /\ \A i \in 1 .. last - (Len(p) + 1) + 1 : more[i] = q[(Len(p) + 1) + i - 1]
    BY <1>1, <1>2, <2>1, SubSeqProperties
  <2>3. Len(more) = last - Len(p)
    BY <1>1, <1>2, <2>2
  <2>4. ASSUME NEW i \in 1 .. Len(more) PROVE more[i] = q[Len(p) + i]
    <3>1. i \in 1 .. last - (Len(p) + 1) + 1 /\ (Len(p) + 1) + i - 1 = Len(p) + i
      BY <1>1, <1>2, <2>3
    <3>. QED  BY <2>2, <3>1
  <2>. QED  BY <2>2, <2>3, <2>4
<1>. HIDE DEF more, last
<1>5. /\ p \o more \in Seq(Batch) /\ Len(p \o more) = last
      /\ \A i \in 1 .. last : (p \o more)[i] = IF i <= Len(p) THEN p[i] ELSE more[i - Len(p)]
  <2>1. /\ p \o more \in Seq(Batch) /\ Len(p \o more) = Len(p) + Len(more)
        /\ \A i \in 1 .. Len(p) + Len(more) :
              (p \o more)[i] = IF i <= Len(p) THEN p[i] ELSE more[i - Len(p)]
    BY <1>4, ConcatProperties
  <2>2. Len(p) + Len(more) = last
    BY <1>1, <1>2, <1>4
  <2>. QED  BY <2>1, <2>2
<1>6. ASSUME NEW i \in 1 .. last PROVE (p \o more)[i] = q[i]
  <2>1. CASE i <= Len(p)
    BY <1>1, <1>5, <2>1
  <2>2. CASE ~(i <= Len(p))
    <3>1. i - Len(p) \in 1 .. Len(more) /\ Len(p) + (i - Len(p)) = i
      BY <1>1, <1>2, <1>4, <2>2
    <3>. QED  BY <1>4, <1>5, <2>2, <3>1
  <2>. QED  BY <2>1, <2>2
<1>7. Prefix(p \o more, q)
  BY <1>2, <1>5, <1>6 DEF Prefix
<1>8. Prefix(p, p \o more)
  BY <1>1, <1>2, <1>5 DEF Prefix
<1>9. Len(q) > 0 => last > 0
  BY <1>1, CapacityAssumption DEF last
<1>. QED  BY <1>1, <1>2, <1>3, <1>5, <1>7, <1>8, <1>9

(* The first batch of the queue is what is removed.                        *)
LEMMA RemovedHead ==
    ASSUME NEW q \in Seq(Batch), Increasing(q), q # <<>>
    PROVE  /\ Removed(q, Head(q)) = Tail(q)
           /\ Tail(q) \in Seq(Batch) /\ Increasing(Tail(q))
           /\ Len(Tail(q)) = Len(q) - 1 /\ Head(q) = q[1] /\ Len(q) \in Nat \ {0}
           /\ \A i \in 1 .. Len(q) - 1 : Tail(q)[i] = q[i + 1]
<1>1. /\ Head(q) = q[1] /\ Len(q) \in Nat \ {0} /\ Tail(q) \in Seq(Batch)
      /\ Len(Tail(q)) = Len(q) - 1
      /\ \A i \in 1 .. Len(q) - 1 : Tail(q)[i] = q[i + 1]
  BY HeadTailProperties
<1>2. ASSUME NEW i \in 1 .. Len(q), q[i].id = q[1].id PROVE i = 1
  <2>1. 1 < i => q[1].id < q[i].id
    BY <1>1 DEF Increasing
  <2>2. q[1].id \in Nat
    BY <1>1, BatchFacts
  <2>. QED  BY <1>2, <2>1, <2>2
<1>3. (CHOOSE i \in DOMAIN q : q[i].id = Head(q).id) = 1
  <2>1. 1 \in DOMAIN q /\ DOMAIN q = 1 .. Len(q)
    BY <1>1
  <2>. QED  BY <1>1, <1>2, <2>1
<1>4. Removed(q, Head(q)) = SubSeq(q, 1, 0) \o SubSeq(q, 2, Len(q))
  <2>1. Removed(q, Head(q)) = SubSeq(q, 1, 1 - 1) \o SubSeq(q, 1 + 1, Len(q))
    BY <1>3, Zenon DEF Removed
  <2>. QED  BY <2>1
<1>5. SubSeq(q, 1, 0) = <<>> /\ SubSeq(q, 2, Len(q)) = Tail(q)
  BY <1>1
<1>6. Removed(q, Head(q)) = Tail(q)
  BY <1>1, <1>4, <1>5
<1>7. Increasing(Tail(q))
  <2>1. ASSUME NEW i \in 1 .. Len(q) - 1 PROVE Tail(q)[i].id > 0
    <3>1. i + 1 \in 1 .. Len(q)
      BY <1>1
    <3>. QED  BY <1>1, <3>1 DEF Increasing
  <2>2. ASSUME NEW i \in 1 .. Len(q) - 1, NEW j \in 1 .. Len(q) - 1, i < j
        PROVE  Tail(q)[i].id < Tail(q)[j].id
    <3>1. i + 1 \in 1 .. Len(q) /\ j + 1 \in 1 .. Len(q) /\ i + 1 < j + 1
      BY <1>1, <2>2
    <3>. QED  BY <1>1, <3>1 DEF Increasing
  <2>. QED  BY <1>1, <2>1, <2>2 DEF Increasing
<1>. QED  BY <1>1, <1>6, <1>7

-----------------------------------------------------------------------------
(* Streams *)

StreamStates == {"Initial", "Starting", "Open", "Error", "Backoff"}
TokenStates  == {"none", "asked", "outdated"}

(* Starting a stream, if that is needed, does not open it.                 *)
LEMMA StartFacts ==
    ASSUME NEW s \in StreamStates, NEW p, StartIfNeeded(s, p), token \in TokenStates
    PROVE  /\ state' \in StreamStates /\ token' \in TokenStates
           /\ state' = "Open" <=> s = "Open"
           /\ IsStarted(s) => state' = s /\ token' = token
           /\ ~IsStarted(s) => (token' # "none" => state' = "Starting")
BY DEF StartIfNeeded, Start, IsStarted, StreamStates, TokenStates

(* Batches sent as they are added leave the pipeline joined.               *)
LEMMA JoinedMore ==
    ASSUME NEW p \in Seq(Batch), NEW f \in Seq(Batch), Prefix(p, f),
           NEW a \in Seq(Batch), NEW c \in Seq(Batch), Joined(p, a, c)
    PROVE  /\ c \o SubSeq(f, Len(p) + 1, Len(f)) \in Seq(Batch)
           /\ Joined(f, a, c \o SubSeq(f, Len(p) + 1, Len(f)))
<1>. DEFINE more == SubSeq(f, Len(p) + 1, Len(f))
<1>1. /\ Len(p) \in Nat /\ Len(f) \in Nat /\ Len(a) \in Nat /\ Len(c) \in Nat
      /\ Len(p) <= Len(f) /\ Len(p) = Len(a) + Len(c)
  BY DEF Prefix, Joined
<1>2. /\ more \in Seq(Batch) /\ Len(more) = Len(f) - Len(p)
      /\ \A i \in 1 .. Len(more) : more[i] = f[Len(p) + i]
  <2>1. \A i \in Len(p) + 1 .. Len(f) : f[i] \in Batch
    BY <1>1
  <2>2. /\ more \in Seq(Batch)
        /\ Len(more) = IF Len(p) + 1 <= Len(f) THEN Len(f) - (Len(p) + 1) + 1 ELSE 0
        /\ \A i \in 1 .. Len(f) - (Len(p) + 1) + 1 : more[i] = f[(Len(p) + 1) + i - 1]
    BY <1>1, <2>1, SubSeqProperties
  <2>3. Len(more) = Len(f) - Len(p)
    BY <1>1, <2>2
  <2>4. ASSUME NEW i \in 1 .. Len(more) PROVE more[i] = f[Len(p) + i]
    <3>1. i \in 1 .. Len(f) - (Len(p) + 1) + 1 /\ (Len(p) + 1) + i - 1 = Len(p) + i
      BY <1>1, <2>3
    <3>. QED  BY <2>2, <3>1
  <2>. QED  BY <2>2, <2>3, <2>4
<1>. HIDE DEF more
<1>3. /\ c \o more \in Seq(Batch) /\ Len(c \o more) = Len(c) + Len(more)
      /\ \A i \in 1 .. Len(c) + Len(more) :
            (c \o more)[i] = IF i <= Len(c) THEN c[i] ELSE more[i - Len(c)]
  BY <1>2, ConcatProperties
<1>4. Len(f) = Len(a) + Len(c \o more)
  BY <1>1, <1>2, <1>3
<1>5. ASSUME NEW i \in 1 .. Len(a) PROVE f[i] = a[i]
  <2>1. i \in 1 .. Len(p)
    BY <1>1
  <2>. QED  BY <2>1 DEF Prefix, Joined
<1>6. ASSUME NEW i \in 1 .. Len(c \o more) PROVE f[Len(a) + i] = (c \o more)[i]
  <2>1. CASE i <= Len(c)
    <3>1. i \in 1 .. Len(c) /\ Len(a) + i \in 1 .. Len(p) /\ i \in 1 .. Len(c) + Len(more)
      BY <1>1, <1>3, <2>1
    <3>. QED  BY <1>3, <2>1, <3>1 DEF Prefix, Joined
  <2>2. CASE ~(i <= Len(c))
    <3>1. /\ i - Len(c) \in 1 .. Len(more) /\ Len(p) + (i - Len(c)) = Len(a) + i
          /\ i \in 1 .. Len(c) + Len(more)
      BY <1>1, <1>2, <1>3, <2>2
    <3>. QED  BY <1>2, <1>3, <2>2, <3>1
  <2>. QED  BY <2>1, <2>2
<1>7. Joined(f, a, c \o more)
  BY <1>4, <1>5, <1>6 DEF Joined
<1>. QED  BY <1>3, <1>7 DEF more

(* Filling the pipeline.                                                   *)
LEMMA FillFacts ==
    ASSUME NEW q \in Seq(Batch), NEW p \in Seq(Batch), Increasing(q), Prefix(p, q),
           Len(p) <= MaxPendingWrites,
           NEW s \in StreamStates, NEW h, NEW c \in Seq(Batch), Fill(p, q, s, h, c),
           token \in TokenStates, idle \in BOOLEAN, s = "Open" /\ idle => h = "complete" /\ p = <<>>,
           s = "Open" /\ h = "complete" => \E a \in Seq(Batch) : Joined(p, a, c)
    PROVE  /\ pipeline' \in Seq(Batch) /\ Prefix(pipeline', q)
           /\ Len(pipeline') <= MaxPendingWrites
           /\ handshake' = h
           /\ idle' \in BOOLEAN
           /\ idle' => s = "Open" /\ pipeline' = <<>>
           /\ q # <<>> => pipeline' # <<>>
           /\ up' \in Seq(Batch)
           /\ c # <<>> => up' # <<>>
           /\ ~(s = "Open" /\ h = "complete") => up' = c
           /\ s = "Open" /\ h = "complete" =>
                 \A a \in Seq(Batch) : Joined(p, a, c) => Joined(pipeline', a, up')
           /\ StartIfNeeded(s, pipeline')
<1>. DEFINE full == Filled(p, q)
            more == SubSeq(full, Len(p) + 1, Len(full))
            sending == s = "Open" /\ h = "complete" /\ full # p
<1>1. /\ full \in Seq(Batch) /\ Prefix(full, q) /\ Prefix(p, full)
      /\ Len(full) <= MaxPendingWrites /\ (q # <<>> => full # <<>>)
  BY FilledPrefix
<1>2. /\ pipeline' = full /\ handshake' = h
      /\ up' = IF sending THEN c \o more ELSE c
      /\ idle' = (s = "Open" /\ (full = <<>> \/ (idle /\ ~sending)))
      /\ StartIfNeeded(s, full)
  BY DEF Fill
<1>. HIDE DEF full
<1>3. ASSUME NEW a \in Seq(Batch), Joined(p, a, c)
      PROVE  c \o more \in Seq(Batch) /\ Joined(full, a, c \o more)
  BY <1>1, <1>3, JoinedMore
<1>. HIDE DEF more
<1>4. up' \in Seq(Batch)
  BY <1>2, <1>3
<1>5. idle' => s = "Open" /\ full = <<>>
  BY <1>2
<1>6. ASSUME s = "Open", h = "complete", NEW a \in Seq(Batch), Joined(p, a, c)
      PROVE  Joined(full, a, up')
  BY <1>2, <1>3, <1>6
<1>7. ASSUME c # <<>>, sending PROVE up' # <<>>
  <2>1. PICK a \in Seq(Batch) : Joined(p, a, c)
    BY <1>7
  <2>2. Joined(full, a, up')
    BY <1>6, <1>7, <2>1
  <2>3. Len(c) > 0 /\ Len(p) = Len(a) + Len(c) /\ Len(full) = Len(a) + Len(up')
    BY <1>7, <2>1, <2>2 DEF Joined
  <2>4. Len(up') > 0
    BY <1>1, <1>4, <2>3 DEF Prefix
  <2>. QED  BY <1>4, <2>4
<1>. QED  BY <1>1, <1>2, <1>4, <1>5, <1>6, <1>7

-----------------------------------------------------------------------------
(* Tasks *)

(* The first task is done: the rest is chained from its user.              *)
LEMMA ChainedTail ==
    ASSUME NEW ts \in Seq(Task), ts # <<>>, NEW u, NEW a, Chained(ts, u, a)
    PROVE  /\ Tail(ts) \in Seq(Task) /\ Head(ts) \in Task /\ Head(ts) = ts[1]
           /\ Len(ts) \in Nat \ {0} /\ Len(Tail(ts)) = Len(ts) - 1
           /\ \A i \in 1 .. Len(ts) - 1 : Tail(ts)[i] = ts[i + 1]
           /\ Head(ts).type # "user" => Head(ts).user = u
           /\ Chained(Tail(ts), Head(ts).user, a)
<1>1. /\ Tail(ts) \in Seq(Task) /\ Head(ts) \in Task /\ Head(ts) = ts[1]
      /\ Len(ts) \in Nat \ {0} /\ Len(Tail(ts)) = Len(ts) - 1
      /\ \A i \in 1 .. Len(ts) - 1 : Tail(ts)[i] = ts[i + 1]
  BY HeadTailProperties
<1>2. Head(ts).type # "user" => Head(ts).user = u
  BY <1>1 DEF Chained, Before
<1>3. ASSUME NEW i \in 1 .. Len(ts)
      PROVE  Before(Tail(ts), Head(ts).user, i) = Before(ts, u, i + 1)
  <2>1. CASE i = 1
    BY <1>1, <2>1 DEF Before
  <2>2. CASE i # 1
    <3>1. i - 1 \in 1 .. Len(ts) - 1 /\ i + 1 # 1 /\ (i - 1) + 1 = i /\ (i + 1) - 1 = i
      BY <1>1, <2>2
    <3>. QED  BY <1>1, <2>2, <3>1 DEF Before
  <2>. QED  BY <2>1, <2>2
<1>4. ASSUME NEW i \in 1 .. Len(ts) - 1, Tail(ts)[i].type # "user"
      PROVE  Tail(ts)[i].user = Before(Tail(ts), Head(ts).user, i)
  <2>1. i + 1 \in 1 .. Len(ts) /\ i \in 1 .. Len(ts)
    BY <1>1
  <2>. QED  BY <1>1, <1>3, <1>4, <2>1 DEF Chained
<1>5. a = Before(Tail(ts), Head(ts).user, Len(Tail(ts)) + 1)
  <2>1. Len(Tail(ts)) + 1 = Len(ts) /\ Len(ts) \in 1 .. Len(ts)
    BY <1>1
  <2>. QED  BY <1>3, <2>1 DEF Chained
<1>. QED  BY <1>1, <1>2, <1>4, <1>5 DEF Chained

(* A task is added: the chain ends with its user.                          *)
LEMMA ChainedPost ==
    ASSUME tasks \in Seq(Task), NEW type \in {"write", "user", "token"},
           NEW u \in Users, NEW a \in Users, NEW ok \in BOOLEAN,
           Chained(tasks, user, a), type # "user" => u = a
    PROVE  /\ Post(type, u, ok) \in Seq(Task)
           /\ Chained(Post(type, u, ok), user, u)
           /\ Len(Post(type, u, ok)) = Len(tasks) + 1
           /\ \A i \in 1 .. Len(tasks) : Post(type, u, ok)[i] = tasks[i]
           /\ Post(type, u, ok)[Len(tasks) + 1].type = type
<1>. DEFINE t == [type |-> type, user |-> u, ok |-> ok, fresh |-> TRUE]
            ts == Append(tasks, t)
<1>1. t \in Task /\ t.type = type /\ t.user = u
  BY DEF Task
<1>. HIDE DEF t
<1>2. /\ ts \in Seq(Task) /\ Len(ts) = Len(tasks) + 1
      /\ \A i \in 1 .. Len(tasks) : ts[i] = tasks[i]
      /\ ts[Len(tasks) + 1] = t
  BY <1>1, AppendProperties
<1>. HIDE DEF ts
<1>3. Len(tasks) \in Nat
  OBVIOUS
<1>4. ASSUME NEW i \in 1 .. Len(tasks) + 1 PROVE Before(ts, user, i) = Before(tasks, user, i)
  <2>1. i # 1 => i - 1 \in 1 .. Len(tasks)
    BY <1>3
  <2>. QED  BY <1>2, <2>1 DEF Before
<1>5. ASSUME NEW i \in 1 .. Len(tasks) + 1, ts[i].type # "user"
      PROVE  ts[i].user = Before(ts, user, i)
  <2>1. CASE i \in 1 .. Len(tasks)
    BY <1>2, <1>4, <1>5, <2>1 DEF Chained
  <2>2. CASE i = Len(tasks) + 1
    <3>1. ts[i].user = a
      BY <1>1, <1>2, <1>5, <2>2
    <3>2. a = Before(tasks, user, Len(tasks) + 1)
      BY DEF Chained
    <3>. QED  BY <1>4, <2>2, <3>1, <3>2
  <2>. QED  BY <1>3, <2>1, <2>2
<1>6. u = Before(ts, user, Len(ts) + 1)
  <2>1. (Len(tasks) + 1) + 1 # 1 /\ (Len(tasks) + 1) + 1 - 1 = Len(tasks) + 1
    BY <1>3
  <2>. QED  BY <1>1, <1>2, <2>1 DEF Before
<1>7. Chained(ts, user, u)
  BY <1>2, <1>5, <1>6 DEF Chained
<1>8. Post(type, u, ok) = ts
  BY DEF Post, ts, t
<1>. QED  BY <1>1, <1>2, <1>7, <1>8

(* Closing the stream makes its tokens stale and leaves the chain.         *)
LEMMA ClosedFacts ==
    ASSUME NEW ts \in Seq(Task)
    PROVE  /\ Closed(ts) \in Seq(Task) /\ Len(Closed(ts)) = Len(ts)
           /\ \A i \in 1 .. Len(ts) : /\ Closed(ts)[i].type = ts[i].type
                                      /\ Closed(ts)[i].user = ts[i].user
                                      /\ ~IsFreshToken(Closed(ts)[i])
           /\ \A u, a : Chained(ts, u, a) => Chained(Closed(ts), u, a)
<1>1. ASSUME NEW i \in 1 .. Len(ts)
      PROVE  /\ Closed(ts)[i] \in Task
             /\ Closed(ts)[i].type = ts[i].type /\ Closed(ts)[i].user = ts[i].user
             /\ ~IsFreshToken(Closed(ts)[i])
  <2>1. ts[i] \in Task
    OBVIOUS
  <2>2. [ts[i] EXCEPT !.fresh = FALSE] \in Task
    BY <2>1 DEF Task
  <2>3. Closed(ts)[i] = IF ts[i].type = "token" THEN [ts[i] EXCEPT !.fresh = FALSE] ELSE ts[i]
    <3>1. i \in DOMAIN ts
      OBVIOUS
    <3>. QED  BY <3>1 DEF Closed
  <2>. QED  BY <2>1, <2>2, <2>3 DEF Task, IsFreshToken
<1>2. Closed(ts) \in Seq(Task) /\ Len(Closed(ts)) = Len(ts)
  <2>1. Len(ts) \in Nat /\ DOMAIN ts = 1 .. Len(ts)
    OBVIOUS
  <2>2. Closed(ts) = [i \in 1 .. Len(ts) |-> Closed(ts)[i]]
    BY <2>1 DEF Closed
  <2>3. \A i \in 1 .. Len(ts) : Closed(ts)[i] \in Task
    BY <1>1
  <2>. QED  BY <2>1, <2>2, <2>3
<1>3. ASSUME NEW u, NEW a, Chained(ts, u, a) PROVE Chained(Closed(ts), u, a)
  <2>1. ASSUME NEW i \in 1 .. Len(ts) + 1 PROVE Before(Closed(ts), u, i) = Before(ts, u, i)
    <3>1. i # 1 => i - 1 \in 1 .. Len(ts)
      OBVIOUS
    <3>. QED  BY <1>1, <3>1 DEF Before
  <2>. QED  BY <1>1, <1>2, <1>3, <2>1 DEF Chained
<1>. QED  BY <1>1, <1>2, <1>3

-----------------------------------------------------------------------------
(* Steps that several actions share *)

LEMMA QueueFacts ==
    ASSUME PipelineInv, NEW u \in Users
    PROVE  /\ batches[u] \in Seq(Batch) /\ Increasing(batches[u])
           /\ \A i \in 1 .. Len(batches[u]) :
                 batches[u][i].user = u /\ batches[u][i].id <= written
BY DEF PipelineInv, TypeOK, QueuesInv, OwnQueue

(* The stream is closed, and started again if that is needed.              *)
LEMMA CloseStep ==
    ASSUME PipelineInv, NEW ts \in Seq(Task), Chained(ts, user, authUser),
           NEW s \in {"Initial", "Error"}, NEW p,
           tasks' = Closed(ts), up' = <<>>, down' = <<>>, refusing' = FALSE,
           handshake' = "none", idle' = FALSE, StartIfNeeded(s, p), failures' \in Nat,
           UNCHANGED <<batches, user, pipeline, caller, authUser, written, changes,
                       backendVars, reports>>
    PROVE  PipelineInv'
<1>. USE DEF PipelineInv
<1>1. /\ state' \in StreamStates \ {"Open"} /\ token' \in TokenStates
      /\ token' # "none" => state' = "Starting"
  <2>1. s \in StreamStates /\ s # "Open" /\ ~IsStarted(s) /\ token \in TokenStates
    BY DEF TypeOK, StreamStates, TokenStates, IsStarted
  <2>. QED  BY <2>1, StartFacts
<1>2. /\ Closed(ts) \in Seq(Task) /\ Len(Closed(ts)) = Len(ts)
      /\ \A i \in 1 .. Len(ts) : ~IsFreshToken(Closed(ts)[i])
      /\ Chained(Closed(ts), user, authUser)
  BY ClosedFacts
<1>3. TypeOK'
  <2>1. /\ tasks' \in Seq(Task) /\ up' \in Seq(Batch) /\ down' \in Seq(Batch)
        /\ state' \in StreamStates /\ token' \in TokenStates
    BY <1>1, <1>2
  <2>2. UNCHANGED <<applied, content, accepted, rejected>>
    BY DEF backendVars, reports
  <2>. QED  BY <2>1, <2>2 DEF TypeOK, StreamStates, TokenStates
<1>4. QueuesInv' /\ PrefixInv'
  BY DEF QueuesInv, PrefixInv
<1>5. ChannelInv' /\ StreamInv'
  BY <1>1 DEF ChannelInv, StreamInv
<1>6. TasksInv'
  BY <1>2 DEF TasksInv
<1>7. OrderInv'
  BY DEF OrderInv, backendVars, reports
<1>. QED  BY <1>3, <1>4, <1>5, <1>6, <1>7

(* The queue of the next user is taken up, by a stream that is not open.   *)
LEMMA SwitchStep ==
    ASSUME PipelineInv, user' \in Users, tasks' \in Seq(Task),
           Chained(tasks', user', authUser),
           \A i \in 1 .. Len(tasks') : ~IsFreshToken(tasks'[i]),
           NEW s \in {"Initial", "Error"}, Fill(<<>>, batches[user'], s, "none", <<>>),
           down' = <<>>, refusing' = FALSE, failures' \in Nat,
           UNCHANGED <<batches, caller, authUser, written, changes, backendVars, reports>>
    PROVE  PipelineInv'
<1>. USE DEF PipelineInv
<1>. DEFINE q == batches[user']
<1>1. q \in Seq(Batch) /\ Increasing(q) /\ Prefix(<<>>, q) /\ <<>> \in Seq(Batch)
  BY QueueFacts DEF Prefix
<1>. HIDE DEF q
<1>2. /\ s \in StreamStates /\ s # "Open" /\ ~IsStarted(s) /\ token \in TokenStates
      /\ idle \in BOOLEAN /\ Len(<<>>) <= MaxPendingWrites
  BY CapacityAssumption DEF TypeOK, StreamStates, TokenStates, IsStarted
<1>3. Fill(<<>>, q, s, "none", <<>>)
  BY DEF q
<1>4. /\ pipeline' \in Seq(Batch) /\ Prefix(pipeline', q)
      /\ Len(pipeline') <= MaxPendingWrites
      /\ handshake' = "none" /\ idle' = FALSE /\ up' = <<>>
      /\ StartIfNeeded(s, pipeline')
  <2>. DEFINE e == <<>>
              h == "none"
  <2>1. /\ e \in Seq(Batch) /\ Prefix(e, q) /\ Len(e) <= MaxPendingWrites
        /\ Fill(e, q, s, h, e) /\ h # "complete"
    BY <1>1, <1>2, <1>3
  <2>2. e = <<>> /\ h = "none"
    OBVIOUS
  <2>. HIDE DEF e, h
  <2>3. /\ pipeline' \in Seq(Batch) /\ Prefix(pipeline', q)
        /\ Len(pipeline') <= MaxPendingWrites
        /\ handshake' = h /\ up' = e
        /\ idle' \in BOOLEAN /\ (idle' => s = "Open" /\ pipeline' = <<>>)
        /\ StartIfNeeded(s, pipeline')
    BY <1>1, <1>2, <2>1, FillFacts
  <2>. QED  BY <1>2, <2>2, <2>3
<1>5. /\ state' \in StreamStates \ {"Open"} /\ token' \in TokenStates
      /\ token' # "none" => state' = "Starting"
  BY <1>2, <1>4, StartFacts
<1>6. TypeOK'
  <2>1. /\ up' \in Seq(Batch) /\ down' \in Seq(Batch)
        /\ state' \in StreamStates /\ token' \in TokenStates
    BY <1>4, <1>5
  <2>2. UNCHANGED <<applied, content, accepted, rejected>>
    BY DEF backendVars, reports
  <2>. QED  BY <1>4, <2>1, <2>2 DEF TypeOK, StreamStates, TokenStates
<1>7. QueuesInv' /\ PrefixInv'
  BY <1>4 DEF QueuesInv, PrefixInv, q
<1>8. ChannelInv' /\ StreamInv'
  BY <1>4, <1>5 DEF ChannelInv, StreamInv
<1>9. TasksInv'
  BY DEF TasksInv
<1>10. OrderInv'
  BY DEF OrderInv, backendVars, reports
<1>. QED  BY <1>6, <1>7, <1>8, <1>9, <1>10

(* The first batch of the pipeline is the first of the queue.              *)
LEMMA PopFacts ==
    ASSUME PipelineInv, pipeline # <<>>
    PROVE  /\ batches[user] # <<>>
           /\ Head(pipeline) \in Batch /\ Head(pipeline) = Head(batches[user])
           /\ Head(pipeline) = pipeline[1] /\ Head(pipeline) = batches[user][1]
           /\ Removed(batches[user], Head(pipeline)) = Tail(batches[user])
           /\ Tail(batches[user]) \in Seq(Batch) /\ Increasing(Tail(batches[user]))
           /\ OwnQueue(Tail(batches[user]), user, written)
           /\ \A i \in 1 .. Len(Tail(batches[user])) :
                 i + 1 \in 1 .. Len(batches[user]) /\ Tail(batches[user])[i] = batches[user][i + 1]
           /\ Tail(pipeline) \in Seq(Batch) /\ Prefix(Tail(pipeline), Tail(batches[user]))
           /\ Len(Tail(pipeline)) <= MaxPendingWrites
<1>. DEFINE q == batches[user]
<1>1. /\ user \in Users /\ pipeline \in Seq(Batch) /\ Prefix(pipeline, q)
      /\ Len(pipeline) <= MaxPendingWrites /\ MaxPendingWrites \in Nat
  BY CapacityAssumption DEF PipelineInv, TypeOK, PrefixInv
<1>2. /\ q \in Seq(Batch) /\ Increasing(q)
      /\ \A i \in 1 .. Len(q) : q[i].user = user /\ q[i].id <= written
  BY <1>1, QueueFacts
<1>. HIDE DEF q
<1>3. /\ Head(pipeline) = pipeline[1] /\ Tail(pipeline) \in Seq(Batch) /\ Head(pipeline) \in Batch
      /\ Len(pipeline) \in Nat \ {0} /\ Len(Tail(pipeline)) = Len(pipeline) - 1
      /\ \A i \in 1 .. Len(pipeline) - 1 : Tail(pipeline)[i] = pipeline[i + 1]
  BY <1>1, HeadTailProperties
<1>4. q # <<>>
  BY <1>1, <1>2, <1>3 DEF Prefix
<1>5. /\ Removed(q, Head(q)) = Tail(q)
      /\ Tail(q) \in Seq(Batch) /\ Increasing(Tail(q))
      /\ Len(Tail(q)) = Len(q) - 1 /\ Head(q) = q[1] /\ Len(q) \in Nat \ {0}
      /\ \A i \in 1 .. Len(q) - 1 : Tail(q)[i] = q[i + 1]
  BY <1>2, <1>4, RemovedHead
<1>6. pipeline[1] = q[1]
  BY <1>1, <1>3 DEF Prefix
<1>7. OwnQueue(Tail(q), user, written)
  <2>1. \A i \in 1 .. Len(q) - 1 : i + 1 \in 1 .. Len(q)
    BY <1>5
  <2>. QED  BY <1>2, <1>5, <2>1 DEF OwnQueue
<1>8. Prefix(Tail(pipeline), Tail(q))
  <2>1. Len(Tail(pipeline)) <= Len(Tail(q))
    BY <1>1, <1>3, <1>5 DEF Prefix
  <2>2. ASSUME NEW i \in 1 .. Len(Tail(pipeline)) PROVE Tail(pipeline)[i] = Tail(q)[i]
    <3>1. i \in 1 .. Len(pipeline) - 1 /\ i \in 1 .. Len(q) - 1 /\ i + 1 \in 1 .. Len(pipeline)
      BY <1>3, <1>5, <2>1
    <3>. QED  BY <1>1, <1>3, <1>5, <3>1 DEF Prefix
  <2>. QED  BY <2>1, <2>2 DEF Prefix
<1>9. Len(Tail(pipeline)) <= MaxPendingWrites
  BY <1>1, <1>3
<1>10. \A i \in 1 .. Len(Tail(q)) : i + 1 \in 1 .. Len(q) /\ Tail(q)[i] = q[i + 1]
  BY <1>5
<1>. QED  BY <1>3, <1>4, <1>5, <1>6, <1>7, <1>8, <1>9, <1>10 DEF q

(* What is left in the queues after its first batch was answered.          *)
LEMMA PoppedQueues ==
    ASSUME PipelineInv, pipeline # <<>>,
           batches' = [batches EXCEPT ![user] = Tail(batches[user])],
           UNCHANGED <<written, applied>>
    PROVE  /\ batches' \in [Users -> Seq(Batch)] /\ QueuesInv'
           /\ \A b \in applied : \A u \in Users : \A i \in 1 .. Len(batches'[u]) :
                 batches'[u][i].id < b.id /\ u = b.user => batches'[u][i] \in applied
<1>1. user \in Users /\ batches \in [Users -> Seq(Batch)]
  BY DEF PipelineInv, TypeOK
<1>2. \A u \in Users : batches'[u] = IF u = user THEN Tail(batches[user]) ELSE batches[u]
  BY <1>1
<1>3. batches' \in [Users -> Seq(Batch)]
  BY <1>1, PopFacts
<1>4. QueuesInv'
  BY <1>2, PopFacts DEF PipelineInv, QueuesInv
<1>5. ASSUME NEW b \in applied, NEW u \in Users, NEW i \in 1 .. Len(batches'[u]),
             batches'[u][i].id < b.id, u = b.user
      PROVE  batches'[u][i] \in applied
  <2>1. \E j \in 1 .. Len(batches[u]) : batches'[u][i] = batches[u][j]
    <3>1. CASE u = user
      BY <1>1, <1>2, <3>1, PopFacts
    <3>2. CASE u # user
      BY <1>2, <3>2
    <3>. QED  BY <3>1, <3>2
  <2>. QED  BY <1>5, <2>1 DEF PipelineInv, OrderInv
<1>. QED  BY <1>3, <1>4, <1>5

(* The first answer is that of the first batch.                            *)
LEMMA JoinedTail ==
    ASSUME NEW p \in Seq(Batch), NEW a \in Seq(Batch), NEW c \in Seq(Batch),
           Joined(p, a, c), a # <<>>
    PROVE  p # <<>> /\ Head(p) = Head(a) /\ Joined(Tail(p), Tail(a), c)
<1>1. /\ Head(a) = a[1] /\ Len(a) \in Nat \ {0} /\ Len(Tail(a)) = Len(a) - 1
      /\ \A i \in 1 .. Len(a) - 1 : Tail(a)[i] = a[i + 1]
  BY HeadTailProperties
<1>2. Len(p) = Len(a) + Len(c) /\ Len(c) \in Nat /\ p # <<>>
  BY <1>1 DEF Joined
<1>3. /\ Head(p) = p[1] /\ Len(Tail(p)) = Len(p) - 1
      /\ \A i \in 1 .. Len(p) - 1 : Tail(p)[i] = p[i + 1]
  BY <1>2, HeadTailProperties
<1>4. Head(p) = Head(a)
  BY <1>1, <1>3 DEF Joined
<1>5. ASSUME NEW i \in 1 .. Len(Tail(a)) PROVE Tail(p)[i] = Tail(a)[i]
  <2>1. i \in 1 .. Len(p) - 1 /\ i \in 1 .. Len(a) - 1 /\ i + 1 \in 1 .. Len(a)
    BY <1>1, <1>2
  <2>. QED  BY <1>1, <1>3, <2>1 DEF Joined
<1>6. ASSUME NEW i \in 1 .. Len(c) PROVE Tail(p)[Len(Tail(a)) + i] = c[i]
  <2>1. /\ Len(Tail(a)) + i \in 1 .. Len(p) - 1 /\ (Len(Tail(a)) + i) + 1 = Len(a) + i
    BY <1>1, <1>2
  <2>. QED  BY <1>3, <2>1 DEF Joined
<1>7. Len(Tail(p)) = Len(Tail(a)) + Len(c)
  BY <1>1, <1>2, <1>3
<1>. QED  BY <1>2, <1>4, <1>5, <1>6, <1>7 DEF Joined

-----------------------------------------------------------------------------
(* The invariant is inductive *)

LEMMA InitInv == Init => PipelineInv
<1>. SUFFICES ASSUME Init PROVE PipelineInv
  OBVIOUS
<1>1. TypeOK
  <2>1. /\ <<>> \in Seq(Batch) /\ <<>> \in Seq(Task)
        /\ batches \in [Users -> Seq(Batch)]
    BY DEF Init
  <2>2. /\ applied \subseteq Batch /\ accepted \subseteq Batch /\ rejected \subseteq Batch
        /\ written \in Nat /\ changes \in Nat /\ failures \in Nat
    BY DEF Init
  <2>. QED  BY <2>1, <2>2 DEF Init, TypeOK
<1>2. QueuesInv /\ PrefixInv /\ ChannelInv /\ StreamInv
  BY CapacityAssumption
  DEF Init, QueuesInv, OwnQueue, Increasing, PrefixInv, Prefix, ChannelInv, StreamInv
<1>3. TasksInv /\ OrderInv
  BY DEF Init, TasksInv, Chained, Before, OrderInv
<1>. QED  BY <1>1, <1>2, <1>3 DEF PipelineInv

(* A task is added at the end of the worker queue.                         *)
LEMMA PostStep ==
    ASSUME PipelineInv, NEW type \in {"write", "user", "token"}, NEW u \in Users,
           NEW ok \in BOOLEAN, type # "user" => u = authUser,
           tasks' = Post(type, u, ok), authUser' = u,
           type = "token" => state = "Starting" /\ token \in {"asked", "outdated"} /\ token' = "none",
           type # "token" => token' = token \/ (token # "none" /\ token' \in {"asked", "outdated"}),
           changes' \in Nat, failures' \in Nat,
           UNCHANGED <<batches, user, pipeline, state, handshake, idle, caller,
                       channelVars, written, backendVars, reports>>
    PROVE  PipelineInv'
<1>. USE DEF PipelineInv
<1>1. /\ tasks' \in Seq(Task) /\ Chained(tasks', user, u) /\ Len(tasks') = Len(tasks) + 1
      /\ \A i \in 1 .. Len(tasks) : tasks'[i] = tasks[i]
      /\ tasks'[Len(tasks) + 1].type = type
  BY ChainedPost DEF TypeOK, TasksInv
<1>2. Len(tasks) \in Nat
  BY DEF TypeOK
<1>3. UNCHANGED <<up, down, refusing, applied, content, accepted, rejected>>
  BY DEF channelVars, backendVars, reports
<1>4. TypeOK'
  <2>1. token' \in {"none", "asked", "outdated"}
    BY DEF TypeOK
  <2>. QED  BY <1>1, <1>3, <2>1 DEF TypeOK
<1>5. QueuesInv' /\ PrefixInv' /\ ChannelInv' /\ StreamInv' /\ OrderInv'
  BY <1>3 DEF QueuesInv, PrefixInv, ChannelInv, StreamInv, OrderInv
<1>6. TasksInv'
  <2>1. \A i \in 1 .. Len(tasks) : IsFreshToken(tasks'[i]) =>
           /\ state = "Starting" /\ token = "none" /\ type # "token" /\ token' = "none"
    BY <1>1 DEF TasksInv
  <2>2. IsFreshToken(tasks'[Len(tasks) + 1]) => type = "token"
    BY <1>1 DEF IsFreshToken
  <2>3. \A i \in 1 .. Len(tasks) + 1 : i \in 1 .. Len(tasks) \/ i = Len(tasks) + 1
    BY <1>2
  <2>4. ASSUME NEW i \in 1 .. Len(tasks) + 1, IsFreshToken(tasks'[i])
        PROVE  state = "Starting" /\ token' = "none"
    BY <2>1, <2>2, <2>3, <2>4
  <2>5. ASSUME NEW i \in 1 .. Len(tasks) + 1, NEW j \in 1 .. Len(tasks) + 1,
               IsFreshToken(tasks'[i]), IsFreshToken(tasks'[j])
        PROVE  i = j
    <3>1. i \in 1 .. Len(tasks) /\ j \in 1 .. Len(tasks) => i = j
      BY <1>1, <2>5 DEF TasksInv
    <3>. QED  BY <2>1, <2>2, <2>3, <2>5, <3>1
  <2>. QED  BY <1>1, <2>4, <2>5 DEF TasksInv
<1>. QED  BY <1>4, <1>5, <1>6

(* What is left of the tasks once the first is taken.                      *)
LEMMA TakenFacts ==
    ASSUME PipelineInv, tasks # <<>>
    PROVE  /\ Tail(tasks) \in Seq(Task) /\ Head(tasks) \in Task /\ Head(tasks) = tasks[1]
           /\ Head(tasks).user \in Users
           /\ Head(tasks).type # "user" => Head(tasks).user = user
           /\ Chained(Tail(tasks), Head(tasks).user, authUser)
           /\ Len(Tail(tasks)) \in Nat
           /\ \A i \in 1 .. Len(Tail(tasks)) : IsFreshToken(Tail(tasks)[i]) =>
                 state = "Starting" /\ token = "none" /\ ~IsFreshToken(Head(tasks))
           /\ \A i, j \in 1 .. Len(Tail(tasks)) :
                 IsFreshToken(Tail(tasks)[i]) /\ IsFreshToken(Tail(tasks)[j]) => i = j
<1>1. /\ Tail(tasks) \in Seq(Task) /\ Head(tasks) \in Task /\ Head(tasks) = tasks[1]
      /\ Len(tasks) \in Nat \ {0} /\ Len(Tail(tasks)) = Len(tasks) - 1
      /\ \A i \in 1 .. Len(tasks) - 1 : Tail(tasks)[i] = tasks[i + 1]
      /\ Head(tasks).type # "user" => Head(tasks).user = user
      /\ Chained(Tail(tasks), Head(tasks).user, authUser)
  BY ChainedTail DEF PipelineInv, TypeOK, TasksInv
<1>2. Head(tasks).user \in Users
  BY <1>1 DEF Task
<1>3. \A i \in 1 .. Len(tasks) - 1 :
         /\ i + 1 \in 1 .. Len(tasks) /\ 1 \in 1 .. Len(tasks) /\ i + 1 # 1
         /\ Tail(tasks)[i] = tasks[i + 1]
  BY <1>1
<1>4. \A i \in 1 .. Len(tasks) - 1 : IsFreshToken(Tail(tasks)[i]) =>
         state = "Starting" /\ token = "none" /\ ~IsFreshToken(Head(tasks))
  BY <1>1, <1>3 DEF PipelineInv, TasksInv
<1>5. ASSUME NEW i \in 1 .. Len(tasks) - 1, NEW j \in 1 .. Len(tasks) - 1,
             IsFreshToken(Tail(tasks)[i]), IsFreshToken(Tail(tasks)[j])
      PROVE  i = j
  <2>1. i + 1 = j + 1
    BY <1>3, <1>5 DEF PipelineInv, TasksInv
  <2>. QED  BY <2>1
<1>6. \A i, j \in 1 .. Len(Tail(tasks)) :
         IsFreshToken(Tail(tasks)[i]) /\ IsFreshToken(Tail(tasks)[j]) => i = j
  BY <1>1, <1>5
<1>7. Len(Tail(tasks)) \in Nat
  BY <1>1
<1>. QED  BY <1>1, <1>2, <1>4, <1>6, <1>7

(* One lemma for each action.                                              *)
LEMMA AppInv == ASSUME PipelineInv, AppWrites PROVE PipelineInv'
<1>1. authUser \in Users /\ changes \in Nat /\ failures \in Nat
  BY DEF PipelineInv, TypeOK
<1>2. UNCHANGED <<batches, user, pipeline, state, handshake, idle, token, caller, authUser,
                  channelVars, written, changes, failures, backendVars, reports>>
  BY DEF AppWrites, clientVars, counters
<1>. QED  BY <1>1, <1>2, PostStep DEF AppWrites

LEMMA AuthInv == ASSUME PipelineInv, NEW u \in Users, AuthChanges(u) PROVE PipelineInv'
<1>1. changes' \in Nat /\ failures' \in Nat
  BY DEF PipelineInv, TypeOK, AuthChanges
<1>2. token' = token \/ (token # "none" /\ token' \in {"asked", "outdated"})
  BY DEF AuthChanges
<1>. QED  BY <1>1, <1>2, PostStep DEF AuthChanges

LEMMA TokenAnsweredInv == ASSUME PipelineInv, TokenAnswered PROVE PipelineInv'
<1>1. PICK ok \in BOOLEAN : /\ failures' = IF ok THEN failures ELSE failures + 1
                            /\ tasks' = Post("token", authUser, ok)
  BY DEF TokenAnswered
<1>2. authUser \in Users /\ changes' \in Nat /\ failures' \in Nat
  BY <1>1 DEF PipelineInv, TypeOK, TokenAnswered
<1>3. state = "Starting"
  BY DEF PipelineInv, StreamInv, TokenAnswered
<1>. QED  BY <1>1, <1>2, <1>3, PostStep DEF TokenAnswered

LEMMA TokenAgainInv == ASSUME PipelineInv, TokenAskedAgain PROVE PipelineInv'
<1>. USE DEF PipelineInv, TokenAskedAgain
<1>1. TypeOK'
  BY DEF TypeOK, channelVars, counters, backendVars, reports
<1>2. QueuesInv' /\ PrefixInv' /\ ChannelInv' /\ StreamInv'
  BY DEF QueuesInv, PrefixInv, ChannelInv, StreamInv, channelVars, counters
<1>3. TasksInv' /\ OrderInv'
  BY DEF TasksInv, OrderInv, channelVars, counters, backendVars, reports
<1>. QED  BY <1>1, <1>2, <1>3

LEMMA TaskWriteInv == ASSUME PipelineInv, TaskWrite PROVE PipelineInv'
<1>. USE DEF PipelineInv
<1>. DEFINE b == [id |-> written + 1, user |-> Head(tasks).user]
            q == Append(batches[user], b)
<1>1. /\ tasks # <<>> /\ Head(tasks).type = "write"
      /\ batches' = [batches EXCEPT ![user] = q]
      /\ Fill(pipeline, q, state, handshake, up)
      /\ written' = written + 1 /\ tasks' = Tail(tasks)
      /\ UNCHANGED <<user, caller, down, refusing, authUser, changes, failures,
                     applied, content, accepted, rejected>>
  BY DEF TaskWrite, Takes, backendVars, reports
<1>2. /\ Tail(tasks) \in Seq(Task) /\ Head(tasks).user = user
      /\ Chained(Tail(tasks), user, authUser)
      /\ \A i \in 1 .. Len(Tail(tasks)) : IsFreshToken(Tail(tasks)[i]) =>
            state = "Starting" /\ token = "none"
      /\ \A i, j \in 1 .. Len(Tail(tasks)) :
            IsFreshToken(Tail(tasks)[i]) /\ IsFreshToken(Tail(tasks)[j]) => i = j
  BY <1>1, TakenFacts
<1>3. /\ user \in Users /\ written \in Nat /\ b \in Batch /\ b.user = user /\ b.id = written + 1
      /\ batches \in [Users -> Seq(Batch)] /\ batches[user] \in Seq(Batch)
  <2>1. /\ user \in Users /\ written \in Nat
        /\ batches \in [Users -> Seq(Batch)] /\ batches[user] \in Seq(Batch)
    BY DEF TypeOK
  <2>2. written + 1 \in Nat /\ b = [id |-> written + 1, user |-> user]
    BY <1>2, <2>1
  <2>3. b \in Batch /\ b.user = user /\ b.id = written + 1
    BY <2>1, <2>2 DEF Batch
  <2>. QED  BY <2>1, <2>3
<1>. HIDE DEF b
<1>4. /\ q \in Seq(Batch) /\ q # <<>> /\ Len(q) = Len(batches[user]) + 1
      /\ \A i \in 1 .. Len(batches[user]) : q[i] = batches[user][i]
      /\ q[Len(batches[user]) + 1] = b
  BY <1>3, AppendProperties
<1>. HIDE DEF q
<1>5. \A i \in 1 .. Len(q) : /\ i \in 1 .. Len(batches[user]) \/ i = Len(batches[user]) + 1
                             /\ q[i].user = user /\ q[i].id > 0 /\ q[i].id <= written + 1
                             /\ q[i].id \in Nat
  <2>1. Len(batches[user]) \in Nat
    BY <1>3
  <2>2. \A i \in 1 .. Len(batches[user]) :
           /\ batches[user][i].user = user /\ batches[user][i].id > 0
           /\ batches[user][i].id <= written /\ batches[user][i].id \in Nat
    BY <1>3, QueueFacts, BatchFacts DEF Increasing
  <2>. QED  BY <1>3, <1>4, <2>1, <2>2
<1>6. Increasing(q)
  <2>1. ASSUME NEW i \in 1 .. Len(q), NEW j \in 1 .. Len(q), i < j PROVE q[i].id < q[j].id
    <3>1. CASE j \in 1 .. Len(batches[user])
      <4>1. i \in 1 .. Len(batches[user])
        BY <2>1, <3>1
      <4>. QED  BY <1>3, <1>4, <2>1, <3>1, <4>1, QueueFacts DEF Increasing
    <3>2. CASE j = Len(batches[user]) + 1
      <4>1. i \in 1 .. Len(batches[user]) /\ Len(batches[user]) \in Nat
        BY <1>3, <2>1, <3>2
      <4>2. q[i].id <= written /\ q[i].id \in Nat
        BY <1>3, <1>4, <1>5, <4>1, QueueFacts
      <4>. QED  BY <1>3, <1>4, <3>2, <4>2
    <3>. QED  BY <1>5, <3>1, <3>2
  <2>. QED  BY <1>5, <2>1 DEF Increasing
<1>7. pipeline \in Seq(Batch) /\ Prefix(pipeline, q) /\ Len(pipeline) <= MaxPendingWrites
  BY <1>3, <1>4 DEF TypeOK, PrefixInv, Prefix
<1>8. /\ state \in StreamStates /\ up \in Seq(Batch) /\ down \in Seq(Batch)
      /\ token \in TokenStates /\ idle \in BOOLEAN
      /\ idle => handshake = "complete" /\ pipeline = <<>>
      /\ state = "Open" /\ handshake = "complete" => Joined(pipeline, down, up)
  BY DEF TypeOK, StreamStates, TokenStates, StreamInv, ChannelInv
<1>9. /\ pipeline' \in Seq(Batch) /\ Prefix(pipeline', q)
      /\ Len(pipeline') <= MaxPendingWrites
      /\ handshake' = handshake
      /\ idle' \in BOOLEAN /\ ~idle'
      /\ up' \in Seq(Batch) /\ (up # <<>> => up' # <<>>)
      /\ ~(state = "Open" /\ handshake = "complete") => up' = up
      /\ state = "Open" /\ handshake = "complete" => Joined(pipeline', down, up')
      /\ StartIfNeeded(state, pipeline')
  BY <1>1, <1>4, <1>6, <1>7, <1>8, FillFacts
<1>10. /\ state' \in StreamStates /\ token' \in TokenStates
       /\ state' = "Open" <=> state = "Open"
       /\ IsStarted(state) => state' = state /\ token' = token
       /\ ~IsStarted(state) => (token' # "none" => state' = "Starting")
  BY <1>8, <1>9, StartFacts
<1>11. TypeOK'
  <2>1. batches' \in [Users -> Seq(Batch)] /\ written' \in Nat
    BY <1>1, <1>3, <1>4
  <2>. QED  BY <1>1, <1>2, <1>9, <1>10, <2>1 DEF TypeOK, StreamStates, TokenStates
<1>12. \A u \in Users : batches'[u] = IF u = user THEN q ELSE batches[u]
  BY <1>1, <1>3
<1>13. QueuesInv'
  <2>1. OwnQueue(q, user, written + 1)
    BY <1>5, <1>6 DEF OwnQueue
  <2>2. ASSUME NEW u \in Users PROVE OwnQueue(batches[u], u, written + 1)
    <3>1. \A i \in 1 .. Len(batches[u]) : batches[u][i].id \in Nat
      BY <1>3, BatchFacts
    <3>. QED  BY <1>3, <3>1 DEF QueuesInv, OwnQueue
  <2>. QED  BY <1>1, <1>12, <2>1, <2>2 DEF QueuesInv
<1>14. PrefixInv' /\ ChannelInv'
  BY <1>1, <1>3, <1>8, <1>9, <1>10, <1>12 DEF PrefixInv, ChannelInv
<1>15. StreamInv'
  <2>1. token' # "none" => state' = "Starting"
    BY <1>10 DEF StreamInv, IsStarted
  <2>2. refusing => state = "Open" /\ (handshake = "sent" \/ up' # <<>>)
    BY <1>9 DEF StreamInv
  <2>. QED  BY <1>1, <1>9, <1>10, <2>1, <2>2 DEF StreamInv
<1>16. TasksInv'
  <2>1. \A i \in 1 .. Len(Tail(tasks)) : IsFreshToken(Tail(tasks)[i]) =>
           state' = "Starting" /\ token' = "none"
    BY <1>2, <1>10 DEF IsStarted
  <2>. QED  BY <1>1, <1>2, <2>1 DEF TasksInv
<1>17. OrderInv'
  <2>1. ASSUME NEW c \in applied PROVE c.id \in Nat /\ c.id <= written
    BY DEF TypeOK, OrderInv, Batch
  <2>2. ASSUME NEW c \in applied, NEW u \in Users, NEW i \in 1 .. Len(batches'[u]),
               batches'[u][i].id < c.id, u = c.user
        PROVE  batches'[u][i] \in applied
    <3>1. CASE u = user /\ i = Len(batches[user]) + 1
      BY <1>3, <1>4, <1>12, <2>1, <2>2, <3>1
    <3>2. CASE ~(u = user /\ i = Len(batches[user]) + 1)
      <4>1. i \in 1 .. Len(batches[u]) /\ batches'[u][i] = batches[u][i]
        BY <1>4, <1>5, <1>12, <3>2
      <4>. QED  BY <2>2, <4>1 DEF OrderInv
    <3>. QED  BY <3>1, <3>2
  <2>3. \A c \in applied : c.id <= written + 1
    BY <1>3, <2>1
  <2>. QED  BY <1>1, <2>2, <2>3 DEF OrderInv
<1>. QED  BY <1>11, <1>13, <1>14, <1>15, <1>16, <1>17

LEMMA TaskUserInv == ASSUME PipelineInv, TaskUser PROVE PipelineInv'
<1>. DEFINE s == IF IsStarted(state) THEN "Initial" ELSE state
<1>1. /\ tasks # <<>> /\ user' = Head(tasks).user
      /\ tasks' = IF IsStarted(state) THEN Closed(Tail(tasks)) ELSE Tail(tasks)
      /\ Fill(<<>>, batches[user'], s, "none", <<>>)
      /\ down' = <<>> /\ refusing' = FALSE
      /\ UNCHANGED <<batches, caller, authUser, written, changes, failures,
                     backendVars, reports>>
  BY DEF TaskUser, Takes, counters
<1>2. /\ Tail(tasks) \in Seq(Task) /\ Head(tasks).user \in Users
      /\ Chained(Tail(tasks), Head(tasks).user, authUser)
      /\ \A i \in 1 .. Len(Tail(tasks)) : IsFreshToken(Tail(tasks)[i]) => state = "Starting"
  BY <1>1, TakenFacts
<1>3. s \in {"Initial", "Error"} /\ failures' \in Nat
  BY <1>1 DEF PipelineInv, TypeOK, IsStarted
<1>. HIDE DEF s
<1>4. /\ tasks' \in Seq(Task) /\ Chained(tasks', user', authUser)
      /\ \A i \in 1 .. Len(tasks') : ~IsFreshToken(tasks'[i])
  <2>1. CASE IsStarted(state)
    BY <1>1, <1>2, <2>1, ClosedFacts
  <2>2. CASE ~IsStarted(state)
    BY <1>1, <1>2, <2>2 DEF IsStarted
  <2>. QED  BY <2>1, <2>2
<1>. QED  BY <1>1, <1>2, <1>3, <1>4, SwitchStep

LEMMA RestartInv == ASSUME PipelineInv, Restart PROVE PipelineInv'
<1>1. /\ authUser \in Users /\ failures' \in Nat
  BY DEF PipelineInv, TypeOK, Restart
<1>2. /\ tasks' \in Seq(Task) /\ Chained(tasks', user', authUser)
      /\ \A i \in 1 .. Len(tasks') : ~IsFreshToken(tasks'[i])
  BY DEF Restart, Chained, Before
<1>. QED  BY <1>1, <1>2, SwitchStep DEF Restart

LEMMA TokenIgnoredInv == ASSUME PipelineInv, TaskTokenIgnored PROVE PipelineInv'
<1>. USE DEF PipelineInv
<1>1. /\ tasks # <<>> /\ Head(tasks).type = "token" /\ tasks' = Tail(tasks)
      /\ UNCHANGED <<batches, user, pipeline, state, handshake, idle, token, caller, up, down,
                     refusing, authUser, written, changes, failures, applied, content,
                     accepted, rejected>>
  BY DEF TaskTokenIgnored, Takes, clientVars, channelVars, counters, backendVars, reports
<1>2. /\ Tail(tasks) \in Seq(Task)
      /\ Chained(Tail(tasks), user, authUser)
      /\ \A i \in 1 .. Len(Tail(tasks)) : IsFreshToken(Tail(tasks)[i]) =>
            state = "Starting" /\ token = "none"
      /\ \A i, j \in 1 .. Len(Tail(tasks)) :
            IsFreshToken(Tail(tasks)[i]) /\ IsFreshToken(Tail(tasks)[j]) => i = j
  BY <1>1, TakenFacts
<1>3. TypeOK' /\ TasksInv'
  BY <1>1, <1>2 DEF TypeOK, TasksInv
<1>4. QueuesInv' /\ PrefixInv' /\ ChannelInv' /\ StreamInv' /\ OrderInv'
  BY <1>1 DEF QueuesInv, PrefixInv, ChannelInv, StreamInv, OrderInv
<1>. QED  BY <1>3, <1>4

LEMMA TaskTokenInv == ASSUME PipelineInv, TaskToken PROVE PipelineInv'
<1>. USE DEF PipelineInv
<1>1. /\ tasks # <<>> /\ IsFreshToken(Head(tasks)) /\ tasks' = Tail(tasks)
      /\ state' = "Open" /\ handshake' = "sent" /\ caller' = Head(tasks).user
      /\ UNCHANGED <<batches, user, pipeline, idle, token, up, down, refusing, authUser,
                     written, changes, failures, applied, content, accepted, rejected>>
  BY DEF TaskToken, Takes, IsFreshToken, channelVars, counters, backendVars, reports
<1>2. /\ Tail(tasks) \in Seq(Task) /\ Head(tasks).user = user /\ tasks[1] = Head(tasks)
      /\ Chained(Tail(tasks), user, authUser)
      /\ \A i \in 1 .. Len(Tail(tasks)) : ~IsFreshToken(Tail(tasks)[i])
  BY <1>1, TakenFacts DEF IsFreshToken
<1>3. state = "Starting" /\ token = "none"
  <2>1. 1 \in 1 .. Len(tasks)
    BY <1>1 DEF TypeOK
  <2>. QED  BY <1>1, <1>2, <2>1 DEF TasksInv
<1>4. TypeOK' /\ TasksInv'
  BY <1>1, <1>2 DEF TypeOK, TasksInv
<1>5. up = <<>> /\ down = <<>> /\ ~refusing /\ ~idle
  BY <1>3 DEF TypeOK, ChannelInv, StreamInv
<1>6. QueuesInv' /\ PrefixInv' /\ ChannelInv' /\ StreamInv' /\ OrderInv'
  BY <1>1, <1>2, <1>3, <1>5 DEF QueuesInv, PrefixInv, ChannelInv, StreamInv, OrderInv
<1>. QED  BY <1>4, <1>6

LEMMA TokenFailsInv == ASSUME PipelineInv, TaskTokenFails PROVE PipelineInv'
<1>1. tasks # <<>> /\ Head(tasks).type = "token" /\ CloseAndRestart(Tail(tasks))
  BY DEF TaskTokenFails, Takes
<1>2. Tail(tasks) \in Seq(Task) /\ Chained(Tail(tasks), user, authUser)
  BY <1>1, TakenFacts
<1>3. failures' \in Nat
  BY DEF PipelineInv, TypeOK, TaskTokenFails
<1>. QED  BY <1>1, <1>2, <1>3, CloseStep DEF CloseAndRestart

LEMMA FailsInv ==
    ASSUME PipelineInv, CloseAndRestart(tasks), failures' \in Nat
    PROVE  PipelineInv'
<1>1. tasks \in Seq(Task) /\ Chained(tasks, user, authUser)
  BY DEF PipelineInv, TypeOK, TasksInv
<1>. QED  BY <1>1, CloseStep DEF CloseAndRestart

LEMMA StreamFailsInv == ASSUME PipelineInv, StreamFails PROVE PipelineInv'
<1>1. failures' \in Nat
  BY DEF PipelineInv, TypeOK, StreamFails
<1>. QED  BY <1>1, FailsInv DEF StreamFails

LEMMA HandshakeRefusedInv == ASSUME PipelineInv, HandshakeRefused PROVE PipelineInv'
<1>1. failures' \in Nat
  BY DEF PipelineInv, TypeOK, HandshakeRefused
<1>. QED  BY <1>1, FailsInv DEF HandshakeRefused

LEMMA IdleInv == ASSUME PipelineInv, IdleTimeout PROVE PipelineInv'
<1>1. tasks \in Seq(Task) /\ Chained(tasks, user, authUser) /\ failures \in Nat
  BY DEF PipelineInv, TypeOK, TasksInv
<1>2. UNCHANGED <<batches, user, pipeline, caller, authUser, written, changes, failures,
                  backendVars, reports>>
  BY DEF IdleTimeout, counters
<1>. QED  BY <1>1, <1>2, CloseStep DEF IdleTimeout

LEMMA BackoffInv == ASSUME PipelineInv, BackoffElapses PROVE PipelineInv'
<1>. USE DEF PipelineInv
<1>1. /\ state = "Backoff" /\ state' = "Starting" /\ token' = "asked"
      /\ UNCHANGED <<batches, user, pipeline, handshake, idle, caller, up, down, refusing,
                     authUser, tasks, written, changes, failures, applied, content,
                     accepted, rejected>>
  BY DEF BackoffElapses, Start, channelVars, counters, backendVars, reports
<1>2. TypeOK'
  BY <1>1 DEF TypeOK
<1>3. QueuesInv' /\ PrefixInv' /\ ChannelInv' /\ StreamInv' /\ TasksInv' /\ OrderInv'
  BY <1>1 DEF QueuesInv, PrefixInv, ChannelInv, StreamInv, TasksInv, OrderInv
<1>. QED  BY <1>2, <1>3

LEMMA ShakeInv == ASSUME PipelineInv, BackendShakesHands PROVE PipelineInv'
<1>. USE DEF PipelineInv
<1>1. /\ state = "Open" /\ ~refusing /\ handshake = "sent" /\ handshake' = "answered"
      /\ UNCHANGED <<batches, user, pipeline, state, idle, token, caller, up, down, refusing,
                     authUser, tasks, written, changes, failures, applied, content,
                     accepted, rejected>>
  BY DEF BackendShakesHands, Serving, channelVars, counters, backendVars, reports
<1>2. TypeOK'
  BY <1>1 DEF TypeOK
<1>3. QueuesInv' /\ PrefixInv' /\ ChannelInv' /\ StreamInv' /\ TasksInv' /\ OrderInv'
  BY <1>1 DEF QueuesInv, PrefixInv, ChannelInv, StreamInv, TasksInv, OrderInv
<1>. QED  BY <1>2, <1>3

LEMMA RefusesInv == ASSUME PipelineInv, BackendRefuses PROVE PipelineInv'
<1>. USE DEF PipelineInv
<1>1. /\ state = "Open" /\ (up # <<>> \/ handshake = "sent") /\ refusing' = TRUE
      /\ failures' = failures + 1
      /\ UNCHANGED <<batches, user, pipeline, state, handshake, idle, token, caller, up, down,
                     authUser, tasks, written, changes, applied, content, accepted, rejected>>
  BY DEF BackendRefuses, Serving, clientVars, backendVars, reports
<1>2. TypeOK'
  BY <1>1 DEF TypeOK
<1>3. QueuesInv' /\ PrefixInv' /\ ChannelInv' /\ StreamInv' /\ TasksInv' /\ OrderInv'
  BY <1>1 DEF QueuesInv, PrefixInv, ChannelInv, StreamInv, TasksInv, OrderInv
<1>. QED  BY <1>2, <1>3

(* A request that is answered stays in its place.                          *)
LEMMA JoinedMove ==
    ASSUME NEW p \in Seq(Batch), NEW a \in Seq(Batch), NEW c \in Seq(Batch),
           Joined(p, a, c), c # <<>>
    PROVE  /\ Joined(p, Append(a, Head(c)), Tail(c))
           /\ Append(a, Head(c)) \in Seq(Batch) /\ Tail(c) \in Seq(Batch)
           /\ Head(c) \in Batch /\ Len(a) + 1 \in 1 .. Len(p) /\ p[Len(a) + 1] = Head(c)
           /\ \A i \in 1 .. Len(Append(a, Head(c))) :
                 \/ i \in 1 .. Len(a) /\ Append(a, Head(c))[i] = a[i]
                 \/ Append(a, Head(c))[i] = Head(c)
<1>1. /\ Head(c) = c[1] /\ Len(c) \in Nat \ {0} /\ Len(Tail(c)) = Len(c) - 1
      /\ Head(c) \in Batch /\ Tail(c) \in Seq(Batch)
      /\ \A i \in 1 .. Len(c) - 1 : Tail(c)[i] = c[i + 1]
  BY HeadTailProperties
<1>. DEFINE x == Append(a, Head(c))
<1>2. /\ x \in Seq(Batch) /\ Len(x) = Len(a) + 1
      /\ \A i \in 1 .. Len(a) : x[i] = a[i]
      /\ x[Len(a) + 1] = Head(c)
  BY <1>1, AppendProperties
<1>. HIDE DEF x
<1>3. Len(a) \in Nat /\ Len(p) = Len(a) + Len(c)
  BY DEF Joined
<1>4. p[Len(a) + 1] = Head(c) /\ Len(a) + 1 \in 1 .. Len(p)
  BY <1>1, <1>3 DEF Joined
<1>5. \A i \in 1 .. Len(x) : i \in 1 .. Len(a) \/ i = Len(a) + 1
  BY <1>2, <1>3
<1>6. \A i \in 1 .. Len(x) : p[i] = x[i]
  BY <1>2, <1>4, <1>5 DEF Joined
<1>7. ASSUME NEW i \in 1 .. Len(Tail(c)) PROVE p[Len(x) + i] = Tail(c)[i]
  <2>1. /\ i \in 1 .. Len(c) - 1 /\ i + 1 \in 1 .. Len(c)
        /\ Len(x) + i = Len(a) + (i + 1)
    BY <1>1, <1>2, <1>3
  <2>. QED  BY <1>1, <2>1 DEF Joined
<1>8. Len(p) = Len(x) + Len(Tail(c))
  BY <1>1, <1>2, <1>3
<1>9. Joined(p, x, Tail(c))
  BY <1>6, <1>7, <1>8 DEF Joined
<1>. QED  BY <1>1, <1>2, <1>4, <1>5, <1>9 DEF x

(* What the backend commits is what follows the answers in the queue.      *)
LEMMA CommitFacts ==
    ASSUME PipelineInv, state = "Open", up # <<>>
    PROVE  /\ handshake = "complete" /\ Joined(pipeline, down, up)
           /\ Len(down) \in Nat /\ Len(down) + 1 \in 1 .. Len(batches[user])
           /\ Head(up) = batches[user][Len(down) + 1]
           /\ \A i \in 1 .. Len(down) : i \in 1 .. Len(batches[user]) /\ down[i] = batches[user][i]
<1>1. handshake = "complete" /\ Joined(pipeline, down, up)
  BY DEF PipelineInv, ChannelInv
<1>2. /\ pipeline \in Seq(Batch) /\ down \in Seq(Batch) /\ up \in Seq(Batch)
      /\ batches[user] \in Seq(Batch)
  BY DEF PipelineInv, TypeOK
<1>3. Len(down) + 1 \in 1 .. Len(pipeline) /\ pipeline[Len(down) + 1] = Head(up)
  BY <1>1, <1>2, JoinedMove
<1>4. Prefix(pipeline, batches[user])
  BY DEF PipelineInv, PrefixInv
<1>5. /\ Len(down) \in Nat
      /\ \A i \in 1 .. Len(pipeline) : i \in 1 .. Len(batches[user])
      /\ \A i \in 1 .. Len(down) : i \in 1 .. Len(pipeline)
  BY <1>1, <1>2, <1>4 DEF Prefix, Joined
<1>. QED  BY <1>1, <1>3, <1>4, <1>5 DEF Prefix, Joined

LEMMA CommitsInv == ASSUME PipelineInv, BackendCommits PROVE PipelineInv'
<1>. USE DEF PipelineInv
<1>1. /\ state = "Open" /\ ~refusing /\ up # <<>>
      /\ applied' = applied \cup {Head(up)} /\ content' = Head(up)
      /\ up' = Tail(up) /\ down' = Append(down, Head(up))
      /\ UNCHANGED <<batches, user, pipeline, state, handshake, idle, token, caller, refusing,
                     authUser, tasks, written, changes, failures, accepted, rejected>>
  BY DEF BackendCommits, Serving, clientVars, counters, reports
<1>2. /\ handshake = "complete" /\ Joined(pipeline, down, up)
      /\ Len(down) + 1 \in 1 .. Len(batches[user])
      /\ Len(down) \in Nat
      /\ Head(up) = batches[user][Len(down) + 1]
      /\ \A i \in 1 .. Len(down) : i \in 1 .. Len(batches[user]) /\ down[i] = batches[user][i]
  BY <1>1, CommitFacts
<1>3. /\ Joined(pipeline, down', up') /\ down' \in Seq(Batch) /\ up' \in Seq(Batch)
      /\ Head(up) \in Batch
      /\ \A i \in 1 .. Len(down') :
            \/ i \in 1 .. Len(down) /\ down'[i] = down[i]
            \/ down'[i] = Head(up)
  BY <1>1, <1>2, JoinedMove DEF TypeOK
<1>4. TypeOK'
  BY <1>1, <1>3 DEF TypeOK
<1>5. QueuesInv' /\ PrefixInv' /\ ChannelInv' /\ StreamInv' /\ TasksInv'
  BY <1>1, <1>2, <1>3 DEF QueuesInv, PrefixInv, ChannelInv, StreamInv, TasksInv
<1>6. user \in Users /\ batches[user] \in Seq(Batch) /\ Increasing(batches[user])
  BY QueueFacts DEF TypeOK
<1>7. Head(up).user = user /\ Head(up).id <= written
  BY <1>2, <1>6, QueueFacts
<1>8. ASSUME NEW i \in 1 .. Len(batches[user]), batches[user][i].id < Head(up).id
      PROVE  batches[user][i] \in applied
  <2>1. i < Len(down) + 1
    <3>1. batches[user][i].id \in Nat /\ Head(up).id \in Nat
      BY <1>2, <1>6, BatchFacts
    <3>2. Len(down) + 1 < i => Head(up).id < batches[user][i].id
      BY <1>2, <1>6 DEF Increasing
    <3>. QED  BY <1>2, <1>8, <3>1, <3>2
  <2>2. i \in 1 .. Len(down)
    BY <1>2, <2>1
  <2>. QED  BY <1>2, <2>2 DEF OrderInv
<1>9. OrderInv'
  <2>1. ASSUME NEW b \in applied', NEW u \in Users, NEW i \in 1 .. Len(batches[u]),
               batches[u][i].id < b.id, u = b.user
        PROVE  batches[u][i] \in applied'
    <3>1. CASE b \in applied
      BY <1>1, <2>1, <3>1 DEF OrderInv
    <3>2. CASE b = Head(up)
      BY <1>1, <1>7, <1>8, <2>1, <3>2
    <3>. QED  BY <1>1, <3>1, <3>2
  <2>2. accepted' \subseteq applied' /\ \A b \in applied' : b.id <= written'
    BY <1>1, <1>7 DEF OrderInv
  <2>3. \A i \in 1 .. Len(down') : down'[i] \in applied'
    BY <1>1, <1>3 DEF OrderInv
  <2>. QED  BY <1>1, <2>1, <2>2, <2>3 DEF OrderInv
<1>. QED  BY <1>4, <1>5, <1>9

LEMMA ReadHandshakeInv == ASSUME PipelineInv, ReadHandshake PROVE PipelineInv'
<1>. USE DEF PipelineInv
<1>1. /\ state = "Open" /\ handshake = "answered" /\ handshake' = "complete"
      /\ up' = pipeline /\ idle' = (idle /\ pipeline = <<>>)
      /\ UNCHANGED <<batches, user, pipeline, state, token, caller, down, refusing,
                     authUser, tasks, written, changes, failures, applied, content,
                     accepted, rejected>>
  BY DEF ReadHandshake, counters, backendVars, reports
<1>2. down = <<>> /\ up = <<>> /\ ~refusing /\ ~idle
  BY <1>1 DEF ChannelInv, StreamInv
<1>3. Joined(pipeline, <<>>, pipeline)
  BY DEF TypeOK, Joined
<1>4. TypeOK'
  BY <1>1, <1>2 DEF TypeOK
<1>5. QueuesInv' /\ PrefixInv' /\ ChannelInv' /\ StreamInv' /\ TasksInv' /\ OrderInv'
  BY <1>1, <1>2, <1>3 DEF QueuesInv, PrefixInv, ChannelInv, StreamInv, TasksInv, OrderInv
<1>. QED  BY <1>4, <1>5

LEMMA ReadResultInv == ASSUME PipelineInv, ReadResult PROVE PipelineInv'
<1>. USE DEF PipelineInv
<1>. DEFINE p == Tail(pipeline)
            q == Tail(batches[user])
<1>1. /\ state = "Open" /\ down # <<>>
      /\ accepted' = accepted \cup {Head(pipeline)}
      /\ batches' = [batches EXCEPT ![user] = Removed(batches[user], Head(pipeline))]
      /\ Fill(p, Removed(batches[user], Head(pipeline)), state, handshake, up)
      /\ down' = Tail(down)
      /\ UNCHANGED <<user, caller, refusing, authUser, tasks, written, changes, failures,
                     applied, content, rejected>>
  BY DEF ReadResult, counters, backendVars
<1>2. handshake = "complete" /\ Joined(pipeline, down, up)
  BY <1>1 DEF ChannelInv
<1>3. /\ pipeline # <<>> /\ Head(pipeline) = Head(down) /\ Joined(p, Tail(down), up)
  BY <1>1, <1>2, JoinedTail DEF TypeOK
<1>4. /\ Removed(batches[user], Head(pipeline)) = q /\ q \in Seq(Batch) /\ Increasing(q)
      /\ p \in Seq(Batch) /\ Prefix(p, q) /\ Len(p) <= MaxPendingWrites
      /\ Head(pipeline) \in Batch
  BY <1>3, PopFacts
<1>5. /\ batches' \in [Users -> Seq(Batch)] /\ QueuesInv'
      /\ \A b \in applied : \A u \in Users : \A i \in 1 .. Len(batches'[u]) :
            batches'[u][i].id < b.id /\ u = b.user => batches'[u][i] \in applied
  BY <1>1, <1>3, <1>4, PoppedQueues
<1>6. Fill(p, q, state, handshake, up)
  BY <1>1, <1>4
<1>7. user \in Users /\ batches'[user] = q
  BY <1>1, <1>4 DEF TypeOK
<1>. HIDE DEF p, q
<1>8. /\ state \in StreamStates /\ up \in Seq(Batch) /\ ~idle /\ token \in TokenStates
      /\ idle \in BOOLEAN /\ IsStarted(state)
  BY <1>1, <1>3 DEF TypeOK, StreamStates, TokenStates, StreamInv, IsStarted
<1>9. /\ down \in Seq(Batch) /\ Tail(down) \in Seq(Batch) /\ Head(down) = down[1]
      /\ Len(down) \in Nat \ {0} /\ Len(Tail(down)) = Len(down) - 1
      /\ \A i \in 1 .. Len(down) - 1 : Tail(down)[i] = down[i + 1]
  <2>1. down \in Seq(Batch)
    BY DEF TypeOK
  <2>. QED  BY <1>1, <2>1, HeadTailProperties
<1>10. /\ pipeline' \in Seq(Batch) /\ Prefix(pipeline', q)
       /\ Len(pipeline') <= MaxPendingWrites
       /\ handshake' = handshake
       /\ idle' \in BOOLEAN /\ (idle' => pipeline' = <<>>)
       /\ up' \in Seq(Batch) /\ (up # <<>> => up' # <<>>)
       /\ Joined(pipeline', Tail(down), up')
       /\ StartIfNeeded(state, pipeline')
  <2>. DEFINE a == Tail(down)
  <2>1. a \in Seq(Batch) /\ Joined(p, a, up)
    BY <1>3, <1>9
  <2>. HIDE DEF a
  <2>2. \E x \in Seq(Batch) : Joined(p, x, up)
    BY <2>1
  <2>3. /\ pipeline' \in Seq(Batch) /\ Prefix(pipeline', q)
        /\ Len(pipeline') <= MaxPendingWrites
        /\ handshake' = handshake
        /\ idle' \in BOOLEAN /\ (idle' => pipeline' = <<>>)
        /\ up' \in Seq(Batch) /\ (up # <<>> => up' # <<>>)
        /\ \A x \in Seq(Batch) : Joined(p, x, up) => Joined(pipeline', x, up')
        /\ StartIfNeeded(state, pipeline')
    BY <1>1, <1>2, <1>4, <1>6, <1>8, <2>2, FillFacts
  <2>4. Joined(pipeline', a, up')
    BY <2>1, <2>3
  <2>. QED  BY <2>3, <2>4 DEF a
<1>11. state' = "Open" /\ token' = token
  BY <1>1, <1>8, <1>10, StartFacts
<1>12. TypeOK'
  <2>1. accepted' \subseteq Batch
    BY <1>1, <1>4 DEF TypeOK
  <2>. QED  BY <1>1, <1>5, <1>9, <1>10, <1>11, <2>1 DEF TypeOK
<1>13. PrefixInv' /\ ChannelInv' /\ StreamInv'
  BY <1>1, <1>2, <1>7, <1>10, <1>11 DEF PrefixInv, ChannelInv, StreamInv
<1>14. TasksInv'
  BY <1>1, <1>11 DEF TasksInv
<1>15. OrderInv'
  <2>1. \A i \in 1 .. Len(down) : down[i] \in applied
    BY DEF OrderInv
  <2>2. Head(pipeline) \in applied
    BY <1>3, <1>9, <2>1
  <2>3. \A i \in 1 .. Len(Tail(down)) : Tail(down)[i] \in applied
    BY <1>9, <2>1
  <2>. QED  BY <1>1, <1>5, <2>2, <2>3 DEF OrderInv
<1>. QED  BY <1>5, <1>12, <1>13, <1>14, <1>15

LEMMA WriteRefusedInv == ASSUME PipelineInv, WriteRefused PROVE PipelineInv'
<1>. USE DEF PipelineInv
<1>. DEFINE p == Tail(pipeline)
            q == Tail(batches[user])
            e == <<>>
            h == "none"
            s == "Initial"
<1>1. /\ state = "Open" /\ refusing /\ handshake = "complete"
      /\ rejected' = rejected \cup {Head(pipeline)}
      /\ batches' = [batches EXCEPT ![user] = Removed(batches[user], Head(pipeline))]
      /\ Fill(p, Removed(batches[user], Head(pipeline)), s, h, e)
      /\ tasks' = Closed(tasks) /\ down' = <<>> /\ refusing' = FALSE
      /\ UNCHANGED <<user, caller, authUser, written, changes, failures,
                     applied, content, accepted>>
  BY DEF WriteRefused, RefusalArrives, counters, backendVars
<1>2. pipeline # <<>>
  <2>1. up # <<>> /\ Joined(pipeline, down, up)
    BY <1>1 DEF StreamInv, ChannelInv
  <2>2. up \in Seq(Batch) /\ down \in Seq(Batch) /\ pipeline \in Seq(Batch)
    BY DEF TypeOK
  <2>3. Len(down) + 1 \in 1 .. Len(pipeline) /\ Len(down) \in Nat
    BY <2>1, <2>2, JoinedMove
  <2>. QED  BY <2>3
<1>3. /\ Removed(batches[user], Head(pipeline)) = q /\ q \in Seq(Batch) /\ Increasing(q)
      /\ p \in Seq(Batch) /\ Prefix(p, q) /\ Len(p) <= MaxPendingWrites
      /\ Head(pipeline) \in Batch
  BY <1>2, PopFacts
<1>4. /\ batches' \in [Users -> Seq(Batch)] /\ QueuesInv'
      /\ \A b \in applied : \A u \in Users : \A i \in 1 .. Len(batches'[u]) :
            batches'[u][i].id < b.id /\ u = b.user => batches'[u][i] \in applied
  BY <1>1, <1>2, <1>3, PoppedQueues
<1>5. /\ Fill(p, q, s, h, e) /\ user \in Users /\ batches'[user] = q
  BY <1>1, <1>3 DEF TypeOK
<1>6. /\ tasks' \in Seq(Task) /\ Chained(tasks', user, authUser)
      /\ \A i \in 1 .. Len(tasks') : ~IsFreshToken(tasks'[i])
  BY <1>1, ClosedFacts DEF TypeOK, TasksInv
<1>7. /\ e \in Seq(Batch) /\ e = <<>> /\ h = "none" /\ h # "complete"
      /\ s \in StreamStates /\ s # "Open" /\ ~IsStarted(s)
      /\ token \in TokenStates /\ idle \in BOOLEAN
  BY DEF TypeOK, StreamStates, TokenStates, IsStarted
<1>. HIDE DEF p, q, e, h, s
<1>8. /\ pipeline' \in Seq(Batch) /\ Prefix(pipeline', q)
      /\ Len(pipeline') <= MaxPendingWrites
      /\ handshake' = h /\ up' = e
      /\ idle' \in BOOLEAN /\ (idle' => s = "Open" /\ pipeline' = <<>>)
      /\ StartIfNeeded(s, pipeline')
  BY <1>3, <1>5, <1>7, FillFacts
<1>9. /\ state' \in StreamStates \ {"Open"} /\ token' \in TokenStates
      /\ token' # "none" => state' = "Starting"
  BY <1>7, <1>8, StartFacts
<1>10. TypeOK'
  <2>1. rejected' \subseteq Batch /\ down' \in Seq(Batch) /\ up' \in Seq(Batch)
    BY <1>1, <1>3, <1>7, <1>8 DEF TypeOK
  <2>2. handshake' = "none" /\ idle' = FALSE
    BY <1>7, <1>8
  <2>. QED  BY <1>1, <1>4, <1>6, <1>8, <1>9, <2>1, <2>2 DEF TypeOK, StreamStates, TokenStates
<1>11. PrefixInv' /\ ChannelInv' /\ StreamInv'
  BY <1>1, <1>5, <1>7, <1>8, <1>9 DEF PrefixInv, ChannelInv, StreamInv
<1>12. TasksInv' /\ OrderInv'
  BY <1>1, <1>4, <1>6 DEF TasksInv, OrderInv
<1>. QED  BY <1>4, <1>10, <1>11, <1>12

LEMMA StepInv == PipelineInv /\ [Next]_vars => PipelineInv'
<1>. SUFFICES ASSUME PipelineInv, [Next]_vars PROVE PipelineInv'
  OBVIOUS
<1>1. CASE AppWrites  BY <1>1, AppInv
<1>2. CASE TokenAnswered  BY <1>2, TokenAnsweredInv
<1>3. CASE TokenAskedAgain  BY <1>3, TokenAgainInv
<1>4. CASE \E u \in Users : AuthChanges(u)  BY <1>4, AuthInv
<1>5. CASE WorkerTask
  BY <1>5, TaskWriteInv, TaskUserInv, TaskTokenInv, TokenFailsInv, TokenIgnoredInv DEF WorkerTask
<1>6. CASE BackoffElapses  BY <1>6, BackoffInv
<1>7. CASE IdleTimeout  BY <1>7, IdleInv
<1>8. CASE BackendShakesHands  BY <1>8, ShakeInv
<1>9. CASE BackendCommits  BY <1>9, CommitsInv
<1>10. CASE BackendRefuses  BY <1>10, RefusesInv
<1>11. CASE StreamRead
  BY <1>11, ReadHandshakeInv, ReadResultInv, HandshakeRefusedInv, WriteRefusedInv DEF StreamRead
<1>12. CASE StreamFails  BY <1>12, StreamFailsInv
<1>13. CASE Restart  BY <1>13, RestartInv
<1>14. CASE UNCHANGED vars
  <2>. USE <1>14 DEF PipelineInv, vars, clientVars, channelVars, counters, backendVars, reports
  <2>1. TypeOK'
    BY DEF TypeOK
  <2>2. QueuesInv' /\ PrefixInv' /\ ChannelInv' /\ StreamInv'
    BY DEF QueuesInv, PrefixInv, ChannelInv, StreamInv
  <2>3. TasksInv' /\ OrderInv'
    BY DEF TasksInv, OrderInv
  <2>. QED  BY <2>1, <2>2, <2>3
<1>. QED  BY <1>1, <1>2, <1>3, <1>4, <1>5, <1>6, <1>7, <1>8, <1>9, <1>10, <1>11,
             <1>12, <1>13, <1>14 DEF Next

(* The inductive invariant holds, whatever the capacity, the users and the *)
(* failures.                                                               *)
THEOREM PipelineAlways == Spec => []PipelineInv
<1>. QED  BY InitInv, StepInv, PTL DEF Spec

-----------------------------------------------------------------------------
(* The properties *)

(* Every variable keeps its type.                                          *)
THEOREM PipelineTypeCorrect == Spec => []TypeOK
<1>. QED  BY PipelineAlways, PTL DEF PipelineInv

(* The pipeline stays the beginning of the queue of its user.              *)
THEOREM PipelineStaysPrefix == Spec => []PipelineIsPrefix
<1>1. PipelineInv => PipelineIsPrefix
  <2>. SUFFICES ASSUME PipelineInv PROVE PipelineIsPrefix
    OBVIOUS
  <2>. DEFINE q == batches[user]
              n == Len(pipeline)
  <2>1. /\ q \in Seq(Batch) /\ pipeline \in Seq(Batch) /\ n \in Nat /\ n <= Len(q)
        /\ n <= MaxPendingWrites /\ \A i \in 1 .. n : pipeline[i] = q[i]
    BY DEF PipelineInv, TypeOK, PrefixInv, Prefix
  <2>. HIDE DEF q
  <2>2. \A i \in 1 .. n : q[i] \in Batch
    BY <2>1
  <2>3. /\ SubSeq(q, 1, n) \in Seq(Batch)
        /\ Len(SubSeq(q, 1, n)) = IF 1 <= n THEN n - 1 + 1 ELSE 0
        /\ \A i \in 1 .. n - 1 + 1 : SubSeq(q, 1, n)[i] = q[1 + i - 1]
    BY <2>1, <2>2, SubSeqProperties
  <2>4. Len(SubSeq(q, 1, n)) = n /\ \A i \in 1 .. n : pipeline[i] = SubSeq(q, 1, n)[i]
    BY <2>1, <2>3
  <2>5. pipeline = SubSeq(q, 1, n)
    BY <2>1, <2>3, <2>4, SeqEqual
  <2>. QED  BY <2>1, <2>5 DEF PipelineIsPrefix, q
<1>. QED  BY <1>1, PipelineAlways, PTL

(* The answers and the requests under way stay those of the pipeline.      *)
THEOREM AnswersStayMatched == Spec => []AnswersMatchPipeline
<1>1. PipelineInv => AnswersMatchPipeline
  <2>. SUFFICES ASSUME PipelineInv PROVE AnswersMatchPipeline
    OBVIOUS
  <2>1. CASE state = "Open" /\ handshake = "complete"
    <3>1. /\ Joined(pipeline, down, up)
          /\ pipeline \in Seq(Batch) /\ down \in Seq(Batch) /\ up \in Seq(Batch)
      BY <2>1 DEF PipelineInv, TypeOK, ChannelInv
    <3>2. /\ down \o up \in Seq(Batch) /\ Len(down \o up) = Len(down) + Len(up)
          /\ \A i \in 1 .. Len(down) + Len(up) :
                (down \o up)[i] = IF i <= Len(down) THEN down[i] ELSE up[i - Len(down)]
      BY <3>1, ConcatProperties
    <3>3. Len(down) \in Nat /\ Len(up) \in Nat /\ Len(pipeline) = Len(down) + Len(up)
      BY <3>1 DEF Joined
    <3>4. ASSUME NEW i \in 1 .. Len(pipeline) PROVE pipeline[i] = (down \o up)[i]
      <4>1. CASE i <= Len(down)
        BY <3>1, <3>2, <3>3, <4>1 DEF Joined
      <4>2. CASE ~(i <= Len(down))
        <5>1. i - Len(down) \in 1 .. Len(up) /\ Len(down) + (i - Len(down)) = i
          BY <3>3, <4>2
        <5>2. pipeline[Len(down) + (i - Len(down))] = up[i - Len(down)]
          BY <3>1, <5>1 DEF Joined
        <5>. QED  BY <3>2, <3>3, <4>2, <5>1, <5>2
      <4>. QED  BY <4>1, <4>2
    <3>5. pipeline = down \o up
      BY <3>1, <3>2, <3>3, <3>4, SeqEqual
    <3>. QED  BY <2>1, <3>5 DEF AnswersMatchPipeline
  <2>2. CASE ~(state = "Open" /\ handshake = "complete")
    BY <2>2 DEF PipelineInv, ChannelInv, AnswersMatchPipeline
  <2>. QED  BY <2>1, <2>2
<1>. QED  BY <1>1, PipelineAlways, PTL

(* A write is queued for, and sent with the token of, the user who was     *)
(* signed in when it was made.                                             *)
THEOREM CredentialsStayOwn == Spec => []OwnCredentials
<1>1. PipelineInv => OwnCredentials
  <2>. SUFFICES ASSUME PipelineInv PROVE OwnCredentials
    OBVIOUS
  <2>1. user \in Users /\ up \in Seq(Batch) /\ down \in Seq(Batch)
        /\ pipeline \in Seq(Batch) /\ \A u \in Users : batches[u] \in Seq(Batch)
    BY DEF PipelineInv, TypeOK
  <2>2. \A u \in Users : \A i \in 1 .. Len(batches[u]) : batches[u][i].user = u
    BY QueueFacts
  <2>3. ASSUME NEW i \in 1 .. Len(up) PROVE up[i].user = caller
    <3>1. state = "Open" /\ handshake = "complete" /\ Joined(pipeline, down, up) /\ caller = user
      BY <2>1, <2>3 DEF PipelineInv, ChannelInv, StreamInv
    <3>2. Prefix(pipeline, batches[user])
      BY DEF PipelineInv, PrefixInv
    <3>3. /\ Len(down) + i \in 1 .. Len(pipeline) /\ up[i] = pipeline[Len(down) + i]
      BY <2>1, <2>3, <3>1 DEF Joined
    <3>4. /\ Len(down) + i \in 1 .. Len(batches[user]) /\ up[i] = batches[user][Len(down) + i]
      BY <2>1, <3>2, <3>3 DEF Prefix
    <3>. QED  BY <2>1, <2>2, <3>1, <3>4
  <2>4. state = "Open" => caller = user
    BY DEF PipelineInv, StreamInv
  <2>. QED  BY <2>1, <2>2, <2>3, <2>4 DEF OwnCredentials
<1>. QED  BY <1>1, PipelineAlways, PTL

(* The assertions of the stream and of the remote store hold.              *)
THEOREM AssertionsAlwaysHold == Spec => []AssertionsHold
<1>1. PipelineInv => AssertionsHold
  <2>. SUFFICES ASSUME PipelineInv PROVE AssertionsHold
    OBVIOUS
  <2>1. /\ tasks \in Seq(Task) /\ pipeline \in Seq(Batch) /\ down \in Seq(Batch)
        /\ up \in Seq(Batch) /\ batches[user] \in Seq(Batch)
    BY DEF PipelineInv, TypeOK
  <2>2. \A i \in DOMAIN tasks : tasks[i].type = "token" /\ tasks[i].fresh =>
          state = "Starting" /\ \A j \in DOMAIN tasks :
                                   tasks[j].type = "token" /\ tasks[j].fresh => i = j
    BY <2>1 DEF PipelineInv, TasksInv, IsFreshToken
  <2>3. ASSUME down # <<>> PROVE pipeline # <<>>
    <3>1. Joined(pipeline, down, up)
      BY <2>3 DEF PipelineInv, ChannelInv
    <3>. QED  BY <2>1, <2>3, <3>1, JoinedTail
  <2>4. idle => state = "Open" /\ pipeline = <<>>
    BY DEF PipelineInv, StreamInv
  <2>5. ASSUME pipeline # <<>> PROVE \E i \in DOMAIN batches[user] : batches[user][i] = pipeline[1]
    <3>1. 1 \in 1 .. Len(pipeline) /\ Prefix(pipeline, batches[user])
      BY <2>1, <2>5 DEF PipelineInv, PrefixInv
    <3>2. 1 \in DOMAIN batches[user] /\ batches[user][1] = pipeline[1]
      BY <2>1, <3>1 DEF Prefix
    <3>. QED  BY <3>2
  <2>. QED  BY <2>2, <2>3, <2>4, <2>5 DEF AssertionsHold
<1>. QED  BY <1>1, PipelineAlways, PTL

(* What is reported as done was done, and a user's writes are applied in   *)
(* the order they were made.                                               *)
THEOREM OrderAlwaysKept == Spec => []InOrder
<1>1. PipelineInv => InOrder
  <2>1. ASSUME PipelineInv PROVE \A u \in Users : DOMAIN batches[u] = 1 .. Len(batches[u])
    BY <2>1, QueueFacts
  <2>. QED  BY <2>1 DEF PipelineInv, OrderInv, InOrder
<1>. QED  BY <1>1, PipelineAlways, PTL

-----------------------------------------------------------------------------
(* The refinement *)

LEMMA DeliveryStep == PipelineInv /\ [Next]_vars => [D!Next]_(D!vars)
<1>. SUFFICES ASSUME PipelineInv, [Next]_vars PROVE [D!Next]_(D!vars)
  OBVIOUS
<1>. USE DEF clientVars, channelVars, counters, backendVars, reports
<1>1. user \in Users /\ batches \in [Users -> Seq(Batch)] /\ authUser \in Users
  BY DEF PipelineInv, TypeOK
<1>2. ASSUME UNCHANGED <<batches, user, down, applied, content, accepted, rejected>>
      PROVE  [D!Next]_(D!vars)
  BY <1>2 DEF D!vars
<1>3. ASSUME user' \in Users, down' = <<>>,
             UNCHANGED <<batches, applied, content, accepted, rejected>>
      PROVE  [D!Next]_(D!vars)
  <2>1. D!Rewind(user')
    BY <1>3 DEF D!Rewind
  <2>. QED  BY <1>3, <2>1 DEF D!Next
<1>4. CASE AppWrites \/ TokenAnswered \/ TokenAskedAgain \/ \E u \in Users : AuthChanges(u)
  BY <1>2, <1>4 DEF AppWrites, TokenAnswered, TokenAskedAgain, AuthChanges
<1>5. CASE TaskWrite
  <2>. DEFINE b == [id |-> written + 1, user |-> Head(tasks).user]
  <2>1. /\ batches' = [batches EXCEPT ![user] = Append(batches[user], b)]
        /\ UNCHANGED <<user, down, applied, content, accepted, rejected>>
    BY <1>5 DEF TaskWrite
  <2>. HIDE DEF b
  <2>2. /\ batches'[user] = Append(batches[user], b)
        /\ batches'[user] # <<>> /\ batches'[user][Len(batches'[user])] = b
    BY <1>1, <2>1
  <2>3. D!Enqueue
    BY <1>1, <2>1, <2>2 DEF D!Enqueue
  <2>. QED  BY <2>3 DEF D!Next
<1>6. CASE TaskUser
  <2>1. Head(tasks).user \in Users
    BY <1>6, TakenFacts DEF TaskUser, Takes
  <2>. QED  BY <1>3, <1>6, <2>1 DEF TaskUser
<1>7. CASE TaskToken \/ TaskTokenIgnored \/ BackoffElapses \/ BackendShakesHands
           \/ BackendRefuses \/ ReadHandshake
  BY <1>2, <1>7 DEF TaskToken, TaskTokenIgnored, BackoffElapses, BackendShakesHands,
                    BackendRefuses, ReadHandshake
<1>8. CASE TaskTokenFails \/ StreamFails \/ HandshakeRefused \/ IdleTimeout \/ Restart
  BY <1>1, <1>3, <1>8 DEF TaskTokenFails, StreamFails, HandshakeRefused, IdleTimeout, Restart,
                          CloseAndRestart
<1>9. CASE BackendCommits
  <2>1. /\ state = "Open" /\ up # <<>>
        /\ applied' = applied \cup {Head(up)} /\ content' = Head(up)
        /\ down' = Append(down, Head(up))
        /\ UNCHANGED <<batches, user, accepted, rejected>>
    BY <1>9 DEF BackendCommits, Serving
  <2>2. /\ Len(down) \in Nat /\ Len(down) + 1 \in 1 .. Len(batches[user])
        /\ Head(up) = batches[user][Len(down) + 1]
    BY <2>1, CommitFacts
  <2>3. Len(down') = Len(down) + 1 /\ Len(down) < Len(batches[user])
    <3>1. down \in Seq(Batch) /\ batches[user] \in Seq(Batch)
      BY <1>1 DEF PipelineInv, TypeOK
    <3>. QED  BY <2>1, <2>2, <3>1
  <2>4. D!Apply
    BY <2>1, <2>2, <2>3 DEF D!Apply
  <2>. QED  BY <2>4 DEF D!Next
<1>10. ASSUME pipeline # <<>>,
              batches' = [batches EXCEPT ![user] = Removed(batches[user], Head(pipeline))]
       PROVE  /\ batches' = [batches EXCEPT ![user] = Tail(batches[user])]
              /\ Head(pipeline) = Head(batches[user]) /\ batches[user] # <<>>
  BY <1>10, PopFacts
<1>11. CASE ReadResult
  <2>1. /\ down # <<>> /\ down' = Tail(down)
        /\ accepted' = accepted \cup {Head(pipeline)}
        /\ batches' = [batches EXCEPT ![user] = Removed(batches[user], Head(pipeline))]
        /\ UNCHANGED <<user, applied, content, rejected>>
    BY <1>11 DEF ReadResult
  <2>2. down \in Seq(Batch) /\ up \in Seq(Batch) /\ pipeline \in Seq(Batch)
    BY DEF PipelineInv, TypeOK
  <2>3. Joined(pipeline, down, up)
    BY <2>1 DEF PipelineInv, ChannelInv
  <2>4. pipeline # <<>>
    BY <2>1, <2>2, <2>3, JoinedTail
  <2>5. Len(down) > 0 /\ Len(Tail(down)) = Len(down) - 1
    BY <2>1, <2>2
  <2>6. D!Accept
    BY <1>10, <2>1, <2>4, <2>5 DEF D!Accept
  <2>. QED  BY <2>6 DEF D!Next
<1>12. CASE WriteRefused
  <2>1. /\ state = "Open" /\ refusing /\ handshake = "complete" /\ down' = <<>>
        /\ rejected' = rejected \cup {Head(pipeline)}
        /\ batches' = [batches EXCEPT ![user] = Removed(batches[user], Head(pipeline))]
        /\ UNCHANGED <<user, applied, content, accepted>>
    BY <1>12 DEF WriteRefused, RefusalArrives
  <2>2. up # <<>> /\ up \in Seq(Batch) /\ down \in Seq(Batch) /\ pipeline \in Seq(Batch)
    BY <2>1 DEF PipelineInv, TypeOK, StreamInv
  <2>3. Joined(pipeline, down, up)
    BY <2>1 DEF PipelineInv, ChannelInv
  <2>4. pipeline # <<>>
    <3>1. Len(down) + 1 \in 1 .. Len(pipeline) /\ Len(down) \in Nat
      BY <2>2, <2>3, JoinedMove
    <3>. QED  BY <3>1
  <2>5. D!Reject
    BY <1>10, <2>1, <2>4 DEF D!Reject
  <2>. QED  BY <2>5 DEF D!Next
<1>13. CASE UNCHANGED vars
  BY <1>2, <1>13 DEF vars
<1>. QED  BY <1>4, <1>5, <1>6, <1>7, <1>8, <1>9, <1>11, <1>12, <1>13
          DEF Next, WorkerTask, StreamRead

(* The pipeline, its stream and the worker queue deliver the queues as     *)
(* WriteDelivery does: one write after the other, each at least once,      *)
(* from the first again whenever the stream is replaced.                   *)
THEOREM DeliveryImplemented == Spec => Delivery
<1>1. Init => D!Init
  <2>. SUFFICES ASSUME Init PROVE D!Init
    OBVIOUS
  <2>. QED  BY DEF Init, D!Init
<1>. QED  BY <1>1, PipelineAlways, DeliveryStep, PTL DEF Spec, Delivery, D!Spec
=============================================================================
