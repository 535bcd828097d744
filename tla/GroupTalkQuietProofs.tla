------------------------- MODULE GroupTalkQuietProofs -------------------------
(***************************************************************************)
(* What the array of groups shows once its device is quiet, for any        *)
(* devices, groups, messages and faults.  The array is filled by answers   *)
(* that may be stale when they are delivered; the proofs follow every      *)
(* record from the moment it is read to the moment it is shown, and find   *)
(* the event or the read that is still to correct it.                      *)
(***************************************************************************)
EXTENDS GroupTalkProofs

-----------------------------------------------------------------------------
(* The inductive invariant behind ListenedGroupsCurrent *)

(* A record is what the client holds, if its group is listened to.         *)
Current(d, g) ==
    (g.taskId \in WatchedDocs(d) /\ View(d)[g.taskId] # Absent)
        => g = View(d)[g.taskId]

(* A listener of the document has an event to be raised, which will start  *)
(* a Detail's read.                                                        *)
EventDue(d, id) == \E l \in dirty[d] : l.doc = id

(* A Detail's read is outstanding, or its answer waits behind position j   *)
(* of the answers: the array will be replaced as a whole.                  *)
RefillDue(d, j) ==
    \/ \E i \in DOMAIN gets[d] : gets[d][i].screen = "detail"
    \/ \E k \in DOMAIN results[d] : k > j /\ results[d][k].ctx.screen = "detail"

(* The record at position j of what is under way to the array (0 is the    *)
(* array itself) is current, or what corrects it comes after it.           *)
Followed(d, g, j) == Current(d, g) \/ EventDue(d, g.taskId) \/ RefillDue(d, j)

DeviceFollows(d) ==
    /\ dirty[d] \subseteq watched[d]
    /\ \A l \in watched[d] : l.ctx.screen = "detail"
    /\ \A i \in DOMAIN groups[d] : Followed(d, groups[d][i], 0)
    /\ \A j \in DOMAIN results[d] : \A i \in DOMAIN results[d][j].docs :
          Followed(d, results[d][j].docs[i], j)

FollowsInv == \A d \in Devices : DeviceFollows(d)

(* The listeners know of every change of the view.                         *)
Told(d) ==
    /\ dirty[d] \subseteq dirty'[d]
    /\ \A l \in watched[d] : View(d)'[l.doc] # View(d)[l.doc] => l \in dirty'[d]

(* New listeners are a Detail's, with their initial event due.             *)
Listening(d) ==
    /\ watched[d] \subseteq watched'[d]
    /\ dirty'[d] \subseteq watched'[d]
    /\ \A l \in watched'[d] \ watched[d] : l \in dirty'[d] /\ l.ctx.screen = "detail"

-----------------------------------------------------------------------------
(* What steps do to a record that is followed *)

(* A record stays followed by a step that tells of the view's changes.     *)
LEMMA FollowedStays ==
    ASSUME NEW d, NEW g, NEW j, NEW k, Followed(d, g, j), Told(d), Listening(d),
           RefillDue(d, j) => RefillDue(d, k)'
    PROVE  Followed(d, g, k)'
<1>1. CASE EventDue(d, g.taskId)
  <2>1. EventDue(d, g.taskId)'
    BY <1>1 DEF EventDue, Told
  <2>. QED  BY <2>1 DEF Followed
<1>2. CASE RefillDue(d, j)
  BY <1>2 DEF Followed
<1>3. CASE Current(d, g)
  <2>. SUFFICES ASSUME ~EventDue(d, g.taskId)' PROVE Current(d, g)'
    BY DEF Followed
  <2>. SUFFICES ASSUME NEW l \in watched'[d], l.doc = g.taskId,
                       View(d)'[g.taskId] # Absent
                PROVE  g = View(d)'[g.taskId]
    BY DEF Current, WatchedDocs
  <2>1. l \notin dirty'[d]
    BY DEF EventDue
  <2>2. l \in watched[d]
    BY <2>1 DEF Listening
  <2>3. View(d)'[g.taskId] = View(d)[g.taskId]
    BY <2>1, <2>2 DEF Told
  <2>. QED  BY <1>3, <2>2, <2>3 DEF Current, WatchedDocs
<1>. QED  BY <1>1, <1>2, <1>3 DEF Followed

(* Steps that deliver no answer, and start reads or none.                  *)
LEMMA KeepsFollowing ==
    ASSUME NEW d, DeviceFollows(d), Told(d), Listening(d),
           results'[d] = results[d],
           \A i \in DOMAIN gets[d] : i \in DOMAIN gets'[d] /\ gets'[d][i] = gets[d][i],
           \A i \in DOMAIN groups'[d] :
              \/ \E k \in DOMAIN groups[d] : groups'[d][i] = groups[d][k]
              \/ Followed(d, groups[d][i], 0)'
    PROVE  DeviceFollows(d)'
<1>1. ASSUME NEW j, RefillDue(d, j) PROVE RefillDue(d, j)'
  BY <1>1 DEF RefillDue
<1>2. ASSUME NEW i \in DOMAIN groups'[d] PROVE Followed(d, groups[d][i], 0)'
  <2>1. CASE \E k \in DOMAIN groups[d] : groups'[d][i] = groups[d][k]
    <3>1. PICK k \in DOMAIN groups[d] : groups'[d][i] = groups[d][k]
      BY <2>1
    <3>2. PICK g : g = groups[d][k]
      OBVIOUS
    <3>3. Followed(d, g, 0)
      BY <3>2 DEF DeviceFollows
    <3>4. Followed(d, g, 0)'
      BY <1>1, <3>3, FollowedStays
    <3>. QED  BY <3>1, <3>2, <3>4 DEF Followed, Current, EventDue
  <2>. QED  BY <1>2, <2>1
<1>3. ASSUME NEW j \in DOMAIN results'[d], NEW i \in DOMAIN results'[d][j].docs
      PROVE  Followed(d, results[d][j].docs[i], j)'
  <2>1. PICK g : g = results[d][j].docs[i]
    OBVIOUS
  <2>2. Followed(d, g, j)
    BY <1>3, <2>1 DEF DeviceFollows
  <2>3. Followed(d, g, j)'
    BY <1>1, <2>2, FollowedStays
  <2>. QED  BY <2>1, <2>3 DEF Followed, Current, EventDue
<1>4. dirty'[d] \subseteq watched'[d] /\ \A l \in watched'[d] : l.ctx.screen = "detail"
  BY DEF Listening, DeviceFollows
<1>. QED  BY <1>2, <1>3, <1>4 DEF DeviceFollows

(* A device nothing happens on.                                            *)
LEMMA OthersFollow ==
    ASSUME NEW e, DeviceFollows(e),
           cache'[e] = cache[e], queue'[e] = queue[e], watched'[e] = watched[e],
           dirty'[e] = dirty[e], gets'[e] = gets[e], results'[e] = results[e],
           groups'[e] = groups[e]
    PROVE  DeviceFollows(e)'
<1>1. View(e)' = View(e)
  BY DEF View
<1>2. Told(e) /\ Listening(e)
  BY <1>1 DEF Told, Listening, DeviceFollows
<1>. QED  BY <1>2, KeepsFollowing

-----------------------------------------------------------------------------
(* Types and views of one device, as the steps need them *)

LEMMA DeviceTypes ==
    ASSUME TypeOK, NEW d \in Devices
    PROVE  /\ cache[d] \in Docs(Group) /\ queue[d] \in Seq(Mutations(Group))
           /\ gets[d] \in Seq(Ctx) /\ results[d] \in Seq(Answers(Group, Ctx))
           /\ groups[d] \in Seq(Group) /\ View(d) \in Docs(Group)
<1>1. /\ cache[d] \in Docs(Group) /\ queue[d] \in Seq(Mutations(Group))
      /\ gets[d] \in Seq(Ctx) /\ results[d] \in Seq(Answers(Group, Ctx))
      /\ groups[d] \in Seq(Group)
  BY DEF TypeOK, StoreTypeOK, UiTypeOK, Docs
<1>. QED  BY <1>1, OverlayType DEF View

(* The view is changed by what tells the listeners.                        *)
LEMMA ApplyTells ==
    ASSUME TypeOK, NEW d \in Devices, NEW c, NEW q, Apply(d, c, q), watched' = watched,
           DeviceFollows(d)
    PROVE  View(d)' = Overlay(c, q) /\ Told(d) /\ Listening(d)
<1>1. cache'[d] = c /\ queue'[d] = q
  BY DEF Apply, TypeOK, StoreTypeOK
<1>2. View(d)' = Overlay(c, q)
  BY <1>1 DEF View
<1>3. dirty'[d] = dirty[d] \cup Touched(d, c, q)
  BY DEF Apply, TypeOK, StoreTypeOK
<1>. QED  BY <1>2, <1>3 DEF Told, Listening, Touched, DeviceFollows

(* The records of the view are under their own ids, so a record of an      *)
(* answer is what the view holds for its group.                            *)
LEMMA AnswerIsCurrent ==
    ASSUME NEW c \in Docs(Group), NEW q \in Seq(Mutations(Group)),
           \A id \in DocIds : UnderOwnId(c[id], id),
           \A i \in DOMAIN q : UnderOwnId(q[i].val, q[i].doc),
           NEW s \in Listings(Overlay(c, q)), NEW i \in DOMAIN Contents(Overlay(c, q), s)
    PROVE  LET g == Contents(Overlay(c, q), s)[i]
           IN  g = Overlay(c, q)[g.taskId] /\ g.taskId \in DocIds
<1>. DEFINE w == Overlay(c, q)
<1>1. \A id \in DocIds : UnderOwnId(w[id], id)
  BY OverlayOrigin
<1>. HIDE DEF w
<1>2. i \in DOMAIN s /\ Contents(w, s)[i] = w[s[i]]
  BY DEF Contents, w
<1>3. s[i] \in DocIds /\ w[s[i]] # Absent
  BY <1>2 DEF Listings, Existing, w
<1>4. w[s[i]].taskId = s[i]
  BY <1>1, <1>3 DEF UnderOwnId
<1>. QED  BY <1>2, <1>3, <1>4 DEF w

-----------------------------------------------------------------------------
(* The steps of the client *)

(* A read is answered: what is under way to the array gets one more entry, *)
(* current in the view there is then.                                      *)
LEMMA AnsweredFollows ==
    ASSUME TypeOK, NEW d \in Devices, DeviceFollows(d), Told(d), Listening(d),
           gets[d] # <<>>, gets'[d] = Tail(gets[d]), groups'[d] = groups[d],
           NEW res, res.ctx = Head(gets[d]), results'[d] = Append(results[d], res),
           \A i \in DOMAIN res.docs : res.docs[i] = View(d)'[res.docs[i].taskId]
    PROVE  DeviceFollows(d)'
<1>. DEFINE n == Len(results[d])
<1>0. /\ n \in Nat /\ DOMAIN results[d] = 1 .. n
      /\ DOMAIN results'[d] = 1 .. n + 1
      /\ \A j \in 1 .. n : results'[d][j] = results[d][j]
      /\ results'[d][n + 1] = res
  BY DeviceTypes
<1>. HIDE DEF n
<1>1. \A i \in DOMAIN gets[d] :
          \/ gets[d][i] = res.ctx
          \/ i - 1 \in DOMAIN gets'[d] /\ gets'[d][i - 1] = gets[d][i]
  BY DeviceTypes
<1>2. ASSUME NEW j \in 0 .. n, RefillDue(d, j) PROVE RefillDue(d, j)'
  <2>1. CASE \E i \in DOMAIN gets[d] : gets[d][i].screen = "detail"
    <3>1. PICK i \in DOMAIN gets[d] : gets[d][i].screen = "detail"
      BY <2>1
    <3>2. CASE gets[d][i] = res.ctx
      BY <1>0, <3>1, <3>2 DEF RefillDue
    <3>3. CASE gets[d][i] # res.ctx
      BY <1>1, <3>1, <3>3 DEF RefillDue
    <3>. QED  BY <3>2, <3>3
  <2>2. CASE \E k \in DOMAIN results[d] : k > j /\ results[d][k].ctx.screen = "detail"
    BY <1>0, <2>2 DEF RefillDue
  <2>. QED  BY <1>2, <2>1, <2>2 DEF RefillDue
<1>3. ASSUME NEW i \in DOMAIN groups'[d] PROVE Followed(d, groups[d][i], 0)'
  <2>1. PICK g : g = groups[d][i]
    OBVIOUS
  <2>2. Followed(d, g, 0)
    BY <1>3, <2>1 DEF DeviceFollows
  <2>3. Followed(d, g, 0)'
    BY <1>0, <1>2, <2>2, FollowedStays
  <2>. QED  BY <2>1, <2>3 DEF Followed, Current, EventDue
<1>4. ASSUME NEW j \in DOMAIN results'[d], NEW i \in DOMAIN results'[d][j].docs
      PROVE  Followed(d, results[d][j].docs[i], j)'
  <2>1. CASE j \in 1 .. n
    <3>1. PICK g : g = results[d][j].docs[i]
      OBVIOUS
    <3>2. Followed(d, g, j)
      BY <1>0, <1>4, <2>1, <3>1 DEF DeviceFollows
    <3>3. Followed(d, g, j)'
      BY <1>2, <2>1, <3>2, FollowedStays
    <3>. QED  BY <1>0, <2>1, <3>1, <3>3 DEF Followed, Current, EventDue
  <2>2. CASE j = n + 1
    BY <1>0, <1>4, <2>2 DEF Followed, Current
  <2>. QED  BY <1>0, <1>4, <2>1, <2>2
<1>5. dirty'[d] \subseteq watched'[d] /\ \A l \in watched'[d] : l.ctx.screen = "detail"
  BY DEF Listening, DeviceFollows
<1>. QED  BY <1>3, <1>4, <1>5 DEF DeviceFollows

(* Each step keeps the records of its device followed.                     *)
LEMMA SdkFollows ==
    ASSUME TypeOK, RecordsUnderOwnId, NEW d \in Devices, DeviceFollows(d), Sdk(d)
    PROVE  DeviceFollows(d)'
<1>0. groups' = groups /\ SdkStep(d)
  BY DEF Sdk, uiVars
<1>1. ASSUME NEW c, NEW q, Apply(d, c, q), UNCHANGED <<watched, gets, results>>
      PROVE  DeviceFollows(d)'
  BY <1>0, <1>1, ApplyTells, KeepsFollowing
<1>2. CASE Acknowledge(d) \/ Reject(d) \/ Watch(d)
  BY <1>1, <1>2 DEF Acknowledge, Reject, Watch
<1>3. CASE CommitUnacknowledged(d)
  BY <1>0, <1>3, OthersFollow DEF CommitUnacknowledged
<1>4. CASE AnswerFromServer(d)
  <2>. DEFINE w == Overlay(server, queue[d])
  <2>1. PICK s \in Listings(w) :
            results' = [results EXCEPT ![d] = Append(@,
                [ctx |-> Head(gets[d]), ok |-> TRUE, docs |-> Contents(w, s)])]
    BY <1>4 DEF AnswerFromServer
  <2>2. View(d)' = w /\ Told(d) /\ Listening(d)
    BY <1>4, ApplyTells DEF AnswerFromServer
  <2>3. \A i \in DOMAIN Contents(w, s) : Contents(w, s)[i] = w[Contents(w, s)[i].taskId]
    BY AnswerIsCurrent, DeviceTypes DEF RecordsUnderOwnId, TypeOK, StoreTypeOK, Docs
  <2>. HIDE DEF w
  <2>4. /\ gets[d] # <<>> /\ gets'[d] = Tail(gets[d])
        /\ results'[d] = Append(results[d],
                [ctx |-> Head(gets[d]), ok |-> TRUE, docs |-> Contents(w, s)])
    BY <1>4, <2>1 DEF AnswerFromServer, TypeOK, StoreTypeOK
  <2>. QED  BY <1>0, <2>2, <2>3, <2>4, AnsweredFollows
<1>5. CASE AnswerFromCache(d) \/ AnswerWithError(d)
  <2>1. /\ View(d)' = View(d) /\ gets[d] # <<>> /\ gets'[d] = Tail(gets[d])
        /\ dirty' = dirty /\ watched' = watched
    BY <1>5 DEF AnswerFromCache, AnswerWithError, View, TypeOK, StoreTypeOK
  <2>2. Told(d) /\ Listening(d)
    BY <2>1 DEF Told, Listening, DeviceFollows
  <2>3. CASE AnswerFromCache(d)
    <3>1. PICK s \in Listings(View(d)) :
              results' = [results EXCEPT ![d] = Append(@,
                  [ctx |-> Head(gets[d]), ok |-> TRUE, docs |-> Contents(View(d), s)])]
      BY <2>3 DEF AnswerFromCache
    <3>2. \A i \in DOMAIN Contents(View(d), s) :
              Contents(View(d), s)[i] = View(d)[Contents(View(d), s)[i].taskId]
      BY AnswerIsCurrent, DeviceTypes DEF RecordsUnderOwnId, View
    <3>3. results'[d] = Append(results[d],
              [ctx |-> Head(gets[d]), ok |-> TRUE, docs |-> Contents(View(d), s)])
      BY <3>1 DEF TypeOK, StoreTypeOK
    <3>. QED  BY <1>0, <2>1, <2>2, <3>2, <3>3, AnsweredFollows
  <2>4. CASE AnswerWithError(d)
    <3>1. results'[d] = Append(results[d],
              [ctx |-> Head(gets[d]), ok |-> FALSE, docs |-> <<>>])
      BY <2>4 DEF AnswerWithError, TypeOK, StoreTypeOK
    <3>. QED  BY <1>0, <2>1, <2>2, <3>1, AnsweredFollows
  <2>. QED  BY <1>5, <2>3, <2>4
<1>. QED  BY <1>0, <1>2, <1>3, <1>4, <1>5 DEF SdkStep, Answer

-----------------------------------------------------------------------------
(* The callbacks *)

(* The first answer is off the list: what was behind it is one place       *)
(* nearer, and so is what corrects it.                                     *)
LEMMA ResultsShift ==
    ASSUME TypeOK, NEW d \in Devices, results[d] # <<>>, results'[d] = Tail(results[d]),
           gets'[d] = gets[d], cache'[d] = cache[d], queue'[d] = queue[d],
           watched'[d] = watched[d], dirty'[d] = dirty[d], DeviceFollows(d),
           \A i \in DOMAIN groups'[d] : Followed(d, groups[d][i], 0)'
    PROVE  DeviceFollows(d)'
<1>. DEFINE n == Len(results[d])
<1>0. /\ n \in Nat \ {0} /\ DOMAIN results[d] = 1 .. n
      /\ DOMAIN results'[d] = 1 .. n - 1
      /\ \A j \in 1 .. n - 1 : results'[d][j] = results[d][j + 1]
  BY DeviceTypes
<1>. HIDE DEF n
<1>1. View(d)' = View(d)
  BY DEF View
<1>2. Told(d) /\ Listening(d)
  BY <1>1 DEF Told, Listening, DeviceFollows
<1>3. ASSUME NEW j \in 1 .. n - 1, RefillDue(d, j + 1) PROVE RefillDue(d, j)'
  <2>1. CASE \E k \in DOMAIN results[d] : k > j + 1 /\ results[d][k].ctx.screen = "detail"
    <3>1. PICK k \in 1 .. n : k > j + 1 /\ results[d][k].ctx.screen = "detail"
      BY <1>0, <2>1
    <3>2. k - 1 \in 1 .. n - 1 /\ k - 1 > j /\ (k - 1) + 1 = k
      BY <1>0, <3>1
    <3>3. results'[d][k - 1] = results[d][k]
      BY <1>0, <3>2
    <3>. QED  BY <1>0, <3>1, <3>2, <3>3 DEF RefillDue
  <2>. QED  BY <1>3, <2>1 DEF RefillDue
<1>4. ASSUME NEW j \in DOMAIN results'[d], NEW i \in DOMAIN results'[d][j].docs
      PROVE  Followed(d, results[d][j].docs[i], j)'
  <2>1. PICK g : g = results'[d][j].docs[i]
    OBVIOUS
  <2>2. j \in 1 .. n - 1 /\ j + 1 \in 1 .. n /\ results'[d][j] = results[d][j + 1]
    BY <1>0, <1>4
  <2>3. Followed(d, g, j + 1)
    BY <1>0, <1>4, <2>1, <2>2 DEF DeviceFollows
  <2>4. Followed(d, g, j)'
    BY <1>2, <1>3, <2>2, <2>3, FollowedStays
  <2>. QED  BY <2>1, <2>4 DEF Followed, Current, EventDue
<1>5. dirty'[d] \subseteq watched'[d] /\ \A l \in watched'[d] : l.ctx.screen = "detail"
  BY DEF DeviceFollows
<1>. QED  BY <1>4, <1>5 DEF DeviceFollows

(* A record that was followed in the first answer, or in the array when    *)
(* the first answer is not a Detail's, is followed in the array.           *)
LEMMA ShiftFollowed ==
    ASSUME TypeOK, NEW d \in Devices, results[d] # <<>>, results'[d] = Tail(results[d]),
           gets'[d] = gets[d], cache'[d] = cache[d], queue'[d] = queue[d],
           watched'[d] = watched[d], dirty'[d] = dirty[d], DeviceFollows(d), NEW g,
           \/ Followed(d, g, 1)
           \/ Followed(d, g, 0) /\ Head(results[d]).ctx.screen # "detail"
    PROVE  Followed(d, g, 0)'
<1>. DEFINE n == Len(results[d])
<1>0. /\ n \in Nat \ {0} /\ DOMAIN results[d] = 1 .. n
      /\ DOMAIN results'[d] = 1 .. n - 1 /\ Head(results[d]) = results[d][1]
      /\ \A j \in 1 .. n - 1 : results'[d][j] = results[d][j + 1]
  BY DeviceTypes
<1>. HIDE DEF n
<1>1. View(d)' = View(d)
  BY DEF View
<1>2. Told(d) /\ Listening(d)
  BY <1>1 DEF Told, Listening, DeviceFollows
<1>3. ASSUME NEW j \in {0, 1}, j = 1 \/ Head(results[d]).ctx.screen # "detail",
             RefillDue(d, j)
      PROVE  RefillDue(d, 0)'
  <2>1. CASE \E k \in DOMAIN results[d] : k > j /\ results[d][k].ctx.screen = "detail"
    <3>1. PICK k \in 1 .. n : k > j /\ results[d][k].ctx.screen = "detail"
      BY <1>0, <2>1
    <3>2. k # 1
      BY <1>0, <1>3, <3>1
    <3>3. k - 1 \in 1 .. n - 1 /\ k - 1 > 0 /\ (k - 1) + 1 = k
      BY <1>0, <3>1, <3>2
    <3>4. results'[d][k - 1] = results[d][k]
      BY <1>0, <3>3
    <3>. QED  BY <1>0, <3>1, <3>3, <3>4 DEF RefillDue
  <2>. QED  BY <1>3, <2>1 DEF RefillDue
<1>. QED  BY <1>2, <1>3, FollowedStays

LEMMA ConcatenationEntries ==
    ASSUME NEW S, NEW s \in Seq(S), NEW t \in Seq(S), NEW i \in DOMAIN (s \o t)
    PROVE  \/ \E k \in DOMAIN s : (s \o t)[i] = s[k]
           \/ \E k \in DOMAIN t : (s \o t)[i] = t[k]
<1>1. i \in 1 .. Len(s) + Len(t) /\ Len(s) \in Nat /\ Len(t) \in Nat
  OBVIOUS
<1>2. CASE i <= Len(s)
  <2>1. i \in DOMAIN s /\ (s \o t)[i] = s[i]
    BY <1>1, <1>2
  <2>. QED  BY <2>1
<1>3. CASE i > Len(s)
  <2>1. i - Len(s) \in DOMAIN t /\ (s \o t)[i] = t[i - Len(s)]
    BY <1>1, <1>3
  <2>. QED  BY <2>1
<1>. QED  BY <1>1, <1>2, <1>3

LEMMA DropFollows ==
    ASSUME TypeOK, NEW d \in Devices, NEW why, EndProcess(d, why)
    PROVE  DeviceFollows(d)'
<1>1. /\ groups'[d] = <<>> /\ results'[d] = <<>> /\ watched'[d] = {} /\ dirty'[d] = {}
  BY DEF EndProcess, DropCallbacks, Set, TypeOK, StoreTypeOK, UiTypeOK
<1>. QED  BY <1>1 DEF DeviceFollows

LEMMA CallbackFollows ==
    ASSUME TypeOK, NEW d \in Devices, DeviceFollows(d), Callback(d)
    PROVE  DeviceFollows(d)'
<1>. DEFINE res == Head(results[d])
<1>0. results[d] # <<>> => 1 \in DOMAIN results[d] /\ res = results[d][1]
                           /\ res.docs \in Seq(Group)
  <2>1. results[d] # <<>> => 1 \in DOMAIN results[d] /\ res = results[d][1]
                             /\ results[d][1] \in Answers(Group, Ctx)
    BY DeviceTypes
  <2>. QED  BY <2>1 DEF Answers
<1>1. CASE DeliverAppend(d)
  <2>1. /\ results[d] # <<>> /\ results'[d] = Tail(results[d])
        /\ groups'[d] = groups[d] \o res.docs /\ res.ctx.screen # "detail"
        /\ UNCHANGED <<cache, queue, watched, dirty, gets>>
    BY <1>1 DEF DeliverAppend, TypeOK, StoreTypeOK, UiTypeOK
  <2>. HIDE DEF res
  <2>2. ASSUME NEW i \in DOMAIN groups'[d] PROVE Followed(d, groups[d][i], 0)'
    <3>1. PICK g : g = groups'[d][i]
      OBVIOUS
    <3>2. \/ \E k \in DOMAIN groups[d] : g = groups[d][k]
          \/ \E k \in DOMAIN res.docs : g = res.docs[k]
      <4>1. groups[d] \in Seq(Group) /\ res.docs \in Seq(Group)
        BY <1>0, <2>1, DeviceTypes
      <4>2. PICK s \in Seq(Group), u \in Seq(Group) : s = groups[d] /\ u = res.docs
        BY <4>1
      <4>3. i \in DOMAIN (s \o u) /\ g = (s \o u)[i]
        BY <2>1, <2>2, <3>1, <4>2
      <4>4. \/ \E k \in DOMAIN s : (s \o u)[i] = s[k]
            \/ \E k \in DOMAIN u : (s \o u)[i] = u[k]
        BY <4>3, ConcatenationEntries
      <4>. QED  BY <4>2, <4>3, <4>4
    <3>3. Followed(d, g, 0) \/ Followed(d, g, 1)
      BY <1>0, <2>1, <3>2 DEF DeviceFollows
    <3>4. Followed(d, g, 0)'
      BY <2>1, <3>3, ShiftFollowed DEF res
    <3>. QED  BY <3>1, <3>4 DEF Followed, Current, EventDue
  <2>. QED  BY <2>1, <2>2, ResultsShift
<1>2. CASE DeliverReplace(d) /\ ~Trap(d)
  <2>1. /\ results[d] # <<>> /\ results'[d] = Tail(results[d])
        /\ groups'[d] = res.docs
        /\ UNCHANGED <<cache, queue, watched, dirty, gets>>
    BY <1>2 DEF DeliverReplace, Refilled, Set, TypeOK, StoreTypeOK, UiTypeOK
  <2>. HIDE DEF res
  <2>2. ASSUME NEW i \in DOMAIN groups'[d] PROVE Followed(d, groups[d][i], 0)'
    <3>1. PICK g : g = groups'[d][i]
      OBVIOUS
    <3>2. Followed(d, g, 1)
      BY <1>0, <2>1, <2>2, <3>1 DEF DeviceFollows
    <3>3. Followed(d, g, 0)'
      BY <2>1, <3>2, ShiftFollowed
    <3>. QED  BY <3>1, <3>3 DEF Followed, Current, EventDue
  <2>. QED  BY <2>1, <2>2, ResultsShift
<1>3. CASE Trap(d)
  BY <1>3, DropFollows DEF Trap
<1>4. ASSUME NEW l \in dirty[d], OnEvent(d, l) PROVE DeviceFollows(d)'
  <2>1. /\ dirty'[d] = dirty[d] \ {l} /\ watched' = watched
        /\ results' = results /\ groups' = groups /\ View(d)' = View(d)
    BY <1>4 DEF OnEvent, uiVars, View, TypeOK, StoreTypeOK
  <2>2. dirty'[d] \subseteq watched'[d] /\ \A m \in watched'[d] : m.ctx.screen = "detail"
    BY <2>1 DEF DeviceFollows
  <2>3. ASSUME NEW g, NEW j, Followed(d, g, j) PROVE Followed(d, g, j)'
    <3>1. CASE View(d)[l.doc] # Absent
      <4>1. gets'[d] = Append(gets[d], l.ctx) /\ l.ctx.screen = "detail"
        BY <1>4, <3>1 DEF OnEvent, RequestGet, DeviceFollows, TypeOK, StoreTypeOK
      <4>2. RefillDue(d, j)'
        <5>1. Len(gets[d]) + 1 \in DOMAIN gets'[d]
              /\ gets'[d][Len(gets[d]) + 1].screen = "detail"
          BY <4>1, DeviceTypes
        <5>. QED  BY <5>1 DEF RefillDue
      <4>. QED  BY <4>2 DEF Followed
    <3>2. CASE View(d)[l.doc] = Absent
      <4>1. gets' = gets
        BY <1>4, <3>2 DEF OnEvent
      <4>2. CASE g.taskId = l.doc
        BY <2>1, <3>2, <4>2 DEF Followed, Current
      <4>3. CASE g.taskId # l.doc
        <5>1. EventDue(d, g.taskId) => EventDue(d, g.taskId)'
          BY <2>1, <4>3 DEF EventDue
        <5>2. RefillDue(d, j) => RefillDue(d, j)'
          BY <2>1, <4>1 DEF RefillDue
        <5>3. Current(d, g) => Current(d, g)'
          BY <2>1 DEF Current, WatchedDocs
        <5>. QED  BY <2>3, <5>1, <5>2, <5>3 DEF Followed
      <4>. QED  BY <4>2, <4>3
    <3>. QED  BY <3>1, <3>2
  <2>4. ASSUME NEW i \in DOMAIN groups'[d] PROVE Followed(d, groups[d][i], 0)'
    <3>1. PICK g : g = groups[d][i]
      OBVIOUS
    <3>2. Followed(d, g, 0)'
      BY <2>1, <2>3, <2>4, <3>1 DEF DeviceFollows
    <3>. QED  BY <2>1, <3>1, <3>2 DEF Followed, Current, EventDue
  <2>5. ASSUME NEW j \in DOMAIN results'[d], NEW i \in DOMAIN results'[d][j].docs
        PROVE  Followed(d, results[d][j].docs[i], j)'
    <3>1. PICK g : g = results[d][j].docs[i]
      OBVIOUS
    <3>2. Followed(d, g, j)'
      BY <2>1, <2>3, <2>5, <3>1 DEF DeviceFollows
    <3>. QED  BY <2>1, <3>1, <3>2 DEF Followed, Current, EventDue
  <2>. QED  BY <2>2, <2>4, <2>5 DEF DeviceFollows
<1>. QED  BY <1>1, <1>2, <1>3, <1>4 DEF Callback

-----------------------------------------------------------------------------
(* The handlers of the screens *)

(* A mutation queued behind the others is what the view shows of its       *)
(* document, and all that changes in the view.                             *)
LEMMA AppendedOverlay ==
    ASSUME NEW M, NEW c, NEW q \in Seq(M), NEW m \in M, NEW id \in DocIds
    PROVE  /\ id = m.doc => Overlay(c, Append(q, m))[id] = m.val
           /\ id # m.doc => Overlay(c, Append(q, m))[id] = Overlay(c, q)[id]
<1>. DEFINE n == Len(q)
            p == Append(q, m)
<1>1. /\ n \in Nat /\ DOMAIN q = 1 .. n /\ DOMAIN p = 1 .. n + 1
      /\ \A i \in 1 .. n : p[i] = q[i]
      /\ p[n + 1] = m
  OBVIOUS
<1>. HIDE DEF n, p
<1>2. CASE id = m.doc
  <2>1. LastMutation(p, id) = {n + 1}
    <3>1. n + 1 \in LastMutation(p, id)
      BY <1>1, <1>2 DEF LastMutation
    <3>2. ASSUME NEW i \in LastMutation(p, id) PROVE i = n + 1
      <4>1. i \in 1 .. n + 1 /\ ~(n + 1 > i)
        BY <1>1, <1>2 DEF LastMutation
      <4>. QED  BY <1>1, <4>1
    <3>. QED  BY <3>1, <3>2
  <2>2. (CHOOSE i \in LastMutation(p, id) : TRUE) = n + 1
    BY <2>1
  <2>3. Overlay(c, p)[id] = p[n + 1].val
    BY <2>1, <2>2 DEF Overlay
  <2>. QED  BY <1>1, <1>2, <2>3 DEF p
<1>3. CASE id # m.doc
  <2>1. ASSUME NEW i PROVE i \in LastMutation(p, id) <=> i \in LastMutation(q, id)
    <3>1. i \in LastMutation(p, id) => i \in 1 .. n
      BY <1>1, <1>3 DEF LastMutation
    <3>2. ASSUME i \in 1 .. n
          PROVE  i \in LastMutation(p, id) <=> i \in LastMutation(q, id)
      BY <1>1, <1>3, <3>2 DEF LastMutation
    <3>3. i \in LastMutation(q, id) => i \in 1 .. n
      BY <1>1 DEF LastMutation
    <3>. QED  BY <3>1, <3>2, <3>3
  <2>2. LastMutation(p, id) = LastMutation(q, id)
    BY <2>1
  <2>3. CASE LastMutation(q, id) = {}
    BY <1>3, <2>2, <2>3 DEF Overlay, p
  <2>4. CASE LastMutation(q, id) # {}
    <3>. DEFINE k == CHOOSE i \in LastMutation(q, id) : TRUE
    <3>1. k \in 1 .. n
      BY <1>1, <2>4 DEF LastMutation
    <3>2. Overlay(c, p)[id] = p[k].val /\ Overlay(c, q)[id] = q[k].val
      BY <2>2, <2>4 DEF Overlay
    <3>. HIDE DEF k
    <3>. QED  BY <1>1, <1>3, <3>1, <3>2 DEF p
  <2>. QED  BY <2>3, <2>4
<1>. QED  BY <1>2, <1>3

(* Handlers that leave the client's documents alone, and empty the array   *)
(* or leave it alone too.                                                  *)
LEMMA NavigationFollows ==
    ASSUME TypeOK, NEW d \in Devices, DeviceFollows(d),
           Launch(d) \/ ShowGoTab(d) \/ ShowHomeTab(d) \/ Back(d)
    PROVE  DeviceFollows(d)'
<1>1. /\ View(d)' = View(d) /\ watched' = watched /\ dirty' = dirty
      /\ results' = results /\ (groups'[d] = groups[d] \/ groups'[d] = <<>>)
  BY DEF Launch, ShowGoTab, ShowHomeTab, Back, Restore, Set, storeVars, View,
         TypeOK, UiTypeOK
<1>2. gets'[d] = gets[d] \/ \E ctx : gets'[d] = Append(gets[d], ctx)
  BY DEF Launch, ShowGoTab, ShowHomeTab, Back, Restore, RequestGet, storeVars,
         TypeOK, StoreTypeOK
<1>3. \A i \in DOMAIN gets[d] : i \in DOMAIN gets'[d] /\ gets'[d][i] = gets[d][i]
  <2>1. gets[d] \in Seq(Ctx)
    BY DeviceTypes
  <2>2. ASSUME NEW ctx, NEW i \in DOMAIN gets[d]
        PROVE  i \in DOMAIN Append(gets[d], ctx) /\ Append(gets[d], ctx)[i] = gets[d][i]
    BY <2>1
  <2>. QED  BY <1>2, <2>2
<1>4. Told(d) /\ Listening(d)
  BY <1>1 DEF Told, Listening, DeviceFollows
<1>5. \A i \in DOMAIN groups'[d] : \E k \in DOMAIN groups[d] : groups'[d][i] = groups[d][k]
  BY <1>1
<1>. QED  BY <1>1, <1>3, <1>4, <1>5, KeepsFollowing

LEMMA DeleteFollows ==
    ASSUME TypeOK, NEW d \in Devices, DeviceFollows(d), NEW r, DeleteGroup(d, r)
    PROVE  DeviceFollows(d)'
<1>1. CASE Trap(d)
  BY <1>1, DropFollows DEF Trap
<1>2. CASE ~Trap(d)
  <2>1. /\ cache' = cache /\ watched' = watched /\ results' = results
        /\ dirty'[d] = dirty[d] \cup Touched(d, cache[d], queue'[d])
        /\ groups'[d] = <<>> /\ gets'[d] = Append(gets[d], ListCtx)
    BY <1>2 DEF DeleteGroup, Restore, RequestGet, Set, TypeOK, StoreTypeOK, UiTypeOK
  <2>2. Told(d) /\ Listening(d)
    BY <2>1 DEF Told, Listening, Touched, View, DeviceFollows
  <2>3. \A i \in DOMAIN gets[d] : i \in DOMAIN gets'[d] /\ gets'[d][i] = gets[d][i]
    BY <2>1, DeviceTypes
  <2>4. DOMAIN groups'[d] = {}
    BY <2>1
  <2>. QED  BY <2>1, <2>2, <2>3, <2>4, KeepsFollowing
<1>. QED  BY <1>1, <1>2

LEMMA OpenFollows ==
    ASSUME TypeOK, NEW d \in Devices, DeviceFollows(d), NEW r, OpenDetail(d, r)
    PROVE  DeviceFollows(d)'
<1>1. CASE Trap(d)
  BY <1>1, DropFollows DEF Trap
<1>2. CASE ~Trap(d)
  BY <1>2, OthersFollow DEF OpenDetail, storeVars
<1>. QED  BY <1>1, <1>2

(* A listener is added over a queue that may have grown.                   *)
LEMMA ListenTells ==
    ASSUME TypeOK, NEW d \in Devices, DeviceFollows(d), NEW id, NEW r,
           cache' = cache, Listen(d, id, DetailCtx(r))
    PROVE  Told(d) /\ Listening(d) /\ EventDue(d, id)'
<1>. DEFINE l == [doc |-> id, ctx |-> DetailCtx(r)]
<1>1. /\ watched'[d] = watched[d] \cup {l}
      /\ dirty'[d] = dirty[d] \cup {l} \cup Touched(d, cache[d], queue'[d])
  BY DEF Listen, TypeOK, StoreTypeOK
<1>2. l.doc = id /\ l.ctx.screen = "detail"
  BY DEF DetailCtx
<1>. HIDE DEF l
<1>3. Told(d)
  BY <1>1 DEF Told, Touched, View
<1>4. Listening(d)
  BY <1>1, <1>2 DEF Listening, Touched, DeviceFollows
<1>. QED  BY <1>1, <1>2, <1>3, <1>4 DEF EventDue

LEMMA AppearsFollows ==
    ASSUME TypeOK, NEW d \in Devices, DeviceFollows(d), DetailAppears(d)
    PROVE  DeviceFollows(d)'
<1>1. CASE Trap(d)
  BY <1>1, DropFollows DEF Trap
<1>2. CASE ~Trap(d)
  <2>1. /\ Listen(d, groups[d][row[d]].taskId, DetailCtx(row[d]))
        /\ UNCHANGED <<cache, gets, results, groups>>
    BY <1>2 DEF DetailAppears
  <2>2. Told(d) /\ Listening(d)
    BY <2>1, ListenTells
  <2>. QED  BY <2>1, <2>2, KeepsFollowing
<1>. QED  BY <1>1, <1>2

LEMMA CommitFollows ==
    ASSUME TypeOK, NEW d \in Devices, DeviceFollows(d), Commit(d)
    PROVE  DeviceFollows(d)'
<1>1. CASE Trap(d)
  BY <1>1, DropFollows DEF Trap
<1>2. CASE ~Trap(d)
  <2>0. PICK g : g = [groups[d][row[d]] EXCEPT !.talks = WithMessage(@, sent + 1)]
    OBVIOUS
  <2>1. /\ Listen(d, g.taskId, DetailCtx(row[d]))
        /\ groups' = [groups EXCEPT ![d][row[d]] = g]
        /\ UNCHANGED <<cache, gets, results>>
    BY <1>2, <2>0 DEF Commit
  <2>2. Told(d) /\ Listening(d) /\ EventDue(d, g.taskId)'
    BY <2>1, ListenTells
  <2>3. groups'[d] = [groups[d] EXCEPT ![row[d]] = g]
    BY <2>1 DEF TypeOK, UiTypeOK
  <2>4. ASSUME NEW i \in DOMAIN groups'[d]
        PROVE  \/ \E k \in DOMAIN groups[d] : groups'[d][i] = groups[d][k]
               \/ Followed(d, groups[d][i], 0)'
    <3>1. i \in DOMAIN groups[d] /\ (groups'[d][i] = groups[d][i] \/ groups'[d][i] = g)
      BY <2>3, <2>4
    <3>2. CASE groups'[d][i] = g
      BY <2>2, <3>2 DEF Followed, EventDue
    <3>. QED  BY <3>1, <3>2
  <2>. QED  BY <2>1, <2>2, <2>4, KeepsFollowing
<1>. QED  BY <1>1, <1>2

LEMMA CreateFollows ==
    ASSUME TypeOK, NEW d \in Devices, DeviceFollows(d), CreateGroup(d)
    PROVE  DeviceFollows(d)'
<1>1. PICK id \in DocIds \ created :
          /\ Write(d, id, [taskId |-> id, talks |-> <<>>])
          /\ groups' = [groups EXCEPT ![d] = Append(@, [taskId |-> id, talks |-> <<>>])]
  BY DEF CreateGroup
<1>. DEFINE g == [taskId |-> id, talks |-> <<>>]
            m == [doc |-> id, val |-> g]
<1>2. g \in Group /\ m \in Mutations(Group) /\ m.doc = id /\ m.val = g /\ g.taskId = id
  BY DEF Group, Mutations
<1>. HIDE DEF g, m
<1>3. /\ queue'[d] = Append(queue[d], m) /\ groups'[d] = Append(groups[d], g)
      /\ cache' = cache /\ watched' = watched /\ gets' = gets /\ results' = results
      /\ dirty'[d] = dirty[d] \cup Touched(d, cache[d], queue'[d])
  BY <1>1 DEF CreateGroup, Write, g, m, TypeOK, StoreTypeOK, UiTypeOK
<1>4. Told(d) /\ Listening(d)
  BY <1>3 DEF Told, Listening, Touched, View, DeviceFollows
<1>5. View(d)'[id] = g
  BY <1>2, <1>3, AppendedOverlay, DeviceTypes DEF View
<1>6. ASSUME NEW i \in DOMAIN groups'[d]
      PROVE  \/ \E k \in DOMAIN groups[d] : groups'[d][i] = groups[d][k]
             \/ Followed(d, groups[d][i], 0)'
  <2>1. \/ i \in DOMAIN groups[d] /\ groups'[d][i] = groups[d][i]
        \/ groups'[d][i] = g
    BY <1>2, <1>3, <1>6, DeviceTypes
  <2>2. CASE groups'[d][i] = g
    BY <1>2, <1>5, <2>2 DEF Followed, Current
  <2>. QED  BY <2>1, <2>2
<1>. QED  BY <1>3, <1>4, <1>6, KeepsFollowing

-----------------------------------------------------------------------------
(* The invariant *)

LEMMA FollowsInit == Init => FollowsInv
BY DEF Init, FollowsInv, DeviceFollows

(* A step of a device leaves what the others hold in memory and on disk.   *)
LEMMA OneDeviceSteps ==
    ASSUME NEW d \in Devices, NEW e \in Devices, e # d, TypeOK,
           Sdk(d) \/ Callback(d) \/ UserStep(d) \/ Launch(d) \/ Kill(d)
    PROVE  /\ cache'[e] = cache[e] /\ queue'[e] = queue[e] /\ watched'[e] = watched[e]
           /\ dirty'[e] = dirty[e] /\ gets'[e] = gets[e] /\ results'[e] = results[e]
           /\ groups'[e] = groups[e] /\ screen'[e] = screen[e] /\ status'[e] = status[e]
<1>. USE DEF TypeOK, StoreTypeOK, UiTypeOK, Set
<1>1. CASE Sdk(d)
  <2>1. groups'[e] = groups[e] /\ screen'[e] = screen[e] /\ status'[e] = status[e]
    BY <1>1 DEF Sdk, uiVars
  <2>2. CASE Acknowledge(d) \/ Reject(d) \/ CommitUnacknowledged(d) \/ Watch(d)
    BY <2>1, <2>2 DEF Acknowledge, Reject, CommitUnacknowledged, Watch, Apply
  <2>3. CASE Answer(d)
    BY <2>1, <2>3 DEF Answer, AnswerFromServer, AnswerFromCache, AnswerWithError, Apply
  <2>. QED  BY <1>1, <2>2, <2>3 DEF Sdk, SdkStep
<1>2. CASE Trap(d) \/ Kill(d) \/ Launch(d)
  BY <1>2 DEF Trap, Kill, Launch, EndProcess, DropCallbacks, RequestGet
<1>3. CASE DeliverAppend(d) \/ DeliverReplace(d)
  BY <1>2, <1>3 DEF DeliverAppend, DeliverReplace
<1>4. ASSUME NEW l \in dirty[d], OnEvent(d, l)
      PROVE  /\ cache'[e] = cache[e] /\ queue'[e] = queue[e] /\ watched'[e] = watched[e]
             /\ dirty'[e] = dirty[e] /\ gets'[e] = gets[e] /\ results'[e] = results[e]
             /\ groups'[e] = groups[e] /\ screen'[e] = screen[e] /\ status'[e] = status[e]
  BY <1>4 DEF OnEvent, uiVars, RequestGet
<1>5. CASE ShowGoTab(d) \/ ShowHomeTab(d) \/ Back(d)
  BY <1>5 DEF ShowGoTab, ShowHomeTab, Back, Restore, RequestGet, storeVars
<1>6. CASE DetailAppears(d) \/ Commit(d) \/ CreateGroup(d)
  BY <1>2, <1>6 DEF DetailAppears, Commit, CreateGroup, Save, Write, Listen
<1>7. CASE \E r \in DOMAIN rows[d] : DeleteGroup(d, r) \/ OpenDetail(d, r)
  BY <1>2, <1>7 DEF DeleteGroup, OpenDetail, Write, Restore, RequestGet, storeVars
<1>. QED  BY <1>1, <1>2, <1>3, <1>4, <1>5, <1>6, <1>7 DEF Callback, UserStep

LEMMA FollowsNext ==
    TypeOK /\ RecordsUnderOwnId /\ FollowsInv /\ [Next]_vars => FollowsInv'
<1>. SUFFICES ASSUME TypeOK, RecordsUnderOwnId, FollowsInv, [Next]_vars, NEW e \in Devices
              PROVE  DeviceFollows(e)'
  BY DEF FollowsInv
<1>0. DeviceFollows(e)
  BY DEF FollowsInv
<1>1. CASE UNCHANGED vars
  BY <1>0, <1>1, OthersFollow DEF vars, storeVars, uiVars
<1>2. ASSUME NEW d \in Devices,
             Sdk(d) \/ Callback(d) \/ UserStep(d) \/ Launch(d) \/ Kill(d)
      PROVE  DeviceFollows(e)'
  <2>1. CASE e # d
    BY <1>0, <1>2, <2>1, OneDeviceSteps, OthersFollow
  <2>2. CASE e = d
    <3>1. CASE Sdk(d)
      BY <1>0, <2>2, <3>1, SdkFollows
    <3>2. CASE Callback(d)
      BY <1>0, <2>2, <3>2, CallbackFollows
    <3>3. CASE Kill(d)
      BY <2>2, <3>3, DropFollows DEF Kill
    <3>4. CASE Launch(d) \/ ShowGoTab(d) \/ ShowHomeTab(d) \/ Back(d)
      BY <1>0, <2>2, <3>4, NavigationFollows
    <3>5. CASE DetailAppears(d) \/ Commit(d) \/ CreateGroup(d)
      BY <1>0, <2>2, <3>5, AppearsFollows, CommitFollows, CreateFollows
    <3>6. CASE \E r \in DOMAIN rows[d] : DeleteGroup(d, r) \/ OpenDetail(d, r)
      BY <1>0, <2>2, <3>6, DeleteFollows, OpenFollows
    <3>. QED  BY <1>2, <3>1, <3>2, <3>3, <3>4, <3>5, <3>6 DEF UserStep
  <2>. QED  BY <2>1, <2>2
<1>. QED  BY <1>1, <1>2 DEF Next

(* Wherever a record is under way to an array, or in it, it is current or  *)
(* what corrects it is behind it.                                          *)
THEOREM FollowsAlways == Spec => []FollowsInv
<1>. QED  BY FollowsInit, FollowsNext, TypeCorrect, RecordsStayUnderOwnId, PTL DEF Spec

(* Real-time observation, on any number of devices and with any failures:  *)
(* a quiet device's array shows of every listened group what its client    *)
(* holds, whatever reads, events and writes were interleaved.              *)
THEOREM ListenedGroupsStayCurrent == Spec => []ListenedGroupsCurrent
<1>1. FollowsInv => ListenedGroupsCurrent
  <2>. SUFFICES ASSUME FollowsInv, NEW d \in Devices, Quiet(d), NEW i \in DOMAIN groups[d]
                PROVE  Current(d, groups[d][i])
    BY DEF ListenedGroupsCurrent, Current
  <2>1. Followed(d, groups[d][i], 0)
    BY DEF FollowsInv, DeviceFollows
  <2>2. ~EventDue(d, groups[d][i].taskId) /\ ~RefillDue(d, 0)
    BY DEF Quiet, EventDue, RefillDue
  <2>. QED  BY <2>1, <2>2 DEF Followed
<1>. QED  BY <1>1, FollowsAlways, PTL

-----------------------------------------------------------------------------
(* The inductive invariant behind QuietDetailOverWholeList *)

(* What the property's comment supposes of a run.  Killed processes, lost  *)
(* acknowledgements and reads from the cache are allowed.                  *)
NothingFails ==
    "readError" \notin Faults /\ "rejectedWrite" \notin Faults /\ "delete" \notin UserOps

Exists(d, id) == View(d)[id] # Absent

(* Nothing disappears: no deletion is queued, and what a cache holds is    *)
(* on the backend still.                                                   *)
NoDeletion(d) == \A i \in DOMAIN queue[d] : queue[d][i].val # Absent
OldCache(d)   == \A id \in DocIds : cache[d][id] # Absent => server[id] # Absent

(* Every listened group, and every record under way to the array or in it, *)
(* is of a group that the client has.                                      *)
RecordsExist(d) ==
    /\ \A l \in watched[d] : Exists(d, l.doc)
    /\ \A i \in DOMAIN groups[d] : Exists(d, groups[d][i].taskId)
    /\ \A j \in DOMAIN results[d] : \A i \in DOMAIN results[d][j].docs :
          Exists(d, results[d][j].docs[i].taskId)

Shows(d, gs) == \E s \in Listings(View(d)) : gs = Contents(View(d), s)

LastGet(d)    == gets[d][Len(gets[d])]
LastResult(d) == results[d][Len(results[d])]

(* Under an open Detail, the array is the whole list, or the last of what  *)
(* is under way to it will make it so.                                     *)
WholeAtLast(d) ==
    \/ dirty[d] # {}
    \/ gets[d] # <<>> /\ LastGet(d).screen = "detail"
    \/ /\ gets[d] = <<>> /\ results[d] # <<>>
       /\ LastResult(d).ctx.screen = "detail" /\ Shows(d, LastResult(d).docs)
    \/ gets[d] = <<>> /\ results[d] = <<>> /\ Shows(d, groups[d])

DeviceWhole(d) ==
    /\ NoDeletion(d) /\ OldCache(d) /\ RecordsExist(d)
    /\ status[d] # "running" => screen[d] = "home"
    /\ screen[d] = "detail" => WholeAtLast(d)

WholeInv == NothingFails /\ \A d \in Devices : DeviceWhole(d)

-----------------------------------------------------------------------------
(* Nothing disappears *)

ServerGrows == \A id \in DocIds : server[id] # Absent => server'[id] # Absent
ViewGrows(d) == \A id \in DocIds : Exists(d, id) => Exists(d, id)'

(* Without deletions, the view has what the cache has or the queue writes. *)
LEMMA OverlayExists ==
    ASSUME NEW M, NEW c, NEW q \in Seq(M), \A i \in DOMAIN q : q[i].val # Absent,
           NEW id \in DocIds
    PROVE  Overlay(c, q)[id] # Absent
              <=> (c[id] # Absent \/ \E i \in DOMAIN q : q[i].doc = id)
<1>1. CASE LastMutation(q, id) = {}
  <2>1. ASSUME NEW i \in DOMAIN q, q[i].doc = id PROVE FALSE
    <3>. DEFINE T == {j \in DOMAIN q : q[j].doc = id}
    <3>1. Len(q) \in Nat /\ T \subseteq 1 .. Len(q) /\ T # {}
      BY <2>1
    <3>2. PICK k \in T : \A j \in T : j <= k
      BY <3>1, GreatestNumber
    <3>3. k \in LastMutation(q, id)
      BY <3>1, <3>2 DEF LastMutation
    <3>. QED  BY <1>1, <3>3
  <2>2. Overlay(c, q)[id] = c[id]
    BY <1>1 DEF Overlay
  <2>. QED  BY <2>1, <2>2
<1>2. CASE LastMutation(q, id) # {}
  <2>. DEFINE k == CHOOSE i \in LastMutation(q, id) : TRUE
  <2>1. k \in LastMutation(q, id)
    BY <1>2
  <2>2. Overlay(c, q)[id] = q[k].val
    BY <1>2 DEF Overlay
  <2>. HIDE DEF k
  <2>. QED  BY <2>1, <2>2 DEF LastMutation
<1>. QED  BY <1>1, <1>2

(* The steps of the client and of the backend.                             *)
LEMMA SdkGrows ==
    ASSUME NothingFails, TypeOK, NEW d \in Devices, NoDeletion(d), OldCache(d), SdkStep(d)
    PROVE  ServerGrows /\ NoDeletion(d)' /\ OldCache(d)' /\ ViewGrows(d)
<1>. DEFINE q == queue[d]
<1>0. /\ cache[d] \in Docs(Group) /\ q \in Seq(Mutations(Group)) /\ server \in Docs(Group)
      /\ \A i \in DOMAIN q : q[i].val # Absent
  BY DeviceTypes DEF TypeOK, StoreTypeOK, Docs, NoDeletion
<1>1. CASE Acknowledge(d)
  <2>1. q # <<>> /\ 1 \in DOMAIN q /\ Head(q) = q[1]
    BY <1>0, <1>1 DEF Acknowledge
  <2>2. /\ server' = [server EXCEPT ![q[1].doc] = q[1].val]
        /\ cache'[d] = [cache[d] EXCEPT ![q[1].doc] = q[1].val]
        /\ queue'[d] = Tail(q)
    BY <1>1, <2>1 DEF Acknowledge, Apply, TypeOK, StoreTypeOK
  <2>3. q[1].val # Absent
    BY <1>0, <2>1
  <2>4. ServerGrows
    BY <1>0, <2>2, <2>3 DEF ServerGrows, Docs
  <2>5. OldCache(d)'
    BY <1>0, <2>2, <2>3 DEF OldCache, Docs
  <2>6. NoDeletion(d)'
    <3>1. \A i \in DOMAIN Tail(q) : i + 1 \in DOMAIN q /\ Tail(q)[i] = q[i + 1]
      BY <1>0, <2>1
    <3>. QED  BY <1>0, <2>2, <3>1 DEF NoDeletion
  <2>7. View(d)' = View(d)
    BY <1>1, AcknowledgeKeepsView DEF TypeOK
  <2>. QED  BY <2>4, <2>5, <2>6, <2>7 DEF ViewGrows, Exists
<1>2. ASSUME NEW c, cache'[d] = c, queue'[d] = q, server' = server,
             \A id \in DocIds : /\ c[id] \in {server[id], cache[d][id]}
      PROVE  ServerGrows /\ NoDeletion(d)' /\ OldCache(d)' /\ ViewGrows(d)
  <2>1. \A id \in DocIds : /\ c[id] # Absent => server[id] # Absent
                           /\ cache[d][id] # Absent => c[id] # Absent
    BY <1>2 DEF OldCache
  <2>2. ViewGrows(d)
    <3>. SUFFICES ASSUME NEW id \in DocIds, Overlay(cache[d], q)[id] # Absent
                  PROVE  Overlay(c, q)[id] # Absent
      BY <1>2 DEF ViewGrows, Exists, View
    <3>. HIDE DEF q
    <3>. QED  BY <1>0, <2>1, OverlayExists
  <2>. QED  BY <1>2, <2>1, <2>2 DEF ServerGrows, NoDeletion, OldCache
<1>3. CASE Watch(d)
  <2>. DEFINE c == [id \in DocIds |-> IF id \in WatchedDocs(d) THEN server[id]
                                                            ELSE cache[d][id]]
  <2>1. Apply(d, c, queue[d]) /\ server' = server
    BY <1>3 DEF Watch
  <2>2. \A id \in DocIds : c[id] \in {server[id], cache[d][id]}
    OBVIOUS
  <2>. HIDE DEF c
  <2>3. cache'[d] = c /\ queue'[d] = q
    BY <2>1 DEF Apply, TypeOK, StoreTypeOK
  <2>. QED  BY <1>2, <2>1, <2>2, <2>3
<1>4. CASE AnswerFromServer(d)
  <2>1. cache'[d] = server /\ queue'[d] = q /\ server' = server
    BY <1>4 DEF AnswerFromServer, Apply, TypeOK, StoreTypeOK
  <2>. QED  BY <1>2, <2>1
<1>5. CASE AnswerFromCache(d)
  BY <1>2, <1>5 DEF AnswerFromCache
<1>6. CASE CommitUnacknowledged(d)
  <2>1. PICK k \in 1 .. Len(q) : server' = Overlay(server, SubSeq(q, 1, k))
    BY <1>6 DEF CommitUnacknowledged
  <2>. DEFINE p == SubSeq(q, 1, k)
  <2>2. p \in Seq(Mutations(Group)) /\ \A i \in DOMAIN p : p[i].val # Absent
    <3>1. p \in Seq(Mutations(Group)) /\ \A i \in DOMAIN p : i \in DOMAIN q /\ p[i] = q[i]
      BY <1>0
    <3>. QED  BY <1>0, <3>1
  <2>. HIDE DEF p
  <2>3. ServerGrows
    <3>. SUFFICES ASSUME NEW id \in DocIds, server[id] # Absent PROVE server'[id] # Absent
      BY DEF ServerGrows
    <3>1. Overlay(server, p)[id] # Absent
      BY <2>2, OverlayExists
    <3>. QED  BY <2>1, <3>1 DEF p
  <2>4. cache' = cache /\ queue' = queue
    BY <1>6 DEF CommitUnacknowledged
  <2>. QED  BY <2>3, <2>4 DEF ServerGrows, NoDeletion, OldCache, ViewGrows, Exists, View
<1>7. ~Reject(d) /\ ~AnswerWithError(d)
  BY DEF NothingFails, Reject, AnswerWithError
<1>. QED  BY <1>1, <1>3, <1>4, <1>5, <1>6, <1>7 DEF SdkStep, Answer

(* A handler that queues a record.                                         *)
LEMMA WriteGrows ==
    ASSUME TypeOK, NEW d \in Devices, NoDeletion(d), OldCache(d),
           NEW id \in DocIds, NEW g \in Group, Write(d, id, g),
           server' = server, cache' = cache
    PROVE  /\ NoDeletion(d)' /\ OldCache(d)' /\ ViewGrows(d)
           /\ View(d)'[id] = g /\ Exists(d, id)'
<1>. DEFINE m == [doc |-> id, val |-> g]
<1>1. m \in Mutations(Group) /\ m.doc = id /\ m.val = g /\ g # Absent
  BY AbsentAssumption DEF Mutations
<1>. HIDE DEF m
<1>2. queue'[d] = Append(queue[d], m)
  BY DEF Write, m, TypeOK, StoreTypeOK
<1>3. queue[d] \in Seq(Mutations(Group))
  BY DeviceTypes
<1>4. \A i \in DOMAIN Append(queue[d], m) :
          (i \in DOMAIN queue[d] /\ Append(queue[d], m)[i] = queue[d][i])
             \/ Append(queue[d], m)[i] = m
  BY <1>1, <1>3
<1>5. NoDeletion(d)'
  BY <1>1, <1>2, <1>4 DEF NoDeletion
<1>6. ASSUME NEW x \in DocIds
      PROVE  /\ x = id => View(d)'[x] = g
             /\ x # id => View(d)'[x] = View(d)[x]
  <2>1. View(d)' = Overlay(cache[d], Append(queue[d], m)) /\ View(d) = Overlay(cache[d], queue[d])
    BY <1>2 DEF View
  <2>2. /\ x = m.doc => Overlay(cache[d], Append(queue[d], m))[x] = m.val
        /\ x # m.doc => Overlay(cache[d], Append(queue[d], m))[x] = Overlay(cache[d], queue[d])[x]
    BY <1>1, <1>3, AppendedOverlay
  <2>. QED  BY <1>1, <2>1, <2>2
<1>. QED  BY <1>1, <1>5, <1>6 DEF OldCache, ViewGrows, Exists

-----------------------------------------------------------------------------
(* The array becomes whole *)

(* The listings depend on the view alone.                                  *)
LEMMA ShowsSameView ==
    ASSUME NEW d, NEW gs, View(d)' = View(d), Shows(d, gs)
    PROVE  Shows(d, gs)'
BY DEF Shows

(* Steps that bring no answer and deliver none.                            *)
LEMMA WholeStays ==
    ASSUME NEW d, WholeAtLast(d), View(d)' = View(d) \/ dirty'[d] # {},
           dirty[d] \subseteq dirty'[d], gets'[d] = gets[d], results'[d] = results[d],
           groups'[d] = groups[d]
    PROVE  WholeAtLast(d)'
<1>1. CASE dirty'[d] # {}
  BY <1>1 DEF WholeAtLast
<1>2. CASE dirty'[d] = {}
  <2>1. PICK gs, rs : gs = groups[d] /\ rs = LastResult(d).docs
    OBVIOUS
  <2>2. (Shows(d, gs) => Shows(d, gs)') /\ (Shows(d, rs) => Shows(d, rs)')
    BY <1>2, ShowsSameView
  <2>3. LastResult(d)' = LastResult(d) /\ LastGet(d)' = LastGet(d)
    BY DEF LastResult, LastGet
  <2>4. (Shows(d, groups[d]) => Shows(d, groups[d])')
        /\ (Shows(d, LastResult(d).docs) => Shows(d, LastResult(d).docs)')
    BY <2>1, <2>2, <2>3 DEF Shows
  <2>. QED  BY <1>2, <2>3, <2>4 DEF WholeAtLast
<1>. QED  BY <1>1, <1>2

LEMMA TailEnds ==
    ASSUME NEW S, NEW s \in Seq(S), s # <<>>
    PROVE  /\ Tail(s) = <<>> <=> Len(s) = 1
           /\ Tail(s) # <<>> => Tail(s)[Len(Tail(s))] = s[Len(s)]
           /\ Len(s) = 1 => Head(s) = s[Len(s)]
<1>1. Len(s) \in Nat \ {0} /\ Len(Tail(s)) = Len(s) - 1 /\ Tail(s) \in Seq(S)
  OBVIOUS
<1>2. Tail(s) = <<>> <=> Len(s) = 1
  <2>1. PICK t \in Seq(S) : t = Tail(s)
    BY <1>1
  <2>2. t = <<>> <=> Len(t) = 0
    OBVIOUS
  <2>. QED  BY <1>1, <2>1, <2>2
<1>3. CASE Len(s) = 1
  BY <1>2, <1>3
<1>4. CASE Len(s) # 1
  <2>1. Len(s) - 1 \in 1 .. Len(Tail(s))
    BY <1>1, <1>4
  <2>2. Tail(s)[Len(s) - 1] = s[(Len(s) - 1) + 1]
    BY <1>1, <2>1
  <2>. QED  BY <1>1, <1>2, <1>4, <2>2
<1>. QED  BY <1>3, <1>4

(* The oldest read is answered with the whole list, as the view is then.   *)
LEMMA AnsweredWhole ==
    ASSUME TypeOK, NEW d \in Devices, gets[d] # <<>>, gets'[d] = Tail(gets[d]),
           dirty[d] \subseteq dirty'[d], WholeAtLast(d),
           NEW res, res.ctx = Head(gets[d]), results'[d] = Append(results[d], res),
           Shows(d, res.docs)'
    PROVE  WholeAtLast(d)'
<1>1. CASE dirty[d] # {}
  BY <1>1 DEF WholeAtLast
<1>2. CASE gets[d] # <<>> /\ LastGet(d).screen = "detail"
  <2>1. gets[d] \in Seq(Ctx) /\ results[d] \in Seq(Answers(Group, Ctx))
    BY DeviceTypes
  <2>2. CASE Tail(gets[d]) = <<>>
    <3>1. Head(gets[d]) = LastGet(d)
      BY <2>1, <2>2, TailEnds DEF LastGet
    <3>2. results'[d] # <<>> /\ results'[d][Len(results'[d])] = res
      BY <2>1
    <3>3. results'[d] # <<>> /\ LastResult(d)' = res
      BY <3>2 DEF LastResult
    <3>4. Shows(d, LastResult(d).docs)'
      BY <3>3 DEF Shows
    <3>. QED  BY <1>2, <2>2, <3>1, <3>3, <3>4 DEF WholeAtLast
  <2>3. CASE Tail(gets[d]) # <<>>
    <3>1. LastGet(d)' = LastGet(d)
      BY <2>1, <2>3, TailEnds DEF LastGet
    <3>. QED  BY <1>2, <2>3, <3>1 DEF WholeAtLast
  <2>. QED  BY <2>2, <2>3
<1>. QED  BY <1>1, <1>2 DEF WholeAtLast

(* The first answer is delivered; if it is the last, the array is its list *)
(* now, unless it was another screen's.                                    *)
LEMMA DeliveredWhole ==
    ASSUME TypeOK, NEW d \in Devices, results[d] # <<>>, results'[d] = Tail(results[d]),
           gets'[d] = gets[d], dirty'[d] = dirty[d], View(d)' = View(d), WholeAtLast(d),
           Head(results[d]).ctx.screen = "detail" => groups'[d] = Head(results[d]).docs
    PROVE  WholeAtLast(d)'
<1>1. CASE dirty[d] # {} \/ (gets[d] # <<>> /\ LastGet(d).screen = "detail")
  <2>1. LastGet(d)' = LastGet(d)
    BY DEF LastGet
  <2>. QED  BY <1>1, <2>1 DEF WholeAtLast
<1>2. CASE /\ gets[d] = <<>>
           /\ LastResult(d).ctx.screen = "detail" /\ Shows(d, LastResult(d).docs)
  <2>1. results[d] \in Seq(Answers(Group, Ctx))
    BY DeviceTypes
  <2>2. PICK rs : rs = LastResult(d).docs
    OBVIOUS
  <2>3. Shows(d, rs)'
    BY <1>2, <2>2, ShowsSameView
  <2>4. CASE Tail(results[d]) = <<>>
    <3>1. Head(results[d]) = LastResult(d)
      BY <2>1, <2>4, TailEnds DEF LastResult
    <3>2. groups'[d] = rs
      BY <1>2, <2>2, <3>1
    <3>3. Shows(d, groups[d])'
      BY <2>3, <3>2 DEF Shows
    <3>. QED  BY <1>2, <2>4, <3>3 DEF WholeAtLast
  <2>5. CASE Tail(results[d]) # <<>>
    <3>1. LastResult(d)' = LastResult(d)
      BY <2>1, <2>5, TailEnds DEF LastResult
    <3>2. Shows(d, LastResult(d).docs)'
      BY <2>2, <2>3, <3>1 DEF Shows
    <3>. QED  BY <1>2, <2>5, <3>1, <3>2 DEF WholeAtLast
  <2>. QED  BY <2>4, <2>5
<1>. QED  BY <1>1, <1>2 DEF WholeAtLast

-----------------------------------------------------------------------------
(* The steps of a device keep its part of the invariant *)

(* Groups stay in a view that grows.                                       *)
LEMMA RecordsStay ==
    ASSUME TypeOK, NEW d \in Devices, RecordsExist(d), ViewGrows(d)
    PROVE  /\ \A l \in watched[d] : Exists(d, l.doc)'
           /\ \A i \in DOMAIN groups[d] : View(d)'[groups[d][i].taskId] # Absent
           /\ \A j \in DOMAIN results[d] : \A i \in DOMAIN results[d][j].docs :
                 View(d)'[results[d][j].docs[i].taskId] # Absent
<1>1. \A id \in DocIds : View(d)[id] # Absent => View(d)'[id] # Absent
  BY DEF ViewGrows, Exists
<1>2. \A l \in watched[d] : l.doc \in DocIds
  BY DEF TypeOK, StoreTypeOK, Listeners
<1>3. ASSUME NEW i \in DOMAIN groups[d] PROVE groups[d][i].taskId \in DocIds
  <2>1. groups[d][i] \in Group
    BY <1>3, DeviceTypes
  <2>. QED  BY <2>1 DEF Group
<1>4. ASSUME NEW j \in DOMAIN results[d], NEW i \in DOMAIN results[d][j].docs
      PROVE  results[d][j].docs[i].taskId \in DocIds
  <2>1. results[d][j] \in Answers(Group, Ctx)
    BY <1>4, DeviceTypes
  <2>2. results[d][j].docs \in Seq(Group)
    BY <2>1 DEF Answers
  <2>3. results[d][j].docs[i] \in Group
    BY <1>4, <2>2
  <2>. QED  BY <2>3 DEF Group
<1>. QED  BY <1>1, <1>2, <1>3, <1>4 DEF RecordsExist, Exists

(* The view of a device whose cache and queue a step leaves alone.         *)
LEMMA SameStore ==
    ASSUME NEW d, cache'[d] = cache[d], queue'[d] = queue[d], ServerGrows,
           NoDeletion(d), OldCache(d)
    PROVE  View(d)' = View(d) /\ ViewGrows(d) /\ NoDeletion(d)' /\ OldCache(d)'
<1>1. View(d)' = View(d)
  BY DEF View
<1>. QED  BY <1>1 DEF ViewGrows, Exists, NoDeletion, OldCache, ServerGrows

(* What other devices do disturbs nothing here.                            *)
LEMMA OthersWhole ==
    ASSUME TypeOK, NEW e \in Devices, DeviceWhole(e), ServerGrows,
           cache'[e] = cache[e], queue'[e] = queue[e], watched'[e] = watched[e],
           dirty'[e] = dirty[e], gets'[e] = gets[e], results'[e] = results[e],
           groups'[e] = groups[e], screen'[e] = screen[e], status'[e] = status[e]
    PROVE  DeviceWhole(e)'
<1>1. /\ View(e)' = View(e) /\ ViewGrows(e) /\ NoDeletion(e)' /\ OldCache(e)'
  BY SameStore DEF DeviceWhole
<1>2. RecordsExist(e)'
  BY <1>1, RecordsStay DEF DeviceWhole, RecordsExist, Exists
<1>3. WholeAtLast(e) => WholeAtLast(e)'
  BY <1>1, WholeStays
<1>. QED  BY <1>1, <1>2, <1>3 DEF DeviceWhole

LEMMA DropWhole ==
    ASSUME TypeOK, NEW d \in Devices, DeviceWhole(d), NEW why, EndProcess(d, why)
    PROVE  DeviceWhole(d)'
<1>1. /\ groups'[d] = <<>> /\ results'[d] = <<>> /\ watched'[d] = {} /\ screen'[d] = "home"
      /\ UNCHANGED <<server, cache, queue>>
  BY DEF EndProcess, DropCallbacks, Set, TypeOK, StoreTypeOK, UiTypeOK
<1>2. NoDeletion(d)' /\ OldCache(d)'
  BY <1>1 DEF DeviceWhole, NoDeletion, OldCache
<1>3. RecordsExist(d)'
  BY <1>1 DEF RecordsExist
<1>. QED  BY <1>1, <1>2, <1>3 DEF DeviceWhole

(* The answer that is added to the results of a device is of groups that   *)
(* its view has.                                                           *)
LEMMA AnswerExists ==
    ASSUME NEW c \in Docs(Group), NEW q \in Seq(Mutations(Group)),
           \A id \in DocIds : UnderOwnId(c[id], id),
           \A i \in DOMAIN q : UnderOwnId(q[i].val, q[i].doc),
           NEW s \in Listings(Overlay(c, q))
    PROVE  \A i \in DOMAIN Contents(Overlay(c, q), s) :
               Overlay(c, q)[Contents(Overlay(c, q), s)[i].taskId] # Absent
<1>. SUFFICES ASSUME NEW i \in DOMAIN Contents(Overlay(c, q), s)
              PROVE  Overlay(c, q)[Contents(Overlay(c, q), s)[i].taskId] # Absent
  OBVIOUS
<1>1. Contents(Overlay(c, q), s)[i] = Overlay(c, q)[Contents(Overlay(c, q), s)[i].taskId]
  BY AnswerIsCurrent
<1>2. Overlay(c, q) \in Docs(Group)
  BY OverlayType
<1>3. Contents(Overlay(c, q), s) \in Seq(Group)
  BY <1>2, AbsentAssumption, ListingType
<1>4. Contents(Overlay(c, q), s)[i] \in Group
  BY <1>3
<1>. QED  BY <1>1, <1>4, AbsentAssumption

(* A read is answered: the answer is the last thing under way.             *)
LEMMA AnsweredDevice ==
    ASSUME TypeOK, NEW d \in Devices, DeviceWhole(d), ViewGrows(d),
           NoDeletion(d)', OldCache(d)', dirty[d] \subseteq dirty'[d],
           watched'[d] = watched[d], groups'[d] = groups[d],
           status'[d] = status[d], screen'[d] = screen[d],
           gets[d] # <<>>, gets'[d] = Tail(gets[d]),
           NEW w, View(d)' = w, NEW s \in Listings(w),
           results'[d] = Append(results[d],
               [ctx |-> Head(gets[d]), ok |-> TRUE, docs |-> Contents(w, s)]),
           \A i \in DOMAIN Contents(w, s) : w[Contents(w, s)[i].taskId] # Absent
    PROVE  DeviceWhole(d)'
<1>. DEFINE res == [ctx |-> Head(gets[d]), ok |-> TRUE, docs |-> Contents(w, s)]
<1>1. PICK r : r = res
  OBVIOUS
<1>2. r.ctx = Head(gets[d]) /\ r.docs = Contents(w, s) /\ results'[d] = Append(results[d], r)
  BY <1>1
<1>. HIDE DEF res
<1>3. Shows(d, r.docs)'
  BY <1>2 DEF Shows
<1>4. WholeAtLast(d) => WholeAtLast(d)'
  BY <1>2, <1>3, AnsweredWhole
<1>5. RecordsExist(d)'
  <2>1. \A j \in DOMAIN results'[d] :
            \/ j \in DOMAIN results[d] /\ results'[d][j] = results[d][j]
            \/ results'[d][j] = r
    BY <1>2, DeviceTypes
  <2>. QED  BY <1>2, <2>1, RecordsStay DEF DeviceWhole, RecordsExist, Exists
<1>. QED  BY <1>4, <1>5 DEF DeviceWhole

(* Each step keeps the invariant of its device.                            *)
LEMMA SdkWhole ==
    ASSUME NothingFails, TypeOK, RecordsUnderOwnId, NEW d \in Devices,
           DeviceFollows(d), DeviceWhole(d), Sdk(d)
    PROVE  DeviceWhole(d)'
<1>0. SdkStep(d) /\ groups' = groups /\ status' = status /\ screen' = screen
  BY DEF Sdk, uiVars
<1>1. ServerGrows /\ NoDeletion(d)' /\ OldCache(d)' /\ ViewGrows(d)
  BY <1>0, SdkGrows DEF DeviceWhole
<1>2. ASSUME View(d)' = View(d) \/ dirty'[d] # {}, dirty[d] \subseteq dirty'[d],
             UNCHANGED <<watched, gets, results>>
      PROVE  DeviceWhole(d)'
  <2>1. RecordsExist(d)'
    BY <1>0, <1>1, <1>2, RecordsStay DEF DeviceWhole, RecordsExist, Exists
  <2>2. WholeAtLast(d) => WholeAtLast(d)'
    BY <1>0, <1>2, WholeStays
  <2>. QED  BY <1>0, <1>1, <2>1, <2>2 DEF DeviceWhole
<1>3. CASE Acknowledge(d)
  <2>1. View(d)' = View(d)
    BY <1>3, AcknowledgeKeepsView DEF TypeOK
  <2>2. dirty[d] \subseteq dirty'[d]
    BY <1>3 DEF Acknowledge, Apply, TypeOK, StoreTypeOK
  <2>. QED  BY <1>2, <1>3, <2>1, <2>2 DEF Acknowledge
<1>4. CASE CommitUnacknowledged(d)
  BY <1>2, <1>4 DEF CommitUnacknowledged, View
<1>5. CASE Watch(d)
  <2>. DEFINE c == [id \in DocIds |-> IF id \in WatchedDocs(d) THEN server[id]
                                                            ELSE cache[d][id]]
  <2>1. Apply(d, c, queue[d]) /\ UNCHANGED <<watched, gets, results>>
    BY <1>5 DEF Watch
  <2>2. \A id \in DocIds : id \notin WatchedDocs(d) => c[id] = cache[d][id]
    OBVIOUS
  <2>. HIDE DEF c
  <2>3. View(d)' = Overlay(c, queue[d]) /\ Told(d)
    BY <2>1, ApplyTells
  <2>4. SUFFICES ASSUME dirty'[d] = {} PROVE View(d)' = View(d)
    BY <1>2, <2>1, <2>3 DEF Told
  <2>5. ASSUME NEW id \in DocIds PROVE Overlay(c, queue[d])[id] = Overlay(cache[d], queue[d])[id]
    <3>1. CASE id \in WatchedDocs(d)
      BY <2>3, <2>4, <3>1 DEF Told, WatchedDocs, View
    <3>2. CASE id \notin WatchedDocs(d)
      BY <2>2, <3>2 DEF Overlay
    <3>. QED  BY <3>1, <3>2
  <2>6. Overlay(c, queue[d]) = Overlay(cache[d], queue[d])
    <3>1. /\ Overlay(c, queue[d]) = [id \in DocIds |-> Overlay(c, queue[d])[id]]
          /\ Overlay(cache[d], queue[d]) = [id \in DocIds |-> Overlay(cache[d], queue[d])[id]]
      BY DEF Overlay
    <3>. QED  BY <2>5, <3>1
  <2>. QED  BY <2>3, <2>6 DEF View
<1>6. CASE AnswerFromServer(d)
  <2>1. PICK s \in Listings(Overlay(server, queue[d])) :
            results' = [results EXCEPT ![d] = Append(@,
                [ctx |-> Head(gets[d]), ok |-> TRUE,
                 docs |-> Contents(Overlay(server, queue[d]), s)])]
    BY <1>6 DEF AnswerFromServer
  <2>2. View(d)' = Overlay(server, queue[d]) /\ Told(d)
    BY <1>6, ApplyTells DEF AnswerFromServer
  <2>3. \A i \in DOMAIN Contents(Overlay(server, queue[d]), s) :
           Overlay(server, queue[d])[Contents(Overlay(server, queue[d]), s)[i].taskId] # Absent
    BY AnswerExists, DeviceTypes DEF RecordsUnderOwnId, TypeOK, StoreTypeOK, Docs
  <2>4. PICK w : w = Overlay(server, queue[d])
    OBVIOUS
  <2>5. /\ gets[d] # <<>> /\ gets'[d] = Tail(gets[d]) /\ watched' = watched
        /\ results'[d] = Append(results[d],
                [ctx |-> Head(gets[d]), ok |-> TRUE, docs |-> Contents(w, s)])
    BY <1>6, <2>1, <2>4 DEF AnswerFromServer, TypeOK, StoreTypeOK
  <2>6. dirty[d] \subseteq dirty'[d]
    BY <2>2 DEF Told
  <2>7. /\ s \in Listings(w) /\ View(d)' = w
        /\ \A i \in DOMAIN Contents(w, s) : w[Contents(w, s)[i].taskId] # Absent
    BY <2>2, <2>3, <2>4
  <2>. QED  BY <1>0, <1>1, <2>5, <2>6, <2>7, AnsweredDevice
<1>7. CASE AnswerFromCache(d)
  <2>1. PICK s \in Listings(View(d)) :
            results' = [results EXCEPT ![d] = Append(@,
                [ctx |-> Head(gets[d]), ok |-> TRUE, docs |-> Contents(View(d), s)])]
    BY <1>7 DEF AnswerFromCache
  <2>2. \A i \in DOMAIN Contents(View(d), s) : View(d)[Contents(View(d), s)[i].taskId] # Absent
    BY AnswerExists, DeviceTypes DEF RecordsUnderOwnId, View
  <2>3. PICK w : w = View(d)
    OBVIOUS
  <2>4. /\ gets[d] # <<>> /\ gets'[d] = Tail(gets[d])
        /\ View(d)' = View(d) /\ UNCHANGED <<watched, dirty>>
        /\ results'[d] = Append(results[d],
                [ctx |-> Head(gets[d]), ok |-> TRUE, docs |-> Contents(w, s)])
    BY <1>7, <2>1, <2>3 DEF AnswerFromCache, View, TypeOK, StoreTypeOK
  <2>5. /\ s \in Listings(w) /\ View(d)' = w
        /\ \A i \in DOMAIN Contents(w, s) : w[Contents(w, s)[i].taskId] # Absent
    BY <2>2, <2>3, <2>4
  <2>. QED  BY <1>0, <1>1, <2>4, <2>5, AnsweredDevice
<1>8. ~Reject(d) /\ ~AnswerWithError(d)
  BY DEF NothingFails, Reject, AnswerWithError
<1>. QED  BY <1>0, <1>3, <1>4, <1>5, <1>6, <1>7, <1>8 DEF SdkStep, Answer

LEMMA CallbackWhole ==
    ASSUME TypeOK, NEW d \in Devices, DeviceFollows(d), DeviceWhole(d), Callback(d)
    PROVE  DeviceWhole(d)'
<1>. DEFINE res == Head(results[d])
<1>0. results[d] # <<>> =>
          /\ 1 \in DOMAIN results[d] /\ res = results[d][1]
          /\ res \in Answers(Group, Ctx) /\ res.docs \in Seq(Group)
          /\ \A j \in DOMAIN Tail(results[d]) :
                j + 1 \in DOMAIN results[d] /\ Tail(results[d])[j] = results[d][j + 1]
  <2>1. results[d] \in Seq(Answers(Group, Ctx))
    BY DeviceTypes
  <2>2. results[d] # <<>> => 1 \in DOMAIN results[d] /\ res = results[d][1]
                             /\ results[d][1] \in Answers(Group, Ctx)
    BY <2>1
  <2>3. results[d] # <<>> =>
            \A j \in DOMAIN Tail(results[d]) :
                j + 1 \in DOMAIN results[d] /\ Tail(results[d])[j] = results[d][j + 1]
    BY <2>1
  <2>. QED  BY <2>2, <2>3 DEF Answers
<1>. HIDE DEF res
(* The answer is taken off, and the array filled with groups of the view.  *)
<1>1. ASSUME results[d] # <<>>, results'[d] = Tail(results[d]),
             UNCHANGED <<server, cache, queue, watched, dirty, gets, status, screen>>,
             \A i \in DOMAIN groups'[d] :
                \/ \E k \in DOMAIN groups[d] : groups'[d][i] = groups[d][k]
                \/ \E k \in DOMAIN res.docs : groups'[d][i] = res.docs[k],
             res.ctx.screen = "detail" => groups'[d] = res.docs
      PROVE  DeviceWhole(d)'
  <2>1. View(d)' = View(d) /\ NoDeletion(d)' /\ OldCache(d)'
    BY <1>1 DEF View, DeviceWhole, NoDeletion, OldCache
  <2>2. \A j \in DOMAIN results'[d] :
            j + 1 \in DOMAIN results[d] /\ results'[d][j] = results[d][j + 1]
    BY <1>0, <1>1
  <2>3. RecordsExist(d)'
    BY <1>0, <1>1, <2>1, <2>2 DEF DeviceWhole, RecordsExist, Exists
  <2>4. WholeAtLast(d) => WholeAtLast(d)'
    BY <1>1, <2>1, DeliveredWhole DEF res
  <2>. QED  BY <1>1, <2>1, <2>3, <2>4 DEF DeviceWhole
<1>2. CASE DeliverAppend(d)
  <2>1. /\ results[d] # <<>> /\ results'[d] = Tail(results[d])
        /\ groups'[d] = groups[d] \o res.docs /\ res.ctx.screen # "detail"
        /\ UNCHANGED <<server, cache, queue, watched, dirty, gets, status, screen>>
    BY <1>2 DEF DeliverAppend, res, TypeOK, StoreTypeOK, UiTypeOK
  <2>2. PICK s \in Seq(Group), u \in Seq(Group) : s = groups[d] /\ u = res.docs
    BY <1>0, <2>1, DeviceTypes
  <2>3. groups'[d] = s \o u
    BY <2>1, <2>2
  <2>4. \A i \in DOMAIN (s \o u) : \/ \E k \in DOMAIN s : (s \o u)[i] = s[k]
                                  \/ \E k \in DOMAIN u : (s \o u)[i] = u[k]
    BY ConcatenationEntries
  <2>5. \A i \in DOMAIN groups'[d] :
            \/ \E k \in DOMAIN groups[d] : groups'[d][i] = groups[d][k]
            \/ \E k \in DOMAIN res.docs : groups'[d][i] = res.docs[k]
    <3>. SUFFICES ASSUME NEW i \in DOMAIN groups'[d]
                  PROVE  \/ \E k \in DOMAIN groups[d] : groups'[d][i] = groups[d][k]
                         \/ \E k \in DOMAIN res.docs : groups'[d][i] = res.docs[k]
      OBVIOUS
    <3>. DEFINE v == s \o u
    <3>1. groups'[d] = v
      BY <2>3
    <3>2. \A j \in DOMAIN v : (\E k \in DOMAIN s : v[j] = s[k]) \/ (\E k \in DOMAIN u : v[j] = u[k])
      BY <2>4
    <3>. HIDE DEF v
    <3>. QED  BY <2>2, <3>1, <3>2
  <2>. QED  BY <1>1, <2>1, <2>5
<1>3. CASE DeliverReplace(d) /\ ~Trap(d)
  <2>1. /\ results[d] # <<>> /\ results'[d] = Tail(results[d])
        /\ groups'[d] = res.docs
        /\ UNCHANGED <<server, cache, queue, watched, dirty, gets, status, screen>>
    BY <1>3 DEF DeliverReplace, Refilled, Set, res, TypeOK, StoreTypeOK, UiTypeOK
  <2>. QED  BY <1>1, <2>1
<1>4. CASE Trap(d)
  BY <1>4, DropWhole DEF Trap
<1>5. ASSUME NEW l \in dirty[d], OnEvent(d, l) PROVE DeviceWhole(d)'
  <2>1. View(d)[l.doc] # Absent /\ l.ctx.screen = "detail"
    BY <1>5 DEF DeviceFollows, DeviceWhole, RecordsExist, Exists
  <2>2. /\ gets'[d] = Append(gets[d], l.ctx) /\ View(d)' = View(d)
        /\ UNCHANGED <<server, cache, queue, watched, results, groups, status, screen>>
    BY <1>5, <2>1 DEF OnEvent, RequestGet, uiVars, View, TypeOK, StoreTypeOK
  <2>3. gets'[d] # <<>> /\ gets'[d][Len(gets'[d])] = l.ctx
    BY <2>2, DeviceTypes
  <2>4. WholeAtLast(d)'
    BY <2>1, <2>3 DEF WholeAtLast, LastGet
  <2>. QED  BY <2>2, <2>4 DEF DeviceWhole, NoDeletion, OldCache, RecordsExist, Exists
<1>. QED  BY <1>2, <1>3, <1>4, <1>5 DEF Callback

(* Handlers that do not end on an open Detail.                             *)
LEMMA NavigationWhole ==
    ASSUME NothingFails, TypeOK, NEW d \in Devices, DeviceWhole(d),
           \/ Launch(d) \/ ShowGoTab(d) \/ ShowHomeTab(d) \/ Back(d)
           \/ \E r \in DOMAIN rows[d] : DeleteGroup(d, r) \/ OpenDetail(d, r)
    PROVE  DeviceWhole(d)'
<1>. USE DEF TypeOK, UiTypeOK, Set
<1>1. ASSUME UNCHANGED <<server, cache, queue, watched, results>>,
             groups'[d] = groups[d] \/ groups'[d] = <<>>,
             screen'[d] # "detail", status'[d] = "running"
      PROVE  DeviceWhole(d)'
  <2>1. View(d)' = View(d)
    BY <1>1 DEF View
  <2>2. RecordsExist(d)'
    BY <1>1, <2>1 DEF DeviceWhole, RecordsExist, Exists
  <2>. QED  BY <1>1, <2>2 DEF DeviceWhole, NoDeletion, OldCache
<1>2. CASE Launch(d)
  BY <1>1, <1>2 DEF Launch, DeviceWhole
<1>3. CASE ShowGoTab(d)
  BY <1>1, <1>3 DEF ShowGoTab, Restore
<1>4. CASE ShowHomeTab(d) \/ Back(d)
  BY <1>1, <1>4 DEF ShowHomeTab, Back, Restore, storeVars
<1>5. CASE Trap(d)
  BY <1>5, DropWhole DEF Trap
<1>6. ASSUME NEW r, OpenDetail(d, r) PROVE DeviceWhole(d)'
  BY <1>1, <1>5, <1>6 DEF OpenDetail, storeVars
<1>7. ASSUME NEW r, DeleteGroup(d, r) PROVE FALSE
  BY <1>7 DEF DeleteGroup, NothingFails
<1>. QED  BY <1>2, <1>3, <1>4, <1>6, <1>7

LEMMA ListenAdds ==
    ASSUME TypeOK, NEW d \in Devices, NEW id, NEW ctx, Listen(d, id, ctx)
    PROVE  dirty'[d] # {} /\ \A l \in watched'[d] : l \in watched[d] \/ l.doc = id
<1>. DEFINE l == [doc |-> id, ctx |-> ctx]
<1>1. l.doc = id
  OBVIOUS
<1>. HIDE DEF l
<1>2. watched'[d] = watched[d] \cup {l} /\ l \in dirty'[d]
  BY DEF Listen, l, TypeOK, StoreTypeOK
<1>. QED  BY <1>1, <1>2

LEMMA AppearsWhole ==
    ASSUME TypeOK, NEW d \in Devices, DeviceWhole(d), DetailAppears(d)
    PROVE  DeviceWhole(d)'
<1>1. CASE Trap(d)
  BY <1>1, DropWhole DEF Trap
<1>2. CASE ~Trap(d)
  <2>0. PICK id : id = groups[d][row[d]].taskId
    OBVIOUS
  <2>1. /\ row[d] \in DOMAIN groups[d] /\ Listen(d, id, DetailCtx(row[d]))
        /\ UNCHANGED <<server, cache, queue, results, groups, status>>
        /\ status[d] = "running"
    BY <1>2, <2>0 DEF DetailAppears
  <2>2. /\ View(d)' = View(d) /\ Exists(d, id)
    BY <2>0, <2>1 DEF View, DeviceWhole, RecordsExist
  <2>3. dirty'[d] # {} /\ \A l \in watched'[d] : l \in watched[d] \/ l.doc = id
    BY <2>1, ListenAdds
  <2>4. RecordsExist(d)'
    BY <2>1, <2>2, <2>3 DEF DeviceWhole, RecordsExist, Exists
  <2>. QED  BY <2>1, <2>3, <2>4 DEF DeviceWhole, NoDeletion, OldCache, WholeAtLast
<1>. QED  BY <1>1, <1>2

LEMMA WithMessageGroup ==
    ASSUME NEW g \in Group, NEW n \in Nat
    PROVE  /\ [g EXCEPT !.talks = WithMessage(@, n)] \in Group
           /\ [g EXCEPT !.talks = WithMessage(@, n)].taskId = g.taskId
<1>1. g.talks \in Seq(Nat) /\ Pads \in Seq(Nat)
  BY DEF Group, Pads, PadRows, Pad
<1>2. WithMessage(g.talks, n) \in Seq(Nat)
  <2>1. CASE g.talks = <<>>
    BY <1>1, <2>1 DEF WithMessage
  <2>2. CASE g.talks # <<>>
    BY <1>1, <2>2 DEF WithMessage
  <2>. QED  BY <2>1, <2>2
<1>. QED  BY <1>2 DEF Group

LEMMA CommitWhole ==
    ASSUME TypeOK, NEW d \in Devices, DeviceWhole(d), Commit(d)
    PROVE  DeviceWhole(d)'
<1>1. CASE Trap(d)
  BY <1>1, DropWhole DEF Trap
<1>2. CASE ~Trap(d)
  <2>0. PICK g : g = [groups[d][row[d]] EXCEPT !.talks = WithMessage(@, sent + 1)]
    OBVIOUS
  <2>1. /\ row[d] \in DOMAIN groups[d] /\ Write(d, g.taskId, g)
        /\ Listen(d, g.taskId, DetailCtx(row[d]))
        /\ groups' = [groups EXCEPT ![d][row[d]] = g]
        /\ UNCHANGED <<server, cache, results, status>> /\ status[d] = "running"
    BY <1>2, <2>0 DEF Commit, Save
  <2>2. g \in Group /\ g.taskId \in DocIds
    <3>1. groups[d][row[d]] \in Group /\ sent + 1 \in Nat
      BY <2>1, DeviceTypes DEF TypeOK, UiTypeOK
    <3>2. g \in Group
      BY <2>0, <3>1, WithMessageGroup
    <3>. QED  BY <3>2 DEF Group
  <2>3. NoDeletion(d)' /\ OldCache(d)' /\ ViewGrows(d) /\ View(d)'[g.taskId] # Absent
    BY <2>1, <2>2, WriteGrows, AbsentAssumption DEF DeviceWhole
  <2>4. dirty'[d] # {} /\ \A l \in watched'[d] : l \in watched[d] \/ l.doc = g.taskId
    BY <2>1, ListenAdds
  <2>5. \A i \in DOMAIN groups'[d] :
            \/ i \in DOMAIN groups[d] /\ groups'[d][i] = groups[d][i]
            \/ groups'[d][i] = g
    BY <2>1 DEF TypeOK, UiTypeOK
  <2>6. RecordsExist(d)'
    <3>1. \A l \in watched'[d] : View(d)'[l.doc] # Absent
      BY <2>3, <2>4, RecordsStay DEF DeviceWhole, Exists
    <3>2. \A i \in DOMAIN groups'[d] : View(d)'[groups'[d][i].taskId] # Absent
      BY <2>3, <2>5, RecordsStay DEF DeviceWhole
    <3>. QED  BY <2>1, <2>3, <3>1, <3>2, RecordsStay DEF DeviceWhole, RecordsExist, Exists
  <2>. QED  BY <2>1, <2>3, <2>4, <2>6 DEF DeviceWhole, WholeAtLast
<1>. QED  BY <1>1, <1>2

LEMMA CreateWhole ==
    ASSUME TypeOK, NEW d \in Devices, DeviceWhole(d), CreateGroup(d)
    PROVE  DeviceWhole(d)'
<1>1. PICK id \in DocIds \ created :
          /\ Write(d, id, [taskId |-> id, talks |-> <<>>])
          /\ groups' = [groups EXCEPT ![d] = Append(@, [taskId |-> id, talks |-> <<>>])]
  BY DEF CreateGroup
<1>2. PICK g : g = [taskId |-> id, talks |-> <<>>]
  OBVIOUS
<1>3. g \in Group /\ g.taskId = id
  BY <1>2 DEF Group
<1>4. /\ Write(d, id, g) /\ groups'[d] = Append(groups[d], g)
      /\ UNCHANGED <<server, cache, watched, results, status, screen>>
      /\ screen[d] = "home"
  BY <1>1, <1>2 DEF CreateGroup, TypeOK, UiTypeOK
<1>5. NoDeletion(d)' /\ OldCache(d)' /\ ViewGrows(d) /\ View(d)'[id] # Absent
  BY <1>3, <1>4, WriteGrows, AbsentAssumption DEF DeviceWhole
<1>6. \A i \in DOMAIN groups'[d] :
          \/ i \in DOMAIN groups[d] /\ groups'[d][i] = groups[d][i]
          \/ groups'[d][i] = g
  BY <1>3, <1>4, DeviceTypes
<1>7. RecordsExist(d)'
  <2>1. \A i \in DOMAIN groups'[d] : View(d)'[groups'[d][i].taskId] # Absent
    BY <1>3, <1>5, <1>6, RecordsStay DEF DeviceWhole
  <2>. QED  BY <1>4, <1>5, <2>1, RecordsStay DEF DeviceWhole, RecordsExist, Exists
<1>. QED  BY <1>4, <1>5, <1>7 DEF DeviceWhole

-----------------------------------------------------------------------------
(* The invariant *)

LEMMA WholeInit == NothingFails /\ Init => WholeInv
<1>. SUFFICES ASSUME NothingFails, Init, NEW d \in Devices PROVE DeviceWhole(d)
  BY DEF WholeInv
<1>1. /\ cache[d] = [id \in DocIds |-> Absent] /\ queue[d] = <<>> /\ watched[d] = {}
      /\ groups[d] = <<>> /\ results[d] = <<>> /\ status[d] = "running" /\ screen[d] = "home"
  BY DEF Init
<1>. QED  BY <1>1 DEF DeviceWhole, NoDeletion, OldCache, RecordsExist

(* Of all that a device does, only its client's steps change the backend.  *)
LEMMA StepGrowsServer ==
    ASSUME NothingFails, TypeOK, NEW d \in Devices, DeviceWhole(d),
           Sdk(d) \/ Callback(d) \/ UserStep(d) \/ Launch(d) \/ Kill(d)
    PROVE  ServerGrows
<1>1. CASE Sdk(d)
  BY <1>1, SdkGrows DEF Sdk, DeviceWhole
<1>2. CASE Callback(d) \/ Launch(d) \/ Kill(d)
  BY <1>2 DEF Callback, DeliverAppend, DeliverReplace, OnEvent, Launch, Kill, Trap, EndProcess,
              ServerGrows
<1>3. CASE UserStep(d)
  BY <1>3 DEF UserStep, ShowGoTab, ShowHomeTab, DetailAppears, Back, Commit, CreateGroup,
              DeleteGroup, OpenDetail, Trap, EndProcess, storeVars, ServerGrows
<1>. QED  BY <1>1, <1>2, <1>3

LEMMA WholeNext ==
    TypeOK /\ RecordsUnderOwnId /\ FollowsInv /\ WholeInv /\ [Next]_vars => WholeInv'
<1>. SUFFICES ASSUME TypeOK, RecordsUnderOwnId, FollowsInv, WholeInv, [Next]_vars,
                     NEW e \in Devices
              PROVE  DeviceWhole(e)'
  BY DEF WholeInv, NothingFails
<1>0. NothingFails /\ DeviceWhole(e) /\ DeviceFollows(e)
  BY DEF WholeInv, FollowsInv
<1>1. CASE UNCHANGED vars
  <2>1. ServerGrows
    BY <1>1 DEF vars, storeVars, ServerGrows
  <2>. QED  BY <1>0, <1>1, <2>1, OthersWhole DEF vars, storeVars, uiVars
<1>2. ASSUME NEW d \in Devices,
             Sdk(d) \/ Callback(d) \/ UserStep(d) \/ Launch(d) \/ Kill(d)
      PROVE  DeviceWhole(e)'
  <2>1. CASE e # d
    <3>1. DeviceWhole(d)
      BY DEF WholeInv
    <3>2. ServerGrows
      BY <1>0, <1>2, <3>1, StepGrowsServer
    <3>. QED  BY <1>0, <1>2, <2>1, <3>2, OneDeviceSteps, OthersWhole
  <2>2. CASE e = d
    <3>1. CASE Sdk(d)
      BY <1>0, <2>2, <3>1, SdkWhole
    <3>2. CASE Callback(d)
      BY <1>0, <2>2, <3>2, CallbackWhole
    <3>3. CASE Kill(d)
      BY <1>0, <2>2, <3>3, DropWhole DEF Kill
    <3>4. CASE \/ Launch(d) \/ ShowGoTab(d) \/ ShowHomeTab(d) \/ Back(d)
               \/ \E r \in DOMAIN rows[d] : DeleteGroup(d, r) \/ OpenDetail(d, r)
      BY <1>0, <2>2, <3>4, NavigationWhole
    <3>5. CASE DetailAppears(d) \/ Commit(d) \/ CreateGroup(d)
      BY <1>0, <2>2, <3>5, AppearsWhole, CommitWhole, CreateWhole
    <3>. QED  BY <1>2, <3>1, <3>2, <3>3, <3>4, <3>5 DEF UserStep
  <2>. QED  BY <2>1, <2>2
<1>. QED  BY <1>1, <1>2 DEF Next

(* Where nothing fails and nothing is deleted, the array of a quiet Detail *)
(* is the list of the client's groups, each once and in order, on any      *)
(* number of devices: with killed processes, lost acknowledgements and     *)
(* reads from the cache, and whoever else makes groups and talks meanwhile.*)
THEOREM QuietDetailsOverWholeList ==
    NothingFails /\ Spec => []QuietDetailOverWholeList
<1>1. WholeInv => QuietDetailOverWholeList
  <2>. SUFFICES ASSUME WholeInv, NEW d \in Devices, screen[d] = "detail", Quiet(d)
                PROVE  Shows(d, groups[d])
    BY DEF QuietDetailOverWholeList, Shows
  <2>1. WholeAtLast(d)
    BY DEF WholeInv, DeviceWhole
  <2>. QED  BY <2>1 DEF WholeAtLast, Quiet
<1>2. NothingFails /\ Spec => []WholeInv
  BY WholeInit, WholeNext, TypeCorrect, RecordsStayUnderOwnId, FollowsAlways, PTL DEF Spec
<1>. QED  BY <1>1, <1>2, PTL
=============================================================================
