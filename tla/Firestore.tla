------------------------------ MODULE Firestore ------------------------------
(***************************************************************************)
(* The part of the Firestore client SDK (Pods/FirebaseFirestore) that the  *)
(* application's screens rest on, for one collection, with the backend as  *)
(* the external party behind it.  Every device keeps                       *)
(*   - a persistent cache of the backend's documents,                      *)
(*   - a persistent FIFO queue of its own mutations not yet acknowledged,  *)
(* and reads documents through the overlay of the second on the first.     *)
(* Reads and snapshot listeners are asynchronous: a getDocuments is first  *)
(* outstanding, then answered (its content is fixed), and its callback     *)
(* runs on the main queue some time later, in the order of the answers.    *)
(*                                                                         *)
(* The module has no Next of its own: the screens' modules extend it, and  *)
(* conjoin its operators to their handlers.                                *)
(***************************************************************************)
EXTENDS Integers, Sequences, FiniteSets

CONSTANTS
    Devices,    \* the app's installations
    NumDocs,    \* document ids are 1 .. NumDocs, ordered as taskId is
    Absent,     \* "there is no such document"
    Faults      \* the faults a run allows: a subset of AllFaults

AllFaults == {"offline", "readError", "rejectedWrite", "lostAck", "kill"}

ASSUME NumDocsAssumption == NumDocs \in Nat \ {0}
ASSUME FaultsAssumption  == Faults \subseteq AllFaults

DocIds == 1 .. NumDocs

VARIABLES
    server,     \* the backend's documents
    cache,      \* per device: the remote document cache
    queue,      \* per device: the mutation queue, oldest first
    watched,    \* per device: the snapshot listeners, [doc, ctx] records
    dirty,      \* per device: the listeners with an event to be raised
    gets,       \* per device: the outstanding getDocuments, by their ctx
    results     \* per device: the answers waiting for the main queue

storeVars == <<server, cache, queue, watched, dirty, gets, results>>

-----------------------------------------------------------------------------
(* Local views *)

(* Mutated: the oldest mutation wins.                                      *)
FirstMutation(q, id) ==
    {i \in DOMAIN q : /\ q[i].doc = id
                      /\ \A j \in DOMAIN q : j < i => q[j].doc # id}

(* The positions of the mutation of id that the others of q do not hide.   *)
LastMutation(q, id) ==
    {i \in DOMAIN q : /\ q[i].doc = id
                      /\ \A j \in DOMAIN q : j > i => q[j].doc # id}

(* The local view: the cache overlaid with the queued mutations.           *)
Overlay(c, q) ==
    [id \in DocIds |-> IF LastMutation(q, id) = {}
                       THEN c[id]
                       ELSE q[CHOOSE i \in LastMutation(q, id) : TRUE].val]

View(d) == Overlay(cache[d], queue[d])

(* Mutated: a query returns the missing documents too.                     *)
Everything(w) == DocIds

Existing(w) == {id \in DocIds : w[id] # Absent}

(* The ids of a query ordered by taskId, descending: a set of one sequence. *)
Listings(w) ==
    {s \in [1 .. Cardinality(Existing(w)) -> Existing(w)] :
        \A i, j \in DOMAIN s : i < j => s[i] > s[j]}

Contents(w, s) == [i \in DOMAIN s |-> w[s[i]]]

-----------------------------------------------------------------------------
(* Calls of the API, to be conjoined to a handler *)

(* Mutated: changes of the view raise no event.                            *)
TouchedNever(d, c, q) == {}

(* The listeners of d whose document differs in the view of (c, q).        *)
Touched(d, c, q) ==
    {l \in watched[d] : Overlay(c, q)[l.doc] # View(d)[l.doc]}

(* setData and delete: the mutation is queued and shows at once locally.   *)
Write(d, id, val) ==
    queue' = [queue EXCEPT ![d] = Append(@, [doc |-> id, val |-> val])]

(* Mutated: no initial event.                                              *)
ListenSilently(d, id, ctx) ==
    /\ watched' = [watched EXCEPT ![d] = @ \cup {[doc |-> id, ctx |-> ctx]}]
    /\ dirty' = [dirty EXCEPT ![d] = @ \cup Touched(d, cache[d], queue'[d])]

(* addSnapshotListener: an initial event is due, whatever the view holds.  *)
Listen(d, id, ctx) ==
    LET l == [doc |-> id, ctx |-> ctx]
    IN  /\ watched' = [watched EXCEPT ![d] = @ \cup {l}]
        /\ dirty' = [dirty EXCEPT ![d] =
                        @ \cup {l} \cup Touched(d, cache[d], queue'[d])]

(* getDocuments: one more outstanding read.                                *)
RequestGet(d, ctx) == gets' = [gets EXCEPT ![d] = Append(@, ctx)]

(* The process ends: callbacks are gone, cache and queue are on disk.      *)
DropCallbacks(d) ==
    /\ watched' = [watched EXCEPT ![d] = {}]
    /\ dirty'   = [dirty   EXCEPT ![d] = {}]
    /\ gets'    = [gets    EXCEPT ![d] = <<>>]
    /\ results' = [results EXCEPT ![d] = <<>>]

-----------------------------------------------------------------------------
(* Steps of the SDK and of the backend *)

(* The device's cache becomes c and its queue q; listeners are told.       *)
Apply(d, c, q) ==
    /\ cache' = [cache EXCEPT ![d] = c]
    /\ queue' = [queue EXCEPT ![d] = q]
    /\ dirty' = [dirty EXCEPT ![d] = @ \cup Touched(d, c, q)]

(* The backend applies the oldest queued mutation and acknowledges it.     *)
Acknowledge(d) ==
    /\ queue[d] # <<>>
    /\ LET m == Head(queue[d])
       IN  /\ server' = [server EXCEPT ![m.doc] = m.val]
           /\ Apply(d, [cache[d] EXCEPT ![m.doc] = m.val], Tail(queue[d]))
    /\ UNCHANGED <<watched, gets, results>>

(* The backend refuses the oldest queued mutation: it is dropped.          *)
Reject(d) ==
    /\ "rejectedWrite" \in Faults
    /\ queue[d] # <<>>
    /\ Apply(d, cache[d], Tail(queue[d]))
    /\ UNCHANGED <<server, watched, gets, results>>

(* The write stream breaks after the backend has applied the k oldest      *)
(* mutations, and before any acknowledgement arrives: all stay queued, and *)
(* will be sent, and applied, again.                                       *)
CommitUnacknowledged(d) ==
    /\ "lostAck" \in Faults
    /\ \E k \in 1 .. Len(queue[d]) :
          server' = Overlay(server, SubSeq(queue[d], 1, k))
    /\ UNCHANGED <<cache, queue, watched, dirty, gets, results>>

(* The watch stream brings the listened documents up to date.              *)
WatchedDocs(d) == {l.doc : l \in watched[d]}

Watch(d) ==
    LET c == [id \in DocIds |-> IF id \in WatchedDocs(d) THEN server[id]
                                                         ELSE cache[d][id]]
    IN  /\ c # cache[d]
        /\ Apply(d, c, queue[d])
        /\ UNCHANGED <<server, watched, gets, results>>

(* The oldest read is answered: from a fresh snapshot of the backend, ...  *)
AnswerFromServer(d) ==
    /\ gets[d] # <<>>
    /\ \E s \in Listings(Overlay(server, queue[d])) :
          results' = [results EXCEPT ![d] = Append(@,
              [ctx |-> Head(gets[d]), ok |-> TRUE,
               docs |-> Contents(Overlay(server, queue[d]), s)])]
    /\ gets' = [gets EXCEPT ![d] = Tail(@)]
    /\ Apply(d, server, queue[d])
    /\ UNCHANGED <<server, watched>>

(* ... or from the local view, when the client is offline, ...             *)
AnswerFromCache(d) ==
    /\ "offline" \in Faults
    /\ gets[d] # <<>>
    /\ \E s \in Listings(View(d)) :
          results' = [results EXCEPT ![d] = Append(@,
              [ctx |-> Head(gets[d]), ok |-> TRUE,
               docs |-> Contents(View(d), s)])]
    /\ gets' = [gets EXCEPT ![d] = Tail(@)]
    /\ UNCHANGED <<server, cache, queue, watched, dirty>>

(* ... or with an error.                                                   *)
AnswerWithError(d) ==
    /\ "readError" \in Faults
    /\ gets[d] # <<>>
    /\ results' = [results EXCEPT ![d] = Append(@,
           [ctx |-> Head(gets[d]), ok |-> FALSE, docs |-> <<>>])]
    /\ gets' = [gets EXCEPT ![d] = Tail(@)]
    /\ UNCHANGED <<server, cache, queue, watched, dirty>>

Answer(d) == AnswerFromServer(d) \/ AnswerFromCache(d) \/ AnswerWithError(d)

(* Mutated: the write pipeline is never filled; the watch stream is dead.  *)
SdkStepNoWrites(d) == Reject(d) \/ Watch(d) \/ Answer(d)
SdkStepNoWatch(d)  == Acknowledge(d) \/ Reject(d) \/ Answer(d)

SdkStep(d) == \/ Acknowledge(d) \/ Reject(d) \/ CommitUnacknowledged(d)
              \/ Watch(d) \/ Answer(d)

-----------------------------------------------------------------------------
(* The types of the variables, for documents with contents in Data and     *)
(* callbacks with contexts in Ctx.                                         *)
Mutations(Data)  == [doc : DocIds, val : Data \cup {Absent}]
Listeners(Ctx)   == [doc : DocIds, ctx : Ctx]
Answers(Data, Ctx) == [ctx : Ctx, ok : BOOLEAN, docs : Seq(Data)]

StoreTypeOK(Data, Ctx) ==
    /\ server  \in [DocIds -> Data \cup {Absent}]
    /\ cache   \in [Devices -> [DocIds -> Data \cup {Absent}]]
    /\ queue   \in [Devices -> Seq(Mutations(Data))]
    /\ watched \in [Devices -> SUBSET Listeners(Ctx)]
    /\ dirty   \in [Devices -> SUBSET Listeners(Ctx)]
    /\ gets    \in [Devices -> Seq(Ctx)]
    /\ results \in [Devices -> Seq(Answers(Data, Ctx))]
=============================================================================
