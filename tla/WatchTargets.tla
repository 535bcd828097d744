----------------------------- MODULE WatchTargets -----------------------------
(***************************************************************************)
(* How the Firestore client of one device keeps its cache up to date: the  *)
(* targets it listens to (RemoteStore), the watch stream and the           *)
(* aggregation of its messages into snapshots (WatchChangeAggregator), the *)
(* cached documents, the keys of each target and the resume tokens on disk *)
(* (LocalStore), and the backend at the other end of the stream.           *)
(*                                                                         *)
(* A version of the backend is the number of writes it has applied, a      *)
(* resume token the version it was issued at, and 0 no token.              *)
(***************************************************************************)
EXTENDS Integers, Sequences, FiniteSets, SequencesExt

CONSTANTS
    Docs,           \* the documents of a collection
    Collection,     \* the target that is the whole collection
    Targets,        \* the targets of a run: the collection, single documents
    Nothing,        \* "no update of the document", "no filter"
    MaxWrites,      \* bound: writes applied by the backend
    MaxRequests,    \* bound: requests of a target under way
    MaxMessages,    \* bound: messages under way to the client
    MaxFilters,     \* bound: times existence filters are sent
    MaxFailures,    \* bound: broken streams and ended processes
    Failures        \* the failures a run allows: a subset of AllFailures

AllFailures == {"break", "kill", "reset", "filter"}

ASSUME TargetsAssumption  == Targets \subseteq Docs \cup {Collection}
ASSUME DistinctAssumption == Collection \notin Docs
ASSUME DocsAssumption     == IsFiniteSet(Docs)
ASSUME BoundsAssumption   == /\ MaxWrites \in Nat /\ MaxRequests \in Nat
                             /\ MaxMessages \in Nat
                             /\ MaxFilters \in Nat /\ MaxFailures \in Nat
ASSUME FailuresAssumption == Failures \subseteq AllFailures

VARIABLES
    hist,       \* the writes the backend has applied
    unacked,    \* own writes applied, and not yet acknowledged to the client
    asked,      \* per target: the requests under way, oldest first
    sub,        \* per target: the backend's subscription of this stream
    wire,       \* the messages under way to the client, oldest first
    filters,    \* how many existence filters were sent
    failures,   \* how often the stream broke or the process ended
    stream,     \* the watch stream
    idle,       \* whether the stream's idleness timer runs
    listens,    \* listen_targets_
    token,      \* per target: the resume token in listen_targets_
    agg,        \* per target: its TargetState
    updates,    \* pending_document_updates_
    resets,     \* pending_target_resets_
    synced,     \* per target: the synced documents of its view
    mem,        \* per target: the resume token of the LocalStore
    saved,      \* per target: the resume token on disk
    keys,       \* per target: the matching keys on disk
    cache       \* the remote document cache, on disk

backendVars == <<hist, sub, filters, failures>>
streamVars  == <<asked, wire, stream, idle>>
aggVars     == <<agg, updates, resets>>
diskVars    == <<saved, keys, cache>>
vars == <<backendVars, unacked, streamVars, listens, token, aggVars, synced, mem,
          diskVars>>

(* A document, or its absence, at a version; at version 0, nothing known.  *)
Entry   == [version : Nat, there : BOOLEAN]
Unknown == [version |-> 0, there |-> FALSE]

(* No update and no filter are none of those there are.                    *)
ASSUME NothingAssumption == Nothing \notin Entry \cup Nat

Request  == [type : {"listen", "unlisten"}, from : Nat]
ListenFrom(v) == [type |-> "listen", from |-> v]
Unlisten      == [type |-> "unlisten", from |-> 0]

IsDocumentQuery(t) == t # Collection

Matches(t) == IF IsDocumentQuery(t) THEN {t} ELSE Docs

-----------------------------------------------------------------------------
(* The backend's documents *)

LastChange(h, d, v) ==
    CHOOSE i \in 0 .. v : /\ i > 0 => h[i].doc = d
                          /\ \A j \in i + 1 .. v : h[j].doc # d

DocAt(h, d, v) ==
    LET i == LastChange(h, d, v)
    IN  [version |-> i, there |-> i > 0 /\ h[i].there]

(* The documents a target consists of at a version.                        *)
KeysAt(h, t, v) == {d \in Matches(t) : DocAt(h, d, v).there}

Now == Len(hist)

-----------------------------------------------------------------------------
(* The state of a target *)

Fresh == [owed |-> 0, current |-> FALSE, changes |-> [d \in Docs |-> "none"]]

(* AddDocumentToTarget and RemoveDocumentFromTarget, for a target with the *)
(* keys ks.                                                                *)
Change(ks, d, there) ==
    CASE there /\ d \in ks     -> "modified"
      [] there /\ d \notin ks  -> "added"
      [] ~there /\ d \in ks    -> "removed"
      [] ~there /\ d \notin ks -> "none"

(* A plausible mistake: the reset of a target keeps its documents.         *)
ResetKeepsKeys(ks) == Fresh

(* ResetTarget.                                                            *)
Reset(ks) ==
    [Fresh EXCEPT !.changes = [d \in Docs |-> IF d \in ks THEN "removed" ELSE "none"]]

ChangesOf(a, kind) == {d \in Docs : a.changes[d] = kind}

(* GetCurrentDocumentCountForTarget.                                       *)
DocumentCount(ks, a) ==
    Cardinality(ks) + Cardinality(ChangesOf(a, "added"))
                    - Cardinality(ChangesOf(a, "removed"))

(* A plausible mistake: a target that is owed answers counts as active.    *)
ActiveWhileOwed(t) == t \in listens

(* IsActiveTarget: listened to, and every request answered.                *)
Active(t) == t \in listens /\ agg[t].owed = 0

-----------------------------------------------------------------------------
Init ==
    /\ hist = <<>> /\ unacked = <<>> /\ filters = 0 /\ failures = 0
    /\ asked   = [t \in Targets |-> <<>>]
    /\ sub     = [t \in Targets |-> [on |-> FALSE, told |-> 0, current |-> FALSE]]
    /\ wire    = <<>>
    /\ stream  = "closed" /\ idle = FALSE
    /\ listens = {}
    /\ token   = [t \in Targets |-> 0]
    /\ agg     = [t \in Targets |-> Fresh]
    /\ updates = [d \in Docs |-> Nothing]
    /\ resets  = {}
    /\ synced  = [t \in Targets |-> {}]
    /\ mem     = [t \in Targets |-> 0]
    /\ saved   = [t \in Targets |-> 0]
    /\ keys    = [t \in Targets |-> {}]
    /\ cache   = [d \in Docs |-> Unknown]

(* A plausible mistake: what the old stream sent is still read.            *)
OldMessagesRead(next) ==
    /\ stream'  = next /\ idle' = FALSE
    /\ asked'   = [t \in Targets |-> <<>>]
    /\ sub'     = [t \in Targets |-> [on |-> FALSE, told |-> 0, current |-> FALSE]]
    /\ agg'     = [t \in Targets |-> Fresh]
    /\ updates' = [d \in Docs |-> Nothing]
    /\ resets'  = {}
    /\ UNCHANGED wire

(* The stream is gone, with the aggregator and with what is under way.     *)
StreamGone(next) ==
    /\ stream'  = next /\ idle' = FALSE
    /\ asked'   = [t \in Targets |-> <<>>]
    /\ wire'    = <<>>
    /\ sub'     = [t \in Targets |-> [on |-> FALSE, told |-> 0, current |-> FALSE]]
    /\ agg'     = [t \in Targets |-> Fresh]
    /\ updates' = [d \in Docs |-> Nothing]
    /\ resets'  = {}

-----------------------------------------------------------------------------
(* The application listens and stops listening *)

(* A plausible mistake: a request leaves the idleness timer running.       *)
SendKeepsTimer(t, r) ==
    \/ /\ stream = "open"
       /\ asked' = [asked EXCEPT ![t] = Append(@, r)]
       /\ agg'   = [agg EXCEPT ![t].owed = @ + 1]
       /\ idle'  = (idle \/ listens' = {})
    \/ stream # "open" /\ UNCHANGED <<asked, agg, idle>>

(* SendWatchRequest and SendUnwatchRequest, if the stream is open: each is *)
(* owed an answer, and stops the idleness timer, which is started again    *)
(* when no target is left.                                                 *)
Send(t, r) ==
    \/ /\ stream = "open"
       /\ asked' = [asked EXCEPT ![t] = Append(@, r)]
       /\ agg'   = [agg EXCEPT ![t].owed = @ + 1]
       /\ idle'  = (listens' = {})
    \/ stream # "open" /\ UNCHANGED <<asked, agg, idle>>

(* Listen: the target is allocated with what is on disk, and asked for if  *)
(* the stream is open; a closed stream is started.                         *)
Listen(t) ==
    /\ t \notin listens /\ Len(asked[t]) < MaxRequests
    /\ listens' = listens \cup {t}
    /\ token'   = [token EXCEPT ![t] = saved[t]]
    /\ mem'     = [mem EXCEPT ![t] = saved[t]]
    /\ synced'  = [synced EXCEPT ![t] = keys[t]]
    /\ stream'  = IF stream = "closed" THEN "starting" ELSE stream
    /\ Send(t, ListenFrom(saved[t]))
    /\ UNCHANGED <<backendVars, unacked, wire, updates, resets, diskVars>>

(* StopListening: the LocalStore saves its token (ReleaseTarget), and an   *)
(* open stream is told.                                                    *)
StopListening(t) ==
    /\ t \in listens /\ Len(asked[t]) < MaxRequests
    /\ listens' = listens \ {t}
    /\ saved'   = [saved EXCEPT ![t] = mem[t]]
    /\ token'   = [token EXCEPT ![t] = 0]
    /\ mem'     = [mem EXCEPT ![t] = 0]
    /\ synced'  = [synced EXCEPT ![t] = {}]
    /\ Send(t, Unlisten)
    /\ UNCHANGED <<backendVars, unacked, wire, stream, updates, resets, keys, cache>>

-----------------------------------------------------------------------------
(* The stream *)

(* OnWatchStreamOpen: every target is asked for again, from its token.     *)
StreamOpens ==
    /\ stream = "starting"
    /\ stream' = "open"
    /\ asked' = [t \in Targets |-> IF t \in listens THEN <<ListenFrom(token[t])>>
                                                   ELSE <<>>]
    /\ agg' = [t \in Targets |-> IF t \in listens THEN [Fresh EXCEPT !.owed = 1]
                                                 ELSE Fresh]
    /\ UNCHANGED <<backendVars, unacked, wire, idle, listens, token, updates, resets,
                   synced, mem, diskVars>>

(* A plausible mistake: a broken stream is not started again.              *)
StreamStaysClosed ==
    /\ "break" \in Failures /\ failures < MaxFailures
    /\ stream # "closed"
    /\ StreamGone("closed")
    /\ failures' = failures + 1
    /\ UNCHANGED <<hist, filters, unacked, listens, token, synced, mem, diskVars>>

(* OnWatchStreamClose, and the restart of the streams for another user: it *)
(* is started again if there is a target.                                  *)
StreamBreaks ==
    /\ "break" \in Failures /\ failures < MaxFailures
    /\ stream # "closed"
    /\ StreamGone(IF listens # {} THEN "starting" ELSE "closed")
    /\ failures' = failures + 1
    /\ UNCHANGED <<hist, filters, unacked, listens, token, synced, mem, diskVars>>

(* The idleness timer: a graceful stop.                                    *)
IdleTimeout ==
    /\ idle
    /\ StreamGone("closed")
    /\ UNCHANGED <<hist, filters, failures, unacked, listens, token, synced, mem, diskVars>>

(* The process ends; a new one starts with what is on disk, and with the   *)
(* mutation queue, whose writes are applied again.                         *)
Kill ==
    /\ "kill" \in Failures /\ failures < MaxFailures
    /\ listens # {} \/ stream # "closed"
    /\ failures' = failures + 1
    /\ StreamGone("closed")
    /\ unacked' = <<>>
    /\ listens' = {}
    /\ token'   = [t \in Targets |-> 0]
    /\ mem'     = [t \in Targets |-> 0]
    /\ synced'  = [t \in Targets |-> {}]
    /\ UNCHANGED <<hist, filters, diskVars>>

-----------------------------------------------------------------------------
(* The backend *)

(* A device writes or deletes a document: this one, or another.            *)
BackendWrites(d, own) ==
    /\ Now < MaxWrites
    /\ \E there \in BOOLEAN :
          /\ there \/ DocAt(hist, d, Now).there
          /\ hist' = Append(hist, [doc |-> d, there |-> there])
    /\ unacked' = IF own THEN Append(unacked, Now + 1) ELSE unacked
    /\ UNCHANGED <<sub, filters, failures, streamVars, listens, token, aggVars, synced,
                   mem, diskVars>>

Message(type, t, v) ==
    [type |-> type, target |-> t, version |-> v, reset |-> FALSE,
     changes |-> [d \in Docs |-> Nothing], count |-> Nothing]

(* A request of the target is taken, and answered with ADD or REMOVE.      *)
BackendServes(t) ==
    /\ asked[t] # <<>> /\ Len(wire) < MaxMessages
    /\ LET r == Head(asked[t])
           adds == r.type = "listen"
       IN  /\ sub'  = [sub EXCEPT ![t] = [on |-> adds, told |-> r.from, current |-> FALSE]]
           /\ wire' = Append(wire, Message(IF adds THEN "added" ELSE "removed", t, 0))
    /\ asked' = [asked EXCEPT ![t] = Tail(@)]
    /\ UNCHANGED <<hist, filters, failures, unacked, stream, idle, listens, token,
                   aggVars, synced, mem, diskVars>>

Behind(t) == sub[t].on /\ (~sub[t].current \/ sub[t].told < Now)

(* What the backend may send a target that resumes: the changes, or all    *)
(* documents after a RESET, or the changes without the deletions and then  *)
(* an existence filter.                                                    *)
Ways(t) ==
    IF sub[t].current \/ sub[t].told = 0 THEN {"changes"}
    ELSE {"changes"} \cup ({"reset"} \cap Failures)
                     \cup (IF filters < MaxFilters THEN {"filter"} \cap Failures ELSE {})

Sent(t, way, d) ==
    LET from    == IF way = "reset" THEN 0 ELSE sub[t].told
        new     == DocAt(hist, d, Now)
        changed == d \in Matches(t) /\ new.version > from
    IN  CASE changed /\ new.there -> new
          [] changed /\ ~new.there /\ way = "changes" /\ DocAt(hist, d, from).there
                                  -> [version |-> Now, there |-> FALSE]
          [] OTHER                -> Nothing

(* The documents of a target, CURRENT, and an existence filter if any.     *)
Part(t, way) ==
    [Message("docs", t, Now) EXCEPT
        !.reset   = (way = "reset"),
        !.changes = [d \in Docs |-> Sent(t, way, d)],
        !.count   = IF way = "filter" THEN Cardinality(KeysAt(hist, t, Now)) ELSE Nothing]

(* All targets are brought up to now, and a snapshot of the whole stream   *)
(* is announced.                                                           *)
BackendSyncs ==
    LET behind == {t \in Targets : Behind(t)}
        order  == SetToSeq(behind)
    IN  /\ behind # {} /\ Len(wire) < MaxMessages
        /\ \E way \in [behind -> {"changes", "reset", "filter"}] :
              /\ \A t \in behind : way[t] \in Ways(t)
              /\ wire' = wire \o [i \in DOMAIN order |-> Part(order[i], way[order[i]])]
                              \o <<Message("snapshot", Collection, Now)>>
              /\ filters' = IF \E t \in behind : way[t] = "filter" THEN filters + 1
                                                                   ELSE filters
        /\ sub' = [t \in Targets |-> IF t \in behind
                                     THEN [on |-> TRUE, told |-> Now, current |-> TRUE]
                                     ELSE sub[t]]
        /\ UNCHANGED <<hist, failures, unacked, asked, stream, idle, listens, token,
                       aggVars, synced, mem, diskVars>>

-----------------------------------------------------------------------------
(* What the client reads from the stream *)

Reads(type) == wire # <<>> /\ Head(wire).type = type /\ wire' = Tail(wire)

(* ADD: the last answer owed clears what was aggregated before.            *)
ReadAdded ==
    /\ Reads("added")
    /\ LET t == Head(wire).target
           a == [agg[t] EXCEPT !.owed = @ - 1]
       IN  agg' = [agg EXCEPT ![t] = IF a.owed = 0
                                     THEN [a EXCEPT !.changes = Fresh.changes] ELSE a]
    /\ UNCHANGED <<backendVars, unacked, asked, stream, idle, listens, token, updates,
                   resets, synced, mem, diskVars>>

(* A plausible mistake: a REMOVE drops the target, whatever it is owed.    *)
RemovedForgetsOwed ==
    /\ Reads("removed")
    /\ agg' = [agg EXCEPT ![Head(wire).target] = Fresh]
    /\ UNCHANGED <<backendVars, unacked, asked, stream, idle, listens, token, updates,
                   resets, synced, mem, diskVars>>

(* REMOVE.                                                                 *)
ReadRemoved ==
    /\ Reads("removed")
    /\ LET t == Head(wire).target
       IN  agg' = [agg EXCEPT ![t] = IF agg[t].owed = 1
                                     THEN Fresh ELSE [agg[t] EXCEPT !.owed = @ - 1]]
    /\ UNCHANGED <<backendVars, unacked, asked, stream, idle, listens, token, updates,
                   resets, synced, mem, diskVars>>

(* The documents of a target that owes an answer are ignored.              *)
ReadDocsIgnored ==
    /\ Reads("docs") /\ ~Active(Head(wire).target)
    /\ UNCHANGED <<backendVars, unacked, asked, stream, idle, listens, token, aggVars,
                   synced, mem, diskVars>>

(* The changes of the message m, and CURRENT, on a target with keys ks.    *)
Aggregated(a, ks, m) ==
    LET b == IF m.reset THEN Reset(ks) ELSE a
    IN  [b EXCEPT !.current = TRUE,
                  !.changes = [d \in Docs |->
                      IF m.changes[d] = Nothing THEN b.changes[d]
                                                ELSE Change(ks, d, m.changes[d].there)]]

(* HandleDocumentChange, HandleTargetChange and HandleExistenceFilter: a   *)
(* filter on one document stands for its deletion; one on the collection   *)
(* that does not match resets the target.                                  *)
ReadDocs ==
    /\ Reads("docs") /\ Active(Head(wire).target)
    /\ LET m == Head(wire)
           t == m.target
           ks == synced[t]
           a == Aggregated(agg[t], ks, m)
           news == [d \in Docs |-> IF m.changes[d] = Nothing THEN updates[d] ELSE m.changes[d]]
           gone == m.count = 0 /\ IsDocumentQuery(t)
           mismatch == /\ m.count # Nothing /\ ~IsDocumentQuery(t)
                       /\ DocumentCount(ks, a) # m.count
       IN  /\ agg' = [agg EXCEPT ![t] =
                        IF mismatch THEN Reset(ks)
                        ELSE IF gone THEN [a EXCEPT !.changes[t] = Change(ks, t, FALSE)]
                        ELSE a]
           /\ updates' = IF gone THEN [news EXCEPT ![t] = Unknown] ELSE news
           /\ resets'  = IF mismatch THEN resets \cup {t} ELSE resets
    /\ UNCHANGED <<backendVars, unacked, asked, stream, idle, listens, token, synced,
                   mem, diskVars>>

(* A plausible mistake: an update that came with the snapshot is no reason *)
(* not to conclude that the document is not there.                         *)
SynthesizedOver(v) ==
    [d \in Docs |->
        IF d \in Targets /\ Active(d) /\ agg[d].current /\ d \notin synced[d]
        THEN [version |-> v, there |-> FALSE]
        ELSE updates[d]]

(* CreateRemoteEvent: a document target that is current and without its    *)
(* document, and got no update of it, has learned that it is not there.    *)
Synthesized(v) ==
    [d \in Docs |->
        IF /\ d \in Targets /\ Active(d) /\ agg[d].current
           /\ updates[d] = Nothing /\ d \notin synced[d]
        THEN [version |-> v, there |-> FALSE]
        ELSE updates[d]]

(* ApplyRemoteEvent: only a newer document replaces the one in the cache;  *)
(* a deletion without a version removes it.                                *)
Cached(news) ==
    [d \in Docs |->
        IF news[d] # Nothing /\ (news[d] = Unknown \/ news[d].version > cache[d].version)
        THEN news[d] ELSE cache[d]]

KeysAfter(ks, a) == (ks \ ChangesOf(a, "removed")) \cup ChangesOf(a, "added")

(* ShouldPersistTargetData: the target has no token yet, its token is one  *)
(* of the old ones, or there are changes.                                  *)
ShouldPersist(t, old) == mem[t] = 0 \/ t \in old \/ ChangesOf(agg[t], "none") # Docs

(* RaiseWatchSnapshot: the active targets get the snapshot's token, in     *)
(* memory at once and on disk if it should be; those with a mismatch are   *)
(* asked for again from the start; keys and cache are updated.             *)
ReadSnapshot ==
    /\ Reads("snapshot")
    /\ LET v == Head(wire).version
           active == {t \in Targets : Active(t)}
           again  == listens \cap resets
       IN  /\ token' = [t \in Targets |-> IF t \in again THEN 0
                                          ELSE IF t \in active THEN v ELSE token[t]]
           /\ mem'   = [t \in Targets |-> IF t \in active THEN v ELSE mem[t]]
           /\ \E old \in SUBSET active :
                 saved' = [t \in Targets |->
                     IF t \in active /\ ShouldPersist(t, old) THEN v ELSE saved[t]]
           /\ keys'   = [t \in Targets |-> IF t \in active THEN KeysAfter(keys[t], agg[t])
                                                           ELSE keys[t]]
           /\ synced' = [t \in Targets |-> IF t \in active THEN KeysAfter(synced[t], agg[t])
                                                           ELSE synced[t]]
           /\ cache'  = Cached(Synthesized(v))
           /\ agg' = [t \in Targets |->
                        [agg[t] EXCEPT !.owed = IF t \in again THEN @ + 2 ELSE @,
                                       !.changes = IF t \in active THEN Fresh.changes
                                                                    ELSE @]]
           /\ asked' = [t \in Targets |->
                          IF t \in again THEN asked[t] \o <<Unlisten, ListenFrom(0)>>
                                         ELSE asked[t]]
    /\ updates' = [d \in Docs |-> Nothing]
    /\ resets' = {}
    /\ UNCHANGED <<backendVars, unacked, stream, idle, listens>>

-----------------------------------------------------------------------------
(* ApplyBatchResult: an own write is acknowledged, over the other stream.  *)
Acknowledged ==
    /\ unacked # <<>>
    /\ LET v == Head(unacked)
           d == hist[v].doc
       IN  cache' = IF cache[d].version < v
                    THEN [cache EXCEPT ![d] = [version |-> v, there |-> hist[v].there]]
                    ELSE cache
    /\ unacked' = Tail(unacked)
    /\ UNCHANGED <<backendVars, streamVars, listens, token, aggVars, synced, mem, saved,
                   keys>>

Read == ReadAdded \/ ReadRemoved \/ ReadDocs \/ ReadDocsIgnored \/ ReadSnapshot

Next ==
    \/ \E t \in Targets : Listen(t) \/ StopListening(t) \/ BackendServes(t)
    \/ StreamOpens \/ StreamBreaks \/ IdleTimeout \/ Kill
    \/ \E d \in Docs, own \in BOOLEAN : BackendWrites(d, own)
    \/ BackendSyncs \/ Read \/ Acknowledged

Spec == Init /\ [][Next]_vars
=============================================================================
