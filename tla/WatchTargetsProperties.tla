------------------------ MODULE WatchTargetsProperties ------------------------
(***************************************************************************)
(* What listening keeps, over broken streams, restarts, and targets that   *)
(* are dropped and asked for again.                                        *)
(***************************************************************************)
EXTENDS WatchTargets

Version == 0 .. Len(hist)

Messages ==
    [type : {"added", "removed", "docs", "snapshot"}, target : Targets \cup {Collection},
     version : Nat, reset : BOOLEAN, changes : [Docs -> Entry \cup {Nothing}],
     count : Nat \cup {Nothing}]

(* The type invariant.                                                     *)
TypeOK ==
    /\ hist    \in Seq([doc : Docs, there : BOOLEAN])
    /\ unacked \in Seq(Nat)
    /\ asked   \in [Targets -> Seq(Request)]
    /\ sub     \in [Targets -> [on : BOOLEAN, told : Nat, current : BOOLEAN]]
    /\ wire    \in Seq(Messages)
    /\ filters \in Nat /\ failures \in Nat
    /\ stream  \in {"closed", "starting", "open"}
    /\ idle    \in BOOLEAN
    /\ listens \subseteq Targets /\ resets \subseteq Targets
    /\ token \in [Targets -> Nat] /\ mem \in [Targets -> Nat] /\ saved \in [Targets -> Nat]
    /\ agg   \in [Targets -> [owed : Nat, current : BOOLEAN,
                              changes : [Docs -> {"none", "added", "modified", "removed"}]]]
    /\ updates \in [Docs -> Entry \cup {Nothing}]
    /\ synced \in [Targets -> SUBSET Docs] /\ keys \in [Targets -> SUBSET Docs]
    /\ cache   \in [Docs -> Entry]

-----------------------------------------------------------------------------
(* Safety *)

(* What a target with the keys ks that resumes from v will not be sent     *)
(* again, the client has: the documents of the target at v, each in the    *)
(* cache and not older than it was then.                                   *)
Earned(t, ks, v) ==
    v > 0 => /\ ks = KeysAt(hist, t, v)
             /\ \A d \in ks : cache[d].version >= LastChange(hist, d, v)

(* Resume tokens in memory and on disk, saved at different times, over     *)
(* targets dropped and asked for again, broken streams and restarts, are   *)
(* never ahead of the keys and the cache, as long as the backend tells the *)
(* client of every deletion.                                               *)
TokensEarned ==
    filters = 0 =>
    /\ \A t \in listens : Earned(t, synced[t], token[t])
    /\ \A t \in Targets : Earned(t, keys[t], saved[t])

(* The cache is put together from documents of several targets, from       *)
(* deletions concluded from what was not sent, and from acknowledgements:  *)
(* it never holds what the backend did not hold at that version.           *)
CacheIsHistory ==
    \A d \in Docs : LET e == cache[d] IN
        /\ e.version \in Version
        /\ e.version > 0 => e.there = DocAt(hist, d, e.version).there
        /\ e.there => LastChange(hist, d, e.version) = e.version

(* The count of outstanding responses, by which messages for a former life *)
(* of a target are told from those for its present one, is right.          *)
Responses(t) == {i \in DOMAIN wire : wire[i].target = t /\ wire[i].type \in {"added", "removed"}}

OwedIsUnderWay ==
    \A t \in Targets : agg[t].owed = Len(asked[t]) + Cardinality(Responses(t))

(* The assertions (HARD_ASSERT): what is a modification or removal for the *)
(* aggregator is in the view, a stream stopped as idle is not needed; and  *)
(* the view has the keys that are on disk.                                 *)
WatchAssertionsHold ==
    /\ \A t \in listens : synced[t] = keys[t]
    /\ \A t \in Targets, d \in Docs : Active(t) =>
          (agg[t].changes[d] \in {"modified", "removed"} => d \in synced[t])
    /\ idle => listens = {} /\ stream = "open"
    /\ stream = "closed" => listens = {}

-----------------------------------------------------------------------------
(* Liveness *)

(* The stream opens, and the backend serves it.                            *)
Fairness ==
    /\ WF_vars(StreamOpens) /\ WF_vars(Read)
    /\ SF_vars(BackendSyncs)
    /\ \A t \in Targets : SF_vars(BackendServes(t))

FairSpec == Spec /\ Fairness

(* A target listened to comes to have all documents of the backend in the  *)
(* cache as they are there, over broken streams, restarts, resets and      *)
(* existence filters; and, while no filter was needed, nothing else in its *)
(* view.                                                                   *)
CaughtUp(t) ==
    LET ks == KeysAt(hist, t, Now)
    IN  /\ \A d \in ks : cache[d] = DocAt(hist, d, Now)
        /\ filters = 0 => synced[t] = ks

ListensCatchUp == \A t \in Targets : (t \in listens) ~> (t \notin listens \/ CaughtUp(t))

-----------------------------------------------------------------------------
(* What a comment says, and the code does not do *)

(* "Cause a hard reset by unwatching and rewatching immediately, but       *)
(* deliberately don't send a resume token so that we get a full update":   *)
(* what the backend deleted does not stay in the view of a target listened *)
(* to, also when the backend tells of it with an existence filter only.    *)
InView(t) == {d \in synced[t] : cache[d].there}

DeletedLeaveView ==
    \A t \in Targets :
        (t \in listens) ~> (t \notin listens \/ InView(t) \subseteq KeysAt(hist, t, Now))
=============================================================================
