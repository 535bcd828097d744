------------------------ MODULE WritePipelineProperties ------------------------
(***************************************************************************)
(* What the write pipeline keeps, whatever fails and in whatever order     *)
(* tokens, answers, timers and changes of the user come.                   *)
(***************************************************************************)
EXTENDS WritePipeline

(* The type invariant.                                                     *)
TypeOK ==
    /\ batches   \in [Users -> Seq(Batch)]
    /\ user \in Users /\ authUser \in Users /\ caller \in Users
    /\ pipeline  \in Seq(Batch)
    /\ state     \in {"Initial", "Starting", "Open", "Error", "Backoff"}
    /\ handshake \in {"none", "sent", "answered", "complete"}
    /\ idle \in BOOLEAN /\ refusing \in BOOLEAN
    /\ token     \in {"none", "asked", "outdated"}
    /\ up \in Seq(Batch) /\ down \in Seq(Batch)
    /\ tasks     \in Seq(Task)
    /\ written \in Nat /\ changes \in Nat /\ failures \in Nat
    /\ applied \subseteq Batch /\ content \in Batch \cup {Nothing}
    /\ accepted \subseteq Batch /\ rejected \subseteq Batch

-----------------------------------------------------------------------------
(* Safety *)

(* The pipeline is filled by comparing batch ids, emptied from the front,  *)
(* and cleared when the user changes: it always is the beginning of the    *)
(* queue of the user whose credentials the stream has.                     *)
PipelineIsPrefix ==
    /\ Len(pipeline) <= Len(batches[user]) /\ Len(pipeline) <= MaxPendingWrites
    /\ pipeline = SubSeq(batches[user], 1, Len(pipeline))

(* An answer bears no batch id, and is taken for the first batch of the    *)
(* pipeline: the answers and the requests under way are, in this order,    *)
(* the batches of the pipeline.                                            *)
AnswersMatchPipeline ==
    IF state = "Open" /\ handshake = "complete" THEN pipeline = down \o up
                                                ELSE up = <<>> /\ down = <<>>

(* The token is fetched while the user may change: a write is queued and   *)
(* sent for the user who was signed in when the application made it.       *)
OwnCredentials ==
    /\ \A u \in Users : \A i \in DOMAIN batches[u] : batches[u][i].user = u
    /\ state = "Open" => caller = user
    /\ \A i \in DOMAIN up : up[i].user = caller

(* The assertions (HARD_ASSERT) of the stream and of the remote store: a   *)
(* token that is not ignored finds the stream starting, a result finds a   *)
(* batch in the pipeline, and the idle timer a stream no longer needed.    *)
AssertionsHold ==
    /\ \A i \in DOMAIN tasks : tasks[i].type = "token" /\ tasks[i].fresh =>
          state = "Starting" /\ \A j \in DOMAIN tasks :
                                   tasks[j].type = "token" /\ tasks[j].fresh => i = j
    /\ down # <<>> => pipeline # <<>>
    /\ idle => state = "Open" /\ pipeline = <<>>
    /\ pipeline # <<>> => \E i \in DOMAIN batches[user] : batches[user][i] = pipeline[1]

(* What the application is told was done, was done; and the writes of a    *)
(* user are first applied in the order they were made.                     *)
InOrder ==
    /\ accepted \subseteq applied
    /\ \A b \in applied : \A u \in Users : \A i \in DOMAIN batches[u] :
          batches[u][i].id < b.id /\ u = b.user => batches[u][i] \in applied

-----------------------------------------------------------------------------
(* Refinement *)

(* The pipeline and its stream deliver the queues: the cursor counts the   *)
(* answers under way.                                                      *)
D == INSTANCE WriteDelivery WITH
        pending <- batches, current <- user, cursor <- Len(down)

Delivery == D!Spec

-----------------------------------------------------------------------------
(* Liveness *)

(* Tasks run, timers elapse, and Auth and the backend answer.              *)
Fairness ==
    /\ WF_vars(WorkerTask) /\ WF_vars(BackoffElapses)
    /\ WF_vars(TokenAnswered) /\ WF_vars(TokenAskedAgain)
    /\ WF_vars(BackendShakesHands) /\ WF_vars(BackendCommits)
    /\ WF_vars(StreamRead)

FairSpec == Spec /\ Fairness

(* A write that was queued is answered, if the user stays signed in.       *)
Queued(u, n) == \E i \in DOMAIN batches[u] : batches[u][i].id = n

EventuallyAnswered ==
    \A u \in Users, n \in 1 .. MaxWrites :
        Queued(u, n) ~> (~Queued(u, n) \/ user # u)

=============================================================================
