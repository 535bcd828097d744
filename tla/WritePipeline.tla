---------------------------- MODULE WritePipeline ----------------------------
(***************************************************************************)
(* How the Firestore client of one device delivers the writes of its       *)
(* application: the mutation queues of the users (LocalStore), the write   *)
(* pipeline (RemoteStore), the write stream with its credentials, backoff  *)
(* and idle timer (Stream, WriteStream), the credentials provider, and the *)
(* backend at the other end of the stream.                                 *)
(*                                                                         *)
(* Everything in the client runs on its worker queue, one task after the   *)
(* other.  The tasks whose order matters, the calls of the application,    *)
(* the changes of the user and the tokens, wait in `tasks`; what comes     *)
(* from timers and from the network is an action of its own.               *)
(***************************************************************************)
EXTENDS Integers, Sequences, FiniteSets

CONSTANTS
    Users,              \* the users that sign in
    Nothing,            \* "no write has been applied"
    MaxPendingWrites,   \* kMaxPendingWrites: the capacity of the pipeline
    MaxWrites,          \* bound: writes of the application
    MaxTasks,           \* bound: tasks waiting on the worker queue
    MaxChanges,         \* bound: changes of the user
    MaxFailures,        \* bound: failures of a run
    Failures            \* the failures a run allows: a subset of AllFailures

AllFailures == {"token", "stream", "refusal", "failedWrite", "kill"}

ASSUME CapacityAssumption == MaxPendingWrites \in Nat \ {0}
ASSUME WritesAssumption   == MaxWrites \in Nat
ASSUME TasksAssumption    == MaxTasks \in Nat
ASSUME ChangesAssumption  == MaxChanges \in Nat
ASSUME BoundAssumption    == MaxFailures \in Nat
ASSUME FailuresAssumption == Failures \subseteq AllFailures

VARIABLES
    batches,    \* per user: the mutation queue, on disk
    user,       \* the user whose queue is in use (SyncEngine)
    pipeline,   \* write_pipeline_
    state,      \* the state_ of the write stream
    handshake,  \* how far the handshake of the stream is
    idle,       \* whether the idleness timer runs
    token,      \* the request for a token
    caller,     \* the user whose token the stream was opened with
    up, down,   \* the writes and the answers under way on the stream
    refusing,   \* the backend has ended the stream, refusing what is next
    authUser,   \* the user known to the credentials provider
    tasks,      \* the worker queue
    written, changes, failures,     \* the bounded counters
    applied, content,               \* the backend
    accepted, rejected              \* what the application was told

clientVars  == <<batches, user, pipeline, state, handshake, idle, token, caller>>
channelVars == <<up, down, refusing>>
reports     == <<accepted, rejected>>
backendVars == <<applied, content>>
counters    == <<written, changes, failures>>
vars == <<clientVars, channelVars, authUser, tasks, counters, backendVars, reports>>

(* A write, with the user who was signed in when the application made it.  *)
Batch == [id : Nat, user : Users]

Task == [type : {"write", "user", "token"}, user : Users, ok : BOOLEAN, fresh : BOOLEAN]

Post(type, u, ok) == Append(tasks, [type |-> type, user |-> u, ok |-> ok, fresh |-> TRUE])

-----------------------------------------------------------------------------
(* The pipeline *)

LastId(p) == IF p = <<>> THEN 0 ELSE p[Len(p)].id

(* The position in the queue q of the last batch of the pipeline p.        *)
Position(p, q) ==
    CHOOSE k \in 0 .. Len(q) : \A i \in DOMAIN q : q[i].id <= LastId(p) <=> i <= k

(* GetNextMutationBatch, as often as the capacity allows.                  *)
Filled(p, q) ==
    LET k    == Position(p, q)
        room == MaxPendingWrites - Len(p)
    IN  p \o SubSeq(q, k + 1, IF k + room < Len(q) THEN k + room ELSE Len(q))

(* Mutated: the last batch of the queue is removed.                        *)
RemovedLast(q, b) == SubSeq(q, 1, Len(q) - 1)

(* RemoveMutationBatch.                                                    *)
Removed(q, b) ==
    LET i == CHOOSE i \in DOMAIN q : q[i].id = b.id
    IN  SubSeq(q, 1, i - 1) \o SubSeq(q, i + 1, Len(q))

IsStarted(s) == s \in {"Starting", "Open", "Backoff"}

(* Start of a stream that is in state s.                                   *)
Start(s) ==
    \/ s = "Error"   /\ state' = "Backoff"  /\ token' = "none"
    \/ s = "Initial" /\ state' = "Starting" /\ token' = "asked"

(* Mutated: a stream that has failed is not started again.                 *)
StartOnlyNew(s, p) ==
    \/ s = "Initial" /\ p # <<>> /\ Start(s)
    \/ (s # "Initial" \/ p = <<>>) /\ state' = s /\ token' = token

(* ShouldStartWriteStream and StartWriteStream, for a stream in state s    *)
(* and the pipeline p.                                                     *)
StartIfNeeded(s, p) ==
    \/ ~IsStarted(s) /\ p # <<>> /\ Start(s)
    \/ ~IsStarted(s) /\ p = <<>> /\ state' = s /\ token' = "none"
    \/ IsStarted(s) /\ state' = s /\ token' = token

(* FillWritePipeline, when the pipeline is p, the queue q and the stream   *)
(* in state s with the handshake h and the requests c under way: new       *)
(* batches are sent at once over an open stream, and stop the idle timer;  *)
(* an empty pipeline starts it.                                            *)
Fill(p, q, s, h, c) ==
    LET full    == Filled(p, q)
        sending == s = "Open" /\ h = "complete" /\ full # p
    IN  /\ pipeline'  = full
        /\ handshake' = h
        /\ up'   = IF sending THEN c \o SubSeq(full, Len(p) + 1, Len(full)) ELSE c
        /\ idle' = (s = "Open" /\ (full = <<>> \/ (idle /\ ~sending)))
        /\ StartIfNeeded(s, full)

-----------------------------------------------------------------------------
Init ==
    /\ batches   = [u \in Users |-> <<>>]
    /\ user      \in Users
    /\ authUser  = user
    /\ pipeline  = <<>>
    /\ state     = "Initial"
    /\ handshake = "none"
    /\ idle      = FALSE
    /\ token     = "none"
    /\ caller    = user
    /\ up = <<>> /\ down = <<>> /\ refusing = FALSE
    /\ tasks     = <<>>
    /\ written = 0 /\ changes = 0 /\ failures = 0
    /\ applied = {} /\ content = Nothing
    /\ accepted = {} /\ rejected = {}

-----------------------------------------------------------------------------
(* The application and the credentials provider *)

(* setData: a task of the worker queue.                                    *)
AppWrites ==
    /\ Len(tasks) < MaxTasks
    /\ written + Cardinality({i \in DOMAIN tasks : tasks[i].type = "write"}) < MaxWrites
    /\ tasks' = Post("write", authUser, TRUE)
    /\ UNCHANGED <<clientVars, channelVars, authUser, counters, backendVars, reports>>

(* Mutated: there is no user after a sign-out.                             *)
AuthSignsOut(u) ==
    /\ changes < MaxChanges /\ Len(tasks) < MaxTasks
    /\ authUser' = Nothing
    /\ changes'  = changes + 1
    /\ tasks'    = Post("user", authUser', TRUE)
    /\ UNCHANGED <<clientVars, channelVars, written, failures, backendVars, reports>>

(* The user, or only the user's token, changes: token_counter is raised.   *)
AuthChanges(u) ==
    /\ changes < MaxChanges /\ Len(tasks) < MaxTasks
    /\ authUser' = u
    /\ changes'  = changes + 1
    /\ tasks'    = Post("user", u, TRUE)
    /\ token'    = IF token = "asked" THEN "outdated" ELSE token
    /\ UNCHANGED <<batches, user, pipeline, state, handshake, idle, caller,
                   channelVars, written, failures, backendVars, reports>>

(* GetToken's callback: a token of the user, or an error, ...              *)
TokenAnswered ==
    /\ token = "asked"
    /\ \E ok \in BOOLEAN :
          /\ ok \/ ("token" \in Failures /\ failures < MaxFailures)
          /\ failures' = IF ok THEN failures ELSE failures + 1
          /\ tasks' = Post("token", authUser, ok)
    /\ token' = "none"
    /\ UNCHANGED <<batches, user, pipeline, state, handshake, idle, caller,
                   channelVars, authUser, written, changes, backendVars, reports>>

(* ... but asked for again if the counter was raised meanwhile.            *)
TokenAskedAgain ==
    /\ token = "outdated"
    /\ token' = "asked"
    /\ UNCHANGED <<batches, user, pipeline, state, handshake, idle, caller,
                   channelVars, authUser, tasks, counters, backendVars, reports>>

-----------------------------------------------------------------------------
(* The tasks of the worker queue *)

Takes(type) == tasks # <<>> /\ Head(tasks).type = type

(* Mutated: the close count is not raised.                                 *)
KeptFresh(ts) == ts

(* Close raises close_count_: the tokens on their way will be ignored.     *)
Closed(ts) ==
    [i \in DOMAIN ts |-> IF ts[i].type = "token" THEN [ts[i] EXCEPT !.fresh = FALSE]
                                                 ELSE ts[i]]

(* WriteMutations: the batch is queued, and sent if there is room.         *)
TaskWrite ==
    /\ Takes("write")
    /\ LET b == [id |-> written + 1, user |-> Head(tasks).user]
           q == Append(batches[user], b)
       IN  /\ batches' = [batches EXCEPT ![user] = q]
           /\ Fill(pipeline, q, state, handshake, up)
    /\ written' = written + 1
    /\ tasks' = Tail(tasks)
    /\ UNCHANGED <<user, caller, down, refusing, authUser, changes, failures,
                   backendVars, reports>>

(* Mutated: the pipeline is kept.                                          *)
TaskUserKeepsPipeline ==
    /\ Takes("user")
    /\ user' = Head(tasks).user
    /\ tasks' = IF IsStarted(state) THEN Closed(Tail(tasks)) ELSE Tail(tasks)
    /\ Fill(pipeline, batches[user'], IF IsStarted(state) THEN "Initial" ELSE state,
            "none", <<>>)
    /\ down' = <<>> /\ refusing' = FALSE
    /\ UNCHANGED <<batches, caller, authUser, counters, backendVars, reports>>

(* Mutated: the stream of the user before is kept.                         *)
TaskUserKeepsStream ==
    /\ Takes("user")
    /\ user' = Head(tasks).user
    /\ tasks' = Tail(tasks)
    /\ Fill(<<>>, batches[user'], state, handshake, <<>>)
    /\ down' = <<>> /\ refusing' = FALSE
    /\ UNCHANGED <<batches, caller, authUser, counters, backendVars, reports>>

(* HandleCredentialChange: the other queue is taken up, the stream is      *)
(* stopped if it is started, the pipeline cleared and filled again.        *)
TaskUser ==
    /\ Takes("user")
    /\ user' = Head(tasks).user
    /\ tasks' = IF IsStarted(state) THEN Closed(Tail(tasks)) ELSE Tail(tasks)
    /\ Fill(<<>>, batches[user'], IF IsStarted(state) THEN "Initial" ELSE state,
            "none", <<>>)
    /\ down' = <<>> /\ refusing' = FALSE
    /\ UNCHANGED <<batches, caller, authUser, counters, backendVars, reports>>

(* A token of a stream closed since: ignored.                              *)
TaskTokenIgnored ==
    /\ Takes("token") /\ ~Head(tasks).fresh
    /\ tasks' = Tail(tasks)
    /\ UNCHANGED <<clientVars, channelVars, authUser, counters, backendVars, reports>>

(* ResumeStartWithCredentials: the call is made, the handshake is sent.    *)
TaskToken ==
    /\ Takes("token") /\ Head(tasks).fresh /\ Head(tasks).ok
    /\ state' = "Open"
    /\ handshake' = "sent"
    /\ caller' = Head(tasks).user
    /\ tasks' = Tail(tasks)
    /\ UNCHANGED <<batches, user, pipeline, idle, token, channelVars, authUser,
                   counters, backendVars, reports>>

(* Close, with an error that is not the writes' fault: the stream starts   *)
(* again, after a backoff, if there is something to send.                  *)
CloseAndRestart(ts) ==
    /\ tasks' = Closed(ts)
    /\ up' = <<>> /\ down' = <<>> /\ refusing' = FALSE
    /\ handshake' = "none" /\ idle' = FALSE
    /\ StartIfNeeded("Error", pipeline)
    /\ UNCHANGED <<batches, user, pipeline, caller, authUser, written, changes,
                   backendVars, reports>>

TaskTokenFails ==
    /\ Takes("token") /\ Head(tasks).fresh /\ ~Head(tasks).ok
    /\ CloseAndRestart(Tail(tasks))
    /\ UNCHANGED failures

-----------------------------------------------------------------------------
(* Timers *)

BackoffElapses ==
    /\ state = "Backoff"
    /\ Start("Initial")
    /\ UNCHANGED <<batches, user, pipeline, handshake, idle, caller, channelVars,
                   authUser, tasks, counters, backendVars, reports>>

(* Stop, after kIdleTimeout without a write: a graceful close.             *)
IdleTimeout ==
    /\ idle
    /\ tasks' = Closed(tasks)
    /\ up' = <<>> /\ down' = <<>> /\ refusing' = FALSE
    /\ handshake' = "none" /\ idle' = FALSE
    /\ StartIfNeeded("Initial", <<>>)
    /\ UNCHANGED <<batches, user, pipeline, caller, authUser, counters,
                   backendVars, reports>>

-----------------------------------------------------------------------------
(* The backend *)

Serving == state = "Open" /\ ~refusing

BackendShakesHands ==
    /\ Serving /\ handshake = "sent"
    /\ handshake' = "answered"
    /\ UNCHANGED <<batches, user, pipeline, state, idle, token, caller, channelVars,
                   authUser, tasks, counters, backendVars, reports>>

(* The next write is applied, and answered.                                *)
BackendCommits ==
    /\ Serving /\ up # <<>>
    /\ applied' = applied \cup {Head(up)}
    /\ content' = Head(up)
    /\ up'   = Tail(up)
    /\ down' = Append(down, Head(up))
    /\ UNCHANGED <<clientVars, refusing, authUser, tasks, counters, reports>>

(* The next request is refused with a permanent error, which ends the      *)
(* stream.                                                                 *)
BackendRefuses ==
    /\ "refusal" \in Failures /\ failures < MaxFailures
    /\ Serving /\ (up # <<>> \/ handshake = "sent")
    /\ refusing' = TRUE
    /\ failures' = failures + 1
    /\ UNCHANGED <<clientVars, up, down, authUser, tasks, written, changes,
                   backendVars, reports>>

-----------------------------------------------------------------------------
(* What the client reads from the stream *)

(* Mutated: only the first batch is sent.                                  *)
ReadHandshakeSendsOne ==
    /\ state = "Open" /\ handshake = "answered"
    /\ handshake' = "complete"
    /\ up' = SubSeq(pipeline, 1, 1)
    /\ idle' = (idle /\ pipeline = <<>>)
    /\ UNCHANGED <<batches, user, pipeline, state, token, caller, down, refusing,
                   authUser, tasks, counters, backendVars, reports>>

(* OnWriteStreamHandshakeComplete: the whole pipeline is sent.             *)
ReadHandshake ==
    /\ state = "Open" /\ handshake = "answered"
    /\ handshake' = "complete"
    /\ up' = pipeline
    /\ idle' = (idle /\ pipeline = <<>>)
    /\ UNCHANGED <<batches, user, pipeline, state, token, caller, down, refusing,
                   authUser, tasks, counters, backendVars, reports>>

(* OnWriteStreamMutationResult: taken for the first batch of the pipeline. *)
ReadResult ==
    /\ state = "Open" /\ down # <<>>
    /\ LET b == Head(pipeline)
           q == Removed(batches[user], b)
       IN  /\ accepted' = accepted \cup {b}
           /\ batches' = [batches EXCEPT ![user] = q]
           /\ Fill(Tail(pipeline), q, state, handshake, up)
    /\ down' = Tail(down)
    /\ UNCHANGED <<user, caller, refusing, authUser, tasks, counters, backendVars, rejected>>

(* The stream ends with a transient error: what is under way is lost.      *)
StreamFails ==
    /\ "stream" \in Failures /\ failures < MaxFailures
    /\ state = "Open"
    /\ CloseAndRestart(tasks)
    /\ failures' = failures + 1

(* The refusal reaches the client: after the answers before it, unless the *)
(* sending of a later write fails first.                                   *)
RefusalArrives ==
    /\ state = "Open" /\ refusing
    /\ \/ down = <<>> /\ handshake # "answered"
       \/ "failedWrite" \in Failures /\ Len(up) > 1

(* HandleHandshakeError.                                                   *)
HandshakeRefused ==
    /\ RefusalArrives /\ handshake # "complete"
    /\ CloseAndRestart(tasks)
    /\ UNCHANGED failures

(* Mutated: the rejected batch stays in the queue.                         *)
WriteRefusedStaysQueued ==
    /\ RefusalArrives /\ handshake = "complete"
    /\ LET b == Head(pipeline)
           q == batches[user]
       IN  /\ rejected' = rejected \cup {b}
           /\ batches' = [batches EXCEPT ![user] = q]
           /\ Fill(Tail(pipeline), q, "Initial", "none", <<>>)
    /\ tasks' = Closed(tasks)
    /\ down' = <<>> /\ refusing' = FALSE
    /\ UNCHANGED <<user, caller, authUser, counters, backendVars, accepted>>

(* HandleWriteError: the first batch of the pipeline is taken for the one  *)
(* refused, and the stream starts again at once.                           *)
WriteRefused ==
    /\ RefusalArrives /\ handshake = "complete"
    /\ LET b == Head(pipeline)
           q == Removed(batches[user], b)
       IN  /\ rejected' = rejected \cup {b}
           /\ batches' = [batches EXCEPT ![user] = q]
           /\ Fill(Tail(pipeline), q, "Initial", "none", <<>>)
    /\ tasks' = Closed(tasks)
    /\ down' = <<>> /\ refusing' = FALSE
    /\ UNCHANGED <<user, caller, authUser, counters, backendVars, accepted>>

-----------------------------------------------------------------------------
(* The process ends and starts again, with its queues from disk.           *)
Restart ==
    /\ "kill" \in Failures /\ failures < MaxFailures
    /\ user' = authUser
    /\ tasks' = <<>>
    /\ Fill(<<>>, batches[authUser], "Initial", "none", <<>>)
    /\ down' = <<>> /\ refusing' = FALSE
    /\ failures' = failures + 1
    /\ UNCHANGED <<batches, caller, authUser, written, changes, backendVars, reports>>

WorkerTask == TaskWrite \/ TaskUser \/ TaskToken \/ TaskTokenFails \/ TaskTokenIgnored

StreamRead == ReadHandshake \/ ReadResult \/ HandshakeRefused \/ WriteRefused

Next == \/ AppWrites \/ TokenAnswered \/ TokenAskedAgain
        \/ \E u \in Users : AuthChanges(u)
        \/ WorkerTask \/ BackoffElapses \/ IdleTimeout
        \/ BackendShakesHands \/ BackendCommits \/ BackendRefuses
        \/ StreamRead \/ StreamFails \/ Restart

Spec == Init /\ [][Next]_vars
=============================================================================
