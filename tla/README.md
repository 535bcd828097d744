# TaskFirestoreApp: a verification project

TaskFirestoreApp is an iOS application (Swift, UIKit) with which the members of
a family log in, make groups, and talk in them.  All of its data is in Cloud
Firestore: the collection `Users` and the collection `Groups`, whose documents
hold a group's name, its members and its whole talk.  The application's sources
are in `TaskFirebaseAuthApp2/TaskFirebaseAuthApp2`; the Firestore client it is
linked with is vendored in `Pods/FirebaseFirestore`.

This directory holds TLA+ modules for the parts of the application that carry
its logic, the TLC configurations that check them on small instances, and proofs
that TLAPS checks for instances of every size.

Paths below are relative to `TaskFirebaseAuthApp2/TaskFirebaseAuthApp2`, those
of the client (`core/`, `local/`, `api/`) to
`Pods/FirebaseFirestore/Firestore/core/src`.

## 1. Inventory

| Part | State it keeps | Operations | Talks to |
|---|---|---|---|
| Talk list (`TaskGroupViewController`) | its table's rows | appear (empty the array, read), swipe (delete), tap (open) | the group array, Firestore |
| Talk (`TaskGroupDetailViewController`) | `groupNumber`, the row it was opened on; its title | appear (listen), send (append, save, listen), event and read callbacks | the group array, Firestore |
| `GroupInfoManager` (`TaskManager.swift`) | one array of `GroupInfo` objects, shared by all screens | index (traps when out of range), append, remove | all group screens |
| Make-group screen (`TaskMakeTableViewController`) | the candidate group: its members, its name | tap a box, type, press (refuse or save) | the group array, Firestore |
| Home (`ViewController`) | the displayed name | first load of users and groups, logout, navigation | all |
| Login (`TaskLoginViewController`) | two fields | register, sign in, read the users, create a record for a new one | Firebase Auth, Firestore, the user list |
| `UserInfoManager` (`TaskManager.swift`) | one list of `UserInfo` objects | searches for the current user's id | Home, Login, Edit, QR |
| Edit user (`TaskEditUserInfoViewController`) | a field | rename: local list, then `setData` | the user list, Firestore |
| QR code (`TaskQRCodeViewController`, `ReadQR...`, `...Result...`) | a capture session, a read string | show the own id, detect a code, look the id up | the user list, the camera |
| Firestore client (pod): documents and queries | document cache, mutation queue (both on disk), listeners, outstanding reads | write, read, listen, acknowledge, reject, watch | the backend |
| its write pipeline (`remote_store.cc`, `write_stream.cc`, `stream.cc`) | one mutation queue for each user (on disk), the pipeline, the stream's state, timers | fill, handshake, send, take answers and refusals, back off, change of user | the backend, the mutation queue |
| its credentials provider | the user, a token counter | notifications of Auth, `GetToken` | Firebase Auth, the streams |
| its watch stream (`remote_store.cc`, `remote_event.cc`, `local_store.cc`) | targets, their states, resume tokens in memory and on disk, matching keys; limbo documents, the online state | listen, stop, aggregate changes, raise snapshots, start again | the backend, cache and views |
| Repositories | none: the file is commented out | | |
| Delegates, cells, storyboards | none of their own | | |

### What is hard here

All handlers and callbacks of a device run on its main queue, one at a time.
Nothing in a handler is concurrent, but everything between two handlers is:

* **Reads are asynchronous.** `getDocuments` returns at once; its callback runs
  later, with an answer that was fixed somewhere in between.  The list empties
  the array when it *starts* a read, appends when the answer is *delivered*, and
  other reads (Home's, a talk's) do as they please meanwhile.
* **The array is shared and addressed by position.** The row that was tapped is
  kept as an index, and resolved again for each message; the table that displays
  a row is not reloaded when another screen's read changes the array.
* **Whole records are saved.** A message is sent by appending it to the array's
  copy of the group and replacing the group's document by that copy.
* **Listeners are never removed**, so the closures of screens that are gone
  go on reading and replacing the array.
* **The client is optimistic.** Writes show locally at once, wait in a queue on
  disk, survive the process, and can be refused.
* **Several devices** do all of this to the same documents.

* **Logins are two asynchronous steps**, a sign-in and a read, whose callbacks
  outlive the screen and act for whoever is signed in when they run.
* **The user changes under the client**, whose worker queue, tokens and streams
  learn of it one after the other.
* **The write stream breaks** between the commit of a write and its answer, and
  answers carry no number.
* **Targets are dropped and asked for again** while messages for their former life
  are under way (every read of a list does both), and a resume token says what the
  client need not be told again, whatever of it reached the disk.

`PROJECT.json` lists these hazards at their lines, with the properties that
cover each, and those that no property covers, with the reason.

### What makes the parts correct

* Store: what a device sees is its cache overlaid with its queue; an
  acknowledgement is invisible; every write leaves the device.
* Group talks: a document holds its own group's record; a talk is a sequence of
  messages in the order of sending; a device with nothing under way shows what
  its client holds; what the backend holds comes to be shown.
* Make group: the boxes mean what was tapped; no incomplete group is saved.
* Users: one record for each user (which the code does not keep); a record never
  passes to another user, and bears names of its own user only; a queue holds
  its user's records; who gets past the login comes to be registered.
* Write pipeline: it is the beginning of the queue; an answer is for its first
  batch; writes go out with their user's credentials and in order; every write
  of a user who stays is answered; it implements a plain queue with
  at-least-once delivery.
* Watch stream: a resume token is never ahead of the keys and documents it stands
  for; the cache holds only what the backend held; old messages are told from new
  ones; a target that is listened to catches up.

## 2. Modules

| Module | Lines of code it stands for | Contents |
|---|---|---|
| `Firestore` | the client (`local_store.cc`, `local_documents_view.cc`, `sync_engine.cc`, `query_listener.cc`, ...) and, external, the backend | store variables, API calls as operators, the SDK's steps |
| `GroupTalk` | the Talk list, the talk, the array; Home's first read; the store's part of making a group | extends `Firestore`: one action for each handler and callback |
| `GroupTalkProperties` | | invariants, action and liveness properties of `GroupTalk` |
| `MCGroupTalk` | | the symmetry of the devices, for `talk_observed` |
| `MakeGroup` | the make-group screen | its own state machine, and its loop as a function |
| `UserAccount` | login, Home's login check, read and logout, the list of users, edit-user, QR code | extends `Firestore`, for the collection `Users` |
| `UserAccountProperties` | | its invariants, action and liveness properties |
| `WritePipeline` | the write pipeline, the write stream, the credentials provider, the user change | one device and, external, the backend's end of the stream |
| `WriteDelivery` | what the pipeline promises | the abstract specification: queues, a cursor, the backend |
| `WritePipelineProperties` | | invariants, the refinement mapping, liveness |
| `WatchTargets` | the watch stream, the aggregation of its messages, targets and tokens, the document cache | one device and, external, the backend |
| `WatchTargetsProperties` | | invariants and liveness of listening |
| `FirestoreProofs` | | what the store's operators and steps do, for any documents |
| `GroupTalkProofs` | | the theorems about the group talks: records and their order |
| `GroupTalkQuietProofs` | | the theorems about what a quiet device shows |
| `MakeGroupProofs` | | what a tap does to the list, and the screen's theorems |
| `UserAccountProofs` | | the theorems about the accounts |
| `WritePipelineProofs` | | the pipeline's invariant, and that it implements `WriteDelivery` |
| `WatchTargetsProofs` | | the count of outstanding responses, and the assertions that rest on it |
| `WatchTokensProofs` | | what resume tokens stand for, and what the cache holds |

`GroupTalk` and `Firestore` are composed by extension: a handler's action
conjoins the API operators (`Write`, `Listen`, `RequestGet`) it calls; the SDK's
steps interleave with the handlers, as do the devices with one another.  The
make-group screen meets the others only when it saves, in one call chain
(`saveGroupToFirestore`): that is the action `CreateGroup` of `GroupTalk`, and
`SaveGroup` of `MakeGroup`.

`UserAccount` extends the same `Firestore`, for the collection `Users`.  Groups
and users share the client and nothing else: their handlers touch disjoint
arrays and documents, so that the two compositions are checked apart.
`WritePipeline` looks inside the client: it is to `Firestore`'s `Acknowledge`,
`Reject` and `CommitUnacknowledged` what the code's stream is to its queue, and
`WriteDelivery` is the link.  It is proved that the first implements the last.
`WatchTargets` looks inside the client on the other side: it is what lies behind
`Firestore`'s `Watch` and `Answer`, with versions where `Firestore` compares whole
contents.  It takes from the write side only the acknowledgements.

### `Firestore`

For one collection.  `server` is the backend (external).  Per device, `cache` is
the remote document cache, `queue` the mutation queue, oldest first; `View` is
the overlay of the second on the first, which is what
`LocalDocumentsView` computes.  A `getDocuments` goes through three phases:
outstanding (`gets`), answered with its content fixed (`results`), delivered
(the screen's action).  Answers come from a fresh snapshot, from the local view
when the client is offline, or with an error.  A listener is a pair of a
document and of the context its closure captured (`ctx`: which screen, which
row); `dirty` holds the listeners that have an event to be raised.

Steps of the SDK: `Acknowledge` (the backend applies the oldest mutation and the
client moves it from queue to cache), `Reject` (`HandleRejectedWrite` drops it),
`CommitUnacknowledged` (fault `lostAck`), `Watch` (`ApplyRemoteEvent` brings
listened documents up to date), `Answer`.

Abstractions:

* A write reaches the backend and is acknowledged in one step, or, with the fault
  `lostAck`, some of the oldest writes are applied and stay queued.  The latter is
  what a broken stream leaves behind: the handshake never carries the stream
  token (`remote/write_stream.cc:73-75`), so that the new stream does not
  resume the old one, and the writes are sent and applied again.
* Several events of one listener that are due at once are one element of
  `dirty`: each event makes the same read, and the reads of coalesced events are
  a subset of the reads modelled one after the other.
* Two listeners of the same screen kind, row and document are one.  Sending
  adds such a listener each time; the reads they start are alike.
* A document is present or absent as a whole.  Decoding never fails, since all
  documents of the collection are written by this application.
* Contents are compared whole, without versions.

### `GroupTalk`

A group is its id (`taskId`, also the document's) and its talk.  Names, members
and time stamps are left out: no control depends on them.  Ids are numbers, for
queries are ordered by `taskId`; a fresh id is any unused one, as Firestore's
random ids come in no order.  Message `0` is the blank of `commitBtn`'s five
pads, the others are numbered in the order of sending over all devices, which
tells messages and their order apart.

| Action | Code |
|---|---|
| `Launch` | `ViewController.viewDidLoad` of a new process |
| `ShowGoTab`, `Back` | the Talk list appears: `viewWillAppear`, `restoreDataFromFirestore` |
| `ShowHomeTab` | the tab bar |
| `DeleteGroup` | the swipe: `commit editingStyle`, delete, remove, restore |
| `OpenDetail` | `didSelectRowAt`, the new talk's `viewDidLoad` |
| `DetailAppears` | `viewDidAppear`, `observeRealTimeFirestore` |
| `Commit` | `commitBtn`, `saveGroupOfTalksToFirestore`, `observeRealTimeFirestore` |
| `CreateGroup` | `saveGroupToFirestore` of the make-group screen |
| `OnEvent` | the snapshot listener's closure |
| `DeliverAppend` | the callbacks of the reads of Home and of the list |
| `DeliverReplace` | the callback of a talk's read |
| `Kill` | the process ends (external) |

A subscript out of range ends the process (`Trap`): memory is lost, cache and
queue are kept, and the process can be launched again.

Left out on purpose: a second tap during a transition (UIKit disables
interaction then), a cancelled swipe back, and the lazy drawing of a long
table's further rows, which would trap in the same subscript as a tap does.
UIKit lets one of several tap recognizers of a view win, so the recognizers that
`cellForRowAt` of the make-group screen adds again and again count as one.
The tests of the repository are Xcode's empty templates; there are none to read.

### `MakeGroup`

Taps, typing, refusals and alerts.  `ToggleLoop` is the loop of
`checkBoxIconViewTapped` turn by turn, with the bound fixed before the body
edits the list; `Toggle` is what a tap is meant to do, and is what `Tap` does;
`LoopIsToggle` says they agree on every list the screen can reach.

### `UserAccount`

A record is its document id, its user and its name, which is told by who chose
it (`Blank` until a rename).  `account` is Auth's current user, on disk; `queue`
of `Firestore` is that user's mutation queue, `parked` keeps the others'.

| Action | Code |
|---|---|
| `Launch`, `Kill` | `viewDidLoad` of Home in a new process: the login comes up if nobody is signed in |
| `TapSignIn`, `SignInFails`, `SignInSucceeds` | the login and register buttons, Auth's answer, `actSuccessLogin` |
| `DeliverHome` | the callback of Home's read of the users |
| `LoginReadFails`, `LoginReadSucceeds` | the callback of the login's read; `checkExistingUser`, `addUserInfo`, the dismissal |
| `DismissAlert`, `Logout` | the alert's button; `logout` |
| `OpenEdit`, `LeaveEdit`, `SaveName` | the rename: two searches of the list, one `setData` |
| `OpenCamera`, `Detect`, `ReadCode`, `CloseCamera` | the capture session, its delegate on the main queue, the result screens |
| `SwitchUser` (in a sign-in or logout) | `LocalStore::HandleUserChange` |

`SaveName` ends the process when the list has no record of the user: an empty
list traps, and otherwise `getTaskIdAtCurrentUserID` returns "", for which
`document("")` raises (`api/document_reference.cc:63-66`).

Abstractions:

* Registration and sign-in are one action: both end in `actSuccessLogin`.
* Auth's current user and the client's change together.  In the code the client
  learns of it by a notification on the main queue a moment later; `WritePipeline`
  takes the client's side of it.
* The login orders by `createdAt`, which is a device's clock: any order.
* The label with the user's name and the screen that shows one's own code keep no
  state that anything reads.

### `WritePipeline`

`batches` are the mutation queues of all users, on disk; `pipeline` is
`write_pipeline_`.  The stream's life is `state` (as in `stream.cc`), `handshake`
and `idle`; `up` and `down` are the requests and answers under way.  All of
the client runs on one worker queue.  The tasks whose order matters wait in
`tasks`: writes of the application, changes of the user, tokens.  A task bears the
user who was signed in when it was posted, which the code does not know: that is
what `OwnCredentials` compares.

| Action | Code |
|---|---|
| `AppWrites`, `TaskWrite` | `FirestoreClient::WriteMutations`, `SyncEngine::WriteMutations`, `FillWritePipeline` |
| `AuthChanges`, `TaskUser` | the Auth listener, `HandleCredentialChange` of the sync engine and the remote store |
| `TokenAnswered`, `TokenAskedAgain` | `GetToken`, with its token counter |
| `TaskToken`, `TaskTokenFails`, `TaskTokenIgnored` | `ResumeStartWithCredentials`, behind the close count |
| `BackoffElapses`, `IdleTimeout` | the stream's timers |
| `BackendShakesHands`, `BackendCommits`, `BackendRefuses` | the backend (external) |
| `ReadHandshake`, `ReadResult` | `OnWriteStreamHandshakeComplete`, `OnWriteStreamMutationResult` |
| `StreamFails`, `HandshakeRefused`, `WriteRefused` | `OnWriteStreamClose` with `HandleHandshakeError`, `HandleWriteError` |
| `Restart` | the process ends and starts again |

Abstractions:

* The stream token is left out: it is stored, but no request depends on it but
  as a payload.  A refused handshake resets it, and is a transient failure else.
* `Stream::Close` raises `close_count_`; the model marks the tokens on their way as
  not fresh instead, which is the comparison's outcome.
* What is under way on a stream that ends is lost at that moment: the backend has
  applied a write before the stream ends or never will.
* A change of the user and a refreshed token of the same user are one action, as
  both raise the counter and post the change.
* A refusal reaches the client after the answers before it, unless a later write
  operation fails first (`failedWrite`, `remote/grpc_stream.cc:313-325`).
* The application never calls `EnableNetwork` or `DisableNetwork`.

### `WriteDelivery`

A queue for each user, of whose front the backend has applied `cursor` writes in
this attempt; it is rewound when the stream breaks or the user changes.  The mapping
takes the answers under way for the cursor.

### `WatchTargets`

A version of the backend is the number of writes it has applied (`hist`), a resume
token the version it was issued at, and a document what was last written of it.
`listens` and `token` are `listen_targets_` of the remote store, `agg` the target
states of the aggregator with `updates` and `resets` its pending updates and
resets, `mem` what the local store holds of an active target, `synced` the view's;
`saved`, `keys` and `cache` are on disk.

| Action | Code |
|---|---|
| `Listen`, `StopListening` | `SyncEngine::Listen`, `StopListening`, with `AllocateTarget`, `ReleaseTarget` and the remote store's part |
| `StreamOpens`, `StreamBreaks`, `IdleTimeout`, `Kill` | `OnWatchStreamOpen`, `OnWatchStreamClose`, the idle timer, the end of the process |
| `BackendWrites`, `BackendServes`, `BackendSyncs` | the backend (external) |
| `ReadAdded`, `ReadRemoved` | `HandleTargetChange` |
| `ReadDocs`, `ReadDocsIgnored` | `HandleDocumentChange`, `HandleTargetChange` with `CURRENT` and `RESET`, `HandleExistenceFilter` |
| `ReadSnapshot` | `RaiseWatchSnapshot`, `CreateRemoteEvent`, `ApplyRemoteEvent`, `ShouldPersistTargetData` |
| `Acknowledged` | `ApplyBatchResult` |

Abstractions:

* What the backend sends of a target until it is up to date (a reset, documents,
  `CURRENT`, an existence filter) is one message.  A snapshot is announced when all
  targets served are up to date.  A resumed target is sent the changes, or
  everything after a reset, or the changes without the deletions and a filter.
* Requests of one target are served in order; those of different targets in any.
* The backend's snapshots do not go back, so that the comparison with the last
  snapshot's version is left out; it holds.
* `Unknown`, at version 0, is a document the cache has nothing of, and as an update
  it is the absence without a version that a filter on a single document leaves.
* How old a token on disk may get (`kResumeTokenMaxAgeSeconds`) is any choice.
* The view is its synced documents.  Limbo documents, refused listens, the
  online state and garbage collection are left out.
* Own writes not acknowledged when the process ends are applied again as new ones.

## 3. Runs

Bounds are the constants of each configuration: `MaxMessages` sent in all,
`MaxCalls` reads of a device under way, `MaxQueue` writes not yet acknowledged,
`MaxListeners` different listeners of a process; `MaxSignIns` and `MaxCodes` of a
device under way; `MaxWrites`, `MaxTasks`, `MaxChanges`, `MaxFailures` of the
pipeline; `MaxWrites` of the backend, `MaxRequests` of a target and `MaxMessages`
under way on the watch stream, `MaxFilters`, `MaxFailures`.  Each run has what its question needs: two devices where devices meet,
two groups where positions shift, two calls where answers overlap, two writes
queued where an acknowledgement passes a later write, three writes where the
pipeline of two is full, two targets where one concludes what another was sent,
two requests where a target is dropped and asked for again before the answer, a
filter and a failure where a token is used again.  Deadlock is not checked in the
runs of the talks, the accounts, the pipeline and the targets: they stop when the
bounds are used up.  It is checked in `make_group`.

`talk_observed` treats the devices as symmetric: they are model values, no
definition chooses among them or orders them, and its properties are invariants.
No run with a temporal property uses symmetry.

| Run | Instance | Shows |
|---|---|---|
| `talk_observed` | 2 devices, 1 group, 2 messages, 1 call; offline, failed reads, refused writes; delete | `TypeOK`, `TalksWellFormed`, `ListenedGroupsCurrent` |
| `talk_two_groups` | 1 device, 2 groups, 2 messages, 2 calls, 2 writes queued, 2 listeners; offline, kill; create | `ListenedGroupsCurrent`, `QuietDetailOverWholeList`, `RecordsUnderOwnId`, `AcknowledgementInvisible` |
| `talk_liveness` | 2 devices, 1 group; kill, lost acknowledgements; with fairness | `WritesLeaveDevice`, `ListenedGroupsShown` |
| `make_group` | 4 candidates, any number of taps, 1 group made | `TypeOK`, `LoopIsToggle`, `ChecksFollowTaps`, `MadeGroupsComplete` |
| `user_accounts` | 1 device, 2 users, 2 records, 2 calls; failed reads, kill; logout, rename, scan; with fairness | `TypeOK`, `NamesAreOwn`, `OwnQueue`, `RecordsKeepOwner`, `SignedInUsersAreRegistered` |
| `write_pipeline` | 2 users, capacity 2, 3 writes, 2 changes of user, 2 failures of any kind; with fairness | `TypeOK`, `PipelineIsPrefix`, `AnswersMatchPipeline`, `OwnCredentials`, `AssertionsHold`, `InOrder`, `Delivery`, `EventuallyAnswered` |
| `watch_targets` | a collection and a document of it, 2 writes, 2 requests, 1 filter, 1 failure (break, kill) | `TypeOK`, `TokensEarned`, `CacheIsHistory`, `OwedIsUnderWay`, `WatchAssertionsHold` |
| `watch_collection` | a collection of 2 documents, 2 writes, 1 filter, 2 failures, resets; with fairness | `TokensEarned`, `ListensCatchUp` |

Four runs end in a counterexample, for something a comment says and the code
does not do:

| Run | The comment | What happens |
|---|---|---|
| `talk_lost_update` | `TaskGroupDetailViewController.swift:265`, "add to Firebase" | a save of a stale whole record removes messages from the backend |
| `talk_stale_rows` | `TaskManager.swift:182`, "get the specified group"; `TaskGroupViewController.swift:106`, "swipe: delete"; `TaskGroupDetailViewController.swift:19`, "the selected group's number" | the array is empty while the table shows rows, and the subscript traps; where it is not empty but changed, a swipe deletes, and a message goes to, another group |
| `user_two_records` | `TaskLoginViewController.swift:98`, "check whether the user is new or exists"; `:244`, "if not registered yet" | two sign-ins of a user both read no record and both create one |
| `watch_filter` | `remote/remote_store.cc:319`, "cause a hard reset ... so that we get a full update" | a target dropped and asked for again between a filter and its snapshot is reset without its keys: a deleted document stays in view |

The safety properties that hold say how far these go: lost and misdirected
messages never corrupt a talk or put a record under another group's id, and a
device at rest never displays, for a listened group, anything but what its
client holds.  `user_two_records` is why the properties of the accounts are stated
for lists with several records of a user: the two searches of a rename then still
name the same one, and never another user's.

`watch_filter` takes an existence filter whose count does not match, and a target
that is dropped and listened to again before the snapshot (the list does this on
every return to it).  `pending_target_resets_` names the target still, so its token
is cleared and it is asked for from the start; but the removals went with its
former life.  `TokensEarned` is stated for behaviours without a filter for this reason,
and for another one: after a mismatch the local store saves the snapshot's token
with the emptied keys (`local/local_store.cc:288-299`), while the remote store
clears its own (`remote/remote_store.cc:313-316`), and a restart resumes from the
saved one.

### Fairness

`talk_liveness` assumes of the SDK: weak fairness of `Watch` and `Answer`, which
the client retries with back-off for as long as it runs, and strong fairness of
`Acknowledge`, since kills and launches may interrupt an upload again and again,
and a run of the process that is long enough must come; weak fairness of the
callbacks, which the main queue runs in order; weak fairness of `Launch`.  Users
and kills are not fair, nor are faults.  The properties are stated for a client
that is online.

`user_accounts` assumes the same of `Acknowledge`, of the callbacks of the reads
and of `Launch`.

`watch_collection` assumes that a stream that is started opens and that what has
arrived is read (weak fairness), and that the backend serves the requests of each
target and brings the stream up to date (strong fairness, since breaks and stops
interrupt it).  Failures are bounded.  The application listens and stops as it
likes: the property is about a target for as long as it is listened to.

`write_pipeline` assumes weak fairness of the worker queue's tasks, of the backoff
timer, of `GetToken`'s answer, of the backend on an open stream, and of reading
what has arrived.  Failures are bounded (`MaxFailures`): the code retries for ever,
and a backend that fails for ever answers nothing.

## 4. Proofs

TLC checks the instances above; the following is proved for any set of
devices, any number of documents, any bounds and any of the faults.

* `FirestoreProofs` is about the store alone, for any set `Data` of contents and
  `Ctx` of callback contexts: the overlay of typed caches and queues is typed
  (`OverlayType`), answers are sequences without gaps (`ListingType`), each API
  call and each step of the SDK keeps the types (`SdkStepType`), and moving the
  oldest mutation from queue to cache leaves the view as it was
  (`AcknowledgeKeepsView`; the argument is about the positions of the last
  mutation of each document in a queue and in its tail).
* `GroupTalkProofs!TypeCorrect`, `TalksStayWellFormed`: neither invariant is
  inductive by itself.  A message keeps its talk in order because it is numbered
  after *all* messages that are anywhere, and that has to be known of every
  place a record can come from.  The inductive invariant is `SoundInv`: the store
  and the screens are typed with `Sound(sent)`, the groups whose talk is well
  formed and has no message later than the `sent`-th.  Every step but `Commit`
  keeps the types for *any* set of records with the empty groups in it
  (`OtherStepsType`), and `Commit` goes from `Sound(n)` to `Sound(n + 1)`
  (`CommitSound`, by `WithMessageSound`).
* `RecordsStayUnderOwnId`: inductive given `TypeOK`.
* `AcknowledgementsInvisible`: the action property, from `TypeCorrect` and
  `AcknowledgeKeepsView`.
* `GroupTalkQuietProofs!ListenedGroupsStayCurrent`: a stale entry of the array is no
  fault while something on its way will correct it, so the inductive invariant
  `FollowsInv` says what is on the way.  Every record in the array, and every record
  in an answer not yet delivered, is *followed*: it equals what the client holds, or
  an event of its group is due, or a later answer is to refill the array.  Listeners
  belong to Detail screens only and each change of the view marks their events due
  (`Told`); a step is then one of four kinds (it changes the view, delivers an answer,
  delivers an event, replaces an entry), and each keeps the records followed.  It
  holds with all faults and any number of devices.
* `QuietDetailsOverWholeList`: with `NothingFails` (no read error, no rejected write, no
  deletion, which is what the property's comment supposes; killed processes, lost
  acknowledgements and reads from the cache are allowed).  `WholeInv` adds that
  nothing disappears (`NoDeletion`, `OldCache`), that what an array or an answer names
  exists in the client's view (`RecordsExist`), and that the *last* thing on its way to
  a Detail's array is an event, a read of the list, or an answer that is the whole
  list (`WholeAtLast`).  The last clause alone is not inductive: a new group may enter
  the view between a read and its answer, and only the event that is then due makes
  up for it.
* `MakeGroupProofs!LoopIsAlwaysToggle`: the loop is a recursive function on positions.
  Its value at each position has a closed form (`Turn`, `After`), and the first
  position at which the function would differ from it is a contradiction
  (`SmallestNumber`, `LoopToggles`), so no induction theorem is needed.
* `MakeGroupProofs!ChecksAlwaysFollowTaps`, `MadeGroupsAlwaysComplete`: for any
  candidates.  The invariant is `ScreenInv`, the types with both: a saved group
  repeats no name because the list it was made from never does
  (`ToggleToggles`, by `RemoveAtRemoves`).

* `UserAccountProofs`: `NamesStayOwn`, `QueueStaysOwn` and `DocumentsKeepOwner` come
  from one invariant, `AccountInv`: every record held anywhere, by the backend, in
  a cache, in a queue of any user, in a list or an answer, belongs to the set
  `Mine(owner)` of records that are under an id given out for their user and have
  a name of that user's choice; and a mutation in a queue is under its own id and
  of the queue's user.  The set grows with each registration (`MineGrows`,
  `TypesMonotone`); the heart of the rename is that after `Named` both searches
  find a record of the user (`PositionsFound`, `NamedType`).  `RecordsKeepOwner`
  is an action property and needs that the backend's records are under their own
  ids (`Placed`).
* `WritePipelineProofs`: the invariant `PipelineInv` has the queues' ids increase, so
  that looking for what follows the last batch of the pipeline continues where the
  pipeline ends (`PositionFound`, `FilledPrefix`); requests and answers under way
  are the pipeline (`ChannelInv`); and the tasks on the worker queue name, one after
  the other, the user that the tasks before leave signed in (`Chained`), which is
  why a token belongs to the user whose queue is in use when it is taken.  The six
  invariants of the run follow from it, and `DeliveryImplemented` shows every step to
  be one of `WriteDelivery` or a stutter.
* `WatchTargetsProofs`: the invariant `WatchInv` has the count of outstanding
  responses equal to the requests not yet answered and the answers not yet read
  (`OwedInv`), for which nothing may be under way on a stream that is not open
  (`QuietInv`) and every answer must be for a target (`WireInv`).  That answers are
  counted by position makes reading one the work: the positions of the rest are
  moved by a bijection (`ResponsesTail`).  From the count, an answer that is read
  was owed (`AnswerWasOwed`), and a target becomes active only by the last of its
  answers, which clears what was aggregated; so every modification and removal is of
  a document in the view, which is the assertion.
* `WatchTokensProofs!TokensAlwaysEarned`, `CacheAlwaysHistory`: the invariant
  `TokensInv`.  A token is a version, and says nothing of what was sent before it;
  that a target at its token lacks nothing has to be carried along the wire.  The
  *base* of a message is the version the client will have the target at when it
  comes to the message: the version of the last snapshot before it that counts for
  the target's present life, or else the token (`IsBase`).  `DeliveryInv` says that
  each message with documents covers all changes between its base and its version
  (`DocsCover`), that each snapshot that moves a target on is earned by such a message
  before it or by what is aggregated (`SnapshotsEarned`), and that what the backend
  thinks it has told is the base of the end of the wire (`ToldRight`).  The other
  conjuncts are what this rests on: entries are history (`HistoryInv`), versions on
  the wire do not go back and tokens are behind them (`VersionInv`), messages report
  the history and are followed by their snapshot (`ReportInv`), keys are those of
  their tokens, and the last request goes on from the token (`TargetInv`), the
  documents of the keys are in the cache (`CachedInv`), and what is aggregated fits
  the next snapshot (`MarksInv`).  A target dropped and asked for again makes all
  that is under way *former* (`Present`), whence the base falls back to the token;
  the last answer clears what was aggregated of it.  Keys are claimed for targets of
  which the backend tells every deletion (`Exact`: no filter was used, or the query
  is for one document), which `watch_filter` shows to be necessary; the cache is
  history with filters too.  Before the proof TLC evaluated the conjuncts in
  every state of `watch_targets` and `watch_collection`, and along random behaviours
  with larger bounds.

Assumed of the constants: `NumDocs` is a positive number, `Nothing` is neither a cache
entry nor a number, the bounds are naturals, `Faults`, `Failures`, `UserOps` and
`InitialGroups` are subsets of what they select from, `Docs` is finite, the targets
are the collection or documents, `Absent` is not a group, a record or a user, `Nobody`
and `Blank` are not users, and the capacity of the pipeline is positive.

Model-checked only: liveness under fairness, which is out of TLAPS's reach
(`WritesLeaveDevice`, `ListenedGroupsShown`, `SignedInUsersAreRegistered`,
`EventuallyAnswered`, `ListensCatchUp`).  Every invariant and every action property of
the passing runs is a theorem.

Two definitions were changed for the proofs: the alternatives of `Sent` (in
`WatchTargets`, what the backend sends of a target) and of `Lookup` (in
`UserAccount`) overlapped, so that what their `CASE` means rested on the order in
which TLC takes them.  They now exclude each other, as the branches of the code do.

## 5. Not modelled

* Of the watch stream: limbo documents and their resolution, refused listens (the
  application's queries are never refused by their content), the timer of the online
  state.
* A user whose read after the sign-in failed is never registered: the alert asks for
  a restart (`TaskLoginViewController.swift:63`), and the restarted process goes past
  the login.  `UserAccount` has the behaviour, and `SignedInUsersAreRegistered` is
  stated for users whose read was answered.
* Garbage collection of the cache: the application's queries are small, and what is
  collected would be read again.
* The window in which Auth has a new user and the client has not: see above.
* Table cells, delegates and storyboards have no state; the repositories are
  commented out; the other pods are libraries the application's logic does not
  depend on; layout, keyboards and images are presentation.

To be done next: that the targets of `WatchTargets`, seen through versions, implement
`Firestore`'s `Watch` and `Answer`; and limbo resolution.
