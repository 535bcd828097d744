------------------------------ MODULE GroupTalk ------------------------------
(***************************************************************************)
(* The group talks: the Talk list (TaskGroupViewController), the talk of   *)
(* one group (TaskGroupDetailViewController), and the parts of the Home    *)
(* and make-group screens that touch GroupInfoManager's array of groups,   *)
(* on every device, over the Firestore client.                             *)
(*                                                                         *)
(* A device's handlers all run on its main queue, so each is one action;   *)
(* the SDK's steps and the handlers of other devices interleave with them. *)
(* The array is the one shared by all screens; an index into it that is    *)
(* out of range traps, and the process ends.                               *)
(***************************************************************************)
EXTENDS Firestore

CONSTANTS
    MaxMessages,    \* bound: messages sent in a behaviour
    MaxCalls,       \* bound: reads of a device outstanding or undelivered
    MaxQueue,       \* bound: writes of a device not yet acknowledged
    MaxListeners,   \* bound: different listeners of a process
    InitialGroups,  \* the groups there are at first, with nothing said yet
    UserOps         \* the operations the users of a run perform

AllUserOps == {"create", "delete", "leave"}

ASSUME MaxMessagesAssumption == MaxMessages \in Nat
ASSUME MaxCallsAssumption    == MaxCalls \in Nat
ASSUME MaxQueueAssumption    == MaxQueue \in Nat
ASSUME MaxListenersAssumption == MaxListeners \in Nat
ASSUME InitialGroupsAssumption == InitialGroups \subseteq DocIds
ASSUME UserOpsAssumption     == UserOps \subseteq AllUserOps

VARIABLES
    status,     \* per device: "running", "trapped" or "killed"
    screen,     \* per device: what is displayed
    row,        \* per device: groupNumber of the Detail on the GO tab, or 0
    title,      \* per device: the group that Detail's title names
    groups,     \* per device: GroupInfoManager.groupInfo
    rows,       \* per device: the groups the Talk table displays
    created,    \* the ids given out so far
    sent        \* the number of messages sent so far

uiVars == <<status, screen, row, title, groups, rows>>
vars   == <<storeVars, uiVars, created, sent>>

(* Message 0 is the blank pad, the others are numbered as they are sent.   *)
Pad     == 0
PadRows == 5
Pads    == [i \in 1 .. PadRows |-> Pad]

Group   == [taskId : DocIds, talks : Seq(Nat)]

ASSUME AbsentAssumption == Absent \notin Group

(* What a read's callback is the closure of: its screen, a Detail's row.   *)
Ctx      == [screen : {"home", "list", "detail"}, row : Nat]
HomeCtx  == [screen |-> "home", row |-> 0]
ListCtx  == [screen |-> "list", row |-> 0]
DetailCtx(r) == [screen |-> "detail", row |-> r]

Calls(d) == Len(gets[d]) + Len(results[d])

IdsOf(gs) == [i \in DOMAIN gs |-> gs[i].taskId]

-----------------------------------------------------------------------------
(* Launching, trapping and ending a process *)

Set(f, d, v) == [f EXCEPT ![d] = v]

Init ==
    /\ created = InitialGroups
    /\ server = [id \in DocIds |-> IF id \in created
                                   THEN [taskId |-> id, talks |-> <<>>]
                                   ELSE Absent]
    /\ cache   = [d \in Devices |-> [id \in DocIds |-> Absent]]
    /\ queue   = [d \in Devices |-> <<>>]
    /\ watched = [d \in Devices |-> {}]
    /\ dirty   = [d \in Devices |-> {}]
    /\ gets    = [d \in Devices |-> <<HomeCtx>>]
    /\ results = [d \in Devices |-> <<>>]
    /\ status  = [d \in Devices |-> "running"]
    /\ screen  = [d \in Devices |-> "home"]
    /\ row     = [d \in Devices |-> 0]
    /\ title   = [d \in Devices |-> Absent]
    /\ groups  = [d \in Devices |-> <<>>]
    /\ rows    = [d \in Devices |-> <<>>]
    /\ sent    = 0

(* The process of d is gone, with everything it held in memory.            *)
EndProcess(d, why) ==
    /\ status' = Set(status, d, why)
    /\ screen' = Set(screen, d, "home")
    /\ row'    = Set(row, d, 0)
    /\ title'  = Set(title, d, Absent)
    /\ groups' = Set(groups, d, <<>>)
    /\ rows'   = Set(rows, d, <<>>)
    /\ DropCallbacks(d)
    /\ UNCHANGED <<server, cache, queue, created, sent>>

Trap(d) == EndProcess(d, "trapped")

Kill(d) ==
    /\ "kill" \in Faults
    /\ status[d] = "running"
    /\ EndProcess(d, "killed")

(* Home.viewDidLoad: the array is emptied and the first read is started.   *)
Launch(d) ==
    /\ status[d] # "running"
    /\ status' = Set(status, d, "running")
    /\ RequestGet(d, HomeCtx)
    /\ UNCHANGED <<server, cache, queue, watched, dirty, results,
                   screen, row, title, groups, rows, created, sent>>

-----------------------------------------------------------------------------
(* The Talk list *)

(* restoreDataFromFirestore: the array is emptied at once, then read.      *)
Restore(d) ==
    /\ groups' = Set(groups, d, <<>>)
    /\ RequestGet(d, ListCtx)

(* The GO tab is chosen.  The list restores the array as it appears; a     *)
(* Detail left open there is about to appear again.                        *)
ShowGoTab(d) ==
    /\ status[d] = "running" /\ screen[d] = "home"
    /\ \/ /\ row[d] = 0
          /\ Calls(d) < MaxCalls
          /\ screen' = Set(screen, d, "list")
          /\ Restore(d)
       \/ /\ row[d] # 0
          /\ screen' = Set(screen, d, "opening")
          /\ UNCHANGED <<groups, gets>>
    /\ UNCHANGED <<server, cache, queue, watched, dirty, results,
                   status, row, title, rows, created, sent>>

ShowHomeTab(d) ==
    /\ "leave" \in UserOps
    /\ status[d] = "running" /\ screen[d] \in {"list", "detail"}
    /\ screen' = Set(screen, d, "home")
    /\ UNCHANGED <<storeVars, status, row, title, groups, rows, created, sent>>

(* The swipe on row r: delete the document and restore the array.          *)
DeleteGroup(d, r) ==
    /\ "delete" \in UserOps
    /\ status[d] = "running" /\ screen[d] = "list"
    /\ r \in DOMAIN rows[d]
    /\ \/ /\ r \in DOMAIN groups[d]
          /\ Calls(d) < MaxCalls /\ Len(queue[d]) < MaxQueue
          /\ Write(d, groups[d][r].taskId, Absent)
          /\ dirty' = [dirty EXCEPT ![d] = @ \cup Touched(d, cache[d], queue'[d])]
          /\ Restore(d)
          /\ UNCHANGED <<server, cache, watched, results,
                         status, screen, row, title, rows, created, sent>>
       \/ r \notin DOMAIN groups[d] /\ Trap(d)

(* The tap on row r: a Detail with groupNumber r is loaded, and its title  *)
(* is read from the array.                                                 *)
OpenDetail(d, r) ==
    /\ status[d] = "running" /\ screen[d] = "list"
    /\ r \in DOMAIN rows[d]
    /\ \/ /\ r \in DOMAIN groups[d]
          /\ screen' = Set(screen, d, "opening")
          /\ row'    = Set(row, d, r)
          /\ title'  = Set(title, d, groups[d][r].taskId)
          /\ UNCHANGED <<storeVars, status, groups, rows, created, sent>>
       \/ r \notin DOMAIN groups[d] /\ Trap(d)

-----------------------------------------------------------------------------
(* The talk of one group *)

CanListen(d, id, ctx) ==
    \/ [doc |-> id, ctx |-> ctx] \in watched[d]
    \/ Cardinality(watched[d]) < MaxListeners

(* viewDidAppear: observeRealTimeFirestore on the group now at the row.    *)
DetailAppears(d) ==
    /\ status[d] = "running" /\ screen[d] = "opening"
    /\ \/ /\ row[d] \in DOMAIN groups[d]
          /\ CanListen(d, groups[d][row[d]].taskId, DetailCtx(row[d]))
          /\ screen' = Set(screen, d, "detail")
          /\ queue' = queue
          /\ Listen(d, groups[d][row[d]].taskId, DetailCtx(row[d]))
          /\ UNCHANGED <<server, cache, gets, results,
                         status, row, title, groups, rows, created, sent>>
       \/ row[d] \notin DOMAIN groups[d] /\ Trap(d)

(* Back to the list, which restores the array as it appears.               *)
Back(d) ==
    /\ "leave" \in UserOps
    /\ status[d] = "running" /\ screen[d] = "detail"
    /\ Calls(d) < MaxCalls
    /\ screen' = Set(screen, d, "list")
    /\ row'    = Set(row, d, 0)
    /\ title'  = Set(title, d, Absent)
    /\ Restore(d)
    /\ UNCHANGED <<server, cache, queue, watched, dirty, results,
                   status, rows, created, sent>>

(* Mutated: the pads are not only for the first message.                   *)
WithMorePads(talks, m) == Append(Pads \o talks, m)

(* A talk with message m added, after the pads if it is the first.         *)
WithMessage(talks, m) ==
    Append(IF talks = <<>> THEN Pads ELSE talks, m)

(* Mutated: saved under the id of the group that was opened.               *)
SaveUnderTitle(d, g) == Write(d, title[d], g)

(* saveGroupOfTalksToFirestore: the record goes under its own taskId.      *)
Save(d, g) == Write(d, g.taskId, g)

(* commitBtn: the message goes to the array, and the whole record from the *)
(* array to the document; the row's group is observed once more.           *)
Commit(d) ==
    /\ status[d] = "running" /\ screen[d] = "detail"
    /\ sent < MaxMessages /\ Len(queue[d]) < MaxQueue
    /\ \/ /\ row[d] \in DOMAIN groups[d]
          /\ LET g == [groups[d][row[d]] EXCEPT !.talks = WithMessage(@, sent + 1)]
             IN  /\ CanListen(d, g.taskId, DetailCtx(row[d]))
                 /\ groups' = [groups EXCEPT ![d][row[d]] = g]
                 /\ Save(d, g)
                 /\ Listen(d, g.taskId, DetailCtx(row[d]))
          /\ sent' = sent + 1
          /\ UNCHANGED <<server, cache, gets, results,
                         status, screen, row, title, rows, created>>
       \/ row[d] \notin DOMAIN groups[d] /\ Trap(d)

-----------------------------------------------------------------------------
(* Making a group, on the HOME tab *)

(* saveGroupToFirestore, with a fresh document id.                         *)
CreateGroup(d) ==
    /\ "create" \in UserOps
    /\ status[d] = "running" /\ screen[d] = "home" /\ Len(queue[d]) < MaxQueue
    /\ \E id \in DocIds \ created :
          LET g == [taskId |-> id, talks |-> <<>>]
          IN  /\ Write(d, id, g)
              /\ groups' = [groups EXCEPT ![d] = Append(@, g)]
              /\ created' = created \cup {id}
    /\ dirty' = [dirty EXCEPT ![d] = @ \cup Touched(d, cache[d], queue'[d])]
    /\ UNCHANGED <<server, cache, watched, gets, results,
                   status, screen, row, title, rows, sent>>

-----------------------------------------------------------------------------
(* Callbacks *)

(* A listener's event: if the document exists, every group is read.        *)
OnEvent(d, l) ==
    /\ l \in dirty[d]
    /\ dirty' = [dirty EXCEPT ![d] = @ \ {l}]
    /\ \/ /\ View(d)[l.doc] # Absent
          /\ Calls(d) < MaxCalls
          /\ RequestGet(d, l.ctx)
       \/ View(d)[l.doc] = Absent /\ gets' = gets
    /\ UNCHANGED <<server, cache, queue, watched, results, uiVars, created, sent>>

(* The first answer reaches its callback.  Home's and the list's append    *)
(* to the array, and the list reloads its table.                           *)
DeliverAppend(d) ==
    LET res == Head(results[d])
    IN  /\ results[d] # <<>> /\ res.ctx.screen \in {"home", "list"}
        /\ groups' = [groups EXCEPT ![d] = @ \o res.docs]
        /\ rows' = IF res.ctx.screen = "list" /\ res.ok
                   THEN Set(rows, d, IdsOf(groups'[d])) ELSE rows
        /\ results' = [results EXCEPT ![d] = Tail(@)]
        /\ UNCHANGED <<server, cache, queue, watched, dirty, gets,
                       status, screen, row, title, created, sent>>

(* Mutated: the array is not emptied first.                                *)
Extended(gs, docs) == gs \o docs

(* The array is emptied, and then filled by an answer's documents.         *)
Refilled(gs, docs) == docs

(* A Detail's callback replaces the array (by nothing, if the read failed) *)
(* and then scrolls its own table, through its own row.                    *)
DeliverReplace(d) ==
    LET res == Head(results[d])
    IN  /\ results[d] # <<>> /\ res.ctx.screen = "detail"
        /\ \/ /\ res.ok => res.ctx.row \in DOMAIN res.docs
              /\ groups'  = Set(groups, d, Refilled(groups[d], res.docs))
              /\ results' = [results EXCEPT ![d] = Tail(@)]
              /\ UNCHANGED <<server, cache, queue, watched, dirty, gets,
                             status, screen, row, title, rows, created, sent>>
           \/ res.ok /\ res.ctx.row \notin DOMAIN res.docs /\ Trap(d)

-----------------------------------------------------------------------------
Callback(d) == DeliverAppend(d) \/ DeliverReplace(d)
                  \/ \E l \in dirty[d] : OnEvent(d, l)

UserStep(d) == \/ ShowGoTab(d) \/ ShowHomeTab(d) \/ DetailAppears(d)
               \/ Back(d) \/ Commit(d) \/ CreateGroup(d)
               \/ \E r \in DOMAIN rows[d] : DeleteGroup(d, r) \/ OpenDetail(d, r)

(* The SDK runs while its process does.                                    *)
Sdk(d) == /\ status[d] = "running"
          /\ SdkStep(d)
          /\ UNCHANGED <<uiVars, created, sent>>

Next == \E d \in Devices :
            Sdk(d) \/ Callback(d) \/ UserStep(d) \/ Launch(d) \/ Kill(d)

Spec == Init /\ [][Next]_vars
=============================================================================
