------------------------- MODULE GroupTalkProperties -------------------------
(***************************************************************************)
(* What the group talks promise, and what they only seem to promise.       *)
(***************************************************************************)
EXTENDS GroupTalk

(* The types of the screens' variables, for groups with records in Data.   *)
UiTypeOK(Data) ==
    /\ status \in [Devices -> {"running", "trapped", "killed"}]
    /\ screen \in [Devices -> {"home", "list", "opening", "detail"}]
    /\ row    \in [Devices -> Nat]
    /\ title  \in [Devices -> DocIds \cup {Absent}]
    /\ groups \in [Devices -> Seq(Data)]
    /\ rows   \in [Devices -> Seq(DocIds)]
    /\ created \in SUBSET DocIds
    /\ sent \in Nat

(* The type invariant.                                                     *)
TypeOK == StoreTypeOK(Group, Ctx) /\ UiTypeOK(Group)

-----------------------------------------------------------------------------
(* Safety *)

(* The array is addressed by position and rebuilt under the open screens,  *)
(* and yet no document ever holds a record of another group: whatever the  *)
(* row means by now, a record is saved under the taskId it carries.        *)
UnderOwnId(val, id) == val = Absent \/ val.taskId = id

RecordsUnderOwnId ==
    /\ \A id \in DocIds : UnderOwnId(server[id], id)
    /\ \A d \in Devices :
          /\ \A id \in DocIds : UnderOwnId(cache[d][id], id)
          /\ \A i \in DOMAIN queue[d] : UnderOwnId(queue[d][i].val, queue[d][i].doc)

(* A talk is empty, or the pads of commitBtn once, and then messages in    *)
(* the order they were sent: whole records overwrite one another from      *)
(* every device, but never mix, repeat or reorder messages, nor add pads.  *)
WellFormedTalk(t) ==
    \/ t = <<>>
    \/ /\ Len(t) > PadRows
       /\ \A i \in 1 .. PadRows : t[i] = Pad
       /\ \A i \in PadRows + 1 .. Len(t) : t[i] # Pad
       /\ \A i, j \in PadRows + 1 .. Len(t) : i < j => t[i] < t[j]

WellFormedDoc(val) == val = Absent \/ WellFormedTalk(val.talks)

TalksWellFormed ==
    /\ \A id \in DocIds : WellFormedDoc(server[id])
    /\ \A d \in Devices :
          /\ \A id \in DocIds : WellFormedDoc(cache[d][id])
          /\ \A i \in DOMAIN queue[d] : WellFormedDoc(queue[d][i].val)
          /\ \A i \in DOMAIN groups[d] : WellFormedTalk(groups[d][i].talks)
          /\ \A i \in DOMAIN results[d] : \A j \in DOMAIN results[d][i].docs :
                WellFormedTalk(results[d][i].docs[j].talks)

(* Real-time observation: once a device has no event, read or answer under *)
(* way, every entry of the array that stands for a listened group shows    *)
(* what the device's Firestore client holds for it, however the reads of   *)
(* three screens, own writes and other devices' writes were interleaved.   *)
Quiet(d) == dirty[d] = {} /\ gets[d] = <<>> /\ results[d] = <<>>

ListenedGroupsCurrent ==
    \A d \in Devices : Quiet(d) =>
        \A i \in DOMAIN groups[d] :
            LET id == groups[d][i].taskId
            IN  (id \in WatchedDocs(d) /\ View(d)[id] # Absent)
                    => groups[d][i] = View(d)[id]

(* Where nothing fails and nothing is deleted, a quiet Detail stands over  *)
(* an array that is exactly the client's groups, each once and in order.   *)
QuietDetailOverWholeList ==
    \A d \in Devices : (screen[d] = "detail" /\ Quiet(d)) =>
        \E s \in Listings(View(d)) : groups[d] = Contents(View(d), s)

(* The backend's acknowledgement of a write is invisible to its device:    *)
(* the view through cache and queue is the same before and after it.       *)
AcknowledgementInvisible ==
    [][\A d \in Devices : Acknowledge(d) => View(d)' = View(d)]_vars

-----------------------------------------------------------------------------
(* Liveness *)

SdkFairness(d) ==
    /\ SF_vars(Sdk(d) /\ Acknowledge(d))
    /\ WF_vars(Sdk(d) /\ Watch(d))
    /\ WF_vars(Sdk(d) /\ Answer(d))

(* The SDK keeps working while the process runs, the main queue runs its   *)
(* callbacks, and a process that ended is launched again some day.         *)
Fairness ==
    \A d \in Devices :
        /\ SdkFairness(d)
        /\ WF_vars(DeliverAppend(d)) /\ WF_vars(DeliverReplace(d))
        /\ \A id \in DocIds, r \in 1 .. 2 * NumDocs :
              WF_vars(OnEvent(d, [doc |-> id, ctx |-> DetailCtx(r)]))
        /\ WF_vars(Launch(d))

FairSpec == Spec /\ Fairness

(* Every write leaves the device in the end, through relaunches too: the   *)
(* mutation queue is on disk.                                              *)
WritesLeaveDevice == \A d \in Devices : []<>(queue[d] = <<>>)

(* A listened group shows the backend's talk again and again, until its    *)
(* device stops listening or the group is deleted.                         *)
Shown(d, id) ==
    /\ \E i \in DOMAIN groups[d] : groups[d][i].taskId = id
    /\ \A i \in DOMAIN groups[d] :
          groups[d][i].taskId = id => groups[d][i] = server[id]

ListenedGroupsShown ==
    \A d \in Devices, id \in DocIds :
        (id \in WatchedDocs(d)) ~>
            (id \notin WatchedDocs(d) \/ server[id] = Absent \/ Shown(d, id))

-----------------------------------------------------------------------------
(* What the comments say, and the code does not do *)

(* "Add to Firebase": what one device has added to a talk on the backend   *)
(* stays there while the group exists, whoever adds next.                  *)
Messages(val) == IF val = Absent THEN {} ELSE {val.talks[i] : i \in DOMAIN val.talks}

MessagesKept ==
    [][\A id \in DocIds :
          server'[id] # Absent => Messages(server[id]) \subseteq Messages(server'[id])]_server

(* "Get the specified group", "the selected group's number", "swipe:       *)
(* delete": what the user does to a displayed row or talk is done to that  *)
(* group, whatever reads do to the array: a swipe deletes the group of its *)
(* row, a tap opens it, a message goes to the group of the title.          *)
DisplayedGroupIsMeant ==
    [][\A d \in Devices :
          LET write == queue'[d][Len(queue'[d])]
          IN  /\ \A r \in DOMAIN rows[d] :
                    /\ DeleteGroup(d, r) => status'[d] = "running" /\ write.doc = rows[d][r]
                    /\ OpenDetail(d, r)  => status'[d] = "running" /\ title'[d] = rows[d][r]
              /\ (sent' = sent + 1 /\ Len(queue'[d]) > Len(queue[d]))
                    => write.doc = title[d]]_vars
=============================================================================
