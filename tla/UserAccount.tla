----------------------------- MODULE UserAccount -----------------------------
(***************************************************************************)
(* The users: login (TaskLoginViewController), the list of users that all  *)
(* screens share (UserInfoManager), Home's read of it and logout           *)
(* (ViewController), the rename (TaskEditUserInfoViewController) and the   *)
(* look-up of a QR code (ReadQRCodeViewController and its result screen),  *)
(* on every device, over the Firestore client.                             *)
(*                                                                         *)
(* As in GroupTalk, each handler and callback is one action.  The          *)
(* mutation queue of the client belongs to a user: `queue` is the one of   *)
(* the user signed in, `parked` keeps those of the others.                 *)
(***************************************************************************)
EXTENDS Firestore

CONSTANTS
    Users,          \* the accounts of Firebase Auth
    Nobody,         \* "no user is signed in"
    Blank,          \* the name of a record nobody has renamed yet
    MaxCalls,       \* bound: reads of a device outstanding or undelivered
    MaxQueue,       \* bound: writes of a user not yet acknowledged
    MaxSignIns,     \* bound: sign-ins of a device under way
    MaxCodes,       \* bound: detections of a device on its main queue
    UserOps         \* the operations the users of a run perform

AllUserOps == {"logout", "rename", "scan", "restart"}

ASSUME UsersAssumption     == /\ Nobody \notin Users
                              /\ Blank \notin Users \cup {Nobody}
ASSUME MaxCallsAssumption  == MaxCalls \in Nat
ASSUME MaxQueueAssumption  == MaxQueue \in Nat
ASSUME MaxSignInsAssumption == MaxSignIns \in Nat
ASSUME MaxCodesAssumption  == MaxCodes \in Nat
ASSUME UserOpsAssumption   == UserOps \subseteq AllUserOps

VARIABLES
    running,    \* per device: whether the process runs
    account,    \* per device: Auth's current user, kept through restarts
    parked,     \* per device and user: the queues of those not signed in
    screen,     \* per device: what is displayed
    alert,      \* per device: the alert over the login screen
    signing,    \* per device: the sign-ins Auth has not answered yet
    list,       \* per device: UserInfoManager.userLists
    codes,      \* per device: the detections on the main queue
    labels,     \* per device: what the result screens display, last on top
    owner       \* the ids given out so far, with the user each is for

uiVars == <<running, screen, alert, signing, list, codes, labels>>
vars   == <<storeVars, uiVars, account, parked, owner>>

Account == Users \cup {Nobody}

(* A name is told by who chose it.                                         *)
Record == [taskId : DocIds, user : Account, name : Account \cup {Blank}]

(* The label of a scan: nothing, "unknown", or the name of a record.       *)
Labels == {"empty", "unknown"} \cup Account \cup {Blank}

ASSUME AbsentRecordAssumption == Absent \notin Record \cup Account

(* Whose callback it is: Home's, the displayed login screen's, or that of  *)
(* a login screen that was dismissed before.                               *)
Ctx == {"home", "login", "gone"}

Calls(d) == Len(gets[d]) + Len(results[d])

Set(f, d, v) == [f EXCEPT ![d] = v]

Without(s, i) == SubSeq(s, 1, i - 1) \o SubSeq(s, i + 1, Len(s))

-----------------------------------------------------------------------------
(* UserInfoManager: the searches by the current user's id *)

Positions(us, u) == {i \in DOMAIN us : us[i].user = u}

FirstPosition(us, u) ==
    CHOOSE i \in Positions(us, u) : \A j \in Positions(us, u) : i <= j

(* getTaskIdAtCurrentUserID: the last match.                               *)
LastPosition(us, u) ==
    CHOOSE i \in Positions(us, u) : \A j \in Positions(us, u) : i >= j

(* Mutated: index 0 for everybody.                                         *)
ZeroPosition(us, u) == 1

(* getUserInfoAtCurrentUserID: index 0 where there is no match.            *)
CurrentPosition(us, u) ==
    IF Positions(us, u) = {} THEN 1 ELSE LastPosition(us, u)

(* Mutated: whatever record is at the position is renamed.                 *)
NamedEverywhere(us, u) == [i \in DOMAIN us |-> [us[i] EXCEPT !.name = u]]

(* setNameAtCurrentUserID, with a name that u chose: every match.          *)
Named(us, u) ==
    [i \in DOMAIN us |-> IF us[i].user = u THEN [us[i] EXCEPT !.name = u]
                                           ELSE us[i]]

(* analizeQRCodeResult: the first match, and nothing if the list is empty. *)
Lookup(us, u) ==
    CASE us = <<>>                           -> "empty"
      [] us # <<>> /\ Positions(us, u) = {} -> "unknown"
      [] OTHER                               -> us[FirstPosition(us, u)].name

-----------------------------------------------------------------------------
Init ==
    /\ server  = [id \in DocIds |-> Absent]
    /\ cache   = [d \in Devices |-> [id \in DocIds |-> Absent]]
    /\ queue   = [d \in Devices |-> <<>>]
    /\ watched = [d \in Devices |-> {}]
    /\ dirty   = [d \in Devices |-> {}]
    /\ gets    = [d \in Devices |-> <<"home">>]
    /\ results = [d \in Devices |-> <<>>]
    /\ running = [d \in Devices |-> TRUE]
    /\ account = [d \in Devices |-> Nobody]
    /\ parked  = [d \in Devices |-> [u \in Account |-> <<>>]]
    /\ screen  = [d \in Devices |-> "login"]
    /\ alert   = [d \in Devices |-> "none"]
    /\ signing = [d \in Devices |-> <<>>]
    /\ list    = [d \in Devices |-> <<>>]
    /\ codes   = [d \in Devices |-> <<>>]
    /\ labels  = [d \in Devices |-> <<>>]
    /\ owner   = [id \in DocIds |-> Absent]

(* showAlert: nothing is presented by a screen that is gone, nor by one    *)
(* that presents an alert already.                                         *)
ShowAlert(d, ctx, what) ==
    alert' = IF ctx = "login" /\ alert[d] = "none" THEN Set(alert, d, what)
                                                   ELSE alert

(* The process of d is gone, with everything it held in memory.            *)
EndProcess(d) ==
    /\ running' = Set(running, d, FALSE)
    /\ screen'  = Set(screen, d, "login")
    /\ alert'   = Set(alert, d, "none")
    /\ signing' = Set(signing, d, <<>>)
    /\ list'    = Set(list, d, <<>>)
    /\ codes'   = Set(codes, d, <<>>)
    /\ labels'  = Set(labels, d, <<>>)
    /\ DropCallbacks(d)
    /\ UNCHANGED <<server, cache, queue, account, parked, owner>>

(* The process is killed, or restarted as the alert of a failed read asks. *)
Kill(d) ==
    /\ running[d]
    /\ \/ "kill" \in Faults
       \/ "restart" \in UserOps /\ alert[d] = "read"
    /\ EndProcess(d)

(* Home.viewDidLoad: the login comes up if nobody is signed in.            *)
Launch(d) ==
    /\ ~running[d]
    /\ running' = Set(running, d, TRUE)
    /\ screen'  = Set(screen, d, IF account[d] = Nobody THEN "login" ELSE "home")
    /\ RequestGet(d, "home")
    /\ UNCHANGED <<server, cache, queue, watched, dirty, results, account,
                   parked, alert, signing, list, codes, labels, owner>>

-----------------------------------------------------------------------------
(* Signing in and out *)

(* Mutated: the queue of the old user stays.                               *)
SwitchAccount(d, u) ==
    /\ account' = Set(account, d, u)
    /\ UNCHANGED <<queue, parked>>

(* HandleUserChange: the queue of the old user is put aside, and that of   *)
(* the new one taken up.                                                   *)
SwitchUser(d, u) ==
    LET shelf == [parked[d] EXCEPT ![account[d]] = queue[d]]
    IN  /\ account' = Set(account, d, u)
        /\ queue'   = Set(queue, d, shelf[u])
        /\ parked'  = Set(parked, d, [shelf EXCEPT ![u] = <<>>])

(* tappedLoginBtn and tappedNewRegisterBtn, with both fields filled in.    *)
TapSignIn(d, u) ==
    /\ running[d] /\ screen[d] = "login" /\ alert[d] = "none"
    /\ Len(signing[d]) < MaxSignIns
    /\ signing' = Set(signing, d, Append(signing[d], [user |-> u, ctx |-> "login"]))
    /\ UNCHANGED <<storeVars, running, screen, alert, list, codes, labels,
                   account, parked, owner>>

(* Auth refuses: an alert.                                                 *)
SignInFails(d, i) ==
    /\ ShowAlert(d, signing[d][i].ctx, "auth")
    /\ signing' = Set(signing, d, Without(signing[d], i))
    /\ UNCHANGED <<storeVars, running, screen, list, codes, labels,
                   account, parked, owner>>

(* Auth accepts, and actSuccessLogin empties the list and reads the users. *)
SignInSucceeds(d, i) ==
    /\ Calls(d) < MaxCalls
    /\ SwitchUser(d, signing[d][i].user)
    /\ list' = Set(list, d, <<>>)
    /\ RequestGet(d, signing[d][i].ctx)
    /\ signing' = Set(signing, d, Without(signing[d], i))
    /\ UNCHANGED <<server, cache, watched, dirty, results,
                   running, screen, alert, codes, labels, owner>>

DismissAlert(d) ==
    /\ alert[d] # "none"
    /\ alert' = Set(alert, d, "none")
    /\ UNCHANGED <<storeVars, running, screen, signing, list, codes, labels,
                   account, parked, owner>>

Logout(d) ==
    /\ "logout" \in UserOps
    /\ running[d] /\ screen[d] = "home"
    /\ SwitchUser(d, Nobody)
    /\ screen' = Set(screen, d, "login")
    /\ UNCHANGED <<server, cache, watched, dirty, gets, results,
                   running, alert, signing, list, codes, labels, owner>>

-----------------------------------------------------------------------------
(* The reads of the users *)

(* Home's callback appends what was read.                                  *)
DeliverHome(d) ==
    LET res == Head(results[d])
    IN  /\ results[d] # <<>> /\ res.ctx = "home"
        /\ list' = Set(list, d, list[d] \o res.docs)
        /\ results' = [results EXCEPT ![d] = Tail(@)]
        /\ UNCHANGED <<server, cache, queue, watched, dirty, gets,
                       running, screen, alert, signing, codes, labels,
                       account, parked, owner>>

(* A read by createdAt: device clocks order the records, so in any order.  *)
Orders(docs) ==
    {[i \in DOMAIN docs |-> docs[p[i]]] :
        p \in {q \in [DOMAIN docs -> DOMAIN docs] :
                  \A i, j \in DOMAIN docs : q[i] = q[j] => i = j}}

(* A failed read of the login: an alert, and nothing else.                 *)
LoginReadFails(d) ==
    LET res == Head(results[d])
    IN  /\ results[d] # <<>> /\ res.ctx # "home" /\ ~res.ok
        /\ ShowAlert(d, res.ctx, "read")
        /\ results' = [results EXCEPT ![d] = Tail(@)]
        /\ UNCHANGED <<server, cache, queue, watched, dirty, gets,
                       running, screen, signing, list, codes, labels,
                       account, parked, owner>>

(* Mutated: a record is added to the list only.                            *)
RegisterLocally(d, us) ==
    \E id \in {i \in DocIds : owner[i] = Absent} :
        /\ queue' = queue
        /\ list'  = Set(list, d, Append(us, [taskId |-> id, user |-> account[d],
                                             name |-> Blank]))
        /\ owner' = [owner EXCEPT ![id] = account[d]]

(* addUserInfo, with a fresh document id.                                  *)
Register(d, us) ==
    \E id \in {i \in DocIds : owner[i] = Absent} :
        LET r == [taskId |-> id, user |-> account[d], name |-> Blank]
        IN  /\ Len(queue[d]) < MaxQueue
            /\ Write(d, id, r)
            /\ list'  = Set(list, d, Append(us, r))
            /\ owner' = [owner EXCEPT ![id] = account[d]]

(* The login screen is dismissed: its callbacks outlive it.  dismiss only  *)
(* takes away the alert, if there is one on top of the screen.             *)
GoneCtx(c) == IF c = "login" THEN "gone" ELSE c

Gone(call) == [call EXCEPT !.ctx = GoneCtx(@)]

DismissLogin(d) ==
    LET rest == Tail(results[d])
    IN  IF alert[d] # "none"
        THEN /\ alert' = Set(alert, d, "none")
             /\ results' = Set(results, d, rest)
             /\ UNCHANGED <<screen, gets, signing>>
        ELSE /\ screen'  = Set(screen, d, "home")
             /\ results' = Set(results, d, [i \in DOMAIN rest |-> Gone(rest[i])])
             /\ gets'    = Set(gets, d, [i \in DOMAIN gets[d] |-> GoneCtx(gets[d][i])])
             /\ signing' = Set(signing, d, [i \in DOMAIN signing[d] |->
                                                Gone(signing[d][i])])
             /\ UNCHANGED alert

(* The callback of the login's read: the answer is appended, a record is   *)
(* added for a user without one (checkExistingUser), and Home is displayed. *)
LoginReadSucceeds(d) ==
    LET res == Head(results[d])
    IN  /\ results[d] # <<>> /\ res.ctx # "home" /\ res.ok
        /\ \E docs \in Orders(res.docs) :
              LET us == list[d] \o docs
              IN  \/ /\ Positions(us, account[d]) # {}
                     /\ list' = Set(list, d, us)
                     /\ UNCHANGED <<queue, owner>>
                  \/ /\ Positions(us, account[d]) = {}
                     /\ Register(d, us)
        /\ \/ res.ctx = "login" /\ DismissLogin(d)
           \/ /\ res.ctx = "gone"
              /\ results' = Set(results, d, Tail(results[d]))
              /\ UNCHANGED <<screen, alert, gets, signing>>
        /\ UNCHANGED <<server, cache, watched, dirty, running, codes, labels,
                       account, parked>>

-----------------------------------------------------------------------------
(* Renaming *)

GoTo(d, from, to) ==
    /\ running[d] /\ screen[d] = from
    /\ screen' = Set(screen, d, to)
    /\ UNCHANGED <<storeVars, running, alert, signing, list,
                   account, parked, owner>>

OpenEdit(d) == /\ "rename" \in UserOps
               /\ GoTo(d, "home", "edit")
               /\ UNCHANGED <<codes, labels>>

LeaveEdit(d) == GoTo(d, "edit", "home") /\ UNCHANGED <<codes, labels>>

(* backToSaveBtn with a name typed in.  An empty list traps; a list with   *)
(* no record of the user leads to document(""), which raises.              *)
SaveName(d) ==
    /\ running[d] /\ screen[d] = "edit"
    /\ LET us == Named(list[d], account[d])
           u  == account[d]
       IN  \/ /\ Positions(us, u) # {}
              /\ Len(queue[d]) < MaxQueue
              /\ list' = Set(list, d, us)
              /\ Write(d, us[LastPosition(us, u)].taskId, us[CurrentPosition(us, u)])
              /\ screen' = Set(screen, d, "home")
              /\ UNCHANGED <<server, cache, watched, dirty, gets, results, running,
                             alert, signing, codes, labels, account, parked, owner>>
           \/ Positions(us, u) = {} /\ EndProcess(d)

-----------------------------------------------------------------------------
(* Scanning a QR code, which is the userID of the device that shows it *)

OpenCamera(d) == /\ "scan" \in UserOps
                 /\ GoTo(d, "home", "camera")
                 /\ UNCHANGED <<codes, labels>>

(* The capture session runs until the first result screen is pushed.       *)
Detect(d, u) ==
    /\ running[d] /\ screen[d] = "camera" /\ labels[d] = <<>>
    /\ Len(codes[d]) < MaxCodes
    /\ codes' = Set(codes, d, Append(codes[d], u))
    /\ UNCHANGED <<storeVars, running, screen, alert, signing, list, labels,
                   account, parked, owner>>

(* metadataOutput, and viewDidLoad of the result screen it pushes.         *)
ReadCode(d) ==
    /\ codes[d] # <<>>
    /\ labels' = Set(labels, d, Append(labels[d], Lookup(list[d], Head(codes[d]))))
    /\ codes'  = Set(codes, d, Tail(codes[d]))
    /\ UNCHANGED <<storeVars, running, screen, alert, signing, list,
                   account, parked, owner>>

(* Back from the camera, or HOME of a result screen: the camera is gone.   *)
CloseCamera(d) ==
    /\ GoTo(d, "camera", "home")
    /\ codes'  = Set(codes, d, <<>>)
    /\ labels' = Set(labels, d, <<>>)

-----------------------------------------------------------------------------
(* Answers to different queries, Home's and the login's, come in any order. *)
Overtake(d) ==
    /\ Len(gets[d]) > 1
    /\ (gets[d][1] = "home") # (gets[d][2] = "home")
    /\ gets' = [gets EXCEPT ![d][1] = gets[d][2], ![d][2] = gets[d][1]]
    /\ UNCHANGED <<server, cache, queue, watched, dirty, results>>

Sdk(d) == /\ running[d]
          /\ SdkStep(d) \/ Overtake(d)
          /\ UNCHANGED <<uiVars, account, parked, owner>>

Auth(d) == \E i \in DOMAIN signing[d] : SignInFails(d, i) \/ SignInSucceeds(d, i)

Callback(d) == \/ DeliverHome(d) \/ LoginReadFails(d) \/ LoginReadSucceeds(d)
               \/ ReadCode(d)

UserStep(d) == \/ \E u \in Users : TapSignIn(d, u) \/ Detect(d, u)
               \/ DismissAlert(d) \/ Logout(d)
               \/ OpenEdit(d) \/ LeaveEdit(d) \/ SaveName(d)
               \/ OpenCamera(d) \/ CloseCamera(d)

Next == \E d \in Devices :
            Sdk(d) \/ Auth(d) \/ Callback(d) \/ UserStep(d) \/ Launch(d) \/ Kill(d)

Spec == Init /\ [][Next]_vars
=============================================================================
