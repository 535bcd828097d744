-------------------------- MODULE UserAccountProofs --------------------------
(***************************************************************************)
(* Proofs of the safety properties of the accounts, for any number of      *)
(* devices, users and documents, any bounds and any faults.                *)
(*                                                                         *)
(* The argument: every record held anywhere is one of the records the      *)
(* owners permit (Mine): its user is the one its document id was given out *)
(* for, and its name is blank or chosen by that user.  The set grows as    *)
(* ids are given out, and no handler makes a record outside of it.         *)
(***************************************************************************)
EXTENDS UserAccountProperties, FirestoreProofs

(* The records that the owners o of the ids permit.                        *)
Mine(o) == {r \in Record : o[r.taskId] = r.user /\ r.name \in {Blank, r.user}}

(* A queue of the user u holds its records, each under its own id.         *)
OwnMutation(m, u) ==
    m.val # Absent /\ m.val.taskId = m.doc /\ m.val.user = u

QueueOf(q, u) == \A i \in DOMAIN q : OwnMutation(q[i], u)

QueuesAreOwn ==
    \A d \in Devices : /\ QueueOf(queue[d], account[d])
                       /\ \A u \in Account : QueueOf(parked[d][u], u)

(* The backend holds a record under its own id.                            *)
Placed(w) == \A id \in DocIds : w[id] # Absent => w[id].taskId = id

(* The inductive invariant.                                                *)
TypesOK(Data) == StoreTypeOK(Data, Ctx) /\ UiTypeOK(Data)

AccountInv == TypesOK(Mine(owner)) /\ QueuesAreOwn /\ Placed(server)

-----------------------------------------------------------------------------
(* Lists and queues *)

(* What a record of a registered user is.                                  *)
LEMMA MineFacts ==
    ASSUME NEW o, NEW r \in Mine(o)
    PROVE  /\ r.taskId \in DocIds /\ r.user \in Account /\ r.user = o[r.taskId]
           /\ r.name \in {Blank, r.user} /\ r # Absent
           /\ r = [taskId |-> r.taskId, user |-> r.user, name |-> r.name]
BY AbsentRecordAssumption DEF Mine, Record

LEMMA AbsentNotMine == \A o : Absent \notin Mine(o)
BY AbsentRecordAssumption DEF Mine

(* Giving out an id only adds to the records that are permitted.           *)
LEMMA MineGrows ==
    ASSUME NEW o \in [DocIds -> Account \cup {Absent}], NEW id \in DocIds,
           NEW u \in Account, o[id] = Absent
    PROVE  /\ Mine(o) \subseteq Mine([o EXCEPT ![id] = u])
           /\ [taskId |-> id, user |-> u, name |-> Blank] \in Mine([o EXCEPT ![id] = u])
<1>1. ASSUME NEW r \in Mine(o) PROVE r \in Mine([o EXCEPT ![id] = u])
  <2>1. r \in Record /\ r.taskId \in DocIds /\ r.taskId # id
    BY MineFacts, AbsentRecordAssumption DEF Mine
  <2>. QED  BY <2>1 DEF Mine
<1>2. [taskId |-> id, user |-> u, name |-> Blank] \in Record
  BY DEF Record
<1>. QED  BY <1>1, <1>2 DEF Mine

(* What is typed by a set of records is typed by a greater one.            *)
LEMMA TypesMonotone ==
    ASSUME NEW Data, NEW More, Data \subseteq More, TypesOK(Data)
    PROVE  TypesOK(More)
<1>1. StoreTypeOK(More, Ctx)
  BY StoreTypeMonotone DEF TypesOK
<1>2. Seq(Data) \subseteq Seq(More)
  OBVIOUS
<1>3. Seq(Mutations(Data)) \subseteq Seq(Mutations(More))
  <2>1. Mutations(Data) \subseteq Mutations(More)
    BY DEF Mutations
  <2>. QED  BY <2>1
<1>4. /\ list \in [Devices -> Seq(More)]
      /\ parked \in [Devices -> [Account -> Seq(Mutations(More))]]
  BY <1>2, <1>3 DEF TypesOK, UiTypeOK
<1>. QED  BY <1>1, <1>4 DEF TypesOK, UiTypeOK

(* The searches of the list find records of the user, if there are any.    *)
LEMMA PositionsFound ==
    ASSUME NEW Data, NEW us \in Seq(Data), NEW u, Positions(us, u) # {}
    PROVE  /\ LastPosition(us, u) \in Positions(us, u)
           /\ FirstPosition(us, u) \in Positions(us, u)
<1>. DEFINE P == Positions(us, u)
<1>1. P \subseteq 1 .. Len(us) /\ Len(us) \in Nat /\ P \subseteq Nat
  BY DEF Positions
<1>2. \E x \in P : \A y \in P : y <= x
  BY <1>1, GreatestNumber
<1>3. \E x \in P : \A y \in P : x >= y
  BY <1>1, <1>2
<1>4. \E x \in P : \A y \in P : x <= y
  BY <1>1, SmallestNumber
<1>5. LastPosition(us, u) \in P
  BY <1>3 DEF LastPosition
<1>6. FirstPosition(us, u) \in P
  BY <1>4 DEF FirstPosition
<1>. QED  BY <1>5, <1>6

(* A rename changes the names of the user's own records, to its own choice. *)
LEMMA NamedType ==
    ASSUME NEW o, NEW us \in Seq(Mine(o)), NEW u \in Account
    PROVE  Named(us, u) \in Seq(Mine(o)) /\ Positions(Named(us, u), u) = Positions(us, u)
<1>1. ASSUME NEW i \in DOMAIN us
      PROVE  Named(us, u)[i] \in Mine(o) /\ (Named(us, u)[i].user = u <=> us[i].user = u)
  <2>1. us[i] \in Mine(o)
    OBVIOUS
  <2>2. CASE us[i].user = u
    <3>. DEFINE r == [us[i] EXCEPT !.name = u]
    <3>1. r = [taskId |-> us[i].taskId, user |-> us[i].user, name |-> u]
      BY <2>1, MineFacts
    <3>2. r \in Record
      BY <2>1, <3>1, MineFacts DEF Record
    <3>3. r \in Mine(o)
      BY <2>1, <2>2, <3>1, <3>2, MineFacts DEF Mine
    <3>4. Named(us, u)[i] = r
      BY <2>2 DEF Named
    <3>. HIDE DEF r
    <3>. QED  BY <2>2, <3>1, <3>3, <3>4
  <2>3. CASE us[i].user # u
    BY <2>1, <2>3 DEF Named
  <2>. QED  BY <2>2, <2>3
<1>2. DOMAIN us = 1 .. Len(us) /\ Len(us) \in Nat /\ DOMAIN Named(us, u) = DOMAIN us
      /\ Named(us, u) = [i \in DOMAIN us |-> Named(us, u)[i]]
  BY DEF Named
<1>3. Named(us, u) \in Seq(Mine(o))
  BY <1>1, <1>2
<1>. QED  BY <1>1, <1>2, <1>3 DEF Positions

LEMMA WithoutType ==
    ASSUME NEW S, NEW s \in Seq(S), NEW i \in DOMAIN s
    PROVE  Without(s, i) \in Seq(S)
<1>1. SubSeq(s, 1, i - 1) \in Seq(S) /\ SubSeq(s, i + 1, Len(s)) \in Seq(S)
  OBVIOUS
<1>. QED  BY <1>1 DEF Without

LEMMA OrdersType ==
    ASSUME NEW Data, NEW docs \in Seq(Data), NEW s \in Orders(docs)
    PROVE  s \in Seq(Data)
<1>1. PICK p \in [DOMAIN docs -> DOMAIN docs] : s = [i \in DOMAIN docs |-> docs[p[i]]]
  BY DEF Orders
<1>2. DOMAIN docs = 1 .. Len(docs) /\ Len(docs) \in Nat
  OBVIOUS
<1>3. \A i \in DOMAIN docs : docs[p[i]] \in Data
  OBVIOUS
<1>. QED  BY <1>1, <1>2, <1>3

LEMMA QueueOfTail ==
    ASSUME NEW M, NEW q \in Seq(M), q # <<>>, NEW u, QueueOf(q, u)
    PROVE  QueueOf(Tail(q), u) /\ OwnMutation(Head(q), u)
<1>1. 1 \in DOMAIN q /\ Head(q) = q[1]
      /\ \A i \in DOMAIN Tail(q) : i + 1 \in DOMAIN q /\ Tail(q)[i] = q[i + 1]
  OBVIOUS
<1>. QED  BY <1>1 DEF QueueOf

(* A record of the signed-in user, written under its own id.               *)
LEMMA OwnWrite ==
    ASSUME NEW Data, TypesOK(Data), QueuesAreOwn, NEW d \in Devices,
           NEW id \in DocIds, NEW val, val # Absent, val.taskId = id,
           val.user = account[d], Write(d, id, val),
           UNCHANGED <<account, parked>>
    PROVE  QueuesAreOwn'
<1>1. queue \in [Devices -> Seq(Mutations(Data))] /\ queue[d] \in Seq(Mutations(Data))
  BY DEF TypesOK, StoreTypeOK
<1>2. queue'[d] = Append(queue[d], [doc |-> id, val |-> val])
      /\ \A e \in Devices \ {d} : queue'[e] = queue[e]
  BY <1>1 DEF Write
<1>3. ASSUME NEW i \in DOMAIN queue'[d] PROVE OwnMutation(queue'[d][i], account[d])
  <2>1. \/ i \in DOMAIN queue[d] /\ queue'[d][i] = queue[d][i]
        \/ queue'[d][i] = [doc |-> id, val |-> val]
    BY <1>1, <1>2, <1>3
  <2>. QED  BY <2>1 DEF QueuesAreOwn, QueueOf, OwnMutation
<1>. QED  BY <1>2, <1>3 DEF QueuesAreOwn, QueueOf

-----------------------------------------------------------------------------
(* Steps without a new record *)

(* HandleUserChange exchanges queues: each stays that of its user.         *)
LEMMA SwitchUserKeeps ==
    ASSUME NEW Data, TypesOK(Data), QueuesAreOwn, NEW d \in Devices,
           NEW u \in Account, SwitchUser(d, u)
    PROVE  /\ account' \in [Devices -> Account]
           /\ queue' \in [Devices -> Seq(Mutations(Data))]
           /\ parked' \in [Devices -> [Account -> Seq(Mutations(Data))]]
           /\ QueuesAreOwn'
<1>. DEFINE M == Seq(Mutations(Data))
            shelf == [parked[d] EXCEPT ![account[d]] = queue[d]]
<1>1. /\ account \in [Devices -> Account] /\ queue \in [Devices -> M]
      /\ parked \in [Devices -> [Account -> M]]
  BY DEF TypesOK, StoreTypeOK, UiTypeOK
<1>2. /\ account' = [account EXCEPT ![d] = u]
      /\ queue'   = [queue EXCEPT ![d] = shelf[u]]
      /\ parked'  = [parked EXCEPT ![d] = [shelf EXCEPT ![u] = <<>>]]
  BY DEF SwitchUser, Set
<1>3. <<>> \in M /\ \A v \in Account : QueueOf(<<>>, v)
  BY DEF QueueOf
<1>4. /\ account[d] \in Account /\ queue[d] \in M /\ parked[d] \in [Account -> M]
      /\ QueueOf(queue[d], account[d])
      /\ \A v \in Account : QueueOf(parked[d][v], v)
  BY <1>1 DEF QueuesAreOwn
<1>. HIDE DEF M
<1>5. shelf \in [Account -> M] /\ \A v \in Account : QueueOf(shelf[v], v)
  BY <1>4
<1>. HIDE DEF shelf
<1>6. /\ account' \in [Devices -> Account]
      /\ queue' \in [Devices -> M]
      /\ parked' \in [Devices -> [Account -> M]]
  BY <1>1, <1>2, <1>3, <1>5
<1>7. \A v \in Account : QueueOf([shelf EXCEPT ![u] = <<>>][v], v)
  BY <1>3, <1>5
<1>8. /\ account'[d] = u /\ queue'[d] = shelf[u]
      /\ parked'[d] = [shelf EXCEPT ![u] = <<>>]
      /\ \A e \in Devices \ {d} : /\ account'[e] = account[e] /\ queue'[e] = queue[e]
                                  /\ parked'[e] = parked[e]
  BY <1>1, <1>2
<1>9. ASSUME NEW e \in Devices
      PROVE  QueueOf(queue'[e], account'[e]) /\ \A v \in Account : QueueOf(parked'[e][v], v)
  BY <1>5, <1>7, <1>8 DEF QueuesAreOwn
<1>. QED  BY <1>6, <1>9 DEF QueuesAreOwn, M

(* What touches neither records nor queues keeps the invariant's others.   *)
LEMMA KeepsQueues ==
    ASSUME QueuesAreOwn, Placed(server), UNCHANGED <<server, queue, account, parked>>
    PROVE  QueuesAreOwn' /\ Placed(server)'
BY DEF QueuesAreOwn, Placed

LEMMA EndProcessKeeps ==
    ASSUME NEW Data, TypesOK(Data), NEW d \in Devices, EndProcess(d)
    PROVE  TypesOK(Data)'
<1>1. StoreTypeOK(Data, Ctx)'
  BY DropCallbacksType DEF TypesOK, EndProcess
<1>2. <<>> \in Seq(Data) /\ <<>> \in Seq(Users) /\ <<>> \in Seq(Labels)
      /\ <<>> \in Seq([user : Users, ctx : {"login", "gone"}])
  OBVIOUS
<1>3. UiTypeOK(Data)'
  BY <1>2 DEF TypesOK, UiTypeOK, EndProcess, Set
<1>. QED  BY <1>1, <1>3 DEF TypesOK

(* An alert comes up or not.                                               *)
LEMMA ShowAlertKeeps ==
    ASSUME NEW Data, UiTypeOK(Data), NEW d \in Devices, NEW ctx,
           NEW what \in {"auth", "read"}, ShowAlert(d, ctx, what)
    PROVE  alert' \in [Devices -> {"none", "auth", "read"}]
BY DEF UiTypeOK, ShowAlert, Set

LEMMA LaunchKeeps ==
    ASSUME NEW Data, TypesOK(Data), NEW d \in Devices, Launch(d)
    PROVE  TypesOK(Data)'
<1>1. "home" \in Ctx
  BY DEF Ctx
<1>2. gets' \in [Devices -> Seq(Ctx)]
  BY <1>1, RequestGetType DEF TypesOK, Launch
<1>3. StoreTypeOK(Data, Ctx)'
  BY <1>2 DEF TypesOK, StoreTypeOK, Launch
<1>4. UiTypeOK(Data)'
  BY DEF TypesOK, UiTypeOK, Launch, Set
<1>. QED  BY <1>3, <1>4 DEF TypesOK

LEMMA SignInsKeep ==
    ASSUME NEW Data, TypesOK(Data), QueuesAreOwn, NEW d \in Devices,
           \/ \E u \in Users : TapSignIn(d, u)
           \/ Auth(d) \/ DismissAlert(d) \/ Logout(d)
    PROVE  TypesOK(Data)' /\ QueuesAreOwn'
<1>. DEFINE S == [user : Users, ctx : {"login", "gone"}]
<1>0. signing[d] \in Seq(S) /\ signing \in [Devices -> Seq(S)]
  BY DEF TypesOK, UiTypeOK
<1>1. CASE \E u \in Users : TapSignIn(d, u)
  <2>1. PICK u \in Users : TapSignIn(d, u)
    BY <1>1
  <2>2. Append(signing[d], [user |-> u, ctx |-> "login"]) \in Seq(S)
    BY <1>0
  <2>3. StoreTypeOK(Data, Ctx)'
    BY <2>1 DEF TypesOK, TapSignIn, storeVars, StoreTypeOK
  <2>4. signing' \in [Devices -> Seq(S)]
    BY <1>0, <2>1, <2>2 DEF TapSignIn, Set
  <2>5. QueuesAreOwn'
    BY <2>1 DEF TapSignIn, storeVars, QueuesAreOwn
  <2>. QED  BY <2>1, <2>3, <2>4, <2>5 DEF TypesOK, UiTypeOK, TapSignIn
<1>2. ASSUME NEW i \in DOMAIN signing[d], SignInFails(d, i)
      PROVE  TypesOK(Data)' /\ QueuesAreOwn'
  <2>1. Without(signing[d], i) \in Seq(S)
    BY <1>0, WithoutType
  <2>2. signing' \in [Devices -> Seq(S)]
    BY <1>0, <1>2, <2>1 DEF SignInFails, Set
  <2>3. alert' \in [Devices -> {"none", "auth", "read"}]
    BY <1>2, ShowAlertKeeps DEF SignInFails, TypesOK
  <2>4. StoreTypeOK(Data, Ctx)' /\ QueuesAreOwn'
    BY <1>2 DEF TypesOK, SignInFails, storeVars, StoreTypeOK, QueuesAreOwn
  <2>. QED  BY <1>2, <2>2, <2>3, <2>4 DEF TypesOK, UiTypeOK, SignInFails
<1>3. ASSUME NEW i \in DOMAIN signing[d], SignInSucceeds(d, i)
      PROVE  TypesOK(Data)' /\ QueuesAreOwn'
  <2>. HIDE DEF S
  <2>1. signing[d][i] \in S
    BY <1>0
  <2>2. signing[d][i].user \in Account /\ signing[d][i].ctx \in Ctx
    BY <2>1 DEF S, Account, Ctx
  <2>3. Without(signing[d], i) \in Seq(S)
    BY <1>0, WithoutType
  <2>4. signing' \in [Devices -> Seq(S)]
    BY <1>0, <1>3, <2>3 DEF SignInSucceeds, Set
  <2>5. gets' \in [Devices -> Seq(Ctx)]
    BY <1>3, <2>2, RequestGetType DEF TypesOK, SignInSucceeds
  <2>6. /\ account' \in [Devices -> Account]
        /\ queue' \in [Devices -> Seq(Mutations(Data))]
        /\ parked' \in [Devices -> [Account -> Seq(Mutations(Data))]]
        /\ QueuesAreOwn'
    BY <1>3, <2>2, SwitchUserKeeps DEF SignInSucceeds
  <2>7. list' \in [Devices -> Seq(Data)]
    <3>1. <<>> \in Seq(Data)
      OBVIOUS
    <3>. QED  BY <1>3, <3>1 DEF SignInSucceeds, Set, TypesOK, UiTypeOK
  <2>8. StoreTypeOK(Data, Ctx)'
    BY <1>3, <2>5, <2>6 DEF TypesOK, StoreTypeOK, SignInSucceeds
  <2>9. UiTypeOK(Data)'
    BY <1>3, <2>4, <2>6, <2>7 DEF S, TypesOK, UiTypeOK, SignInSucceeds
  <2>. QED  BY <2>6, <2>8, <2>9 DEF TypesOK
<1>4. CASE DismissAlert(d)
  BY <1>4 DEF DismissAlert, storeVars, TypesOK, StoreTypeOK, UiTypeOK, QueuesAreOwn, Set
<1>5. CASE Logout(d)
  <2>1. /\ account' \in [Devices -> Account]
        /\ queue' \in [Devices -> Seq(Mutations(Data))]
        /\ parked' \in [Devices -> [Account -> Seq(Mutations(Data))]]
        /\ QueuesAreOwn'
    BY <1>5, SwitchUserKeeps DEF Logout, Account
  <2>2. StoreTypeOK(Data, Ctx)'
    BY <1>5, <2>1 DEF TypesOK, StoreTypeOK, Logout
  <2>3. UiTypeOK(Data)'
    BY <1>5, <2>1 DEF TypesOK, UiTypeOK, Logout, Set
  <2>. QED  BY <2>1, <2>2, <2>3 DEF TypesOK
<1>. QED  BY <1>1, <1>2, <1>3, <1>4, <1>5 DEF Auth

LEMMA ScreensKeep ==
    ASSUME NEW Data, TypesOK(Data), NEW d \in Devices,
           \/ OpenEdit(d) \/ LeaveEdit(d) \/ OpenCamera(d) \/ CloseCamera(d)
           \/ \E u \in Users : Detect(d, u)
    PROVE  TypesOK(Data)' /\ UNCHANGED <<server, queue, account, parked, owner>>
<1>0. /\ codes[d] \in Seq(Users) /\ labels[d] \in Seq(Labels)
      /\ <<>> \in Seq(Users) /\ <<>> \in Seq(Labels)
  BY DEF TypesOK, UiTypeOK
<1>1. CASE OpenEdit(d) \/ LeaveEdit(d) \/ OpenCamera(d)
  BY <1>1 DEF OpenEdit, LeaveEdit, OpenCamera, GoTo, Set, storeVars,
              TypesOK, StoreTypeOK, UiTypeOK
<1>2. CASE CloseCamera(d)
  BY <1>0, <1>2 DEF CloseCamera, GoTo, Set, storeVars, TypesOK, StoreTypeOK, UiTypeOK
<1>3. CASE \E u \in Users : Detect(d, u)
  <2>1. PICK u \in Users : Detect(d, u)
    BY <1>3
  <2>2. Append(codes[d], u) \in Seq(Users)
    BY <1>0
  <2>. QED  BY <2>1, <2>2 DEF Detect, Set, storeVars, TypesOK, StoreTypeOK, UiTypeOK
<1>. QED  BY <1>1, <1>2, <1>3

(* A scan shows nothing, "unknown", or the name of a record of the list.   *)
LEMMA LookupType ==
    ASSUME NEW o, NEW us \in Seq(Mine(o)), NEW u
    PROVE  Lookup(us, u) \in Labels
<1>1. CASE us = <<>>
  BY <1>1 DEF Lookup, Labels
<1>2. CASE us # <<>> /\ Positions(us, u) = {}
  BY <1>2 DEF Lookup, Labels
<1>3. CASE us # <<>> /\ Positions(us, u) # {}
  <2>. DEFINE k == FirstPosition(us, u)
  <2>1. k \in DOMAIN us
    BY <1>3, PositionsFound DEF Positions
  <2>. HIDE DEF k
  <2>2. us[k] \in Mine(o)
    BY <2>1
  <2>3. us[k].name \in Labels
    BY <2>2, MineFacts DEF Labels, Account
  <2>4. Lookup(us, u) = us[k].name
    BY <1>3 DEF Lookup, k
  <2>. QED  BY <2>3, <2>4
<1>. QED  BY <1>1, <1>2, <1>3

LEMMA ReadCodeKeeps ==
    ASSUME NEW o, TypesOK(Mine(o)), NEW d \in Devices, ReadCode(d)
    PROVE  TypesOK(Mine(o))'
<1>1. /\ codes[d] \in Seq(Users) /\ labels[d] \in Seq(Labels)
      /\ list[d] \in Seq(Mine(o)) /\ codes[d] # <<>>
  BY DEF TypesOK, UiTypeOK, ReadCode
<1>2. Lookup(list[d], Head(codes[d])) \in Labels
  BY <1>1, LookupType
<1>3. /\ Append(labels[d], Lookup(list[d], Head(codes[d]))) \in Seq(Labels)
      /\ Tail(codes[d]) \in Seq(Users)
  BY <1>1, <1>2
<1>. QED  BY <1>3 DEF ReadCode, Set, storeVars, TypesOK, StoreTypeOK, UiTypeOK

LEMMA DeliverHomeKeeps ==
    ASSUME NEW Data, TypesOK(Data), NEW d \in Devices, DeliverHome(d)
    PROVE  TypesOK(Data)'
<1>1. results[d] \in Seq(Answers(Data, Ctx)) /\ list[d] \in Seq(Data)
  BY DEF TypesOK, StoreTypeOK, UiTypeOK
<1>2. results[d] # <<>>
  BY DEF DeliverHome
<1>3. Head(results[d]) \in Answers(Data, Ctx)
      /\ Tail(results[d]) \in Seq(Answers(Data, Ctx))
  BY <1>1, <1>2
<1>4. list[d] \o Head(results[d]).docs \in Seq(Data)
  BY <1>1, <1>3 DEF Answers
<1>5. StoreTypeOK(Data, Ctx)'
  BY <1>3 DEF TypesOK, StoreTypeOK, DeliverHome
<1>6. UiTypeOK(Data)'
  BY <1>4 DEF TypesOK, UiTypeOK, DeliverHome, Set
<1>. QED  BY <1>5, <1>6 DEF TypesOK

LEMMA LoginReadFailsKeeps ==
    ASSUME NEW Data, TypesOK(Data), NEW d \in Devices, LoginReadFails(d)
    PROVE  TypesOK(Data)'
<1>1. Tail(results[d]) \in Seq(Answers(Data, Ctx))
  BY DEF TypesOK, StoreTypeOK, LoginReadFails
<1>2. alert' \in [Devices -> {"none", "auth", "read"}]
  BY ShowAlertKeeps DEF TypesOK, LoginReadFails
<1>3. StoreTypeOK(Data, Ctx)'
  BY <1>1 DEF TypesOK, StoreTypeOK, LoginReadFails
<1>4. UiTypeOK(Data)'
  BY <1>2 DEF TypesOK, UiTypeOK, LoginReadFails
<1>. QED  BY <1>3, <1>4 DEF TypesOK

LEMMA SdkTypes ==
    ASSUME NEW Data, Absent \notin Data, TypesOK(Data), NEW d \in Devices, Sdk(d)
    PROVE  TypesOK(Data)'
<1>0. StoreTypeOK(Data, Ctx) /\ gets \in [Devices -> Seq(Ctx)]
  BY DEF TypesOK, StoreTypeOK
<1>1. CASE SdkStep(d)
  BY <1>0, <1>1, SdkStepType DEF Sdk, uiVars, TypesOK, UiTypeOK
<1>2. CASE Overtake(d)
  <2>1. gets[d] \in Seq(Ctx) /\ Len(gets[d]) > 1
    BY <1>0, <1>2 DEF Overtake
  <2>2. gets[d][1] \in Ctx /\ gets[d][2] \in Ctx /\ 1 \in DOMAIN gets[d]
        /\ 2 \in DOMAIN gets[d]
    BY <2>1
  <2>3. [gets[d] EXCEPT ![1] = gets[d][2], ![2] = gets[d][1]] \in Seq(Ctx)
    BY <2>1, <2>2
  <2>4. gets' = [gets EXCEPT ![d] = [gets[d] EXCEPT ![1] = gets[d][2],
                                                    ![2] = gets[d][1]]]
    BY <1>0, <1>2 DEF Overtake
  <2>5. gets' \in [Devices -> Seq(Ctx)]
    BY <1>0, <2>3, <2>4
  <2>. QED  BY <1>0, <1>2, <2>5 DEF Overtake, StoreTypeOK, Sdk, uiVars, TypesOK, UiTypeOK
<1>. QED  BY <1>1, <1>2 DEF Sdk

LEMMA SdkKeeps ==
    ASSUME NEW o, TypesOK(Mine(o)), QueuesAreOwn, Placed(server),
           NEW d \in Devices, Sdk(d)
    PROVE  TypesOK(Mine(o))' /\ QueuesAreOwn' /\ Placed(server)' /\ owner' = owner
<1>. DEFINE Data == Mine(o)
<1>0. /\ TypesOK(Data) /\ Absent \notin Data
      /\ queue \in [Devices -> Seq(Mutations(Data))]
      /\ server \in [DocIds -> Data \cup {Absent}]
  BY AbsentNotMine DEF TypesOK, StoreTypeOK
<1>1. UNCHANGED <<account, parked, owner>>
  BY DEF Sdk
<1>. HIDE DEF Data
<1>2. TypesOK(Data)'
  BY <1>0, SdkTypes
<1>4. /\ queue[d] \in Seq(Mutations(Data)) /\ QueueOf(queue[d], account[d])
      /\ queue[d] # <<>> =>
            /\ QueueOf(Tail(queue[d]), account[d])
            /\ OwnMutation(Head(queue[d]), account[d])
            /\ Head(queue[d]).doc \in DocIds
  <2>1. queue[d] \in Seq(Mutations(Data)) /\ QueueOf(queue[d], account[d])
    BY <1>0, <1>1 DEF QueuesAreOwn
  <2>2. ASSUME queue[d] # <<>> PROVE Head(queue[d]) \in Mutations(Data)
    BY <2>1, <2>2
  <2>. QED  BY <2>1, <2>2, QueueOfTail DEF Mutations
<1>5. ASSUME \/ queue' = queue
             \/ queue[d] # <<>> /\ queue' = [queue EXCEPT ![d] = Tail(queue[d])]
      PROVE  QueuesAreOwn'
  <2>1. \A e \in Devices : QueueOf(queue'[e], account[e])
    BY <1>0, <1>1, <1>4, <1>5 DEF QueuesAreOwn
  <2>. QED  BY <1>1, <2>1 DEF QueuesAreOwn
<1>6. QueuesAreOwn' /\ Placed(server)'
  <2>1. CASE Acknowledge(d)
    <3>1. /\ queue[d] # <<>> /\ queue' = [queue EXCEPT ![d] = Tail(queue[d])]
          /\ server' = [server EXCEPT ![Head(queue[d]).doc] = Head(queue[d]).val]
      BY <2>1 DEF Acknowledge, Apply
    <3>2. Placed(server)'
      BY <1>0, <1>1, <1>4, <3>1 DEF Placed, OwnMutation
    <3>. QED  BY <1>5, <3>1, <3>2
  <2>2. CASE Reject(d)
    BY <1>1, <1>5, <2>2 DEF Reject, Apply, Placed
  <2>3. CASE CommitUnacknowledged(d)
    <3>1. PICK k \in 1 .. Len(queue[d]) :
              server' = Overlay(server, SubSeq(queue[d], 1, k))
      BY <2>3 DEF CommitUnacknowledged
    <3>. DEFINE p == SubSeq(queue[d], 1, k)
    <3>2. \A i \in DOMAIN p : i \in DOMAIN queue[d] /\ p[i] = queue[d][i]
      BY <1>4
    <3>3. QueueOf(p, account[d])
      BY <1>4, <3>2 DEF QueueOf
    <3>. HIDE DEF p
    <3>4. ASSUME NEW id \in DocIds, Overlay(server, p)[id] # Absent
          PROVE  Overlay(server, p)[id].taskId = id
      BY <1>1, <3>3, <3>4, OverlayOrigin DEF Placed, QueueOf, OwnMutation
    <3>5. Placed(server)'
      BY <3>1, <3>4 DEF Placed, p
    <3>. QED  BY <1>5, <2>3, <3>5 DEF CommitUnacknowledged
  <2>4. CASE Watch(d) \/ Answer(d) \/ Overtake(d)
    <3>1. server' = server
      BY <2>4 DEF Watch, Answer, AnswerFromServer, AnswerFromCache, AnswerWithError, Overtake
    <3>2. queue' = queue
      BY <1>0, <2>4 DEF Watch, Apply, Answer, AnswerFromServer, AnswerFromCache,
                        AnswerWithError, Overtake
    <3>. QED  BY <1>1, <1>5, <3>1, <3>2 DEF Placed
  <2>. QED  BY <2>1, <2>2, <2>3, <2>4 DEF Sdk, SdkStep
<1>. QED  BY <1>1, <1>2, <1>6 DEF Data

-----------------------------------------------------------------------------
(* Steps that write a record *)

(* addUserInfo writes a blank record of the user, under an id given out to *)
(* that user.                                                              *)
LEMMA RegisterKeeps ==
    ASSUME NEW o, owner = o, TypesOK(Mine(o)), QueuesAreOwn, NEW d \in Devices,
           NEW us \in Seq(Mine(o)), Register(d, us), UNCHANGED <<account, parked>>
    PROVE  \E p : /\ owner' = p /\ Mine(o) \subseteq Mine(p)
                  /\ p \in [DocIds -> Account \cup {Absent}]
                  /\ queue' \in [Devices -> Seq(Mutations(Mine(p)))]
                  /\ list' \in [Devices -> Seq(Mine(p))]
                  /\ QueuesAreOwn'
<1>0. /\ o \in [DocIds -> Account \cup {Absent}] /\ account[d] \in Account
  BY DEF TypesOK, UiTypeOK
<1>1. PICK id \in DocIds :
          /\ o[id] = Absent
          /\ Write(d, id, [taskId |-> id, user |-> account[d], name |-> Blank])
          /\ list' = Set(list, d, Append(us, [taskId |-> id, user |-> account[d],
                                              name |-> Blank]))
          /\ owner' = [o EXCEPT ![id] = account[d]]
  BY DEF Register
<1>. DEFINE r == [taskId |-> id, user |-> account[d], name |-> Blank]
            p == [o EXCEPT ![id] = account[d]]
<1>2. Mine(o) \subseteq Mine(p) /\ r \in Mine(p)
  BY <1>0, <1>1, MineGrows
<1>3. p \in [DocIds -> Account \cup {Absent}]
  BY <1>0
<1>4. TypesOK(Mine(p))
  BY <1>2, TypesMonotone
<1>5. r.taskId = id /\ r.user = account[d] /\ r # Absent
  BY <1>2, AbsentNotMine
<1>6. Write(d, id, r) /\ list' = Set(list, d, Append(us, r)) /\ owner' = p
  BY <1>1
<1>. HIDE DEF r, p
<1>7. queue' \in [Devices -> Seq(Mutations(Mine(p)))]
  BY <1>2, <1>4, <1>6, WriteType DEF TypesOK
<1>8. Append(us, r) \in Seq(Mine(p))
  BY <1>2
<1>9. list' \in [Devices -> Seq(Mine(p))]
  BY <1>4, <1>6, <1>8 DEF Set, TypesOK, UiTypeOK
<1>10. QueuesAreOwn'
  BY <1>4, <1>5, <1>6, OwnWrite
<1>. QED  BY <1>2, <1>3, <1>6, <1>7, <1>9, <1>10

(* The dismissed screen's callbacks are told from those of the next one.   *)
LEMMA DismissLoginKeeps ==
    ASSUME NEW Data, TypesOK(Data), NEW d \in Devices, results[d] # <<>>,
           \/ DismissLogin(d)
           \/ /\ results' = Set(results, d, Tail(results[d]))
              /\ UNCHANGED <<screen, alert, gets, signing>>
    PROVE  /\ screen'  \in [Devices -> {"login", "home", "edit", "camera"}]
           /\ alert'   \in [Devices -> {"none", "auth", "read"}]
           /\ results' \in [Devices -> Seq(Answers(Data, Ctx))]
           /\ gets'    \in [Devices -> Seq(Ctx)]
           /\ signing' \in [Devices -> Seq([user : Users, ctx : {"login", "gone"}])]
<1>. DEFINE A == Answers(Data, Ctx)
            S == [user : Users, ctx : {"login", "gone"}]
            rest == Tail(results[d])
<1>0. /\ results \in [Devices -> Seq(A)] /\ gets \in [Devices -> Seq(Ctx)]
      /\ signing \in [Devices -> Seq(S)] /\ gets[d] \in Seq(Ctx)
      /\ signing[d] \in Seq(S)
      /\ screen \in [Devices -> {"login", "home", "edit", "camera"}]
      /\ alert \in [Devices -> {"none", "auth", "read"}]
  BY DEF TypesOK, StoreTypeOK, UiTypeOK
<1>1. rest \in Seq(A)
  <2>. HIDE DEF A
  <2>1. results[d] \in Seq(A)
    BY <1>0
  <2>. QED  BY <2>1
<1>2. \A c \in Ctx : GoneCtx(c) \in Ctx
  BY DEF GoneCtx, Ctx
<1>3. \A c \in {"login", "gone"} : GoneCtx(c) \in {"login", "gone"}
  BY DEF GoneCtx
<1>4. ASSUME NEW a \in A PROVE Gone(a) \in A
  <2>1. a.ctx \in Ctx /\ a.ok \in BOOLEAN /\ a.docs \in Seq(Data)
        /\ a = [ctx |-> a.ctx, ok |-> a.ok, docs |-> a.docs]
    BY DEF Answers
  <2>2. Gone(a) = [ctx |-> GoneCtx(a.ctx), ok |-> a.ok, docs |-> a.docs]
    BY <2>1 DEF Gone
  <2>. QED  BY <1>2, <2>1, <2>2 DEF Answers
<1>5. ASSUME NEW a \in S PROVE Gone(a) \in S
  <2>1. a.ctx \in {"login", "gone"} /\ a.user \in Users
        /\ a = [user |-> a.user, ctx |-> a.ctx]
    OBVIOUS
  <2>2. Gone(a) = [user |-> a.user, ctx |-> GoneCtx(a.ctx)]
    BY <2>1 DEF Gone
  <2>. QED  BY <1>3, <2>1, <2>2
<1>. HIDE DEF A, S, rest
<1>6. [i \in DOMAIN rest |-> Gone(rest[i])] \in Seq(A)
  <2>1. \A i \in DOMAIN rest : Gone(rest[i]) \in A
    BY <1>1, <1>4
  <2>2. DOMAIN rest = 1 .. Len(rest) /\ Len(rest) \in Nat
    BY <1>1
  <2>. QED  BY <2>1, <2>2
<1>7. [i \in DOMAIN gets[d] |-> GoneCtx(gets[d][i])] \in Seq(Ctx)
  <2>1. \A i \in DOMAIN gets[d] : GoneCtx(gets[d][i]) \in Ctx
    BY <1>0, <1>2
  <2>2. DOMAIN gets[d] = 1 .. Len(gets[d]) /\ Len(gets[d]) \in Nat
    BY <1>0
  <2>. QED  BY <2>1, <2>2
<1>8. [i \in DOMAIN signing[d] |-> Gone(signing[d][i])] \in Seq(S)
  <2>1. \A i \in DOMAIN signing[d] : Gone(signing[d][i]) \in S
    BY <1>0, <1>5
  <2>2. DOMAIN signing[d] = 1 .. Len(signing[d]) /\ Len(signing[d]) \in Nat
    BY <1>0
  <2>. QED  BY <2>1, <2>2
<1>9. CASE /\ results' = Set(results, d, Tail(results[d]))
           /\ UNCHANGED <<screen, gets, signing>>
           /\ alert' = alert \/ alert' = Set(alert, d, "none")
  <2>1. results' = [results EXCEPT ![d] = rest]
    BY <1>9 DEF rest, Set
  <2>. QED  BY <1>0, <1>1, <1>9, <2>1 DEF Set, A, S
<1>10. CASE alert[d] = "none" /\ DismissLogin(d)
  <2>1. /\ results' = [results EXCEPT ![d] = [i \in DOMAIN rest |-> Gone(rest[i])]]
        /\ screen' = [screen EXCEPT ![d] = "home"] /\ alert' = alert
        /\ gets' = [gets EXCEPT ![d] = [i \in DOMAIN gets[d] |-> GoneCtx(gets[d][i])]]
        /\ signing' = [signing EXCEPT ![d] =
               [i \in DOMAIN signing[d] |-> Gone(signing[d][i])]]
    BY <1>10 DEF DismissLogin, Set, rest
  <2>2. screen' \in [Devices -> {"login", "home", "edit", "camera"}]
    BY <1>0, <2>1
  <2>3. results' \in [Devices -> Seq(A)]
    BY <1>0, <1>6, <2>1
  <2>4. gets' \in [Devices -> Seq(Ctx)] /\ signing' \in [Devices -> Seq(S)]
    BY <1>0, <1>7, <1>8, <2>1
  <2>. QED  BY <1>0, <2>1, <2>2, <2>3, <2>4 DEF A, S
<1>. QED  BY <1>9, <1>10 DEF DismissLogin

LEMMA LoginReadSucceedsKeeps ==
    ASSUME NEW o, owner = o, TypesOK(Mine(o)), QueuesAreOwn, NEW d \in Devices,
           LoginReadSucceeds(d)
    PROVE  \E p : owner' = p /\ TypesOK(Mine(p))' /\ QueuesAreOwn'
<1>0. results[d] # <<>> /\ results[d] \in Seq(Answers(Mine(o), Ctx))
      /\ list[d] \in Seq(Mine(o)) /\ list \in [Devices -> Seq(Mine(o))]
  BY DEF TypesOK, StoreTypeOK, UiTypeOK, LoginReadSucceeds
<1>1. Head(results[d]).docs \in Seq(Mine(o))
  <2>1. Head(results[d]) \in Answers(Mine(o), Ctx)
    BY <1>0
  <2>. QED  BY <2>1 DEF Answers
<1>2. PICK docs \in Orders(Head(results[d]).docs) :
          \/ list' = Set(list, d, list[d] \o docs) /\ UNCHANGED <<queue, owner>>
          \/ Register(d, list[d] \o docs)
  BY DEF LoginReadSucceeds
<1>3. list[d] \o docs \in Seq(Mine(o))
  BY <1>0, <1>1, OrdersType
<1>4. \E p : /\ owner' = p /\ Mine(o) \subseteq Mine(p)
             /\ p \in [DocIds -> Account \cup {Absent}]
             /\ queue' \in [Devices -> Seq(Mutations(Mine(p)))]
             /\ list' \in [Devices -> Seq(Mine(p))]
             /\ QueuesAreOwn'
  <2>1. CASE list' = Set(list, d, list[d] \o docs) /\ UNCHANGED <<queue, owner>>
    <3>1. list' \in [Devices -> Seq(Mine(o))]
      BY <1>0, <1>3, <2>1 DEF Set
    <3>2. QueuesAreOwn'
      BY <2>1 DEF LoginReadSucceeds, QueuesAreOwn
    <3>3. owner' = o /\ o \in [DocIds -> Account \cup {Absent}]
          /\ queue' \in [Devices -> Seq(Mutations(Mine(o)))]
      BY <2>1 DEF TypesOK, StoreTypeOK, UiTypeOK
    <3>. QED  BY <3>1, <3>2, <3>3
  <2>2. CASE Register(d, list[d] \o docs)
    BY <1>3, <2>2, RegisterKeeps DEF LoginReadSucceeds
  <2>. QED  BY <1>2, <2>1, <2>2
<1>5. PICK p : /\ owner' = p /\ Mine(o) \subseteq Mine(p)
               /\ p \in [DocIds -> Account \cup {Absent}]
               /\ queue' \in [Devices -> Seq(Mutations(Mine(p)))]
               /\ list' \in [Devices -> Seq(Mine(p))]
               /\ QueuesAreOwn'
  BY <1>4
<1>6. TypesOK(Mine(p))
  BY <1>5, TypesMonotone
<1>7. /\ screen'  \in [Devices -> {"login", "home", "edit", "camera"}]
      /\ alert'   \in [Devices -> {"none", "auth", "read"}]
      /\ results' \in [Devices -> Seq(Answers(Mine(p), Ctx))]
      /\ gets'    \in [Devices -> Seq(Ctx)]
      /\ signing' \in [Devices -> Seq([user : Users, ctx : {"login", "gone"}])]
  BY <1>0, <1>6, DismissLoginKeeps DEF LoginReadSucceeds
<1>8. StoreTypeOK(Mine(p), Ctx)'
  BY <1>5, <1>6, <1>7 DEF TypesOK, StoreTypeOK, LoginReadSucceeds
<1>9. UiTypeOK(Mine(p))'
  BY <1>5, <1>6, <1>7 DEF TypesOK, UiTypeOK, LoginReadSucceeds
<1>. QED  BY <1>5, <1>8, <1>9 DEF TypesOK

LEMMA SaveNameKeeps ==
    ASSUME NEW o, TypesOK(Mine(o)), QueuesAreOwn, NEW d \in Devices, SaveName(d)
    PROVE  TypesOK(Mine(o))' /\ QueuesAreOwn' /\ UNCHANGED <<server, owner>>
<1>. DEFINE u  == account[d]
            us == Named(list[d], u)
            k  == LastPosition(us, u)
<1>0. u \in Account /\ list[d] \in Seq(Mine(o)) /\ list \in [Devices -> Seq(Mine(o))]
  BY DEF TypesOK, UiTypeOK
<1>1. us \in Seq(Mine(o))
  BY <1>0, NamedType
<1>2. CASE EndProcess(d)
  BY <1>2, EndProcessKeeps DEF EndProcess, QueuesAreOwn
<1>3. CASE Positions(us, u) # {} /\ ~EndProcess(d)
  <2>1. k \in DOMAIN us /\ us[k].user = u
    BY <1>1, <1>3, PositionsFound DEF Positions
  <2>2. CurrentPosition(us, u) = k
    BY <1>3 DEF CurrentPosition
  <2>3. /\ list' = Set(list, d, us) /\ Write(d, us[k].taskId, us[k])
        /\ screen' = Set(screen, d, "home")
        /\ UNCHANGED <<server, cache, watched, dirty, gets, results, running,
                       alert, signing, codes, labels, account, parked, owner>>
    BY <1>3, <2>2 DEF SaveName
  <2>. HIDE DEF us, u, k
  <2>4. us[k] \in Mine(o)
    BY <1>1, <2>1
  <2>5. us[k].taskId \in DocIds /\ us[k] # Absent
    BY <2>4, MineFacts
  <2>6. queue' \in [Devices -> Seq(Mutations(Mine(o)))]
    BY <2>3, <2>4, <2>5, WriteType DEF TypesOK
  <2>7. list' \in [Devices -> Seq(Mine(o))]
    BY <1>0, <1>1, <2>3 DEF Set
  <2>8. QueuesAreOwn'
    BY <2>1, <2>3, <2>5, OwnWrite DEF u
  <2>9. StoreTypeOK(Mine(o), Ctx)'
    BY <2>3, <2>6 DEF TypesOK, StoreTypeOK
  <2>10. UiTypeOK(Mine(o))'
    BY <2>3, <2>7 DEF TypesOK, UiTypeOK, Set
  <2>. QED  BY <2>3, <2>8, <2>9, <2>10 DEF TypesOK
<1>. QED  BY <1>2, <1>3 DEF SaveName

-----------------------------------------------------------------------------
(* The invariant *)

LEMMA AccountInit == Init => AccountInv
<1>. SUFFICES ASSUME Init PROVE AccountInv
  OBVIOUS
<1>. DEFINE Data == Mine(owner)
<1>1. /\ <<>> \in Seq(Data) /\ <<>> \in Seq(Mutations(Data))
      /\ <<>> \in Seq(Answers(Data, Ctx)) /\ <<"home">> \in Seq(Ctx)
      /\ <<>> \in Seq([user : Users, ctx : {"login", "gone"}])
      /\ <<>> \in Seq(Users) /\ <<>> \in Seq(Labels) /\ Nobody \in Account
  BY DEF Ctx, Account
<1>. HIDE DEF Data
<1>2. StoreTypeOK(Data, Ctx)
  BY <1>1 DEF Init, StoreTypeOK
<1>3. UiTypeOK(Data)
  BY <1>1 DEF Init, UiTypeOK
<1>4. QueuesAreOwn /\ Placed(server)
  BY DEF Init, QueuesAreOwn, QueueOf, Placed
<1>. QED  BY <1>2, <1>3, <1>4 DEF AccountInv, TypesOK, Data

LEMMA AccountNext == AccountInv /\ [Next]_vars => AccountInv'
<1>. SUFFICES ASSUME AccountInv, [Next]_vars PROVE AccountInv'
  OBVIOUS
<1>1. PICK o : owner = o
  OBVIOUS
<1>2. TypesOK(Mine(o)) /\ QueuesAreOwn /\ Placed(server)
  BY <1>1 DEF AccountInv
<1>3. ASSUME NEW p, owner' = p, TypesOK(Mine(p))', QueuesAreOwn', Placed(server)'
      PROVE  AccountInv'
  BY <1>3 DEF AccountInv
<1>4. ASSUME TypesOK(Mine(o))', UNCHANGED <<server, queue, account, parked, owner>>
      PROVE  AccountInv'
  BY <1>1, <1>2, <1>3, <1>4, KeepsQueues
<1>5. CASE UNCHANGED vars
  <2>1. TypesOK(Mine(o))'
    BY <1>2, <1>5 DEF vars, storeVars, uiVars, TypesOK, StoreTypeOK, UiTypeOK
  <2>. QED  BY <1>4, <1>5, <2>1 DEF vars, storeVars
<1>6. ASSUME NEW d \in Devices, Sdk(d) PROVE AccountInv'
  BY <1>1, <1>2, <1>3, <1>6, SdkKeeps
<1>7. ASSUME NEW d \in Devices, Launch(d) \/ Kill(d) PROVE AccountInv'
  BY <1>2, <1>4, <1>7, LaunchKeeps, EndProcessKeeps DEF Launch, Kill, EndProcess
<1>8. ASSUME NEW d \in Devices,
             \/ \E u \in Users : TapSignIn(d, u)
             \/ Auth(d) \/ DismissAlert(d) \/ Logout(d)
      PROVE  AccountInv'
  <2>1. TypesOK(Mine(o))' /\ QueuesAreOwn'
    BY <1>2, <1>8, SignInsKeep
  <2>2. server' = server /\ owner' = owner
    BY <1>8 DEF Auth, TapSignIn, SignInFails, SignInSucceeds, DismissAlert, Logout, storeVars
  <2>. QED  BY <1>1, <1>2, <1>3, <2>1, <2>2 DEF Placed
<1>9. ASSUME NEW d \in Devices, Callback(d) PROVE AccountInv'
  <2>1. CASE DeliverHome(d)
    BY <1>2, <1>4, <2>1, DeliverHomeKeeps DEF DeliverHome
  <2>2. CASE LoginReadFails(d)
    BY <1>2, <1>4, <2>2, LoginReadFailsKeeps DEF LoginReadFails
  <2>3. CASE LoginReadSucceeds(d)
    <3>1. \E p : owner' = p /\ TypesOK(Mine(p))' /\ QueuesAreOwn'
      BY <1>1, <1>2, <2>3, LoginReadSucceedsKeeps
    <3>2. Placed(server)'
      BY <1>2, <2>3 DEF LoginReadSucceeds, Placed
    <3>. QED  BY <1>3, <3>1, <3>2
  <2>4. CASE ReadCode(d)
    BY <1>2, <1>4, <2>4, ReadCodeKeeps DEF ReadCode, storeVars
  <2>. QED  BY <1>9, <2>1, <2>2, <2>3, <2>4 DEF Callback
<1>10. ASSUME NEW d \in Devices, SaveName(d) PROVE AccountInv'
  BY <1>1, <1>2, <1>3, <1>10, SaveNameKeeps DEF Placed
<1>11. ASSUME NEW d \in Devices,
              \/ OpenEdit(d) \/ LeaveEdit(d) \/ OpenCamera(d) \/ CloseCamera(d)
              \/ \E u \in Users : Detect(d, u)
       PROVE  AccountInv'
  BY <1>2, <1>4, <1>11, ScreensKeep
<1>12. ASSUME NEW d \in Devices, UserStep(d) PROVE AccountInv'
  BY <1>8, <1>10, <1>11, <1>12 DEF UserStep
<1>. QED  BY <1>5, <1>6, <1>7, <1>8, <1>9, <1>12 DEF Next

(* The invariant of the accounts holds in every state.                     *)
THEOREM AccountAlways == Spec => []AccountInv
<1>. QED  BY AccountInit, AccountNext, PTL DEF Spec

(* The type invariant.                                                     *)
THEOREM AccountTypeCorrect == Spec => []TypeOK
<1>1. AccountInv => TypeOK
  <2>. SUFFICES ASSUME AccountInv PROVE TypeOK
    OBVIOUS
  <2>1. Mine(owner) \subseteq Record /\ TypesOK(Mine(owner))
    BY DEF Mine, AccountInv
  <2>2. TypesOK(Record)
    BY <2>1, TypesMonotone
  <2>. QED  BY <2>2 DEF TypeOK, TypesOK
<1>. QED  BY <1>1, AccountAlways, PTL

(* Whatever order the reads of a device are answered in, and whoever signs *)
(* in and out of it, no record comes to bear a name that another user      *)
(* chose.                                                                  *)
THEOREM NamesStayOwn == Spec => []NamesAreOwn
<1>1. AccountInv => NamesAreOwn
  <2>. SUFFICES ASSUME AccountInv PROVE NamesAreOwn
    OBVIOUS
  <2>. DEFINE Data == Mine(owner)
  <2>1. \A val \in Data \cup {Absent} : OwnName(val)
    BY DEF Mine, OwnName
  <2>2. TypesOK(Data)
    BY DEF AccountInv
  <2>. HIDE DEF Data
  <2>3. \A id \in DocIds : OwnName(server[id])
    BY <2>1, <2>2 DEF TypesOK, StoreTypeOK
  <2>4. \A d \in Devices, id \in DocIds : OwnName(cache[d][id])
    BY <2>1, <2>2 DEF TypesOK, StoreTypeOK
  <2>5. ASSUME NEW q \in Seq(Mutations(Data)), NEW i \in DOMAIN q PROVE OwnName(q[i].val)
    <3>1. q[i] \in Mutations(Data)
      OBVIOUS
    <3>. QED  BY <2>1, <3>1 DEF Mutations
  <2>6. ASSUME NEW d \in Devices
        PROVE  /\ queue[d] \in Seq(Mutations(Data)) /\ list[d] \in Seq(Data)
               /\ \A u \in Account : parked[d][u] \in Seq(Mutations(Data))
    BY <2>2 DEF TypesOK, StoreTypeOK, UiTypeOK
  <2>7. ASSUME NEW d \in Devices, NEW i \in DOMAIN list[d] PROVE OwnName(list[d][i])
    BY <2>1, <2>6
  <2>. QED  BY <2>3, <2>4, <2>5, <2>6, <2>7 DEF NamesAreOwn
<1>. QED  BY <1>1, AccountAlways, PTL

(* What is uploaded are the signed-in user's own records: those of a user  *)
(* who signed out before they were sent wait for that user.                *)
THEOREM QueueStaysOwn == Spec => []OwnQueue
<1>1. AccountInv => OwnQueue
  BY DEF AccountInv, QueuesAreOwn, QueueOf, OwnMutation, OwnQueue
<1>. QED  BY <1>1, AccountAlways, PTL

-----------------------------------------------------------------------------
(* Documents keep their owner *)

(* An id given out stays given out to the same user.                       *)
LEMMA OwnerStays ==
    ASSUME [Next]_vars, NEW id \in DocIds, owner[id] # Absent
    PROVE  owner'[id] = owner[id]
<1>1. CASE owner' = owner
  BY <1>1
<1>2. ASSUME NEW d \in Devices, NEW us, Register(d, us) PROVE owner'[id] = owner[id]
  <2>1. PICK i \in DocIds : owner[i] = Absent /\ owner' = [owner EXCEPT ![i] = account[d]]
    BY <1>2 DEF Register
  <2>. QED  BY <2>1
<1>3. ASSUME NEW d \in Devices, LoginReadSucceeds(d) PROVE owner'[id] = owner[id]
  BY <1>1, <1>2, <1>3 DEF LoginReadSucceeds
<1>4. ASSUME NEW d \in Devices, Next, ~LoginReadSucceeds(d),
             \/ Sdk(d) \/ Auth(d) \/ Callback(d) \/ UserStep(d) \/ Launch(d) \/ Kill(d)
      PROVE  owner' = owner
  <2>1. CASE Sdk(d) \/ Launch(d) \/ Kill(d)
    BY <2>1 DEF Sdk, Launch, Kill, EndProcess
  <2>2. CASE Auth(d) \/ Callback(d)
    BY <1>4, <2>2 DEF Auth, SignInFails, SignInSucceeds, Callback, DeliverHome,
                      LoginReadFails, ReadCode
  <2>3. CASE UserStep(d)
    BY <2>3 DEF UserStep, TapSignIn, Detect, DismissAlert, Logout, OpenEdit, LeaveEdit,
                SaveName, EndProcess, OpenCamera, CloseCamera, GoTo
  <2>. QED  BY <1>4, <2>1, <2>2, <2>3
<1>. QED  BY <1>1, <1>3, <1>4 DEF Next, vars

(* No step takes a document away: deletions are never queued.              *)
LEMMA DocumentsStay ==
    ASSUME AccountInv, [Next]_vars, NEW id \in DocIds, server[id] # Absent
    PROVE  server'[id] # Absent
<1>1. CASE server' = server
  BY <1>1
<1>2. ASSUME NEW d \in Devices, Sdk(d) PROVE server'[id] # Absent
  <2>1. /\ queue[d] \in Seq(Mutations(Mine(owner))) /\ QueueOf(queue[d], account[d])
        /\ server \in [DocIds -> Mine(owner) \cup {Absent}]
    BY DEF AccountInv, TypesOK, StoreTypeOK, QueuesAreOwn
  <2>2. CASE Acknowledge(d)
    <3>1. /\ queue[d] # <<>>
          /\ server' = [server EXCEPT ![Head(queue[d]).doc] = Head(queue[d]).val]
      BY <2>2 DEF Acknowledge
    <3>2. Head(queue[d]).val # Absent
      BY <2>1, <3>1, QueueOfTail DEF OwnMutation
    <3>. QED  BY <2>1, <3>1, <3>2
  <2>3. CASE CommitUnacknowledged(d)
    <3>1. PICK k \in 1 .. Len(queue[d]) :
              server' = Overlay(server, SubSeq(queue[d], 1, k))
      BY <2>3 DEF CommitUnacknowledged
    <3>. DEFINE p == SubSeq(queue[d], 1, k)
    <3>2. \A i \in DOMAIN p : i \in DOMAIN queue[d] /\ p[i] = queue[d][i]
      BY <2>1
    <3>3. QueueOf(p, account[d])
      BY <2>1, <3>2 DEF QueueOf
    <3>. HIDE DEF p
    <3>4. Overlay(server, p)[id] # Absent
      BY <3>3, OverlayOrigin DEF QueueOf, OwnMutation
    <3>. QED  BY <3>1, <3>4 DEF p
  <2>4. CASE Reject(d) \/ Watch(d) \/ Answer(d) \/ Overtake(d)
    BY <1>1, <2>4 DEF Reject, Watch, Answer, AnswerFromServer, AnswerFromCache,
                      AnswerWithError, Overtake
  <2>. QED  BY <1>2, <2>2, <2>3, <2>4 DEF Sdk, SdkStep
<1>3. ASSUME NEW d \in Devices,
             Auth(d) \/ Callback(d) \/ UserStep(d) \/ Launch(d) \/ Kill(d)
      PROVE  server' = server
  <2>1. CASE Auth(d) \/ Callback(d) \/ Launch(d) \/ Kill(d)
    BY <2>1 DEF Auth, SignInFails, SignInSucceeds, Callback, DeliverHome, storeVars,
                LoginReadFails, LoginReadSucceeds, ReadCode, Launch, Kill, EndProcess
  <2>2. CASE UserStep(d)
    BY <2>2 DEF UserStep, TapSignIn, Detect, DismissAlert, Logout, OpenEdit, LeaveEdit,
                SaveName, EndProcess, OpenCamera, CloseCamera, GoTo, storeVars
  <2>. QED  BY <1>3, <2>1, <2>2
<1>. QED  BY <1>1, <1>2, <1>3 DEF Next, vars, storeVars

(* No document of a user's record ever passes to another user, nor         *)
(* disappears, however many records of one user a list holds.              *)
THEOREM DocumentsKeepOwner == Spec => RecordsKeepOwner
<1>1. ASSUME AccountInv, AccountInv', [Next]_vars, NEW id \in DocIds, server[id] # Absent
      PROVE  server'[id] # Absent /\ server'[id].user = server[id].user
  <2>1. server'[id] # Absent
    BY <1>1, DocumentsStay
  <2>2. /\ server[id] \in Mine(owner) /\ server[id].taskId = id
    BY <1>1 DEF AccountInv, TypesOK, StoreTypeOK, Placed
  <2>3. /\ server'[id] \in Mine(owner') /\ server'[id].taskId = id
    BY <1>1, <2>1 DEF AccountInv, TypesOK, StoreTypeOK, Placed
  <2>4. /\ server[id].user = owner[id] /\ server'[id].user = owner'[id]
        /\ owner[id] # Absent
    BY <2>2, <2>3, MineFacts, AbsentRecordAssumption
  <2>. QED  BY <1>1, <2>1, <2>4, OwnerStays
<1>2. AccountInv /\ AccountInv' /\ [Next]_vars =>
          [\A id \in DocIds : server[id] # Absent =>
              server'[id] # Absent /\ server'[id].user = server[id].user]_vars
  BY <1>1
<1>. QED  BY <1>2, AccountAlways, PTL DEF Spec, RecordsKeepOwner
=============================================================================
