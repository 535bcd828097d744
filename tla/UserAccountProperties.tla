------------------------ MODULE UserAccountProperties ------------------------
(***************************************************************************)
(* What the accounts promise, and what they only seem to promise.          *)
(***************************************************************************)
EXTENDS UserAccount

UiTypeOK(Data) ==
    /\ running \in [Devices -> BOOLEAN]
    /\ account \in [Devices -> Account]
    /\ parked  \in [Devices -> [Account -> Seq(Mutations(Data))]]
    /\ screen  \in [Devices -> {"login", "home", "edit", "camera"}]
    /\ alert   \in [Devices -> {"none", "auth", "read"}]
    /\ signing \in [Devices -> Seq([user : Users, ctx : {"login", "gone"}])]
    /\ list    \in [Devices -> Seq(Data)]
    /\ codes   \in [Devices -> Seq(Users)]
    /\ labels  \in [Devices -> Seq(Labels)]
    /\ owner   \in [DocIds -> Account \cup {Absent}]

(* The type invariant.                                                     *)
TypeOK == StoreTypeOK(Record, Ctx) /\ UiTypeOK(Record)

-----------------------------------------------------------------------------
(* Safety *)

(* Whoever signs in and out of a device, in whatever order the reads that  *)
(* fill its list are answered: a record bears the name that its own user   *)
(* chose, or none yet, on the backend, in the cache, in the queue of any   *)
(* user and in any list.                                                   *)
OwnName(val) == val = Absent \/ val.name \in {Blank, val.user}

NamesAreOwn ==
    /\ \A id \in DocIds : OwnName(server[id])
    /\ \A d \in Devices :
          /\ \A id \in DocIds : OwnName(cache[d][id])
          /\ \A i \in DOMAIN queue[d] : OwnName(queue[d][i].val)
          /\ \A u \in Account : \A i \in DOMAIN parked[d][u] :
                OwnName(parked[d][u][i].val)
          /\ \A i \in DOMAIN list[d] : OwnName(list[d][i])

(* A rename finds its record and its document id by two searches of a list *)
(* that holds several records of a user at times: no document ever passes  *)
(* from one user to another, nor disappears.                               *)
RecordsKeepOwner ==
    [][\A id \in DocIds : server[id] # Absent =>
          server'[id] # Absent /\ server'[id].user = server[id].user]_vars

(* The queue that is uploaded is the one of the user signed in: nobody's   *)
(* record is written with another user's credentials.                      *)
OwnQueue ==
    \A d \in Devices :
        /\ \A i \in DOMAIN queue[d] : queue[d][i].val.user = account[d]
        /\ \A u \in Account : \A i \in DOMAIN parked[d][u] :
              parked[d][u][i].val.user = u

-----------------------------------------------------------------------------
(* Liveness *)

(* The SDK works while the process runs, the main queue runs its           *)
(* callbacks, and a process that ended is launched again some day.         *)
Fairness ==
    \A d \in Devices :
        /\ SF_vars(Sdk(d) /\ Acknowledge(d))
        /\ WF_vars(DeliverHome(d) \/ LoginReadFails(d) \/ LoginReadSucceeds(d))
        /\ WF_vars(Launch(d))

FairSpec == Spec /\ Fairness

HasRecord(us, u) == Positions(us, u) # {}

Registered(u) == \E id \in DocIds : server[id] # Absent /\ server[id].user = u

LoginAnswered(d) == \E i \in DOMAIN results[d] :
                        results[d][i].ctx # "home" /\ results[d][i].ok

(* The user for whom a login's read was answered, or who is on the list,   *)
(* comes to have a record on the backend, unless it signs out, or the      *)
(* process ends before there is anything to send: through later kills, and *)
(* whatever queues of other users the device has put aside.  (Nor can a    *)
(* record be made when the bounded supply of ids is used up.)              *)
NothingToSend(d) ==
    /\ queue[d] = <<>>
    /\ ~running[d] \/ \A id \in DocIds : owner[id] # Absent

SignedInUsersAreRegistered ==
    \A d \in Devices, u \in Users :
        (account[d] = u /\ (HasRecord(list[d], u) \/ LoginAnswered(d)))
            ~> (account[d] # u \/ Registered(u) \/ NothingToSend(d))

-----------------------------------------------------------------------------
(* What the comments say, and the code does not do *)

(* "Check new or existing user", "the user is registered": a user who has  *)
(* a record on the backend does not come to have another.                  *)
OneRecordPerUser ==
    \A i, j \in DocIds :
        (server[i] # Absent /\ server[j] # Absent /\ server[i].user = server[j].user)
            => i = j
=============================================================================
