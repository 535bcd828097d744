---------------------------- MODULE WriteDelivery ----------------------------
(***************************************************************************)
(* What the Firestore client promises of the writes of an application,     *)
(* without any stream: a queue of every user, of which the backend applies *)
(* one write after the other, at least once, and which starts again from   *)
(* its first write when the backend may have lost count.                   *)
(*                                                                         *)
(* Firestore.tla uses this abstraction, for documents instead of writes:   *)
(* its Acknowledge is Apply and Accept at the head of the queue, and       *)
(* its CommitUnacknowledged is some Apply and then a Rewind.               *)
(***************************************************************************)
EXTENDS Integers, Sequences

CONSTANTS
    Users,      \* the users that sign in
    Nothing     \* "no write has been applied"

VARIABLES
    pending,    \* per user: the writes not yet answered, oldest first
    current,    \* the user whose writes are delivered
    cursor,     \* how many of them have been applied in this attempt
    applied,    \* the writes applied so far
    content,    \* the write applied last
    accepted,   \* the writes reported as done to the application
    rejected    \* the writes reported as refused

vars == <<pending, current, cursor, applied, content, accepted, rejected>>

Init ==
    /\ pending  = [u \in Users |-> <<>>]
    /\ current  \in Users
    /\ cursor   = 0
    /\ applied  = {}
    /\ content  = Nothing
    /\ accepted = {}
    /\ rejected = {}

(* The application writes, as the current user: one write, whichever, is   *)
(* added at the end of the queue.                                          *)
Enqueue ==
    /\ pending'[current] # <<>>
    /\ pending' = [pending EXCEPT
                     ![current] = Append(@, pending'[current][Len(pending'[current])])]
    /\ UNCHANGED <<current, cursor, applied, content, accepted, rejected>>

(* The backend applies the next write.                                     *)
Apply ==
    /\ cursor < Len(pending[current])
    /\ cursor'  = cursor + 1
    /\ content' = pending[current][cursor + 1]
    /\ applied' = applied \cup {pending[current][cursor + 1]}
    /\ UNCHANGED <<pending, current, accepted, rejected>>

(* The client learns that the first write was applied.                     *)
Accept ==
    /\ cursor > 0
    /\ cursor'   = cursor - 1
    /\ accepted' = accepted \cup {Head(pending[current])}
    /\ pending'  = [pending EXCEPT ![current] = Tail(@)]
    /\ UNCHANGED <<current, applied, content, rejected>>

(* The client is told of a refusal, and takes it for the first write's.    *)
Reject ==
    /\ pending[current] # <<>>
    /\ cursor'   = 0
    /\ rejected' = rejected \cup {Head(pending[current])}
    /\ pending'  = [pending EXCEPT ![current] = Tail(@)]
    /\ UNCHANGED <<current, applied, content, accepted>>

(* The stream breaks, or another user's writes are taken up.               *)
Rewind(u) ==
    /\ current' = u
    /\ cursor'  = 0
    /\ UNCHANGED <<pending, applied, content, accepted, rejected>>

Next == \/ Enqueue \/ Apply \/ Accept \/ Reject
        \/ \E u \in Users : Rewind(u)

Spec == Init /\ [][Next]_vars
=============================================================================
