------------------------------ MODULE MakeGroup ------------------------------
(***************************************************************************)
(* The make-group screen (TaskMakeTableViewController): members are chosen *)
(* by tapping check boxes, a name is typed, and the button saves the group *)
(* unless one of the two is missing.  What saving does to the store is the *)
(* action CreateGroup of GroupTalk; here it only ends the screen.          *)
(***************************************************************************)
EXTENDS Integers, Sequences

CONSTANTS
    Candidates,     \* groupMemberCandidate: the names of the table's rows
    MaxGroups       \* bound: groups made in a behaviour

ASSUME MaxGroupsAssumption == MaxGroups \in Nat

VARIABLES
    open,       \* is the screen displayed?
    members,    \* groupCandidate.groupMemberNames
    named,      \* does the name field hold a text?
    alert,      \* the alert that is up, or "none"
    odd,        \* history: the boxes tapped an odd number of times so far
    made        \* history: the groups saved, [named, members] records

vars == <<open, members, named, alert, odd, made>>

MembersOf(ms) == {ms[i] : i \in DOMAIN ms}

(* Mutated: the name is blanked, and stays in the list.                    *)
BlankAt(ms, k) == [ms EXCEPT ![k] = "blank"]

(* The sequence without its element at position k.                         *)
RemoveAt(ms, k) ==
    [i \in 1 .. Len(ms) - 1 |-> IF i < k THEN ms[i] ELSE ms[i + 1]]

(* The positions of c that no earlier one precedes: at most one.           *)
FirstAt(ms, c) ==
    {i \in DOMAIN ms : ms[i] = c /\ \A j \in 1 .. i - 1 : ms[j] # c}

(* Mutated: only the first name of the list is compared.                   *)
ToggleFirst(ms, c) ==
    IF ms # <<>> /\ ms[1] = c THEN RemoveAt(ms, 1) ELSE Append(ms, c)

(* What a tap on candidate c's box makes of the list: the first equal name *)
(* is removed, and a name that is not there is added at the end.           *)
Toggle(ms, c) ==
    IF FirstAt(ms, c) = {} THEN Append(ms, c)
    ELSE RemoveAt(ms, CHOOSE i \in FirstAt(ms, c) : TRUE)

(* checkBoxIconViewTapped's loop, turn by turn: its bound is the count at  *)
(* its start, while the list it runs over changes under it.                *)
ToggleLoop(ms, c) ==
    LET turn[i \in 0 .. Len(ms)] ==
            IF i = 0 THEN [list |-> ms, done |-> FALSE]
            ELSE LET s == turn[i - 1]
                 IN  IF s.done THEN s
                     ELSE IF c = s.list[i]
                     THEN [list |-> RemoveAt(s.list, i), done |-> TRUE]
                     ELSE IF i = Len(s.list)
                     THEN [list |-> Append(s.list, c), done |-> FALSE]
                     ELSE s
    IN  IF ms = <<>> THEN Append(ms, c) ELSE turn[Len(ms)].list

-----------------------------------------------------------------------------
Init == /\ open = FALSE /\ members = <<>> /\ named = FALSE
        /\ alert = "none" /\ odd = {} /\ made = <<>>

(* The + button of Home pushes a new screen, with an empty candidate.      *)
Open == /\ ~open
        /\ open' = TRUE /\ members' = <<>> /\ named' = FALSE /\ odd' = {}
        /\ UNCHANGED <<alert, made>>

Free == open /\ alert = "none"

Leave == Free /\ open' = FALSE /\ UNCHANGED <<members, named, alert, odd, made>>

EditName == /\ Free
            /\ named' \in BOOLEAN
            /\ UNCHANGED <<open, members, alert, odd, made>>

Tap(c) == /\ Free
          /\ members' = Toggle(members, c)
          /\ odd' = IF c \in odd THEN odd \ {c} ELSE odd \cup {c}
          /\ UNCHANGED <<open, named, alert, made>>

(* Mutated: the members are not checked.                                   *)
RefusalOfName == IF ~named THEN "no name" ELSE "none"

(* makeGroupBtn: the name is checked before the members.                   *)
Refusal == IF ~named THEN "no name"
           ELSE IF members = <<>> THEN "no members" ELSE "none"

RefuseGroup == /\ Free /\ Refusal # "none"
               /\ alert' = Refusal
               /\ UNCHANGED <<open, members, named, odd, made>>

SaveGroup == /\ Free /\ Refusal = "none"
             /\ Len(made) < MaxGroups
             /\ made' = Append(made, [named |-> named, members |-> members])
             /\ open' = FALSE
             /\ UNCHANGED <<members, named, alert, odd>>

DismissAlert == /\ alert # "none"
                /\ alert' = "none"
                /\ UNCHANGED <<open, members, named, odd, made>>

Next == \/ Open \/ Leave \/ EditName \/ RefuseGroup \/ SaveGroup \/ DismissAlert
        \/ \E c \in Candidates : Tap(c)

Spec == Init /\ [][Next]_vars

-----------------------------------------------------------------------------
(* The type invariant.                                                     *)
TypeOK ==
    /\ open \in BOOLEAN /\ named \in BOOLEAN
    /\ members \in Seq(Candidates)
    /\ alert \in {"none", "no name", "no members"}
    /\ odd \in SUBSET Candidates
    /\ made \in Seq([named : BOOLEAN, members : Seq(Candidates)])

(* The loop that edits the list it runs over neither overruns it, nor adds *)
(* a name twice, nor misses one: it is the toggle it is meant to be.       *)
LoopIsToggle == \A c \in Candidates : ToggleLoop(members, c) = Toggle(members, c)

(* The table shows a box as checked when the list has the name: those are  *)
(* the boxes tapped an odd number of times, and none is listed twice.      *)
ChecksFollowTaps ==
    /\ MembersOf(members) = odd
    /\ \A i, j \in DOMAIN members : members[i] = members[j] => i = j

(* Every group that was saved has a name and members, none of them twice.  *)
CompleteGroup(g) ==
    /\ g.named /\ g.members # <<>>
    /\ \A i, j \in DOMAIN g.members : g.members[i] = g.members[j] => i = j

MadeGroupsComplete == \A k \in DOMAIN made : CompleteGroup(made[k])
=============================================================================
