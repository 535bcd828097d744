---------------------------- MODULE MakeGroupProofs ----------------------------
(***************************************************************************)
(* Proofs about the make-group screen, for any candidates: what a tap does *)
(* to the list of members, and what follows for the boxes and the groups.  *)
(***************************************************************************)
EXTENDS MakeGroup, WellFoundedInduction, TLAPS

Distinct(ms) == \A i, j \in DOMAIN ms : ms[i] = ms[j] => i = j

(* Removing a member from a list without repetitions removes it for good,  *)
(* and leaves the others, each once.                                       *)
LEMMA RemoveAtRemoves ==
    ASSUME NEW S, NEW ms \in Seq(S), NEW k \in DOMAIN ms, Distinct(ms)
    PROVE  /\ RemoveAt(ms, k) \in Seq(S)
           /\ Distinct(RemoveAt(ms, k))
           /\ MembersOf(RemoveAt(ms, k)) = MembersOf(ms) \ {ms[k]}
<1>. DEFINE n == Len(ms)
            r == RemoveAt(ms, k)
            from(i) == IF i < k THEN i ELSE i + 1
<1>1. n \in Nat /\ DOMAIN ms = 1 .. n /\ k \in 1 .. n /\ n - 1 \in Nat
  OBVIOUS
<1>2. r = [i \in 1 .. n - 1 |-> ms[from(i)]]
  BY DEF RemoveAt
<1>3. \A i \in 1 .. n - 1 : from(i) \in 1 .. n /\ from(i) # k
  BY <1>1
<1>4. \A i, j \in 1 .. n - 1 : from(i) = from(j) => i = j
  BY <1>1
<1>5. \A m \in 1 .. n : m # k => \E i \in 1 .. n - 1 : from(i) = m
  <2>1. ASSUME NEW m \in 1 .. n, m < k PROVE m \in 1 .. n - 1 /\ from(m) = m
    BY <1>1, <2>1
  <2>2. ASSUME NEW m \in 1 .. n, m > k
        PROVE  m - 1 \in 1 .. n - 1 /\ from(m - 1) = m
    BY <1>1, <2>2
  <2>3. ASSUME NEW m \in 1 .. n, m # k PROVE \E i \in 1 .. n - 1 : from(i) = m
    <3>1. m < k \/ m > k
      BY <1>1, <2>3
    <3>. QED  BY <2>1, <2>2, <3>1
  <2>. QED  BY <2>3
<1>. HIDE DEF from, n, r
<1>6. r \in Seq(S)
  BY <1>1, <1>2, <1>3
<1>7. Distinct(r)
  BY <1>1, <1>2, <1>3, <1>4 DEF Distinct
<1>8. MembersOf(r) = MembersOf(ms) \ {ms[k]}
  <2>1. ASSUME NEW i \in 1 .. n - 1 PROVE r[i] \in MembersOf(ms) /\ r[i] # ms[k]
    BY <1>1, <1>2, <1>3 DEF Distinct, MembersOf
  <2>2. ASSUME NEW m \in 1 .. n, ms[m] # ms[k] PROVE \E i \in 1 .. n - 1 : r[i] = ms[m]
    <3>1. PICK i \in 1 .. n - 1 : from(i) = m
      BY <1>5, <2>2
    <3>. QED  BY <1>2, <3>1
  <2>3. DOMAIN r = 1 .. n - 1
    BY <1>2
  <2>4. ASSUME NEW x \in MembersOf(r) PROVE x \in MembersOf(ms) \ {ms[k]}
    <3>1. PICK i \in 1 .. n - 1 : x = r[i]
      BY <2>3, <2>4 DEF MembersOf
    <3>. QED  BY <2>1, <3>1
  <2>5. ASSUME NEW x \in MembersOf(ms) \ {ms[k]} PROVE x \in MembersOf(r)
    <3>1. PICK m \in 1 .. n : x = ms[m]
      BY <1>1, <2>5 DEF MembersOf
    <3>2. PICK i \in 1 .. n - 1 : r[i] = ms[m]
      BY <2>2, <2>5, <3>1
    <3>. QED  BY <2>3, <3>1, <3>2 DEF MembersOf
  <2>. QED  BY <2>4, <2>5
<1>. QED  BY <1>6, <1>7, <1>8 DEF r

(* A tap adds a candidate that is not in the list and removes one that is. *)
LEMMA ToggleToggles ==
    ASSUME NEW S, NEW ms \in Seq(S), NEW c \in S, Distinct(ms)
    PROVE  /\ Toggle(ms, c) \in Seq(S)
           /\ Distinct(Toggle(ms, c))
           /\ MembersOf(Toggle(ms, c)) =
                 IF c \in MembersOf(ms) THEN MembersOf(ms) \ {c}
                                        ELSE MembersOf(ms) \cup {c}
<1>0. Len(ms) \in Nat /\ DOMAIN ms = 1 .. Len(ms)
  OBVIOUS
<1>1. CASE FirstAt(ms, c) = {}
  <2>1. \A i \in DOMAIN ms : ms[i] # c
    <3>1. SUFFICES ASSUME NEW i \in DOMAIN ms, ms[i] = c PROVE FALSE
      OBVIOUS
    <3>2. \A j \in 1 .. i - 1 : ms[j] # c
      BY <1>0, <3>1 DEF Distinct
    <3>. QED  BY <1>1, <3>1, <3>2 DEF FirstAt
  <2>. DEFINE a == Append(ms, c)
  <2>2. /\ a \in Seq(S) /\ DOMAIN a = 1 .. Len(ms) + 1
        /\ a[Len(ms) + 1] = c /\ \A i \in 1 .. Len(ms) : a[i] = ms[i]
    BY <1>0
  <2>. HIDE DEF a
  <2>3. Distinct(a)
    BY <1>0, <2>1, <2>2 DEF Distinct
  <2>4. MembersOf(a) = MembersOf(ms) \cup {c} /\ c \notin MembersOf(ms)
    BY <1>0, <2>1, <2>2 DEF MembersOf
  <2>. QED  BY <1>1, <2>2, <2>3, <2>4 DEF Toggle, a
<1>2. CASE FirstAt(ms, c) # {}
  <2>. DEFINE k == CHOOSE i \in FirstAt(ms, c) : TRUE
  <2>1. k \in DOMAIN ms /\ ms[k] = c
    BY <1>2 DEF FirstAt
  <2>2. Toggle(ms, c) = RemoveAt(ms, k)
    BY <1>2 DEF Toggle
  <2>. HIDE DEF k
  <2>3. c \in MembersOf(ms)
    BY <2>1 DEF MembersOf
  <2>. QED  BY <2>1, <2>2, <2>3, RemoveAtRemoves
<1>. QED  BY <1>1, <1>2

-----------------------------------------------------------------------------
(* The loop is the toggle                                                  *)

(* A set of numbers has a smallest one.                                    *)
LEMMA SmallestNumber ==
    ASSUME NEW T, T \subseteq Nat, T # {}
    PROVE  \E x \in T : \A y \in T : x <= y
<1>1. PICK x \in T : \A y \in T : ~ (<<y, x>> \in OpToRel(<, Nat))
  BY NatLessThanWellFounded, WFMin
<1>2. ASSUME NEW y \in T PROVE x <= y
  <2>1. ~ (y < x)
    BY <1>1 DEF OpToRel
  <2>. QED  BY <2>1
<1>. QED  BY <1>2

(* A name of the list has a first position, and one only.                  *)
LEMMA FirstPosition ==
    ASSUME NEW S, NEW ms \in Seq(S), NEW c
    PROVE  /\ \A i \in DOMAIN ms : ms[i] = c => \E k \in FirstAt(ms, c) : k <= i
           /\ \A k, m \in FirstAt(ms, c) : k = m
<1>0. Len(ms) \in Nat /\ DOMAIN ms = 1 .. Len(ms)
  OBVIOUS
<1>1. ASSUME NEW i \in DOMAIN ms, ms[i] = c PROVE \E k \in FirstAt(ms, c) : k <= i
  <2>. DEFINE T == {j \in DOMAIN ms : ms[j] = c}
  <2>1. T \subseteq Nat /\ i \in T
    BY <1>0, <1>1
  <2>2. PICK k \in T : \A j \in T : k <= j
    BY <2>1, SmallestNumber
  <2>3. k \in FirstAt(ms, c)
    BY <1>0, <2>2 DEF FirstAt
  <2>. QED  BY <2>1, <2>2, <2>3
<1>2. ASSUME NEW k \in FirstAt(ms, c), NEW m \in FirstAt(ms, c) PROVE k = m
  <2>1. k \in 1 .. Len(ms) /\ m \in 1 .. Len(ms) /\ ms[k] = c /\ ms[m] = c
    BY <1>0 DEF FirstAt
  <2>2. ~(k < m) /\ ~(m < k)
    BY <2>1 DEF FirstAt
  <2>. QED  BY <2>1, <2>2
<1>. QED  BY <1>1, <1>2

(* One turn of the loop, at position i, from what the turn before left.    *)
Turn(c, s, i) ==
    IF s.done THEN s
    ELSE IF c = s.list[i] THEN [list |-> RemoveAt(s.list, i), done |-> TRUE]
    ELSE IF i = Len(s.list) THEN [list |-> Append(s.list, c), done |-> FALSE]
    ELSE s

(* What each turn leaves: the list without the first c once it was passed, *)
(* the list with c at the end after the last turn, and the list before.    *)
After(ms, c, i) ==
    IF \E k \in FirstAt(ms, c) : k <= i
    THEN [list |-> RemoveAt(ms, CHOOSE k \in FirstAt(ms, c) : TRUE), done |-> TRUE]
    ELSE [list |-> IF i = Len(ms) THEN Append(ms, c) ELSE ms, done |-> FALSE]

(* One turn of the loop takes the closed form from a position to the next. *)
LEMMA TurnAfter ==
    ASSUME NEW S, NEW ms \in Seq(S), ms # <<>>, NEW c, NEW i \in 1 .. Len(ms)
    PROVE  Turn(c, After(ms, c, i - 1), i) = After(ms, c, i)
<1>0. Len(ms) \in Nat \ {0} /\ DOMAIN ms = 1 .. Len(ms) /\ FirstAt(ms, c) \subseteq 1 .. Len(ms)
  BY DEF FirstAt
<1>1. CASE \E k \in FirstAt(ms, c) : k <= i - 1
  <2>1. \E k \in FirstAt(ms, c) : k <= i
    BY <1>0, <1>1
  <2>2. After(ms, c, i - 1) = After(ms, c, i) /\ After(ms, c, i).done
    BY <1>1, <2>1 DEF After
  <2>. QED  BY <2>2 DEF Turn
<1>2. CASE ~ \E k \in FirstAt(ms, c) : k <= i - 1
  <2>. DEFINE s == [list |-> ms, done |-> FALSE]
  <2>0. i - 1 # Len(ms)
    BY <1>0
  <2>1. After(ms, c, i - 1) = s
    <3>1. After(ms, c, i - 1) = [list |-> IF i - 1 = Len(ms) THEN Append(ms, c) ELSE ms, done |-> FALSE]
      BY <1>2 DEF After
    <3>. QED  BY <2>0, <3>1, Zenon
  <2>s. s.list = ms /\ s.done = FALSE
    OBVIOUS
  <2>. HIDE DEF s
  <2>2. CASE ms[i] = c
    <3>1. PICK k \in FirstAt(ms, c) : k <= i
      BY <1>0, <2>2, FirstPosition
    <3>2. k = i /\ \A m \in FirstAt(ms, c) : m = i
      <4>1. k = i
        BY <1>0, <1>2, <3>1
      <4>. QED  BY <4>1, FirstPosition
    <3>3. (CHOOSE m \in FirstAt(ms, c) : TRUE) = i
      BY <3>1, <3>2
    <3>4. After(ms, c, i) = [list |-> RemoveAt(ms, i), done |-> TRUE]
      BY <3>1, <3>3 DEF After
    <3>5. Turn(c, s, i) = [list |-> RemoveAt(ms, i), done |-> TRUE]
      BY <2>s, <2>2, Zenon DEF Turn
    <3>. QED  BY <2>1, <3>4, <3>5
  <2>3. CASE ms[i] # c
    <3>1. ~ \E k \in FirstAt(ms, c) : k <= i
      <4>1. i \notin FirstAt(ms, c)
        BY <2>3 DEF FirstAt
      <4>. QED  BY <1>0, <1>2, <4>1
    <3>2. After(ms, c, i) = [list |-> IF i = Len(ms) THEN Append(ms, c) ELSE ms, done |-> FALSE]
      BY <3>1, Zenon DEF After
    <3>3. CASE i = Len(ms)
      <4>1. Turn(c, s, i) = [list |-> Append(ms, c), done |-> FALSE]
        BY <2>s, <2>3, <3>3, Zenon DEF Turn
      <4>. QED  BY <2>1, <3>2, <3>3, <4>1, Zenon
    <3>4. CASE i # Len(ms)
      <4>1. Turn(c, s, i) = s
        BY <2>s, <2>3, <3>4, Zenon DEF Turn
      <4>. QED  BY <2>1, <3>2, <3>4, <4>1, Zenon DEF s
    <3>. QED  BY <3>3, <3>4
  <2>. QED  BY <2>2, <2>3
<1>. QED  BY <1>1, <1>2

(* The recursive function of the loop is After: it satisfies the function's *)
(* equation, and a smallest turn at which another solution differs does    *)
(* not exist.                                                              *)
LEMMA LoopToggles ==
    ASSUME NEW S, NEW ms \in Seq(S), NEW c
    PROVE  ToggleLoop(ms, c) = Toggle(ms, c)
<1>. DEFINE n == Len(ms)
            Step(f) == [i \in 0 .. n |-> IF i = 0 THEN [list |-> ms, done |-> FALSE]
                                                  ELSE Turn(c, f[i - 1], i)]
            g == [i \in 0 .. n |-> After(ms, c, i)]
            turn == CHOOSE f : f = Step(f)
<1>0. n \in Nat /\ DOMAIN ms = 1 .. n /\ FirstAt(ms, c) \subseteq 1 .. n
  BY DEF FirstAt
<1>1. CASE ms = <<>>
  <2>1. FirstAt(ms, c) = {}
    BY <1>0, <1>1
  <2>. QED  BY <1>1, <2>1 DEF ToggleLoop, Toggle
<1>2. CASE ms # <<>>
  <2>1. ToggleLoop(ms, c) = turn[n].list
    BY <1>2 DEF ToggleLoop, Turn
  <2>2. n > 0
    BY <1>0, <1>2
  <2>3. g = Step(g)
    <3>1. After(ms, c, 0) = [list |-> ms, done |-> FALSE]
      <4>1. ~ (\E k \in FirstAt(ms, c) : k <= 0) /\ 0 # n
        BY <1>0, <2>2
      <4>. QED  BY <4>1, Zenon DEF After
    <3>2. ASSUME NEW i \in 1 .. n PROVE After(ms, c, i) = Turn(c, g[i - 1], i)
      BY <1>0, <1>2, TurnAfter
    <3>. QED  BY <1>0, <3>1, <3>2
  <2>4. ASSUME NEW f, f = Step(f) PROVE f[n] = g[n]
    <3>. DEFINE T == {i \in 0 .. n : f[i] # g[i]}
    <3>1. SUFFICES ASSUME T # {} PROVE FALSE
      BY <1>0
    <3>2. T \subseteq Nat
      OBVIOUS
    <3>3. PICK i \in T : \A j \in T : i <= j
      BY <3>1, <3>2, SmallestNumber
    <3>4. \A j \in 0 .. n : f[j] = Step(f)[j] /\ g[j] = Step(g)[j]
      BY <2>3, <2>4
    <3>5. i # 0
      BY <1>0, <3>4
    <3>6. i - 1 \in 0 .. n /\ i - 1 \notin T
      BY <3>3, <3>5
    <3>7. f[i - 1] = g[i - 1]
      BY <3>6
    <3>. QED  BY <3>4, <3>5, <3>7
  <2>5. turn = Step(turn)
    <3>. HIDE DEF Step, g
    <3>. QED  BY <2>3
  <2>6. turn[n] = After(ms, c, n)
    <3>. HIDE DEF Step, turn
    <3>. QED  BY <1>0, <2>4, <2>5
  <2>. HIDE DEF turn
  <2>7. CASE FirstAt(ms, c) = {}
    BY <2>1, <2>6, <2>7 DEF After, Toggle
  <2>8. CASE FirstAt(ms, c) # {}
    <3>1. \E k \in FirstAt(ms, c) : k <= n
      BY <1>0, <2>8
    <3>. QED  BY <2>1, <2>6, <2>8, <3>1 DEF After, Toggle
  <2>. QED  BY <2>7, <2>8
<1>. QED  BY <1>1, <1>2

-----------------------------------------------------------------------------
(* The inductive invariant: the groups that were made are complete because *)
(* the list they were made from never repeats a name.                      *)
ScreenInv == TypeOK /\ ChecksFollowTaps /\ MadeGroupsComplete

(* It holds at the start, and every step keeps it.                         *)
LEMMA ScreenInit == Init => ScreenInv
<1>. SUFFICES ASSUME Init PROVE ScreenInv
  OBVIOUS
<1>1. <<>> \in Seq(Candidates) /\ DOMAIN <<>> = {}
      /\ <<>> \in Seq([named : BOOLEAN, members : Seq(Candidates)])
  OBVIOUS
<1>. QED  BY <1>1 DEF Init, ScreenInv, TypeOK, ChecksFollowTaps, MadeGroupsComplete, MembersOf

LEMMA ScreenNext == ScreenInv /\ [Next]_vars => ScreenInv'
<1>. SUFFICES ASSUME ScreenInv, [Next]_vars PROVE ScreenInv'
  OBVIOUS
<1>. USE DEF ScreenInv
<1>0. ASSUME members' = members, odd' = odd PROVE ChecksFollowTaps'
  BY <1>0 DEF ChecksFollowTaps, MembersOf
<1>1. ASSUME made' = made PROVE MadeGroupsComplete'
  BY <1>1 DEF MadeGroupsComplete, CompleteGroup
<1>2. CASE Open
  <2>1. <<>> \in Seq(Candidates) /\ DOMAIN <<>> = {}
    OBVIOUS
  <2>. QED  BY <1>1, <1>2, <2>1 DEF Open, TypeOK, ChecksFollowTaps, MembersOf
<1>3. CASE Leave \/ EditName \/ DismissAlert \/ UNCHANGED vars
  BY <1>0, <1>1, <1>3 DEF Leave, EditName, DismissAlert, vars, TypeOK
<1>4. CASE RefuseGroup
  BY <1>0, <1>1, <1>4 DEF RefuseGroup, Refusal, TypeOK
<1>5. CASE SaveGroup
  <2>1. named /\ members # <<>>
    BY <1>5 DEF SaveGroup, Refusal
  <2>. DEFINE g == [named |-> named, members |-> members]
  <2>2. CompleteGroup(g)
    BY <2>1 DEF ChecksFollowTaps, CompleteGroup
  <2>3. g \in [named : BOOLEAN, members : Seq(Candidates)]
    BY DEF TypeOK
  <2>. HIDE DEF g
  <2>4. made' = Append(made, g)
    BY <1>5 DEF SaveGroup, g
  <2>5. made \in Seq([named : BOOLEAN, members : Seq(Candidates)])
    BY DEF TypeOK
  <2>6. made' \in Seq([named : BOOLEAN, members : Seq(Candidates)])
    BY <2>3, <2>4, <2>5
  <2>7. \A i \in DOMAIN made' :
           \/ i \in DOMAIN made /\ made'[i] = made[i]
           \/ made'[i] = g
    BY <2>4, <2>5
  <2>8. MadeGroupsComplete'
    BY <2>2, <2>7 DEF MadeGroupsComplete
  <2>9. TypeOK'
    BY <1>5, <2>6 DEF SaveGroup, TypeOK
  <2>. QED  BY <1>0, <1>5, <2>8, <2>9 DEF SaveGroup
<1>6. ASSUME NEW c \in Candidates, Tap(c) PROVE ScreenInv'
  <2>1. members \in Seq(Candidates) /\ Distinct(members) /\ MembersOf(members) = odd
    BY DEF TypeOK, ChecksFollowTaps, Distinct
  <2>2. /\ Toggle(members, c) \in Seq(Candidates)
        /\ Distinct(Toggle(members, c))
        /\ MembersOf(Toggle(members, c)) = IF c \in odd THEN odd \ {c} ELSE odd \cup {c}
    BY <2>1, ToggleToggles
  <2>3. /\ members' = Toggle(members, c)
        /\ odd' = IF c \in odd THEN odd \ {c} ELSE odd \cup {c}
        /\ UNCHANGED <<open, named, alert, made>>
    BY <1>6 DEF Tap
  <2>4. ChecksFollowTaps'
    <3>1. MembersOf(members') = odd' /\ Distinct(members')
      BY <2>2, <2>3
    <3>. QED  BY <3>1 DEF ChecksFollowTaps, Distinct, MembersOf
  <2>5. TypeOK'
    BY <2>2, <2>3 DEF TypeOK
  <2>. QED  BY <1>1, <2>3, <2>4, <2>5
<1>. QED  BY <1>2, <1>3, <1>4, <1>5, <1>6 DEF Next

(* The screen's invariant holds in every state.                            *)
THEOREM ScreenAlways == Spec => []ScreenInv
<1>. QED  BY ScreenInit, ScreenNext, PTL DEF Spec

(* Every variable of the screen keeps its type.                            *)
THEOREM ScreenTypeCorrect == Spec => []TypeOK
<1>. QED  BY ScreenAlways, PTL DEF ScreenInv

(* The loop of a tap, which edits the list it runs over and whose bound is *)
(* taken before, neither overruns the list, nor misses a name, nor adds    *)
(* one twice: for any list it is the toggle.                               *)
THEOREM LoopIsAlwaysToggle == Spec => []LoopIsToggle
<1>1. TypeOK => LoopIsToggle
  BY LoopToggles DEF TypeOK, LoopIsToggle
<1>. QED  BY <1>1, ScreenTypeCorrect, PTL

(* The boxes shown as checked are those tapped an odd number of times, and *)
(* no name is in the list twice, for any candidates and any taps.          *)
THEOREM ChecksAlwaysFollowTaps == Spec => []ChecksFollowTaps
<1>. QED  BY ScreenAlways, PTL DEF ScreenInv

(* Every group saved has a name and members, each once.                    *)
THEOREM MadeGroupsAlwaysComplete == Spec => []MadeGroupsComplete
<1>. QED  BY ScreenAlways, PTL DEF ScreenInv
=============================================================================
