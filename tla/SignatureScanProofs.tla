-------------------------- MODULE SignatureScanProofs --------------------------
(****************************************************************************)
(* Proofs about SignatureScan: the search skips no occurrence, for any memory,  *)
(* any signatures and any number of them, and run is right about all of them.    *)
(****************************************************************************)
EXTENDS SignatureScan, WellFoundedInduction, TLAPS

USE SignatureAssumption

(* Why the operator Largest, with which the table is filled, has a value: a set of
   natural numbers below a bound has a largest element. *)
LEMMA LargestIsLargest ==
    ASSUME NEW n \in Nat, NEW S, S \subseteq 0..n, S # {}
    PROVE  Largest(S) \in S /\ \A s \in S : s <= Largest(S)
<1> DEFINE T == {n - s : s \in S}
<1>1. T \subseteq Nat /\ T # {}
  <2>1. \A s \in S : n - s \in Nat
    OBVIOUS
  <2>2. PICK s \in S : TRUE
    OBVIOUS
  <2>3. n - s \in T
    OBVIOUS
  <2> QED
    BY <2>1, <2>3, Zenon
<1>2. PICK x \in T : \A y \in T : ~ (<<y, x>> \in OpToRel(<, Nat))
  BY <1>1, WFMin, NatLessThanWellFounded
<1>3. \A y \in T : ~ (y < x)
  BY <1>1, <1>2 DEF OpToRel
<1>4. PICK s \in S : x = n - s
  OBVIOUS
<1>5. \A r \in S : r <= s
  <2>1. TAKE r \in S
  <2>2. ~ (n - r < n - s)
    BY <1>3, <1>4
  <2> QED
    BY <2>2
<1> QED
  BY <1>5 DEF Largest

--------------------------------------------------------------------------------
(* A signature whose bytes are what TypeOK says. *)
Sound(e) ==
    /\ length[e] \in 1..MaxLength
    /\ sig[e] \in [0..Last(e) -> Bytes \cup {Wild}]

(* The table starts behind every wildcard but one in the last place. *)
LEMMA FirstIsBehindWild ==
    ASSUME NEW e \in Signatures, Sound(e)
    PROVE  /\ First(e) \in 0..Last(e)
           /\ \A i \in First(e)..(Last(e) - 1) : sig[e][i] # Wild
<1>1. Last(e) \in Nat
  BY DEF Sound, Last
<1>2. CASE WildBefore(e) = {}
  <2>1. First(e) = 0
    BY <1>2 DEF First
  <2> QED
    BY <1>1, <1>2, <2>1 DEF WildBefore
<1>3. CASE WildBefore(e) # {}
  <2>1. /\ Largest(WildBefore(e)) \in WildBefore(e)
        /\ \A i \in WildBefore(e) : i <= Largest(WildBefore(e))
    <3>1. WildBefore(e) \subseteq 0..Last(e)
      BY <1>1 DEF WildBefore
    <3> QED
      BY <1>1, <1>3, <3>1, LargestIsLargest
  <2>2. Largest(WildBefore(e)) \in 0..(Last(e) - 1)
    BY <2>1 DEF WildBefore
  <2>3. First(e) = Largest(WildBefore(e)) + 1
    BY <1>3 DEF First
  <2>4. ASSUME NEW i \in First(e)..(Last(e) - 1), sig[e][i] = Wild PROVE FALSE
    <3>1. i \in WildBefore(e)
      BY <1>1, <2>2, <2>3, <2>4 DEF WildBefore
    <3> QED
      BY <1>1, <2>1, <2>2, <2>3, <3>1
  <2> QED
    BY <1>1, <2>2, <2>3, <2>4
<1> QED
  BY <1>2, <1>3

(* The search moves on, by no more than the signature is long. *)
LEMMA ShiftIsPositive ==
    ASSUME NEW e \in Signatures, Sound(e), NEW b
    PROVE  Shift(e, b) \in 1..length[e]
<1>1. Last(e) \in Nat /\ length[e] = Last(e) + 1 /\ First(e) \in 0..Last(e)
  BY FirstIsBehindWild DEF Sound, Last
<1>2. CASE Standing(e, b) = {}
  BY <1>1, <1>2 DEF Shift
<1>3. CASE Standing(e, b) # {}
  <2>1. Standing(e, b) \subseteq 0..Last(e)
    BY <1>1 DEF Standing
  <2>2. Largest(Standing(e, b)) \in Standing(e, b)
    BY <1>1, <1>3, <2>1, LargestIsLargest
  <2>3. Largest(Standing(e, b)) \in First(e)..(Last(e) - 1)
    BY <2>2 DEF Standing
  <2> QED
    BY <1>1, <1>3, <2>3 DEF Shift
<1> QED
  BY <1>2, <1>3

(* Where the signature is not, the shift leads to no place behind the next one
   where it is: the byte under its last place would have to stand further left. *)
LEMMA ShiftSkipsNothing ==
    ASSUME NEW e \in Signatures, Sound(e),
           NEW a \in Nat, NEW p \in Occurrences(e), a < p
    PROVE  a + Shift(e, text[a + Last(e)]) <= p
<1> DEFINE b == text[a + Last(e)]
           d == p - a
           i == Last(e) - d
<1>1. /\ Last(e) \in Nat /\ length[e] = Last(e) + 1 /\ First(e) \in 0..Last(e)
      /\ \A j \in First(e)..(Last(e) - 1) : sig[e][j] # Wild
  BY FirstIsBehindWild DEF Sound, Last
<1>2. p \in Int /\ d \in Nat /\ d >= 1
  BY <1>1 DEF Occurrences, ScanEnd
<1>3. SUFFICES ASSUME d < Shift(e, b) PROVE FALSE
  <2>1. Shift(e, b) \in 1..length[e]
    BY ShiftIsPositive
  <2> QED
    BY <1>1, <1>2, <2>1
<1>4. ASSUME i \in First(e)..(Last(e) - 1) PROVE i \in Standing(e, b)
  <2>1. sig[e][i] \in {Wild, text[p + i]}
    BY <1>1, <1>4 DEF Occurrences, Matches
  <2>2. p + i = a + Last(e)
    BY <1>1, <1>2
  <2> HIDE DEF i
  <2>3. sig[e][i] = b
    BY <1>1, <1>4, <2>1, <2>2
  <2> QED
    BY <1>4, <2>3 DEF Standing
<1>5. CASE Standing(e, b) = {}
  <2>1. d < length[e] - First(e)
    BY <1>3, <1>5 DEF Shift
  <2>2. i \in First(e)..(Last(e) - 1)
    BY <1>1, <1>2, <2>1
  <2> QED
    BY <1>4, <1>5, <2>2
<1>6. CASE Standing(e, b) # {}
  <2>1. /\ Largest(Standing(e, b)) \in Standing(e, b)
        /\ \A s \in Standing(e, b) : s <= Largest(Standing(e, b))
    <3>1. Standing(e, b) \subseteq 0..Last(e)
      BY <1>1 DEF Standing
    <3> QED
      BY <1>1, <1>6, <3>1, LargestIsLargest
  <2>2. Largest(Standing(e, b)) \in First(e)..(Last(e) - 1)
    BY <2>1 DEF Standing
  <2>3. d < Last(e) - Largest(Standing(e, b))
    BY <1>3, <1>6 DEF Shift
  <2>4. i \in First(e)..(Last(e) - 1) /\ i > Largest(Standing(e, b))
    BY <1>1, <1>2, <2>2, <2>3
  <2>5. i <= Largest(Standing(e, b))
    BY <1>4, <2>1, <2>4
  <2> HIDE DEF i
  <2> QED
    BY <1>1, <2>2, <2>4, <2>5
<1> QED
  BY <1>5, <1>6

--------------------------------------------------------------------------------
(* A thread that has ended knows where the signature is, or that it is nowhere, its
   callback was called at that place, and run has looked only at those that ended. *)
FalseIsNowhere == \A e \in Signatures : state[e] = "false" => Occurrences(e) = {}
CalledWithPlace ==
    \A e \in Signatures : address[e] = IF state[e] = "true" THEN at[e] ELSE -1
TakenHaveEnded == \A e \in Signatures : e \in waiting \/ state[e] \in {"true", "false"}
AllOfTaken == all <=> \A e \in Signatures \ waiting : state[e] = "true"

SInv ==
    /\ TypeOK
    /\ NothingSkipped
    /\ FalseIsNowhere
    /\ CalledWithPlace
    /\ TakenHaveEnded
    /\ AllOfTaken

USE DEF inputs

(* The searches read, and write nothing that they read. *)
LEMMA SamePlaces ==
    ASSUME UNCHANGED inputs
    PROVE  \A e \in Signatures : Occurrences(e)' = Occurrences(e) /\ Last(e)' = Last(e)
BY DEF Occurrences, ScanEnd, Matches, Last

LEMMA TypeStep == ASSUME TypeOK, [Next]_vars PROVE TypeOK'
<1>1. CASE UNCHANGED vars
  BY <1>1 DEF TypeOK, vars, Last
<1>2. ASSUME NEW e \in Signatures, Compare(e) PROVE TypeOK'
  <2>1. Sound(e) /\ at[e] \in Nat
    BY DEF TypeOK, Sound
  <2> DEFINE next == at[e] + Shift(e, text[at[e] + Last(e)])
  <2>2. next \in Nat
    <3>1. Shift(e, text[at[e] + Last(e)]) \in 1..length[e]
      BY <2>1, ShiftIsPositive
    <3> QED
      BY <2>1, <3>1 DEF Sound
  <2>3. at' \in [Signatures -> Nat]
    <3>1. at' = at \/ at' = [at EXCEPT ![e] = next]
      BY <1>2 DEF Compare
    <3> HIDE DEF next
    <3> QED
      BY <2>2, <3>1 DEF TypeOK
  <2> QED
    BY <1>2, <2>3 DEF Compare, TypeOK, Last
<1>3. ASSUME NEW e \in Signatures, NotFound(e) PROVE TypeOK'
  BY <1>3 DEF NotFound, TypeOK, Last
<1>4. ASSUME NEW e \in Signatures, Execute(e) PROVE TypeOK'
  BY <1>4 DEF Execute, TypeOK, Last
<1>5. ASSUME NEW e \in Signatures, Take(e) PROVE TypeOK'
  BY <1>5 DEF Take, Result, TypeOK, Last
<1> QED
  BY <1>1, <1>2, <1>3, <1>4, <1>5 DEF Next

(* Only Compare moves a search; the others find what it left. *)
LEMMA SkippedStep == ASSUME TypeOK, NothingSkipped, [Next]_vars PROVE NothingSkipped'
<1>0. UNCHANGED inputs
  BY DEF Next, Compare, NotFound, Execute, Take, vars
<1>1. \A e \in Signatures : Occurrences(e)' = Occurrences(e)
  BY <1>0, SamePlaces
<1>2. CASE UNCHANGED vars
  BY <1>1, <1>2 DEF NothingSkipped, vars
<1>3. ASSUME NEW e \in Signatures, Compare(e) PROVE NothingSkipped'
  <2>1. Sound(e) /\ at[e] \in Nat /\ at \in [Signatures -> Nat]
    BY DEF TypeOK, Sound
  <2>2. CASE Matches(e, at[e])
    <3>1. at[e] \in Occurrences(e)
      BY <1>3, <2>1, <2>2 DEF Compare, Occurrences
    <3>2. UNCHANGED at /\ state' = [state EXCEPT ![e] = "found"]
      BY <1>3, <2>2 DEF Compare
    <3> QED
      BY <1>1, <3>1, <3>2 DEF NothingSkipped, TypeOK
  <2>3. CASE ~Matches(e, at[e])
    <3>1. /\ at' = [at EXCEPT ![e] = @ + Shift(e, text[@ + Last(e)])]
          /\ UNCHANGED state /\ state[e] = "scanning"
      BY <1>3, <2>3 DEF Compare
    <3>2. ASSUME NEW p \in Occurrences(e) PROVE at'[e] <= p
      <4>1. p \in Int /\ at[e] <= p /\ p # at[e]
        BY <2>3, <3>2 DEF NothingSkipped, Occurrences
      <4>2. at[e] + Shift(e, text[at[e] + Last(e)]) <= p
        BY <2>1, <4>1, ShiftSkipsNothing
      <4> QED
        BY <2>1, <3>1, <4>2
    <3>3. \A p \in Occurrences(e) : p >= at'[e]
      BY <3>2
    <3>4. \A f \in Signatures : f # e => at'[f] = at[f]
      BY <2>1, <3>1
    <3> QED
      BY <1>1, <3>1, <3>3, <3>4 DEF NothingSkipped
  <2> QED
    BY <2>2, <2>3
<1>4. ASSUME NEW e \in Signatures, NotFound(e) PROVE NothingSkipped'
  BY <1>1, <1>4 DEF NotFound, NothingSkipped, TypeOK
<1>5. ASSUME NEW e \in Signatures, Execute(e) PROVE NothingSkipped'
  BY <1>1, <1>5 DEF Execute, NothingSkipped, TypeOK
<1>6. ASSUME NEW e \in Signatures, Take(e) PROVE NothingSkipped'
  BY <1>1, <1>6 DEF Take, NothingSkipped
<1> QED
  BY <1>2, <1>3, <1>4, <1>5, <1>6 DEF Next

(* A search gives up behind the last place, and by NothingSkipped no place is there. *)
LEMMA EndsStep ==
    ASSUME SInv, [Next]_vars
    PROVE  FalseIsNowhere' /\ CalledWithPlace' /\ TakenHaveEnded' /\ AllOfTaken'
<1>0. UNCHANGED inputs
  BY DEF Next, Compare, NotFound, Execute, Take, vars
<1>1. \A e \in Signatures : Occurrences(e)' = Occurrences(e)
  BY <1>0, SamePlaces
<1> USE DEF SInv, FalseIsNowhere, CalledWithPlace, TakenHaveEnded, AllOfTaken
<1>2. CASE UNCHANGED vars
  BY <1>1, <1>2 DEF vars
<1>3. ASSUME NEW e \in Signatures, Compare(e)
      PROVE  FalseIsNowhere' /\ CalledWithPlace' /\ TakenHaveEnded' /\ AllOfTaken'
  <2>1. /\ state[e] = "scanning" /\ state'[e] \in {"scanning", "found"}
        /\ \A f \in Signatures : f # e => state'[f] = state[f] /\ at'[f] = at[f]
        /\ UNCHANGED <<address, waiting, all>>
    BY <1>3 DEF Compare, TypeOK
  <2> QED
    BY <1>1, <2>1
<1>4. ASSUME NEW e \in Signatures, NotFound(e)
      PROVE  FalseIsNowhere' /\ CalledWithPlace' /\ TakenHaveEnded' /\ AllOfTaken'
  <2>1. /\ state[e] = "scanning" /\ state'[e] = "false" /\ at[e] > ScanEnd(e)
        /\ \A f \in Signatures : f # e => state'[f] = state[f]
        /\ UNCHANGED <<at, address, waiting, all>>
    BY <1>4 DEF NotFound, TypeOK
  <2>2. Occurrences(e) = {}
    <3>1. SUFFICES ASSUME NEW p \in Occurrences(e) PROVE FALSE
      OBVIOUS
    <3>2. p >= at[e] /\ p <= ScanEnd(e) /\ p \in Nat
      BY DEF NothingSkipped, Occurrences
    <3>3. length[e] \in Int /\ at[e] \in Nat
      BY DEF TypeOK
    <3> QED
      BY <2>1, <3>2, <3>3 DEF ScanEnd
  <2> QED
    BY <1>1, <2>1, <2>2
<1>5. ASSUME NEW e \in Signatures, Execute(e)
      PROVE  FalseIsNowhere' /\ CalledWithPlace' /\ TakenHaveEnded' /\ AllOfTaken'
  <2>1. /\ state[e] = "found" /\ state'[e] = "true" /\ address'[e] = at[e]
        /\ \A f \in Signatures : f # e => state'[f] = state[f] /\ address'[f] = address[f]
        /\ UNCHANGED <<at, waiting, all>>
    BY <1>5 DEF Execute, TypeOK
  <2> QED
    BY <1>1, <2>1
<1>6. ASSUME NEW e \in Signatures, Take(e)
      PROVE  FalseIsNowhere' /\ CalledWithPlace' /\ TakenHaveEnded' /\ AllOfTaken'
  <2>1. /\ state[e] \in {"true", "false"} /\ waiting' = waiting \ {e}
        /\ all' = (all /\ state[e] = "true")
        /\ UNCHANGED <<at, state, address>>
    BY <1>6 DEF Take, Result
  <2>2. e \in waiting
    BY <1>6 DEF Take
  <2>3. FalseIsNowhere' /\ CalledWithPlace' /\ TakenHaveEnded'
    BY <1>1, <2>1
  <2>4. Signatures \ waiting' = (Signatures \ waiting) \cup {e}
    BY <2>1
  <2>5. AllOfTaken'
    BY <2>1, <2>4
  <2> QED
    BY <2>3, <2>5
<1> QED
  BY <1>2, <1>3, <1>4, <1>5, <1>6 DEF Next

LEMMA InitSound == ASSUME Init PROVE SInv
<1>1. TypeOK
  <2>1. \A e \in Signatures : length[e] \in 1..MaxLength
    BY DEF Init
  <2>2. ASSUME NEW e \in Signatures PROVE sig[e] \in [0..Last(e) -> Bytes \cup {Wild}]
    <3>1. /\ sig[e] \in UNION {[0..(n - 1) -> Bytes \cup {Wild}] : n \in 1..MaxLength}
          /\ DOMAIN sig[e] = 0..Last(e)
      BY DEF Init, Last
    <3>2. PICK n \in 1..MaxLength : sig[e] \in [0..(n - 1) -> Bytes \cup {Wild}]
      BY <3>1
    <3> QED
      BY <3>1, <3>2
  <2> QED
    BY <2>2 DEF Init, TypeOK
<1>2. NothingSkipped
  BY DEF Init, NothingSkipped, Occurrences
<1> QED
  BY <1>1, <1>2 DEF Init, SInv, FalseIsNowhere, CalledWithPlace, TakenHaveEnded, AllOfTaken

--------------------------------------------------------------------------------
(* The inductive invariant: what the searches know, what their callbacks were
   called with, and what run has taken from them. *)
THEOREM Searching == Spec => []SInv
<1>1. Init => SInv
  BY InitSound
<1>2. SInv /\ [Next]_vars => SInv'
  BY TypeStep, SkippedStep, EndsStep DEF SInv
<1> QED
  BY <1>1, <1>2, PTL DEF Spec

(* Every variable keeps its type. *)
THEOREM SearchTypes == Spec => []TypeOK
<1>1. SInv => TypeOK
  BY DEF SInv
<1> QED
  BY <1>1, Searching, PTL

(* The shifts of scan_pattern skip no occurrence, whatever the memory, the signature
   and its wildcards. *)
THEOREM SkipsNothing == Spec => []NothingSkipped
<1>1. SInv => NothingSkipped
  BY DEF SInv
<1> QED
  BY <1>1, Searching, PTL

(* batch_runner::run returns TRUE exactly when every signature occurs, and each
   callback got the first place. *)
THEOREM RunTellsTheTruth == Spec => []RunIsRight
<1>1. SInv => RunIsRight
  <2>1. SUFFICES ASSUME SInv, waiting = {}
                 PROVE  /\ all <=> \A e \in Signatures : Occurrences(e) # {}
                        /\ \A e \in Signatures :
                             IF Occurrences(e) = {} THEN address[e] = -1
                             ELSE /\ address[e] \in Occurrences(e)
                                  /\ \A p \in Occurrences(e) : address[e] <= p
    BY DEF RunIsRight
  <2>2. \A e \in Signatures : state[e] = "true" \/ state[e] = "false"
    BY <2>1 DEF SInv, TakenHaveEnded
  <2>3. \A e \in Signatures : state[e] = "true" <=> Occurrences(e) # {}
    BY <2>1, <2>2 DEF SInv, NothingSkipped, FalseIsNowhere
  <2>4. all <=> \A e \in Signatures : Occurrences(e) # {}
    BY <2>1, <2>3 DEF SInv, AllOfTaken
  <2>5. ASSUME NEW e \in Signatures, Occurrences(e) # {}
        PROVE  /\ address[e] \in Occurrences(e)
               /\ \A p \in Occurrences(e) : address[e] <= p
    <3>1. state[e] = "true" /\ address[e] = at[e] /\ at[e] \in Nat
      BY <2>1, <2>3, <2>5 DEF SInv, CalledWithPlace, TypeOK
    <3>2. \A p \in Occurrences(e) : p \in Nat
      BY DEF Occurrences
    <3> QED
      BY <2>1, <3>1, <3>2 DEF SInv, NothingSkipped
  <2>6. \A e \in Signatures : Occurrences(e) = {} => address[e] = -1
    BY <2>1, <2>2, <2>3 DEF SInv, CalledWithPlace
  <2> QED
    BY <2>4, <2>5, <2>6
<1> QED
  BY <1>1, Searching, PTL

--------------------------------------------------------------------------------
(* The places a search has still to look at, and what is left to do for its
   signature: to find out, to call back, to take the result. *)
Places(e) == IF at[e] <= ScanEnd(e) THEN ScanEnd(e) + 1 - at[e] ELSE 0
Steps(e) ==
    IF state[e] = "scanning" THEN 2 + Places(e) ELSE IF state[e] = "found" THEN 1 ELSE 0
Left(e) == Steps(e) + (IF e \in waiting THEN 1 ELSE 0)

LEMMA PlacesAreCounted ==
    ASSUME TypeOK, NEW e \in Signatures
    PROVE  /\ ScanEnd(e) \in Nat /\ at[e] \in Nat /\ Places(e) \in Nat
           /\ Steps(e) \in Nat /\ Left(e) \in Nat
<1>1. length[e] \in 1..MaxLength /\ at[e] \in Nat
  BY DEF TypeOK
<1>2. ScanEnd(e) \in Nat
  BY <1>1 DEF ScanEnd
<1>3. Places(e) \in Nat
  BY <1>1, <1>2 DEF Places
<1>4. Steps(e) \in Nat
  BY <1>3 DEF Steps
<1> QED
  BY <1>1, <1>2, <1>3, <1>4 DEF Left

(* A step of one search leaves what the others have to do as it is. *)
LEMMA OthersLeft ==
    ASSUME TypeOK, NEW e \in Signatures, NEW f \in Signatures, f # e, UNCHANGED inputs,
           state'[f] = state[f], at'[f] = at[f], (f \in waiting') <=> (f \in waiting)
    PROVE  Left(f)' = Left(f)
BY DEF Left, Steps, Places, ScanEnd

(* Every step that is taken brings one signature nearer to its end and no other
   farther away: no shift of scan_pattern is zero, whatever the signature repeats and
   wherever its wildcards are, and run looks at no future twice.  As many steps as
   the sum of what is left at the start, and run has returned; that it gets that far
   is then only a matter of the threads being run. *)
THEOREM EveryStepCounts ==
    ASSUME SInv, Next
    PROVE  \E e \in Signatures :
               /\ Left(e)' < Left(e) /\ Left(e)' \in Nat
               /\ \A f \in Signatures \ {e} : Left(f)' = Left(f)
<1> USE DEF SInv
<1>1. PICK e \in Signatures : Compare(e) \/ NotFound(e) \/ Execute(e) \/ Take(e)
  BY DEF Next
<1>2. TypeOK' /\ TypeOK
  BY TypeStep
<1>3. ScanEnd(e) \in Nat /\ at[e] \in Nat /\ Places(e) \in Nat /\ Steps(e) \in Nat /\ Left(e) \in Nat
  BY PlacesAreCounted
<1>4. Places(e)' \in Nat /\ at'[e] \in Nat /\ Left(e)' \in Nat
  <2>1. length'[e] \in 1..MaxLength /\ at'[e] \in Nat
    BY <1>2 DEF TypeOK
  <2>2. ScanEnd(e)' \in Nat
    BY <2>1 DEF ScanEnd
  <2>3. Places(e)' \in Nat
    BY <2>1, <2>2 DEF Places
  <2> QED
    BY <2>1, <2>3 DEF Left, Steps
<1>5. /\ UNCHANGED inputs /\ ScanEnd(e)' = ScanEnd(e)
      /\ \A f \in Signatures \ {e} :
            state'[f] = state[f] /\ at'[f] = at[f] /\ ((f \in waiting') <=> (f \in waiting))
  BY <1>1 DEF Compare, NotFound, Execute, Take, TypeOK, ScanEnd
<1>6. \A f \in Signatures \ {e} : Left(f)' = Left(f)
  BY <1>5, OthersLeft
<1>7. ASSUME Compare(e), Matches(e, at[e]) PROVE Left(e)' < Left(e)
  <2>1. state[e] = "scanning" /\ state'[e] = "found" /\ waiting' = waiting
    BY <1>7 DEF Compare, TypeOK
  <2> QED
    BY <1>3, <2>1 DEF Left, Steps
<1>8. ASSUME Compare(e), ~Matches(e, at[e]) PROVE Left(e)' < Left(e)
  <2>1. /\ at[e] <= ScanEnd(e) /\ state[e] = "scanning" /\ state' = state /\ waiting' = waiting
        /\ at'[e] = at[e] + Shift(e, text[at[e] + Last(e)])
    BY <1>8 DEF Compare, TypeOK
  <2>2. Shift(e, text[at[e] + Last(e)]) \in 1..length[e] /\ length[e] \in Nat
    <3>1. Sound(e)
      BY DEF TypeOK, Sound
    <3> QED
      BY <3>1, ShiftIsPositive DEF TypeOK
  <2>3. at'[e] > at[e]
    BY <1>3, <2>1, <2>2
  <2>4. Places(e)' < Places(e)
    BY <1>3, <1>4, <1>5, <2>1, <2>3 DEF Places
  <2> QED
    BY <1>3, <1>4, <2>1, <2>4 DEF Left, Steps
<1>9. ASSUME NotFound(e) PROVE Left(e)' < Left(e)
  <2>1. state[e] = "scanning" /\ state'[e] = "false" /\ waiting' = waiting
    BY <1>9 DEF NotFound, TypeOK
  <2> QED
    BY <1>3, <2>1 DEF Left, Steps
<1>10. ASSUME Execute(e) PROVE Left(e)' < Left(e)
  <2>1. state[e] = "found" /\ state'[e] = "true" /\ waiting' = waiting
    BY <1>10 DEF Execute, TypeOK
  <2> QED
    BY <2>1 DEF Left, Steps
<1>11. ASSUME Take(e) PROVE Left(e)' < Left(e)
  <2>1. e \in waiting /\ e \notin waiting' /\ state' = state /\ at' = at
    BY <1>11 DEF Take
  <2>2. Steps(e)' = Steps(e)
    BY <1>5, <2>1 DEF Steps, Places
  <2> QED
    BY <1>3, <2>1, <2>2 DEF Left
<1> QED
  BY <1>1, <1>4, <1>6, <1>7, <1>8, <1>9, <1>10, <1>11
================================================================================
