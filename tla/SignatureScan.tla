----------------------------- MODULE SignatureScan -----------------------------
(****************************************************************************)
(* batch_runner looks for every signature of a batch in the memory of a module, *)
(* each in a thread of its own, with the search of Boyer, Moore and Horspool      *)
(* extended to wildcards, and tells whether all were found.  The addresses go to  *)
(* callbacks that set the pointers the whole loader lives on.                    *)
(****************************************************************************)
EXTENDS Integers, FiniteSets

CONSTANTS
    Signatures, \* the entries of the batch
    Bytes,      \* what a byte of memory may be
    Wild,       \* a ? in a signature
    Size,       \* the size of the module
    MaxLength   \* bound: of a signature

ASSUME SignatureAssumption ==
    /\ Wild \notin Bytes
    /\ Size \in Nat /\ MaxLength \in 1..Size

VARIABLES
    text,    \* the memory of the module
    length,  \* of a signature
    sig,     \* its bytes
    at,      \* current_idx of its search
    state,   \* its thread: scanning, found, or true or false for the value of the future
    address, \* what its callback was called with, -1 before
    waiting, \* futures that run has not looked at
    all      \* found_all_patterns

vars == <<text, length, sig, at, state, address, waiting, all>>
inputs == <<text, length, sig>>

--------------------------------------------------------------------------------
Last(e) == length[e] - 1
ScanEnd(e) == Size - length[e]

Largest(S) == CHOOSE m \in S : \A n \in S : n <= m

(* Where the table starts to be filled: after the last wildcard before the last
   byte of the signature. *)
WildBefore(e) == {i \in 0..(Last(e) - 1) : sig[e][i] = Wild}
First(e) == IF WildBefore(e) = {} THEN 0 ELSE Largest(WildBefore(e)) + 1

(* shift_table: the byte of the signature that is nearest to the last one wins. *)
Standing(e, b) == {i \in First(e)..(Last(e) - 1) : sig[e][i] = b}

ShiftPastWild(e, b) ==                                 \* seeded fault
    IF Standing(e, b) = {} THEN length[e] ELSE Last(e) - Largest(Standing(e, b))
ShiftToItself(e, b) ==                                 \* seeded fault
    IF b = sig[e][Last(e)] THEN 0
    ELSE IF Standing(e, b) = {} THEN length[e] - First(e) ELSE Last(e) - Largest(Standing(e, b))
Shift(e, b) ==
    IF Standing(e, b) = {} THEN length[e] - First(e) ELSE Last(e) - Largest(Standing(e, b))

(* pattern_matches, and the comparison from the last byte to the first. *)
Matches(e, p) == \A i \in 0..Last(e) : sig[e][i] \in {Wild, text[p + i]}

(* scan_all leaves out the last place. *)
ScanAll(e) == {p \in 0..(ScanEnd(e) - 1) : Matches(e, p)}

Occurrences(e) == {p \in 0..ScanEnd(e) : Matches(e, p)}

--------------------------------------------------------------------------------
(* One place of the search. *)
Compare(e) ==
    /\ state[e] = "scanning" /\ at[e] <= ScanEnd(e)
    /\ IF Matches(e, at[e])
       THEN state' = [state EXCEPT ![e] = "found"] /\ UNCHANGED at
       ELSE at' = [at EXCEPT ![e] = @ + Shift(e, text[@ + Last(e)])] /\ UNCHANGED state
    /\ UNCHANGED <<inputs, address, waiting, all>>

NotFound(e) ==
    /\ state[e] = "scanning" /\ at[e] > ScanEnd(e)
    /\ state' = [state EXCEPT ![e] = "false"]
    /\ UNCHANGED <<inputs, at, address, waiting, all>>

(* The callback, under s_entry_mutex. *)
Execute(e) ==
    /\ state[e] = "found"
    /\ state' = [state EXCEPT ![e] = "true"]
    /\ address' = [address EXCEPT ![e] = at[e]]
    /\ UNCHANGED <<inputs, at, waiting, all>>

(* run takes the futures one by one and goes on after one that is false. *)
Result(e) == all /\ state[e] = "true"

Take(e) ==
    /\ e \in waiting /\ state[e] \in {"true", "false"}
    /\ waiting' = waiting \ {e}
    /\ all' = Result(e)
    /\ UNCHANGED <<inputs, at, state, address>>

Init ==
    /\ text \in [0..(Size - 1) -> Bytes]
    /\ length \in [Signatures -> 1..MaxLength]
    /\ sig \in {f \in [Signatures -> UNION {[0..(n - 1) -> Bytes \cup {Wild}] : n \in 1..MaxLength}] :
                  \A e \in Signatures : DOMAIN f[e] = 0..(length[e] - 1)}
    /\ at = [e \in Signatures |-> 0]
    /\ state = [e \in Signatures |-> "scanning"]
    /\ address = [e \in Signatures |-> -1]
    /\ waiting = Signatures
    /\ all = TRUE

Next == \E e \in Signatures : Compare(e) \/ NotFound(e) \/ Execute(e) \/ Take(e)

(* The threads run, and run waits for them. *)
Spec == Init /\ [][Next]_vars /\ WF_vars(Next)

--------------------------------------------------------------------------------
TypeOK ==
    /\ text \in [0..(Size - 1) -> Bytes]
    /\ length \in [Signatures -> 1..MaxLength]
    /\ \A e \in Signatures : sig[e] \in [0..Last(e) -> Bytes \cup {Wild}]
    /\ at \in [Signatures -> Nat]
    /\ state \in [Signatures -> {"scanning", "found", "true", "false"}]
    /\ address \in [Signatures -> Int]
    /\ waiting \subseteq Signatures /\ all \in BOOLEAN

(* The search never steps over a place where the signature is, however the shifts
   and the wildcards fall, and stops only at one. *)
NothingSkipped ==
    \A e \in Signatures :
        /\ \A p \in Occurrences(e) : p >= at[e]
        /\ state[e] \in {"found", "true"} => at[e] \in Occurrences(e)

(* run says TRUE exactly when every signature is somewhere in the module, and then
   each callback has got the first place. *)
RunIsRight ==
    waiting = {} =>
        /\ all <=> \A e \in Signatures : Occurrences(e) # {}
        /\ \A e \in Signatures :
             IF Occurrences(e) = {} THEN address[e] = -1
             ELSE address[e] \in Occurrences(e) /\ \A p \in Occurrences(e) : address[e] <= p

(* Every search moves on: no shift is zero, whatever the signature repeats and
   wherever its wildcards are, so run, and with it the startup, returns. *)
RunReturns == <>(waiting = {})

(* range.cpp:92, scan_all: all occurrences. *)
AllFound == \A e \in Signatures : ScanAll(e) = Occurrences(e)
================================================================================
