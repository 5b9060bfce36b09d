-------------------------------- MODULE JobTable --------------------------------
(****************************************************************************)
(* What the job registry promises to those who register, remove and run jobs, *)
(* without its two maps, locks, ids looked up ahead and states: one table, in  *)
(* which a name has at most one job; a call of register_job is answered once; *)
(* and a thread runs only jobs that stood in the table when it looked, each    *)
(* once.                                                                     *)
(****************************************************************************)
CONSTANTS Names, Ids, Workers, None

VARIABLES
    table, \* the job of each name
    told,  \* what the call of register_job that made the job was told
    held   \* the jobs a thread is going to run

vars == <<table, told, held>>

Listed == {table[n] : n \in Names} \ {None}

Init ==
    /\ table = [n \in Names |-> None]
    /\ told = [id \in Ids |-> "none"]
    /\ held = [w \in Workers |-> {}]

Register(n, id) ==
    /\ told[id] = "none" /\ table[n] = None
    /\ table' = [table EXCEPT ![n] = id]
    /\ told' = [told EXCEPT ![id] = "registered"]
    /\ UNCHANGED held

Refuse(n, id) ==
    /\ told[id] = "none" /\ table[n] # None
    /\ told' = [told EXCEPT ![id] = "failed"]
    /\ UNCHANGED <<table, held>>

Remove(G) ==
    /\ table' = [n \in Names |-> IF table[n] \in G THEN None ELSE table[n]]
    /\ told' = [id \in Ids |-> IF id \in G THEN "removed" ELSE told[id]]
    /\ UNCHANGED held

Look(w, G) ==
    /\ held[w] = {}
    /\ held' = [held EXCEPT ![w] = G]
    /\ UNCHANGED <<table, told>>

Run(w, id) ==
    /\ id \in held[w]
    /\ held' = [held EXCEPT ![w] = @ \ {id}]
    /\ UNCHANGED <<table, told>>

Next ==
    \/ \E n \in Names, id \in Ids : Register(n, id) \/ Refuse(n, id)
    \/ \E G \in SUBSET Listed : Remove(G) \/ \E w \in Workers : Look(w, G)
    \/ \E w \in Workers, id \in Ids : Run(w, id)

Spec == Init /\ [][Next]_vars
================================================================================
