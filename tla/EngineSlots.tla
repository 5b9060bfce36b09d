------------------------------- MODULE EngineSlots -------------------------------
(****************************************************************************)
(* What the task scheduler promises about script engines, without DataModels,  *)
(* addresses, watchers and the two maps: a type of DataModel has at most one    *)
(* running engine, an engine serves one type for good, and what has been taken *)
(* out of service is stopped and never runs again.                             *)
(****************************************************************************)
CONSTANTS Types, Engines, None

VARIABLES
    status, \* none, running, erased (to be stopped) or stopped
    slot    \* the type an engine was made for

vars == <<status, slot>>

Running == {e \in Engines : status[e] = "running"}

Init ==
    /\ status = [e \in Engines |-> "none"]
    /\ slot = [e \in Engines |-> None]

Start(e, t) ==
    /\ status[e] = "none"
    /\ \A d \in Running : slot[d] # t
    /\ status' = [status EXCEPT ![e] = "running"]
    /\ slot' = [slot EXCEPT ![e] = t]

Retire(e) ==
    /\ e \in Running
    /\ status' = [status EXCEPT ![e] = "erased"]
    /\ UNCHANGED slot

Stop(e) ==
    /\ status[e] = "erased"
    /\ status' = [status EXCEPT ![e] = "stopped"]
    /\ UNCHANGED slot

StopAll ==
    /\ status' = [e \in Engines |-> IF e \in Running THEN "stopped" ELSE status[e]]
    /\ UNCHANGED slot

Next ==
    \/ \E e \in Engines : (\E t \in Types : Start(e, t)) \/ Retire(e) \/ Stop(e)
    \/ StopAll

Spec == Init /\ [][Next]_vars
================================================================================
