---------------------------- MODULE ScriptLifecycle ----------------------------
(****************************************************************************)
(* What ScriptScheduler promises to whoever schedules a script, without its *)
(* queues, locks and threads: a script is refused or waits; a waiting script *)
(* is started once or cancelled, and never both; no more than the configured *)
(* number wait at a time.                                                    *)
(****************************************************************************)
EXTENDS Integers, FiniteSets

CONSTANTS Scripts, Limits

VARIABLE status

Waits == {c \in Scripts : status[c] = "waiting"}

Init == status = [c \in Scripts |-> "new"]

Refuse(c) ==
    /\ status[c] = "new"
    /\ status' = [status EXCEPT ![c] = "refused"]

Accept(c) ==
    /\ status[c] = "new"
    /\ \E n \in Limits : Cardinality(Waits) < n
    /\ status' = [status EXCEPT ![c] = "waiting"]

Start(c) ==
    /\ status[c] = "waiting"
    /\ status' = [status EXCEPT ![c] = "started"]

Finish(c) ==
    /\ status[c] = "started"
    /\ status' = [status EXCEPT ![c] = "finished"]

Cancel(S) ==
    status' = [c \in Scripts |-> IF c \in S THEN "cancelled" ELSE status[c]]

Next ==
    \/ \E c \in Scripts : Refuse(c) \/ Accept(c) \/ Start(c) \/ Finish(c)
    \/ \E S \in SUBSET Waits : Cancel(S)

Spec == Init /\ [][Next]_status
================================================================================
