----------------------------- MODULE MCEnvironment -----------------------------
(****************************************************************************)
(* Two Lua states with one script thread each; modules that require each other  *)
(* as a file tree does.                                                         *)
(****************************************************************************)
EXTENDS Environment, TLC

CONSTANTS v1, v2, s1, s2, lib, util

MCOwner == (s1 :> v1) @@ (s2 :> v2)
MCNeeds == (lib :> {util}) @@ (util :> {})
MCCircular == (lib :> {util}) @@ (util :> {lib})

(* Requiring modules and listening to events share nothing but the Lua states:
   behaviours do one of the two. *)
Apart ==
    \/ nextId = 1 /\ \A t \in Threads : act[t].op \in {"idle", "setup"}
    \/ /\ \A s \in Scripts : loading[s] = <<>>
       /\ refused = {} /\ \A s \in Scripts : \A m \in Modules : cache[s][m] = 0

Symmetric == Permutations(Threads) \cup Permutations(Slots) \cup Permutations(Events)
================================================================================
