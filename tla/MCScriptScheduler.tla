--------------------------- MODULE MCScriptScheduler ---------------------------
(****************************************************************************)
(* Small instances of ScriptScheduler.  b is always delayed.  In the safety   *)
(* runs a and b share a Lua thread, as two calls of                           *)
(* execute_internal_with_context with one mod_thread do, and c is more        *)
(* urgent; in the fair run all have one priority, and a and c share a thread, *)
(* so that their order has to survive the rotations and the removal of b.     *)
(****************************************************************************)
EXTENDS ScriptScheduler, TLC

CONSTANTS a, b, c, L1, L2, t1, t2

MCThreadOf == a :> L1 @@ b :> L1 @@ c :> L2
MCThreadOfFair == a :> L1 @@ b :> L2 @@ c :> L1
MCPriorityOf == a :> 1 @@ b :> 1 @@ c :> 0
MCSamePriority == a :> 0 @@ b :> 0 @@ c :> 0
Stepping == Permutations({t1, t2})
================================================================================
