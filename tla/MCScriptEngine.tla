----------------------------- MODULE MCScriptEngine -----------------------------
(****************************************************************************)
(* Small instances of ScriptEngine: two scripts, each on a Lua thread of its  *)
(* own as execute_internal makes them, of one priority as it sets it.         *)
(****************************************************************************)
EXTENDS ScriptEngine, TLC

CONSTANTS a, b, L1, L2, t1, t2

MCThreadOf == a :> L1 @@ b :> L2
MCPriorityOf == a :> 2 @@ b :> 2
Stepping == Permutations({t1, t2})
================================================================================
