----------------------------- MODULE MCJobRegistry -----------------------------
(****************************************************************************)
(* Small instances of JobRegistry: p is periodic and asks for one kind, q is  *)
(* a lambda job for every kind (JobKind::Custom) and more urgent.             *)
(****************************************************************************)
EXTENDS JobRegistry, TLC

CONSTANTS p, q, heartbeat, render

MCTargetsOf == p :> {heartbeat} @@ q :> Kinds
MCPriorityOf == p :> 0 @@ q :> (-50)
MCTargetsOfOne == p :> {heartbeat}
MCPriorityOfOne == p :> 0
================================================================================
