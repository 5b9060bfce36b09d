------------------------------- MODULE MCStartup -------------------------------
(****************************************************************************)
(* Two mods, one of them disabled, two kinds of jobs and two DataModels that    *)
(* two threads step while the loader comes up.                                  *)
(****************************************************************************)
EXTENDS Startup

CONSTANTS m1, m2, heartbeat, waiting, require, bridge

MCDirectory == <<m1, m2>>
MCJobKinds == <<heartbeat, waiting>>
MCProviders == <<require, bridge>>
================================================================================
