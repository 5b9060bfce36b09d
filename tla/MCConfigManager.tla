---------------------------- MODULE MCConfigManager ----------------------------
(****************************************************************************)
(* One section and one mod, a file that changes twice, and two ConfigWatcher     *)
(* objects.                                                                     *)
(****************************************************************************)
EXTENDS ConfigManager
================================================================================
