--------------------------- MODULE MCDataModelEngines ---------------------------
(****************************************************************************)
(* Small instances of DataModelEngines: an edit and a client DataModel, one   *)
(* mod with scripts for both.                                                 *)
(****************************************************************************)
EXTENDS DataModelEngines, TLC

CONSTANTS edit, client, d1, d2, mod, w1

Renaming == Permutations({d1, d2}) \cup Permutations({edit, client})
NoScripts == {}
BothTypes == {<<mod, edit>>, <<mod, client>>}

(* One of each set of states that differ in the names of types, addresses and
   threads, where a liveness property rules SYMMETRY out. *)
InOrder ==
    /\ addressOf[1] \in {None, d1} /\ addressOf[2] \in {None, d2}
    /\ kindOf[1] \in {None, edit}
    /\ (\E w \in Watchers : watches[w] # None) => watches[w1] # None
================================================================================
