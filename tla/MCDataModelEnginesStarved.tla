----------------------- MODULE MCDataModelEnginesStarved -----------------------
(****************************************************************************)
(* DataModelEngines with a history of whom the game stepped last, so that a   *)
(* step which changes nothing else, Glance at a DataModel that is tracked, is *)
(* a step still: all that is assumed of the game is that it steps every open  *)
(* DataModel again and again.                                                 *)
(****************************************************************************)
EXTENDS MCDataModelEngines

VARIABLE last

SteppedVars == <<vars, last>>
StepLast(m) == (\E w \in Watchers : Step(w, m)) /\ last' = m

SteppedInit == Init /\ last = None
SteppedNext == (Others /\ UNCHANGED last) \/ \E m \in DataModels : StepLast(m)

SteppedSpec ==
    /\ SteppedInit /\ [][SteppedNext]_SteppedVars
    /\ Progress
    /\ \A m \in DataModels : SF_SteppedVars(StepLast(m))
================================================================================
