------------------------- MODULE DataModelEnginesProofs -------------------------
(****************************************************************************)
(* Theorems about DataModelEngines, for any number of watching threads, types    *)
(* and DataModels, whether engines fail and addresses are used again or not: the  *)
(* map of engines and the engines agree, a type has one slot, and what the locks   *)
(* of set_data_model and cleanup_data_model leave open to threads in between has   *)
(* its bounds.                                                                   *)
(****************************************************************************)
EXTENDS DataModelEngines, TLAPS

USE EnginesAssumption
USE DEF DataModels, Engines, gameVars, mapVars, clockVars, watchVars, modVars, historyVars

(* The part of TypeOK that the arguments need. *)
MapTypes ==
    /\ kindOf \in [DataModels -> Types \cup {None}]
    /\ addressOf \in [DataModels -> Addresses \cup {None}]
    /\ live \subseteq DataModels
    /\ current \in [Types -> Addresses \cup {None}]
    /\ engineOf \in [Types -> Engines \cup {None}]
    /\ madeFor \in [Engines -> DataModels \cup {None}]
    /\ status \in [Engines -> {"none", "running", "erased", "stopped"}]
    /\ at \in [Watchers -> {"idle", "polled", "cleaning", "replacing", "publishing",
                            "creating", "triggering", "scripts"}]
    /\ watches \in [Watchers -> DataModels \cup {None}]
    /\ old \in [Watchers -> Addresses \cup {None}]
    /\ cleaning \in [Watchers -> SUBSET Types]
    /\ unlisting \in [Watchers -> Types \cup {None}]

(* Who watches watches a DataModel the game has opened, and that has an address. *)
WatchesOpened ==
    /\ \A m \in live : kindOf[m] # None
    /\ \A m \in DataModels : kindOf[m] # None => addressOf[m] # None
    /\ \A w \in Watchers : at[w] # "idle" => watches[w] # None
    /\ \A w \in Watchers : watches[w] # None => kindOf[watches[w]] # None

DInv == MapTypes /\ WatchesOpened /\ MapHoldsRunning /\ NoEngineLeaks

Still == UNCHANGED <<kindOf, addressOf, live, current, engineOf, madeFor, status,
                     at, watches, old, cleaning, unlisting>>

LEMMA StillKeeps == ASSUME DInv, Still PROVE DInv'
BY DEF DInv, Still, MapTypes, WatchesOpened, MapHoldsRunning, NoEngineLeaks

LEMMA IsWatching ==
    ASSUME DInv, NEW w \in Watchers, at[w] # "idle"
    PROVE  watches[w] \in DataModels /\ TypeOf(w) \in Types /\ addressOf[watches[w]] \in Addresses
BY DEF DInv, MapTypes, WatchesOpened, TypeOf

--------------------------------------------------------------------------------
(* The actions by what they change. *)
StillActions ==
    \/ Frame \/ FindOrphans \/ ShutdownFlag
    \/ \E t \in Types : TimePasses(t)
    \/ \E w \in Watchers, m \in DataModels : Glance(w, m)
    \/ \E w \in Watchers, d \in Mods : GiveThread(w, d) \/ ScheduleMod(w, d)
    \/ \E d \in Mods : Unload(d) \/ Reload(d)
GameActions == \E m \in DataModels : Close(m) \/ \E t \in Types, a \in Addresses : Open(m, t, a)
EraseActions(w) == (\E t \in Types : CleanEngine(w, t)) \/ Replace(w)
MoveActions(w) ==
    \/ \E m \in DataModels : Poll(w, m)
    \/ Compare(w) \/ ReadOld(w) \/ Trigger(w) \/ Done(w)
OtherEnds ==
    (\E t \in Types : CleanOrphan(t)) \/ (\E e \in Engines : EngineDown(e)) \/ ShutdownEngines

LEMMA ByKind ==
    Next => \/ StillActions \/ GameActions \/ OtherEnds
            \/ \E w \in Watchers : \/ EraseActions(w) \/ MoveActions(w)
                                   \/ CleanModel(w) \/ Publish(w) \/ Create(w)
BY DEF Next, Others, Watch, Step, StillActions, GameActions, EraseActions, MoveActions, OtherEnds

LEMMA StillIsStill == StillActions => Still
BY DEF StillActions, Still, Frame, FindOrphans, ShutdownFlag, TimePasses, Glance, Track, GiveThread,
       ScheduleMod, Unload, Reload

LEMMA EraseKeepsMap ==
    ASSUME DInv, NEW t \in Types, EraseEngine(t)
    PROVE  /\ engineOf' \in [Types -> Engines \cup {None}] /\ engineOf'[t] = None
           /\ \A u \in Types : u # t => engineOf'[u] = engineOf[u]
           /\ status' \in [Engines -> {"none", "running", "erased", "stopped"}]
           /\ \A e \in Engines : status'[e] = "none" <=> status[e] = "none"
           /\ MapHoldsRunning' /\ NoEngineLeaks'
<1>1. /\ engineOf' \in [Types -> Engines \cup {None}] /\ engineOf'[t] = None
      /\ \A u \in Types : u # t => engineOf'[u] = engineOf[u]
  BY DEF EraseEngine, DInv, MapTypes
<1>2. /\ status' \in [Engines -> {"none", "running", "erased", "stopped"}]
      /\ \A e \in Engines : status'[e] = IF e = engineOf[t] THEN "erased" ELSE status[e]
  BY DEF EraseEngine, DInv, MapTypes
<1>3. \A e \in Engines : status'[e] = "none" <=> status[e] = "none"
  BY <1>2 DEF DInv, MapHoldsRunning
<1>4. MapHoldsRunning'
  <2>1. ASSUME NEW u \in Types, engineOf'[u] # None
        PROVE  /\ status'[engineOf'[u]] = "running"
               /\ \A v \in Types : engineOf'[v] = engineOf'[u] => v = u
    <3>1. u # t /\ engineOf'[u] = engineOf[u] /\ engineOf[u] \in Engines /\ engineOf[u] # engineOf[t]
      BY <1>1, <2>1 DEF DInv, MapHoldsRunning, MapTypes
    <3> QED
      BY <1>1, <1>2, <2>1, <3>1 DEF DInv, MapHoldsRunning
  <2> QED
    BY <2>1 DEF MapHoldsRunning
<1>5. NoEngineLeaks'
  BY <1>1, <1>2 DEF DInv, NoEngineLeaks
<1> QED
  BY <1>1, <1>2, <1>3, <1>4, <1>5

LEMMA GameKeeps == ASSUME DInv, GameActions PROVE DInv'
<1> USE DEF DInv
<1>1. UNCHANGED <<current, engineOf, madeFor, status, at, watches, old, cleaning, unlisting>>
  BY DEF GameActions, Close, Open
<1>2. MapHoldsRunning' /\ NoEngineLeaks'
  BY <1>1 DEF MapHoldsRunning, NoEngineLeaks
<1>3. ASSUME NEW m \in DataModels, Close(m) PROVE MapTypes' /\ WatchesOpened'
  BY <1>1, <1>3 DEF Close, MapTypes, WatchesOpened
<1>4. ASSUME NEW m \in DataModels, NEW t \in Types, NEW a \in Addresses, Open(m, t, a)
      PROVE  MapTypes' /\ WatchesOpened'
  <2>1. /\ kindOf' = [kindOf EXCEPT ![m] = t] /\ addressOf' = [addressOf EXCEPT ![m] = a]
        /\ live' = live \cup {m}
    BY <1>4 DEF Open
  <2>2. MapTypes'
    BY <1>1, <2>1 DEF MapTypes
  <2>3. \A d \in DataModels : /\ kindOf'[d] = IF d = m THEN t ELSE kindOf[d]
                              /\ addressOf'[d] = IF d = m THEN a ELSE addressOf[d]
    BY <2>1 DEF MapTypes
  <2>4. WatchesOpened'
    BY <1>1, <2>1, <2>2, <2>3 DEF WatchesOpened, MapTypes
  <2> QED
    BY <2>2, <2>4
<1> QED
  BY <1>2, <1>3, <1>4 DEF GameActions

LEMMA EraseKeeps == ASSUME DInv, NEW w \in Watchers, EraseActions(w) PROVE DInv'
<1>1. /\ UNCHANGED <<kindOf, addressOf, live, current, madeFor, watches, old>>
      /\ at[w] # "idle"
      /\ at' \in [Watchers -> {"idle", "polled", "cleaning", "replacing", "publishing",
                            "creating", "triggering", "scripts"}]
      /\ cleaning' \in [Watchers -> SUBSET Types] /\ unlisting' \in [Watchers -> Types \cup {None}]
      /\ \A v \in Watchers : v # w => at'[v] = at[v]
  <2>1. ASSUME NEW t \in Types, CleanEngine(w, t)
        PROVE  /\ UNCHANGED <<kindOf, addressOf, live, current, madeFor, watches, old, at>>
               /\ at[w] # "idle"
               /\ cleaning' = [cleaning EXCEPT ![w] = @ \ {t}]
               /\ unlisting' = [unlisting EXCEPT ![w] = t]
    BY <2>1 DEF CleanEngine
  <2>2. CASE \E t \in Types : CleanEngine(w, t)
    BY <2>1, <2>2 DEF DInv, MapTypes
  <2>3. CASE Replace(w)
    BY <2>3 DEF Replace, DInv, MapTypes
  <2> QED
    BY <2>2, <2>3 DEF EraseActions
<1>2. TypeOf(w) \in Types
  BY <1>1, IsWatching
<1>3. \/ \E t \in Types : EraseEngine(t)
      \/ UNCHANGED <<engineOf, status>>
  BY <1>2 DEF EraseActions, CleanEngine, Replace
<1>4. /\ engineOf' \in [Types -> Engines \cup {None}]
      /\ status' \in [Engines -> {"none", "running", "erased", "stopped"}]
      /\ MapHoldsRunning' /\ NoEngineLeaks'
  <2>1. CASE UNCHANGED <<engineOf, status>>
    BY <2>1 DEF DInv, MapTypes, MapHoldsRunning, NoEngineLeaks
  <2>2. ASSUME NEW t \in Types, EraseEngine(t)
        PROVE  /\ engineOf' \in [Types -> Engines \cup {None}]
               /\ status' \in [Engines -> {"none", "running", "erased", "stopped"}]
               /\ MapHoldsRunning' /\ NoEngineLeaks'
    BY <2>2, EraseKeepsMap
  <2> QED
    BY <1>3, <2>1, <2>2
<1>5. MapTypes'
  BY <1>1, <1>4 DEF DInv, MapTypes
<1>6. WatchesOpened'
  BY <1>1 DEF DInv, WatchesOpened
<1> QED
  BY <1>4, <1>5, <1>6 DEF DInv

LEMMA MoveKeeps ==
    ASSUME DInv, stale \subseteq Types, NEW w \in Watchers, MoveActions(w) PROVE DInv'
<1>1. /\ UNCHANGED <<kindOf, addressOf, live, current, engineOf, madeFor, status, unlisting>>
      /\ at' \in [Watchers -> {"idle", "polled", "cleaning", "replacing", "publishing",
                            "creating", "triggering", "scripts"}]
      /\ \A v \in Watchers : v # w => at'[v] = at[v] /\ watches'[v] = watches[v]
  <2>1. UNCHANGED <<kindOf, addressOf, live, current, engineOf, madeFor, status, unlisting>>
    BY DEF MoveActions, Poll, Track, Compare, ReadOld, Trigger, Done
  <2>2. \/ at' = [at EXCEPT ![w] = "polled"] \/ at' = [at EXCEPT ![w] = "cleaning"]
        \/ at' = [at EXCEPT ![w] = "replacing"] \/ at' = [at EXCEPT ![w] = "publishing"]
        \/ at' = [at EXCEPT ![w] = "triggering"] \/ at' = [at EXCEPT ![w] = "scripts"]
        \/ at' = [at EXCEPT ![w] = "idle"]
    BY DEF MoveActions, Poll, Compare, ReadOld, Trigger, Done
  <2>3. \/ UNCHANGED watches \/ \E m \in DataModels : watches' = [watches EXCEPT ![w] = m]
    BY DEF MoveActions, Poll, Compare, ReadOld, Trigger, Done
  <2> QED
    BY <2>1, <2>2, <2>3 DEF DInv, MapTypes
<1>2. MapHoldsRunning' /\ NoEngineLeaks'
  BY <1>1 DEF DInv, MapHoldsRunning, NoEngineLeaks
<1>3. ASSUME NEW m \in DataModels, Poll(w, m) PROVE MapTypes' /\ WatchesOpened'
  <2>1. /\ m \in live /\ watches' = [watches EXCEPT ![w] = m]
        /\ UNCHANGED <<old, cleaning>>
    BY <1>3 DEF Poll, Track
  <2>2. MapTypes'
    BY <1>1, <2>1 DEF DInv, MapTypes
  <2>3. watches'[w] = m
    BY <2>1 DEF DInv, MapTypes
  <2>4. WatchesOpened'
    BY <1>1, <2>1, <2>3 DEF DInv, WatchesOpened
  <2> QED
    BY <2>2, <2>4
<1>4. ASSUME Compare(w) \/ ReadOld(w) \/ Trigger(w) \/ Done(w) PROVE MapTypes' /\ WatchesOpened'
  <2>1. at[w] # "idle" /\ watches' = watches
    BY <1>4 DEF Compare, ReadOld, Trigger, Done
  <2>2. cleaning' \in [Watchers -> SUBSET Types] /\ old' \in [Watchers -> Addresses \cup {None}]
    <3>1. TypeOf(w) \in Types
      BY <2>1, IsWatching
    <3>2. Forgotten \subseteq Types
      BY DEF Forgotten
    <3>3. CASE Compare(w)
      BY <3>2, <3>3 DEF Compare, DInv, MapTypes
    <3>4. CASE ReadOld(w)
      BY <3>1, <3>4 DEF ReadOld, DInv, MapTypes
    <3>5. CASE Trigger(w) \/ Done(w)
      BY <3>5 DEF Trigger, Done, DInv, MapTypes
    <3> QED
      BY <1>4, <3>3, <3>4, <3>5
  <2>3. MapTypes'
    BY <1>1, <2>1, <2>2 DEF DInv, MapTypes
  <2>4. WatchesOpened'
    BY <1>1, <2>1 DEF DInv, WatchesOpened
  <2> QED
    BY <2>3, <2>4
<1> QED
  BY <1>2, <1>3, <1>4 DEF MoveActions, DInv

LEMMA WriteKeeps ==
    ASSUME DInv, NEW w \in Watchers, CleanModel(w) \/ Publish(w) PROVE DInv'
<1>1. /\ UNCHANGED <<kindOf, addressOf, live, engineOf, madeFor, status, watches, old, cleaning>>
      /\ at' \in [Watchers -> {"idle", "polled", "cleaning", "replacing", "publishing",
                            "creating", "triggering", "scripts"}]
      /\ unlisting' \in [Watchers -> Types \cup {None}]
      /\ \A v \in Watchers : at'[v] = at[v] \/ (v = w /\ at[w] # "idle")
  BY DEF CleanModel, Publish, DInv, MapTypes
<1>2. current' \in [Types -> Addresses \cup {None}]
  <2>1. CASE CleanModel(w)
    BY <2>1 DEF CleanModel, DInv, MapTypes
  <2>2. CASE Publish(w)
    <3>1. at[w] # "idle"
      BY <2>2 DEF Publish
    <3> QED
      BY <2>2, <3>1, IsWatching DEF Publish, DInv, MapTypes
  <2> QED
    BY <2>1, <2>2
<1>3. MapTypes' /\ WatchesOpened'
  BY <1>1, <1>2 DEF DInv, MapTypes, WatchesOpened
<1> QED
  BY <1>1, <1>3 DEF DInv, MapHoldsRunning, NoEngineLeaks

LEMMA CreateKeeps == ASSUME DInv, NEW w \in Watchers, Create(w) PROVE DInv'
<1> DEFINE t == TypeOf(w)
<1>1. at[w] = "creating" /\ t \in Types /\ watches[w] \in DataModels
  BY IsWatching DEF Create
<1>2. /\ UNCHANGED <<kindOf, addressOf, live, current, watches, old, cleaning, unlisting>>
      /\ at' \in [Watchers -> {"idle", "polled", "cleaning", "replacing", "publishing",
                            "creating", "triggering", "scripts"}]
      /\ \A v \in Watchers : v # w => at'[v] = at[v]
  BY DEF Create, DInv, MapTypes
<1>3. WatchesOpened'
  BY <1>1, <1>2 DEF DInv, WatchesOpened
<1>4. CASE UNCHANGED <<engineOf, madeFor, status>>
  BY <1>2, <1>3, <1>4 DEF DInv, MapTypes, MapHoldsRunning, NoEngineLeaks
<1>5. ASSUME NEW e \in Engines, engineOf[t] = None, MakeEngine(w, e) PROVE DInv'
  <2>1. /\ status[e] = "none" /\ engineOf' = [engineOf EXCEPT ![t] = e]
        /\ madeFor' = [madeFor EXCEPT ![e] = watches[w]] /\ status' = [status EXCEPT ![e] = "running"]
    BY <1>5 DEF MakeEngine
  <2> HIDE DEF t
  <2>2. MapTypes'
    BY <1>1, <1>2, <2>1 DEF DInv, MapTypes
  <2>3. /\ \A u \in Types : engineOf'[u] = IF u = t THEN e ELSE engineOf[u]
        /\ \A d \in Engines : status'[d] = IF d = e THEN "running" ELSE status[d]
    BY <2>1 DEF DInv, MapTypes
  <2>4. \A u \in Types : engineOf[u] # e
    BY <2>1 DEF DInv, MapHoldsRunning
  <2>5. MapHoldsRunning'
    <3>1. \A u \in Types : engineOf[u] \in Engines \cup {None}
      BY DEF DInv, MapTypes
    <3>2. \A u \in Types : engineOf'[u] # None => status'[engineOf'[u]] = "running"
      BY <2>3, <3>1 DEF DInv, MapHoldsRunning
    <3>3. \A u, v \in Types : engineOf'[u] # None /\ engineOf'[v] = engineOf'[u] => u = v
      BY <2>3, <2>4 DEF DInv, MapHoldsRunning
    <3> QED
      BY <3>2, <3>3 DEF MapHoldsRunning
  <2>6. NoEngineLeaks'
    BY <1>1, <1>5, <2>3 DEF DInv, NoEngineLeaks
  <2> QED
    BY <1>3, <2>2, <2>5, <2>6 DEF DInv
<1> QED
  BY <1>4, <1>5 DEF Create

LEMMA EndKeeps == ASSUME DInv, OtherEnds PROVE DInv'
<1>1. UNCHANGED <<kindOf, addressOf, live, current, madeFor, at, watches, old, cleaning, unlisting>>
  BY DEF OtherEnds, CleanOrphan, EngineDown, ShutdownEngines
<1>2. WatchesOpened'
  BY <1>1 DEF DInv, WatchesOpened
<1>3. ASSUME NEW t \in Types, CleanOrphan(t) PROVE DInv'
  <2>1. EraseEngine(t)
    BY <1>3 DEF CleanOrphan
  <2> QED
    BY <1>1, <1>2, <2>1, EraseKeepsMap DEF DInv, MapTypes
<1>4. ASSUME NEW e \in Engines, EngineDown(e) PROVE DInv'
  <2>1. status[e] = "erased" /\ status' = [status EXCEPT ![e] = "stopped"] /\ engineOf' = engineOf
    BY <1>4 DEF EngineDown
  <2>2. MapTypes' /\ \A d \in Engines : status'[d] = IF d = e THEN "stopped" ELSE status[d]
    BY <1>1, <2>1 DEF DInv, MapTypes
  <2>3. MapHoldsRunning'
    BY <2>1, <2>2 DEF DInv, MapHoldsRunning, MapTypes
  <2>4. NoEngineLeaks'
    BY <2>1, <2>2 DEF DInv, NoEngineLeaks
  <2> QED
    BY <1>2, <2>2, <2>3, <2>4 DEF DInv
<1>5. CASE ShutdownEngines
  <2>1. /\ engineOf' = [t \in Types |-> None]
        /\ status' = [e \in Engines |-> IF \E t \in Types : engineOf[t] = e THEN "stopped" ELSE status[e]]
    BY <1>5 DEF ShutdownEngines
  <2>2. MapTypes'
    <3>1. status' \in [Engines -> {"none", "running", "erased", "stopped"}]
      BY <2>1 DEF DInv, MapTypes
    <3> QED
      BY <1>1, <2>1, <3>1 DEF DInv, MapTypes
  <2>3. MapHoldsRunning'
    BY <2>1 DEF MapHoldsRunning
  <2>4. NoEngineLeaks'
    BY <2>1 DEF DInv, NoEngineLeaks
  <2> QED
    BY <1>2, <2>2, <2>3, <2>4 DEF DInv
<1> QED
  BY <1>3, <1>4, <1>5 DEF OtherEnds

--------------------------------------------------------------------------------
(* The rest of TypeOK. *)
RestTypes ==
    /\ tracked \in [Types -> Addresses \cup {None}]
    /\ stale \subseteq Types
    /\ lapses \in 0 .. MaxLapses
    /\ throttled \in BOOLEAN
    /\ todo \in [Watchers -> SUBSET Mods]
    /\ orphans \subseteq Types
    /\ loaded \subseteq Mods
    /\ threadOf \in [Mods -> Engines \cup {None}]
    /\ down \in {"up", "flagged", "down"}
    /\ scheduled \subseteq [mod : Mods, type : Types, engine : Engines, thread : Engines]
    /\ triggered \in [DataModels -> Nat]
    /\ dropped \in [Types -> Nat]

LEMMA TypesByParts == TypeOK <=> MapTypes /\ RestTypes
BY DEF TypeOK, MapTypes, RestTypes

LEMMA RestTypesKept == ASSUME DInv, RestTypes, Next PROVE RestTypes'
<1> USE DEF RestTypes
<1>1. ASSUME NEW t \in Types, TimePasses(t) PROVE RestTypes'
  BY <1>1 DEF TimePasses
<1>2. CASE Frame \/ FindOrphans \/ ShutdownFlag
  BY <1>2 DEF Frame, FindOrphans, ShutdownFlag
<1>3. ASSUME NEW w \in Watchers, NEW m \in DataModels, Poll(w, m) \/ Glance(w, m) PROVE RestTypes'
  <2>1. kindOf[m] \in Types /\ addressOf[m] \in Addresses
    BY <1>3 DEF Poll, Glance, Track, DInv, MapTypes, WatchesOpened
  <2> QED
    BY <1>3, <2>1 DEF Poll, Glance, Track
<1>4. ASSUME NEW w \in Watchers, Compare(w) PROVE RestTypes'
  BY <1>4 DEF Compare, Forgotten
<1>5. ASSUME NEW w \in Watchers, ReadOld(w) \/ Replace(w) \/ CleanModel(w) \/ Publish(w) \/ Create(w)
      PROVE  RestTypes'
  <2>1. dropped' \in [Types -> Nat]
    BY <1>5 DEF ReadOld, Replace, CleanModel, Publish, Create
  <2> QED
    BY <1>5, <2>1 DEF ReadOld, Replace, CleanModel, Publish, Create
<1>6. ASSUME NEW w \in Watchers, NEW t \in Types, CleanEngine(w, t) PROVE RestTypes'
  BY <1>6 DEF CleanEngine
<1>7. ASSUME NEW w \in Watchers, Trigger(w) \/ Done(w) PROVE RestTypes'
  <2>1. CASE Trigger(w)
    <3>1. watches[w] \in DataModels /\ {d \in loaded : <<d, TypeOf(w)>> \in ScriptsFor} \subseteq Mods
      BY <2>1, IsWatching DEF Trigger
    <3>2. todo' \in [Watchers -> SUBSET Mods]
      BY <2>1, <3>1 DEF Trigger
    <3>3. triggered' \in [DataModels -> Nat]
      BY <2>1, <3>1 DEF Trigger
    <3> QED
      BY <2>1, <3>2, <3>3 DEF Trigger
  <2>2. CASE Done(w)
    BY <2>2 DEF Done
  <2> QED
    BY <1>7, <2>1, <2>2
<1>8. ASSUME NEW w \in Watchers, NEW d \in Mods, GiveThread(w, d) \/ ScheduleMod(w, d) PROVE RestTypes'
  <2>1. engineOf[TypeOf(w)] \in Engines \cup {None}
    BY <1>8, IsWatching DEF GiveThread, ScheduleMod, DInv, MapTypes
  <2>2. CASE GiveThread(w, d)
    BY <2>1, <2>2 DEF GiveThread
  <2>3. CASE ScheduleMod(w, d)
    <3>1. /\ threadOf[d] \in Engines
          /\ Hosts(w, d) \subseteq Engines /\ TypeOf(w) \in Types
      BY <2>1, <2>3, IsWatching DEF ScheduleMod, Hosts
    <3>2. {[mod |-> d, type |-> TypeOf(w), engine |-> e, thread |-> threadOf[d]] : e \in Hosts(w, d)}
             \subseteq [mod : Mods, type : Types, engine : Engines, thread : Engines]
      BY <3>1
    <3> QED
      BY <2>3, <3>2 DEF ScheduleMod
  <2> QED
    BY <1>8, <2>2, <2>3
<1>9. ASSUME NEW d \in Mods, Unload(d) \/ Reload(d) PROVE RestTypes'
  BY <1>9 DEF Unload, Reload
<1>10. CASE GameActions
  BY <1>10 DEF GameActions, Close, Open
<1>11. CASE OtherEnds
  BY <1>11 DEF OtherEnds, CleanOrphan, EngineDown, ShutdownEngines
<1> QED
  BY <1>1, <1>2, <1>3, <1>4, <1>5, <1>6, <1>7, <1>8, <1>9, <1>10, <1>11, ByKind
  DEF StillActions, EraseActions, MoveActions

LEMMA DInit == Init => DInv /\ RestTypes
<1> SUFFICES ASSUME Init PROVE DInv /\ RestTypes
  OBVIOUS
<1>1. MapTypes
  BY DEF Init, MapTypes
<1>2. WatchesOpened /\ MapHoldsRunning /\ NoEngineLeaks
  BY DEF Init, WatchesOpened, MapHoldsRunning, NoEngineLeaks
<1>3. RestTypes
  <2>1. lapses \in 0 .. MaxLapses
    BY DEF Init
  <2>2. /\ tracked \in [Types -> Addresses \cup {None}] /\ stale \subseteq Types
        /\ todo \in [Watchers -> SUBSET Mods] /\ threadOf \in [Mods -> Engines \cup {None}]
        /\ triggered \in [DataModels -> Nat] /\ dropped \in [Types -> Nat]
    BY DEF Init
  <2>3. /\ throttled \in BOOLEAN /\ orphans \subseteq Types /\ loaded \subseteq Mods
        /\ down \in {"up", "flagged", "down"}
        /\ scheduled \subseteq [mod : Mods, type : Types, engine : Engines, thread : Engines]
    BY DEF Init
  <2> QED
    BY <2>1, <2>2, <2>3 DEF RestTypes
<1> QED
  BY <1>1, <1>2, <1>3 DEF DInv

LEMMA DNext == DInv /\ RestTypes /\ [Next]_vars => DInv' /\ RestTypes'
<1> SUFFICES ASSUME DInv, RestTypes, [Next]_vars PROVE DInv' /\ RestTypes'
  OBVIOUS
<1>1. CASE UNCHANGED vars
  <2>1. Still /\ RestTypes'
    BY <1>1 DEF vars, Still, RestTypes
  <2> QED
    BY <2>1, StillKeeps
<1>2. CASE Next
  <2>1. stale \subseteq Types
    BY DEF RestTypes
  <2>2. ASSUME NEW w \in Watchers,
               EraseActions(w) \/ MoveActions(w) \/ CleanModel(w) \/ Publish(w) \/ Create(w)
        PROVE  DInv'
    <3>1. CASE EraseActions(w)
      BY <3>1, EraseKeeps
    <3>2. CASE MoveActions(w)
      BY <2>1, <3>2, MoveKeeps
    <3>3. CASE CleanModel(w) \/ Publish(w)
      BY <3>3, WriteKeeps
    <3>4. CASE Create(w)
      BY <3>4, CreateKeeps
    <3> QED
      BY <2>2, <3>1, <3>2, <3>3, <3>4
  <2>3. ASSUME StillActions \/ GameActions \/ OtherEnds PROVE DInv'
    <3>1. CASE StillActions
      BY <3>1, StillIsStill, StillKeeps
    <3>2. CASE GameActions
      BY <3>2, GameKeeps
    <3>3. CASE OtherEnds
      BY <3>3, EndKeeps
    <3> QED
      BY <2>3, <3>1, <3>2, <3>3
  <2>4. DInv'
    BY <1>2, <2>2, <2>3, ByKind
  <2> QED
    BY <1>2, <2>4, RestTypesKept
<1> QED
  BY <1>1, <1>2

(* The inductive invariant of the map of engines. *)
THEOREM EnginesKept == Spec => [](DInv /\ RestTypes)
BY DInit, DNext, PTL DEF Spec

(* Every variable keeps its type. *)
THEOREM Typed == Spec => []TypeOK
<1>1. DInv /\ RestTypes => TypeOK
  BY TypesByParts DEF DInv
<1> QED
  BY <1>1, EnginesKept, PTL

(* The engines in the map run, each for one type, whatever cleanups, orphan cleanups,
   replacements and shutdowns race each other. *)
THEOREM MapRuns == Spec => []MapHoldsRunning
<1>1. DInv => MapHoldsRunning
  BY DEF DInv
<1> QED
  BY <1>1, EnginesKept, PTL

(* No engine that runs is out of the map. *)
THEOREM NoneLeaks == Spec => []NoEngineLeaks
<1>1. DInv => NoEngineLeaks
  BY DEF DInv
<1> QED
  BY <1>1, EnginesKept, PTL
--------------------------------------------------------------------------------
(* Which DataModel an engine was made for is known from the start of the engine on,
   and the map has it under that DataModel's type. *)
Known ==
    /\ \A e \in Engines : status[e] = "none" <=> madeFor[e] = None
    /\ \A e \in Engines : madeFor[e] # None => kindOf[madeFor[e]] # None
    /\ \A t \in Types : engineOf[t] # None => SlotOf[engineOf[t]] = t

LEMMA RunningSlot ==
    ASSUME DInv, Known, NEW e \in Engines, status[e] = "running"
    PROVE  SlotOf[e] \in Types /\ engineOf[SlotOf[e]] = e
<1>1. PICK t \in Types : engineOf[t] = e
  BY DEF DInv, NoEngineLeaks
<1>2. e # None
  BY DEF Engines
<1>3. SlotOf[e] = t
  BY <1>1, <1>2 DEF Known
<1> QED
  BY <1>1, <1>3

(* A step that gives no engine a DataModel, and opens none, leaves the types of the
   engines as they are. *)
LEMMA SameIsKnown ==
    ASSUME Known, UNCHANGED <<kindOf, madeFor>>,
           \A e \in Engines : status'[e] = "none" <=> status[e] = "none",
           \A t \in Types : engineOf'[t] = engineOf[t] \/ engineOf'[t] = None
    PROVE  Known' /\ SlotOf' = SlotOf
BY DEF Known, SlotOf

LEMMA EraseSlots ==
    ASSUME DInv, Known, NEW t \in Types, EraseEngine(t), UNCHANGED <<kindOf, madeFor>>
    PROVE  Known' /\ [Slots!Next]_(Slots!vars)
<1>1. /\ \A e \in Engines : status'[e] = "none" <=> status[e] = "none"
      /\ \A u \in Types : engineOf'[u] = engineOf[u] \/ engineOf'[u] = None
  BY EraseKeepsMap
<1>2. Known' /\ SlotOf' = SlotOf
  BY <1>1, SameIsKnown
<1>3. CASE engineOf[t] = None
  <2>1. status' = status
    BY <1>3 DEF EraseEngine, DInv, MapTypes
  <2> QED
    BY <1>2, <2>1 DEF Slots!vars
<1>4. CASE engineOf[t] # None
  <2>1. engineOf[t] \in Engines /\ status[engineOf[t]] = "running"
    BY <1>4 DEF DInv, MapTypes, MapHoldsRunning
  <2>2. status' = [status EXCEPT ![engineOf[t]] = "erased"]
    BY <2>1 DEF EraseEngine, DInv, MapTypes
  <2>3. Slots!Retire(engineOf[t])
    BY <1>2, <2>1, <2>2 DEF Slots!Retire, Slots!Running
  <2> QED
    BY <1>2, <2>1, <2>3 DEF Slots!Next
<1> QED
  BY <1>3, <1>4

LEMMA CreateSlots ==
    ASSUME DInv, Known, NEW w \in Watchers, Create(w)
    PROVE  Known' /\ [Slots!Next]_(Slots!vars)
<1> DEFINE t == TypeOf(w)
<1>1. t \in Types /\ watches[w] \in DataModels /\ kindOf[watches[w]] = t /\ kindOf' = kindOf
  BY IsWatching DEF Create, TypeOf
<1>2. CASE UNCHANGED <<engineOf, madeFor, status>>
  BY <1>1, <1>2 DEF Known, SlotOf, Slots!vars
<1>3. ASSUME NEW e \in Engines, engineOf[t] = None, MakeEngine(w, e)
      PROVE  Known' /\ Slots!Next
  <2>1. /\ status[e] = "none" /\ engineOf' = [engineOf EXCEPT ![t] = e]
        /\ madeFor' = [madeFor EXCEPT ![e] = watches[w]] /\ status' = [status EXCEPT ![e] = "running"]
    BY <1>3 DEF MakeEngine
  <2> HIDE DEF t
  <2>2. /\ \A u \in Types : engineOf'[u] = IF u = t THEN e ELSE engineOf[u]
        /\ \A d \in Engines : madeFor'[d] = IF d = e THEN watches[w] ELSE madeFor[d]
        /\ \A d \in Engines : status'[d] = IF d = e THEN "running" ELSE status[d]
    BY <2>1 DEF DInv, MapTypes
  <2>3. watches[w] # None /\ t # None
    BY <1>1
  <2>4. \A d \in Engines : SlotOf'[d] = IF d = e THEN t ELSE SlotOf[d]
    BY <1>1, <2>2, <2>3 DEF SlotOf
  <2>5. SlotOf' = [SlotOf EXCEPT ![e] = t]
    <3>1. SlotOf = [d \in Engines |-> SlotOf[d]] /\ SlotOf' = [d \in Engines |-> SlotOf'[d]]
      BY DEF SlotOf
    <3> QED
      BY <2>4, <3>1
  <2>6. Slots!Start(e, t)
    <3>1. \A d \in Engines : status[d] = "running" => SlotOf[d] # t
      BY <1>3, RunningSlot
    <3> QED
      BY <2>1, <2>5, <3>1 DEF Slots!Start, Slots!Running
  <2>7. Known'
    <3>1. \A d \in Engines : /\ status'[d] = "none" <=> madeFor'[d] = None
                             /\ madeFor'[d] # None => kindOf'[madeFor'[d]] # None
      BY <1>1, <2>2, <2>3 DEF Known
    <3>2. \A u \in Types : engineOf[u] # None => engineOf[u] \in Engines /\ engineOf[u] # e
      BY <2>1 DEF DInv, MapTypes, MapHoldsRunning
    <3>3. \A u \in Types : engineOf'[u] # None => SlotOf'[engineOf'[u]] = u
      BY <2>2, <2>4, <3>2 DEF Known
    <3> QED
      BY <3>1, <3>3 DEF Known
  <2> QED
    BY <1>1, <2>6, <2>7 DEF Slots!Next
<1> QED
  BY <1>2, <1>3 DEF Create

LEMMA OpenSlots ==
    ASSUME DInv, Known, NEW m \in DataModels, NEW t \in Types, NEW a \in Addresses, Open(m, t, a)
    PROVE  Known' /\ UNCHANGED Slots!vars
<1>1. /\ kindOf[m] = None /\ UNCHANGED <<engineOf, madeFor, status>>
      /\ \A d \in DataModels : kindOf'[d] = IF d = m THEN t ELSE kindOf[d]
  BY DEF Open, DInv, MapTypes
<1>2. \A e \in Engines : madeFor[e] # None => madeFor[e] \in DataModels /\ madeFor[e] # m
  BY <1>1 DEF Known, DInv, MapTypes
<1>3. SlotOf' = SlotOf
  BY <1>1, <1>2 DEF SlotOf
<1> QED
  BY <1>1, <1>2, <1>3 DEF Known, Slots!vars

LEMMA EndSlots ==
    ASSUME DInv, Known, (\E e \in Engines : EngineDown(e)) \/ ShutdownEngines
    PROVE  Known' /\ [Slots!Next]_(Slots!vars)
<1>1. UNCHANGED <<kindOf, madeFor>>
  BY DEF EngineDown, ShutdownEngines
<1>2. ASSUME NEW e \in Engines, EngineDown(e) PROVE Known' /\ Slots!Next
  <2>1. /\ status[e] = "erased" /\ status' = [status EXCEPT ![e] = "stopped"] /\ engineOf' = engineOf
        /\ \A d \in Engines : status'[d] = "none" <=> status[d] = "none"
    BY <1>2 DEF EngineDown, DInv, MapTypes
  <2>2. Known' /\ SlotOf' = SlotOf
    BY <1>1, <2>1, SameIsKnown
  <2>3. Slots!Stop(e)
    BY <2>1, <2>2 DEF Slots!Stop
  <2> QED
    BY <2>2, <2>3 DEF Slots!Next
<1>3. CASE ShutdownEngines
  <2>1. /\ engineOf' = [t \in Types |-> None]
        /\ status' = [e \in Engines |-> IF \E t \in Types : engineOf[t] = e THEN "stopped" ELSE status[e]]
    BY <1>3 DEF ShutdownEngines
  <2>2. \A e \in Engines : (\E t \in Types : engineOf[t] = e) <=> status[e] = "running"
    BY DEF DInv, MapTypes, MapHoldsRunning, NoEngineLeaks
  <2>3. Known' /\ SlotOf' = SlotOf
    <3>1. \A e \in Engines : status'[e] = "none" <=> status[e] = "none"
      BY <2>1, <2>2
    <3> QED
      BY <1>1, <2>1, <3>1, SameIsKnown
  <2>4. Slots!StopAll
    BY <2>1, <2>2, <2>3 DEF Slots!StopAll, Slots!Running
  <2> QED
    BY <2>3, <2>4 DEF Slots!Next
<1> QED
  BY <1>2, <1>3

LEMMA SlotsNext == DInv /\ Known /\ [Next]_vars => Known' /\ [Slots!Next]_(Slots!vars)
<1> SUFFICES ASSUME DInv, Known, [Next]_vars PROVE Known' /\ [Slots!Next]_(Slots!vars)
  OBVIOUS
<1>1. ASSUME UNCHANGED <<kindOf, engineOf, madeFor, status>> PROVE Known' /\ UNCHANGED Slots!vars
  BY <1>1 DEF Known, SlotOf, Slots!vars
<1>2. CASE UNCHANGED vars \/ StillActions
  BY <1>1, <1>2, StillIsStill DEF vars, Still
<1>3. CASE GameActions
  <2>1. CASE \E m \in DataModels : Close(m)
    BY <1>1, <2>1 DEF Close
  <2> QED
    BY <1>3, <2>1, OpenSlots DEF GameActions
<1>4. CASE OtherEnds
  <2>1. ASSUME NEW t \in Types, CleanOrphan(t) PROVE Known' /\ [Slots!Next]_(Slots!vars)
    BY <2>1, EraseSlots DEF CleanOrphan
  <2> QED
    BY <1>4, <2>1, EndSlots DEF OtherEnds
<1>5. ASSUME NEW w \in Watchers, MoveActions(w) \/ CleanModel(w) \/ Publish(w)
      PROVE  Known' /\ [Slots!Next]_(Slots!vars)
  BY <1>1, <1>5 DEF MoveActions, Poll, Track, Compare, ReadOld, Trigger, Done, CleanModel, Publish
<1>6. ASSUME NEW w \in Watchers, EraseActions(w) PROVE Known' /\ [Slots!Next]_(Slots!vars)
  <2>1. TypeOf(w) \in Types /\ UNCHANGED <<kindOf, madeFor>>
    BY <1>6, IsWatching DEF EraseActions, CleanEngine, Replace
  <2>2. (\E t \in Types : EraseEngine(t)) \/ UNCHANGED <<engineOf, status>>
    BY <1>6, <2>1 DEF EraseActions, CleanEngine, Replace
  <2> QED
    BY <1>1, <2>1, <2>2, EraseSlots
<1>7. ASSUME NEW w \in Watchers, Create(w) PROVE Known' /\ [Slots!Next]_(Slots!vars)
  BY <1>7, CreateSlots
<1> QED
  BY <1>2, <1>3, <1>4, <1>5, <1>6, <1>7, ByKind

(* The whole of DataModels, watchers, cleanups and shutdown implements the promise of
   one engine for each type, with any number of watching threads: a type has at most
   one running engine, an engine keeps the type it was made for although addresses
   are used again, and an engine once taken is stopped and never runs again. *)
THEOREM SlotsImplemented == Spec => ImplementsSlots
<1>1. Init => Slots!Init /\ Known
  <2> SUFFICES ASSUME Init PROVE Slots!Init /\ Known
    OBVIOUS
  <2>1. Slots!Init
    BY DEF Init, SlotOf, Slots!Init
  <2>2. Known
    BY DEF Init, Known
  <2> QED
    BY <2>1, <2>2
<1>2. DInv /\ Known /\ [Next]_vars => Known' /\ [Slots!Next]_(Slots!vars)
  BY SlotsNext
<1> QED
  BY <1>1, <1>2, EnginesKept, PTL DEF Spec, ImplementsSlots, Slots!Spec

--------------------------------------------------------------------------------
(* What a step keeps that begins no step of a watcher and starts no engine. *)
LEMMA BegunStay ==
    ASSUME OnlyBegunRemain, UNCHANGED <<madeFor, watches>>, down' = "down" => down = "down",
           \A e \in Engines : status'[e] = "running" => status[e] = "running",
           \A w \in Watchers : at[w] \in {"triggering", "scripts", "idle"}
                                   => at'[w] \in {"triggering", "scripts", "idle"}
    PROVE  OnlyBegunRemain'
BY DEF OnlyBegunRemain

LEMMA BegunNext == DInv /\ OnlyBegunRemain /\ [Next]_vars => OnlyBegunRemain'
<1> SUFFICES ASSUME DInv, OnlyBegunRemain, [Next]_vars PROVE OnlyBegunRemain'
  OBVIOUS
<1>1. CASE UNCHANGED vars \/ StillActions \/ GameActions
  <2>1. UNCHANGED <<madeFor, watches, status, at>> /\ (down' = "down" => down = "down")
    BY <1>1 DEF vars, StillActions, GameActions, Close, Open, Frame, FindOrphans, ShutdownFlag,
         TimePasses, Glance, Track, GiveThread, ScheduleMod, Unload, Reload
  <2> QED
    BY <2>1, BegunStay
<1>2. ASSUME NEW t \in Types, EraseEngine(t), UNCHANGED <<madeFor, watches, down>>,
             \A w \in Watchers : at[w] \in {"triggering", "scripts", "idle"}
                                   => at'[w] \in {"triggering", "scripts", "idle"}
      PROVE  OnlyBegunRemain'
  <2>1. \A e \in Engines : status'[e] = "running" => status[e] = "running"
    BY <1>2 DEF EraseEngine
  <2> QED
    BY <1>2, <2>1, BegunStay
<1>3. CASE OtherEnds
  <2>1. CASE \E t \in Types : CleanOrphan(t)
    BY <1>2, <2>1 DEF CleanOrphan
  <2>2. ASSUME NEW e \in Engines, EngineDown(e) PROVE OnlyBegunRemain'
    <3>1. UNCHANGED <<madeFor, watches, down, at>>
      BY <2>2 DEF EngineDown
    <3>2. \A d \in Engines : status'[d] = "running" => status[d] = "running"
      BY <2>2 DEF EngineDown, DInv, MapTypes
    <3> QED
      BY <3>1, <3>2, BegunStay
  <2>3. CASE ShutdownEngines
    <3>1. \A e \in Engines : status'[e] # "running"
      BY <2>3 DEF ShutdownEngines, DInv, NoEngineLeaks
    <3> QED
      BY <3>1 DEF OnlyBegunRemain
  <2> QED
    BY <1>3, <2>1, <2>2, <2>3 DEF OtherEnds
<1>4. ASSUME NEW w \in Watchers, EraseActions(w) PROVE OnlyBegunRemain'
  <2>1. /\ TypeOf(w) \in Types /\ UNCHANGED <<madeFor, watches, down>>
        /\ \A v \in Watchers : at[v] \in {"triggering", "scripts", "idle"}
                                   => at'[v] \in {"triggering", "scripts", "idle"}
    BY <1>4, IsWatching DEF EraseActions, CleanEngine, Replace, DInv, MapTypes
  <2>2. (\E t \in Types : EraseEngine(t)) \/ UNCHANGED <<engineOf, status>>
    BY <1>4, <2>1 DEF EraseActions, CleanEngine, Replace
  <2>3. CASE UNCHANGED <<engineOf, status>>
    BY <2>1, <2>3, BegunStay
  <2> QED
    BY <1>2, <2>1, <2>2, <2>3
<1>5. ASSUME NEW w \in Watchers, NEW m \in DataModels, Poll(w, m) PROVE OnlyBegunRemain'
  BY <1>5 DEF Poll, Track, OnlyBegunRemain
<1>6. ASSUME NEW w \in Watchers,
             Compare(w) \/ ReadOld(w) \/ Trigger(w) \/ Done(w) \/ CleanModel(w) \/ Publish(w)
      PROVE  OnlyBegunRemain'
  <2>1. /\ UNCHANGED <<madeFor, watches, status, down>>
        /\ \A v \in Watchers : at[v] \in {"triggering", "scripts", "idle"}
                                   => at'[v] \in {"triggering", "scripts", "idle"}
    BY <1>6 DEF Compare, ReadOld, Trigger, Done, CleanModel, Publish, DInv, MapTypes
  <2> QED
    BY <2>1, BegunStay
<1>7. ASSUME NEW w \in Watchers, Create(w) PROVE OnlyBegunRemain'
  <2>1. /\ UNCHANGED <<watches, down>> /\ at'[w] = "triggering" /\ TypeOf(w) \in Types
        /\ \A v \in Watchers : at[v] \in {"triggering", "scripts", "idle"}
                                   => at'[v] \in {"triggering", "scripts", "idle"}
    BY <1>7, IsWatching DEF Create, DInv, MapTypes
  <2>2. CASE UNCHANGED <<engineOf, madeFor, status>>
    BY <2>1, <2>2, BegunStay
  <2>3. ASSUME NEW e \in Engines, MakeEngine(w, e) PROVE OnlyBegunRemain'
    <3>1. \A d \in Engines : /\ madeFor'[d] = IF d = e THEN watches[w] ELSE madeFor[d]
                             /\ status'[d] = IF d = e THEN "running" ELSE status[d]
      BY <2>3 DEF MakeEngine, DInv, MapTypes
    <3> QED
      BY <2>1, <3>1 DEF OnlyBegunRemain
  <2> QED
    BY <1>7, <2>2, <2>3 DEF Create
<1> QED
  BY <1>1, <1>3, <1>4, <1>5, <1>6, <1>7, ByKind DEF MoveActions

(* What the shutdown of all engines leaves running is bounded, for any number of
   watching threads: an engine a thread makes whose step had begun before, for the
   DataModel it was stepping. *)
THEOREM BegunRemain == Spec => []OnlyBegunRemain
<1>1. Init => OnlyBegunRemain
  BY DEF Init, OnlyBegunRemain
<1> QED
  BY <1>1, BegunNext, EnginesKept, PTL DEF Spec

--------------------------------------------------------------------------------
(* What set_data_model relies on without any lock: the game has one DataModel of a
   type, does not close one that is being stepped, and steps one on one thread at a
   time; so no two threads are on the way for one type. *)
Apart ==
    /\ \A d, m \in live : kindOf[d] = kindOf[m] => d = m
    /\ \A w \in Watchers : at[w] # "idle" => watches[w] \in live
    /\ \A v, w \in Watchers :
         at[v] # "idle" /\ at[w] # "idle" /\ watches[v] = watches[w] => v = w

LEMMA ApartTypes ==
    ASSUME Apart, NEW v \in Watchers, NEW w \in Watchers, at[v] # "idle", at[w] # "idle",
           TypeOf(v) = TypeOf(w)
    PROVE  v = w
BY DEF Apart, TypeOf

LEMMA ApartKept == ASSUME DInv, Apart, [Next]_vars PROVE Apart'
<1>1. ASSUME UNCHANGED <<kindOf, live, watches>>,
             \A w \in Watchers : at[w] = "idle" => at'[w] = "idle"
      PROVE  Apart'
  BY <1>1 DEF Apart
<1>2. CASE UNCHANGED vars \/ StillActions
  BY <1>1, <1>2, StillIsStill DEF vars, Still
<1>3. ASSUME NEW m \in DataModels, Close(m) PROVE Apart'
  BY <1>3 DEF Close, Apart
<1>4. ASSUME NEW m \in DataModels, NEW t \in Types, NEW a \in Addresses, Open(m, t, a) PROVE Apart'
  <2>1. /\ \A d \in live : d \in DataModels /\ d # m /\ kindOf[d] # t
        /\ live' = live \cup {m} /\ UNCHANGED <<at, watches>>
        /\ \A d \in DataModels : kindOf'[d] = IF d = m THEN t ELSE kindOf[d]
    BY <1>4 DEF Open, DInv, MapTypes, WatchesOpened
  <2> QED
    BY <2>1 DEF Apart
<1>5. ASSUME NEW w \in Watchers, NEW m \in DataModels, Poll(w, m) PROVE Apart'
  <2>1. /\ m \in live /\ UNCHANGED <<kindOf, live>>
        /\ \A v \in Watchers : watches[v] = m => at[v] = "idle"
        /\ \A v \in Watchers : at'[v] = IF v = w THEN "polled" ELSE at[v]
        /\ \A v \in Watchers : watches'[v] = IF v = w THEN m ELSE watches[v]
    BY <1>5 DEF Poll, Track, DInv, MapTypes
  <2> QED
    BY <2>1 DEF Apart
<1>6. CASE OtherEnds
  BY <1>1, <1>6 DEF OtherEnds, CleanOrphan, EngineDown, ShutdownEngines
<1>7. ASSUME NEW w \in Watchers, NEW t \in Types, CleanEngine(w, t) PROVE Apart'
  BY <1>1, <1>7 DEF CleanEngine
<1>8. ASSUME NEW w \in Watchers,
             \/ Compare(w) \/ ReadOld(w) \/ Trigger(w) \/ Done(w) \/ Replace(w)
             \/ CleanModel(w) \/ Publish(w) \/ Create(w)
      PROVE  Apart'
  <2>1. /\ UNCHANGED <<kindOf, live, watches>>
        /\ \A v \in Watchers : at[v] = "idle" => at'[v] = "idle"
    BY <1>8 DEF Compare, ReadOld, Trigger, Done, Replace, CleanModel, Publish, Create, DInv, MapTypes
  <2> QED
    BY <1>1, <2>1
<1> QED
  BY <1>2, <1>3, <1>4, <1>5, <1>6, <1>7, <1>8, ByKind DEF GameActions, EraseActions, MoveActions

(* What a thread on the way has found or made, still so when it takes the next lock:
   others take entries out of the two maps, and only it puts one in for its type. *)
OnTheWay(w) ==
    /\ at[w] \in {"cleaning", "replacing", "publishing"} =>
         current[TypeOf(w)] # addressOf[watches[w]]
    /\ at[w] = "replacing" => current[TypeOf(w)] \in {old[w], None}
    /\ at[w] = "publishing" => engineOf[TypeOf(w)] = None \/ current[TypeOf(w)] = None
    /\ at[w] = "creating" => current[TypeOf(w)] \in {None, addressOf[watches[w]]}
Way == \A w \in Watchers : OnTheWay(w)

(* A thread is not disturbed by what others do to the types of other DataModels, nor
   by what is taken out of the maps for its own. *)
LEMMA WayOfOthers ==
    ASSUME DInv, NEW v \in Watchers, OnTheWay(v), at[v] # "idle",
           at'[v] = at[v], watches'[v] = watches[v], old'[v] = old[v],
           kindOf'[watches[v]] = kindOf[watches[v]], addressOf'[watches[v]] = addressOf[watches[v]],
           engineOf'[TypeOf(v)] \in {engineOf[TypeOf(v)], None},
           current'[TypeOf(v)] \in {current[TypeOf(v)], None}
    PROVE  OnTheWay(v)'
<1>1. addressOf[watches[v]] # None
  BY IsWatching
<1>2. TypeOf(v)' = TypeOf(v)
  BY DEF TypeOf
<1> QED
  BY <1>1, <1>2 DEF OnTheWay

LEMMA WayOfIdle ==
    ASSUME NEW v \in Watchers, at'[v] \in {"idle", "polled", "triggering", "scripts"}
    PROVE  OnTheWay(v)'
BY DEF OnTheWay

(* The steps of a thread w leave the others where they are. *)
LEMMA WaysOfTheRest ==
    ASSUME DInv, Apart, Way, NEW w \in Watchers, at[w] # "idle",
           UNCHANGED <<kindOf, addressOf, watches>>,
           \A v \in Watchers : v # w => at'[v] = at[v] /\ old'[v] = old[v],
           \A t \in Types : t # TypeOf(w) => /\ engineOf'[t] \in {engineOf[t], None}
                                             /\ current'[t] \in {current[t], None},
           OnTheWay(w)'
    PROVE  Way'
<1>1. ASSUME NEW v \in Watchers, v # w PROVE OnTheWay(v)'
  <2>1. CASE at[v] = "idle"
    BY <1>1, <2>1, WayOfIdle
  <2>2. CASE at[v] # "idle"
    <3>1. TypeOf(v) # TypeOf(w) /\ TypeOf(v) \in Types
      BY <1>1, <2>2, ApartTypes, IsWatching
    <3> QED
      BY <1>1, <2>2, <3>1, WayOfOthers DEF Way
  <2> QED
    BY <2>1, <2>2
<1> QED
  BY <1>1 DEF Way

LEMMA WayOfTakers ==
    ASSUME DInv, Way, UNCHANGED <<kindOf, addressOf, at, watches, old>>,
           \A t \in Types : /\ engineOf'[t] \in {engineOf[t], None}
                            /\ current'[t] \in {current[t], None}
    PROVE  Way'
<1>1. ASSUME NEW v \in Watchers PROVE OnTheWay(v)'
  <2>1. CASE at[v] = "idle"
    BY <2>1, WayOfIdle
  <2>2. CASE at[v] # "idle"
    <3>1. TypeOf(v) \in Types
      BY <2>2, IsWatching
    <3> QED
      BY <2>2, <3>1, WayOfOthers DEF Way
  <2> QED
    BY <2>1, <2>2
<1> QED
  BY <1>1 DEF Way

LEMMA WayOfOpen ==
    ASSUME DInv, Way, NEW m \in DataModels, NEW t \in Types, NEW a \in Addresses, Open(m, t, a)
    PROVE  Way'
<1>1. /\ UNCHANGED <<at, watches, old, engineOf, current>>
      /\ \A d \in DataModels : kindOf[d] # None => kindOf'[d] = kindOf[d] /\ addressOf'[d] = addressOf[d]
  BY DEF Open, DInv, MapTypes
<1>2. ASSUME NEW v \in Watchers PROVE OnTheWay(v)'
  <2>1. CASE at[v] = "idle"
    BY <1>1, <2>1, WayOfIdle
  <2>2. CASE at[v] # "idle"
    <3>1. watches[v] \in DataModels /\ kindOf[watches[v]] # None
      BY <2>2, IsWatching DEF DInv, WatchesOpened
    <3> QED
      BY <1>1, <2>2, <3>1, WayOfOthers DEF Way
  <2> QED
    BY <2>1, <2>2
<1> QED
  BY <1>2 DEF Way

LEMMA WayOfPoll ==
    ASSUME DInv, Way, NEW w \in Watchers, NEW m \in DataModels, Poll(w, m)
    PROVE  Way'
<1>1. /\ UNCHANGED <<kindOf, addressOf, old, engineOf, current>> /\ at'[w] = "polled"
      /\ \A v \in Watchers : v # w => at'[v] = at[v] /\ watches'[v] = watches[v]
  BY DEF Poll, Track, DInv, MapTypes
<1>2. ASSUME NEW v \in Watchers, v # w PROVE OnTheWay(v)'
  <2>1. CASE at[v] = "idle"
    BY <1>1, <1>2, <2>1, WayOfIdle
  <2>2. CASE at[v] # "idle"
    BY <1>1, <1>2, <2>2, WayOfOthers DEF Way
  <2> QED
    BY <2>1, <2>2
<1> QED
  BY <1>1, <1>2, WayOfIdle DEF Way

(* The locks one by one. *)
LEMMA WayOfStep ==
    ASSUME DInv, Apart, Way, NEW w \in Watchers,
           Compare(w) \/ ReadOld(w) \/ Replace(w) \/ Publish(w) \/ Create(w) \/ Trigger(w) \/ Done(w)
    PROVE  Way'
<1>1. at[w] # "idle" /\ UNCHANGED <<kindOf, addressOf, watches>> /\ TypeOf(w)' = TypeOf(w)
  BY DEF Compare, ReadOld, Replace, Publish, Create, Trigger, Done, TypeOf
<1>2. TypeOf(w) \in Types /\ OnTheWay(w)
  BY <1>1, IsWatching DEF Way
<1>3. \A v \in Watchers : v # w => at'[v] = at[v] /\ old'[v] = old[v]
  BY DEF Compare, ReadOld, Replace, Publish, Create, Trigger, Done, DInv, MapTypes
<1>4. \A t \in Types : t # TypeOf(w) => engineOf'[t] = engineOf[t] /\ current'[t] = current[t]
  BY DEF Compare, ReadOld, Replace, Publish, Create, MakeEngine, EraseEngine, Trigger, Done, DInv,
     MapTypes
<1>5. OnTheWay(w)'
  <2>1. CASE Compare(w)
    <3>1. UNCHANGED current /\ (at'[w] = "idle" \/ (at'[w] = "cleaning" /\ ~Same(w)))
      BY <2>1 DEF Compare, DInv, MapTypes
    <3> QED
      BY <1>1, <3>1 DEF OnTheWay, Same
  <2>2. CASE ReadOld(w)
    <3>1. /\ at[w] = "cleaning" /\ at'[w] = "replacing" /\ UNCHANGED current
          /\ old'[w] = current[TypeOf(w)]
      BY <2>2 DEF ReadOld, DInv, MapTypes
    <3> QED
      BY <1>1, <1>2, <3>1 DEF OnTheWay
  <2>3. CASE Replace(w)
    <3>1. /\ at[w] = "replacing" /\ at'[w] = "publishing" /\ UNCHANGED current
          /\ old[w] \notin {None, addressOf[watches[w]]} => engineOf'[TypeOf(w)] = None
      BY <1>2, <2>3 DEF Replace, EraseEngine, DInv, MapTypes
    <3> QED
      BY <1>1, <1>2, <3>1 DEF OnTheWay
  <2>4. CASE Publish(w)
    <3>1. at'[w] = "creating" /\ current'[TypeOf(w)] = addressOf[watches[w]]
      BY <1>2, <2>4 DEF Publish, DInv, MapTypes
    <3> QED
      BY <1>1, <3>1 DEF OnTheWay
  <2>5. CASE Create(w) \/ Trigger(w) \/ Done(w)
    <3>1. at'[w] \in {"triggering", "scripts", "idle"}
      BY <2>5 DEF Create, Trigger, Done, DInv, MapTypes
    <3> QED
      BY <3>1, WayOfIdle
  <2> QED
    BY <2>1, <2>2, <2>3, <2>4, <2>5
<1> QED
  BY <1>1, <1>3, <1>4, <1>5, WaysOfTheRest

(* The steps that only take engines and DataModels out of the maps, or none. *)
LEMMA Takers ==
    ASSUME DInv, \/ UNCHANGED vars \/ StillActions \/ OtherEnds
                 \/ \E m \in DataModels : Close(m)
                 \/ \E w \in Watchers : CleanModel(w) \/ \E t \in Types : CleanEngine(w, t)
    PROVE  /\ UNCHANGED <<kindOf, addressOf, madeFor, at, watches, old>>
           /\ live' \subseteq live
           /\ \A t \in Types : /\ engineOf'[t] \in {engineOf[t], None}
                               /\ current'[t] \in {current[t], None}
<1>1. CASE UNCHANGED vars \/ StillActions
  BY <1>1, StillIsStill DEF vars, Still
<1>2. CASE OtherEnds
  BY <1>2 DEF OtherEnds, CleanOrphan, EraseEngine, EngineDown, ShutdownEngines, DInv, MapTypes
<1>3. ASSUME NEW m \in DataModels, Close(m)
      PROVE  /\ UNCHANGED <<kindOf, addressOf, madeFor, at, watches, old, engineOf, current>>
             /\ live' \subseteq live
  BY <1>3 DEF Close
<1>4. ASSUME NEW w \in Watchers, CleanModel(w)
      PROVE  /\ UNCHANGED <<kindOf, addressOf, madeFor, at, watches, old, engineOf, live>>
             /\ \A t \in Types : current'[t] \in {current[t], None}
  BY <1>4 DEF CleanModel, DInv, MapTypes
<1>5. ASSUME NEW w \in Watchers, NEW t \in Types, CleanEngine(w, t)
      PROVE  /\ UNCHANGED <<kindOf, addressOf, madeFor, at, watches, old, current, live>>
             /\ \A u \in Types : engineOf'[u] \in {engineOf[u], None}
  BY <1>5 DEF CleanEngine, EraseEngine, DInv, MapTypes
<1> QED
  BY <1>1, <1>2, <1>3, <1>4, <1>5

LEMMA BySteps ==
    [Next]_vars =>
        \/ UNCHANGED vars \/ StillActions \/ OtherEnds
        \/ \E m \in DataModels : Close(m)
        \/ \E w \in Watchers : CleanModel(w) \/ \E t \in Types : CleanEngine(w, t)
        \/ \E m \in DataModels, t \in Types, a \in Addresses : Open(m, t, a)
        \/ \E w \in Watchers, m \in DataModels : Poll(w, m)
        \/ \E w \in Watchers : \/ Compare(w) \/ ReadOld(w) \/ Replace(w) \/ Publish(w)
                               \/ Create(w) \/ Trigger(w) \/ Done(w)
BY ByKind DEF GameActions, EraseActions, MoveActions

LEMMA WayKept == ASSUME DInv, Apart, Way, [Next]_vars PROVE Way'
BY BySteps, Takers, WayOfTakers, WayOfOpen, WayOfPoll, WayOfStep

(* What an engine stands for changes only where it is published over nothing, or made
   for the DataModel that is published. *)
LEMMA SupersededStep ==
    ASSUME DInv, Known, Way, [Next]_vars, NEW t \in Types, Superseded(t)'
    PROVE  Superseded(t) \/ Orphan(t)
<1>1. /\ engineOf'[t] # None /\ current'[t] # None
      /\ current'[t] # addressOf'[madeFor'[engineOf'[t]]]
  BY DEF Superseded
<1>2. \A e \in Engines : madeFor[e] # None => madeFor[e] \in DataModels /\ kindOf[madeFor[e]] # None
  BY DEF DInv, MapTypes, Known
<1>3. engineOf[t] # None => engineOf[t] \in Engines /\ madeFor[engineOf[t]] # None
  <2>1. engineOf[t] # None => engineOf[t] \in Engines
    BY DEF DInv, MapTypes
  <2>2. engineOf[t] # None => SlotOf[engineOf[t]] = t /\ t # None
    BY DEF Known
  <2> QED
    BY <2>1, <2>2 DEF SlotOf
<1>4. CASE UNCHANGED <<addressOf, madeFor>> /\ engineOf'[t] \in {engineOf[t], None}
           /\ current'[t] \in {current[t], None}
  BY <1>1, <1>4 DEF Superseded
<1>5. ASSUME NEW m \in DataModels, NEW k \in Types, NEW a \in Addresses, Open(m, k, a)
      PROVE  Superseded(t)
  <2>1. /\ UNCHANGED <<engineOf, current, madeFor>>
        /\ \A d \in DataModels : kindOf[d] # None => addressOf'[d] = addressOf[d]
    BY <1>5 DEF Open, DInv, MapTypes
  <2> QED
    BY <1>1, <1>2, <1>3, <2>1 DEF Superseded
<1>6. ASSUME NEW w \in Watchers, Publish(w) PROVE Superseded(t) \/ Orphan(t)
  <2>1. /\ at[w] = "publishing" /\ UNCHANGED <<addressOf, engineOf, madeFor>>
        /\ t # TypeOf(w) => current'[t] = current[t]
    BY <1>6 DEF Publish, DInv, MapTypes
  <2>2. t = TypeOf(w) => engineOf[t] = None \/ current[t] = None
    BY <2>1 DEF Way, OnTheWay
  <2> QED
    BY <1>1, <2>1, <2>2 DEF Superseded, Orphan
<1>7. ASSUME NEW w \in Watchers, Create(w) PROVE Superseded(t)
  <2>1. at[w] = "creating" /\ UNCHANGED <<addressOf, current>>
    BY <1>7 DEF Create
  <2>2. TypeOf(w) \in Types /\ watches[w] \in DataModels
    BY <2>1, IsWatching
  <2>3. CASE UNCHANGED <<engineOf, madeFor>>
    BY <1>1, <2>1, <2>3 DEF Superseded
  <2>4. ASSUME NEW e \in Engines, MakeEngine(w, e) PROVE Superseded(t)
    <3>1. /\ status[e] = "none"
          /\ engineOf'[t] = IF t = TypeOf(w) THEN e ELSE engineOf[t]
          /\ \A d \in Engines : madeFor'[d] = IF d = e THEN watches[w] ELSE madeFor[d]
      BY <2>4 DEF MakeEngine, DInv, MapTypes
    <3>2. t # TypeOf(w)
      <4>1. current[TypeOf(w)] \in {None, addressOf[watches[w]]}
        BY <2>1 DEF Way, OnTheWay
      <4> QED
        BY <1>1, <2>1, <3>1, <4>1
    <3>3. engineOf[t] # e
      BY <3>1 DEF DInv, MapHoldsRunning
    <3> QED
      BY <1>1, <1>3, <2>1, <3>1, <3>2, <3>3 DEF Superseded
  <2> QED
    BY <1>7, <2>3, <2>4 DEF Create
<1>8. ASSUME NEW w \in Watchers, NEW m \in DataModels, Poll(w, m)
      PROVE  UNCHANGED <<addressOf, madeFor, engineOf, current>>
  BY <1>8 DEF Poll, Track
<1>9. ASSUME NEW w \in Watchers, Compare(w) \/ ReadOld(w) \/ Replace(w) \/ Trigger(w) \/ Done(w)
      PROVE  UNCHANGED <<addressOf, madeFor, current>> /\ engineOf'[t] \in {engineOf[t], None}
  BY <1>9 DEF Compare, ReadOld, Replace, EraseEngine, Trigger, Done, DInv, MapTypes
<1> QED
  BY <1>4, <1>5, <1>6, <1>7, <1>8, <1>9, BySteps, Takers

(* set_data_model takes four locks and cleanup_data_model two, with any number of
   threads in between: an engine comes to stand for another DataModel than that of its
   Lua state only if it was an orphan, which takes a cleanup that crossed the step. *)
THEOREM SupersededNeedsCleanup == Spec => SupersededOnlyAsOrphan
<1>1. Init => Known /\ Apart /\ Way
  BY DEF Init, Known, Apart, Way, OnTheWay
<1>2. DInv /\ Known /\ Apart /\ Way /\ [Next]_vars => Known' /\ Apart' /\ Way'
  BY SlotsNext, ApartKept, WayKept
<1>3. DInv /\ Known /\ Apart /\ Way /\ [Next]_vars =>
        [\A t \in Types : Superseded(t)' => Superseded(t) \/ Orphan(t)]_vars
  BY SupersededStep
<1> QED
  BY <1>1, <1>2, <1>3, EnginesKept, PTL DEF Spec, SupersededOnlyAsOrphan

--------------------------------------------------------------------------------
(* How often the scripts of a DataModel have been executed, against how often its
   type was dropped: one behind while it is not the recorded one, and while a thread
   that has recorded it is still to execute them. *)
Telling(w) == at[w] \in {"creating", "triggering"}
Counted ==
    /\ \A m \in DataModels : kindOf[m] = None => triggered[m] = 0
    /\ AgainOnlyIfDropped
    /\ \A m \in live :
         current[kindOf[m]] # addressOf[m] => triggered[m] <= dropped[kindOf[m]]
    /\ \A w \in Watchers : Telling(w) =>
         /\ triggered[watches[w]] <= dropped[TypeOf(w)]
         /\ current[TypeOf(w)] # addressOf[watches[w]] =>
              triggered[watches[w]] < dropped[TypeOf(w)]

(* What counting starts from. *)
LEMMA Counts ==
    ASSUME DInv, RestTypes
    PROVE  /\ \A m \in DataModels : triggered[m] \in Nat
           /\ \A t \in Types : dropped[t] \in Nat
           /\ \A m \in live : m \in DataModels /\ kindOf[m] \in Types /\ addressOf[m] # None
           /\ \A w \in Watchers : Telling(w) =>
                watches[w] \in DataModels /\ TypeOf(w) \in Types /\ addressOf[watches[w]] # None
BY IsWatching DEF DInv, RestTypes, MapTypes, WatchesOpened, Telling

LEMMA CountedStays ==
    ASSUME Counted, UNCHANGED <<kindOf, addressOf, current, watches, triggered, dropped>>,
           live' \subseteq live, \A w \in Watchers : Telling(w)' => Telling(w)
    PROVE  Counted'
BY DEF Counted, AgainOnlyIfDropped, TypeOf

LEMMA CountedOpen ==
    ASSUME DInv, RestTypes, Counted, NEW m \in DataModels, NEW t \in Types, NEW a \in Addresses,
           Open(m, t, a)
    PROVE  Counted'
<1>1. /\ UNCHANGED <<at, watches, current, triggered, dropped>> /\ live' = live \cup {m}
      /\ kindOf[m] = None /\ triggered[m] = 0
      /\ \A d \in DataModels : /\ kindOf'[d] = IF d = m THEN t ELSE kindOf[d]
                               /\ addressOf'[d] = IF d = m THEN a ELSE addressOf[d]
  BY DEF Open, DInv, MapTypes, Counted
<1>2. m \notin live /\ \A w \in Watchers : Telling(w) => watches[w] # m
  BY <1>1 DEF DInv, WatchesOpened, Telling
<1>3. 0 <= dropped[t] /\ 0 <= 1 + dropped[t] /\ t # None
  BY DEF RestTypes
<1>4. /\ \A d \in DataModels : kindOf'[d] = None => triggered[d] = 0
      /\ AgainOnlyIfDropped'
  BY <1>1, <1>3 DEF Counted, AgainOnlyIfDropped
<1>5. \A d \in live' : current[kindOf'[d]] # addressOf'[d] => triggered[d] <= dropped[kindOf'[d]]
  BY <1>1, <1>2, <1>3, Counts DEF Counted
<1>6. ASSUME NEW w \in Watchers, Telling(w)
      PROVE  TypeOf(w)' = TypeOf(w) /\ addressOf'[watches[w]] = addressOf[watches[w]]
  <2>1. watches[w] \in DataModels /\ watches[w] # m
    BY <1>2, <1>6, Counts
  <2> QED
    BY <1>1, <2>1 DEF TypeOf
<1>7. \A w \in Watchers : Telling(w)' => Telling(w)
  BY <1>1 DEF Telling
<1>8. ASSUME NEW w \in Watchers, Telling(w)'
      PROVE  /\ triggered'[watches'[w]] <= dropped'[TypeOf(w)']
             /\ current'[TypeOf(w)'] # addressOf'[watches'[w]] =>
                  triggered'[watches'[w]] < dropped'[TypeOf(w)']
  BY <1>1, <1>6, <1>7, <1>8 DEF Counted
<1> QED
  BY <1>1, <1>4, <1>5, <1>8 DEF Counted

(* A cleanup pays for another execution. *)
LEMMA CountedClean ==
    ASSUME DInv, RestTypes, Counted, NEW v \in Watchers, CleanModel(v)
    PROVE  Counted'
<1> DEFINE t == unlisting[v]
<1>1. t \in Types /\ t # None
  BY DEF CleanModel, DInv, MapTypes
<1>2. /\ UNCHANGED <<kindOf, addressOf, live, at, watches, triggered>>
      /\ \A u \in Types : /\ current'[u] = IF u = t THEN None ELSE current[u]
                          /\ dropped'[u] = IF u = t THEN dropped[u] + 1 ELSE dropped[u]
  BY <1>1 DEF CleanModel, DInv, MapTypes, RestTypes
<1> HIDE DEF t
<1>3. \A d \in DataModels : kindOf[d] # None => kindOf[d] \in Types
  BY DEF DInv, MapTypes
<1>4. \A u \in Types : dropped[u] \in Nat /\ dropped'[u] \in Nat /\ dropped[u] <= dropped'[u]
  BY <1>2, Counts
<1>5. AgainOnlyIfDropped'
  BY <1>2, <1>3, <1>4, Counts DEF Counted, AgainOnlyIfDropped
<1>6. ASSUME NEW d \in live, current'[kindOf[d]] # addressOf[d]
      PROVE  triggered[d] <= dropped'[kindOf[d]]
  <2>1. /\ d \in DataModels /\ kindOf[d] \in Types /\ kindOf[d] # None
        /\ triggered[d] \in Nat
    BY Counts
  <2>2. CASE kindOf[d] = t
    BY <1>2, <1>4, <2>1, <2>2 DEF Counted, AgainOnlyIfDropped
  <2>3. CASE kindOf[d] # t
    BY <1>2, <1>6, <2>1, <2>3 DEF Counted
  <2> QED
    BY <2>2, <2>3
<1>7. ASSUME NEW w \in Watchers, Telling(w)
      PROVE  /\ triggered[watches[w]] <= dropped'[TypeOf(w)]
             /\ current'[TypeOf(w)] # addressOf[watches[w]] =>
                  triggered[watches[w]] < dropped'[TypeOf(w)]
  <2>1. TypeOf(w) \in Types /\ triggered[watches[w]] \in Nat
    BY <1>7, Counts
  <2>2. triggered[watches[w]] <= dropped[TypeOf(w)]
    BY <1>7 DEF Counted
  <2>3. CASE TypeOf(w) = t
    BY <1>2, <1>4, <2>1, <2>2, <2>3
  <2>4. CASE TypeOf(w) # t
    BY <1>2, <1>7, <2>1, <2>4 DEF Counted
  <2> QED
    BY <2>3, <2>4
<1> QED
  BY <1>2, <1>5, <1>6, <1>7 DEF Counted, Telling, TypeOf

(* Recording a DataModel uses what the cleanup has paid ... *)
LEMMA CountedPublish ==
    ASSUME DInv, RestTypes, Apart, Way, Counted, NEW v \in Watchers, Publish(v)
    PROVE  Counted'
<1> DEFINE t == TypeOf(v)
<1>1. at[v] = "publishing" /\ t \in Types /\ watches[v] \in live
  BY IsWatching DEF Publish, Apart
<1>2. /\ UNCHANGED <<kindOf, addressOf, live, watches, triggered, dropped>>
      /\ \A w \in Watchers : at'[w] = IF w = v THEN "creating" ELSE at[w]
      /\ \A u \in Types : current'[u] = IF u = t THEN addressOf[watches[v]] ELSE current[u]
  BY <1>1 DEF Publish, DInv, MapTypes
<1>3. triggered[watches[v]] <= dropped[t]
  <2>1. current[t] # addressOf[watches[v]]
    BY <1>1 DEF Way, OnTheWay
  <2> QED
    BY <1>1, <2>1 DEF Counted, TypeOf
<1>4. ASSUME NEW d \in live, current'[kindOf[d]] # addressOf[d]
      PROVE  triggered[d] <= dropped[kindOf[d]]
  <2>1. CASE kindOf[d] = t
    <3>1. d = watches[v]
      BY <1>1, <2>1 DEF Apart, TypeOf
    <3> QED
      BY <1>3, <2>1, <3>1
  <2>2. CASE kindOf[d] # t
    <3>1. kindOf[d] \in Types
      BY Counts
    <3> QED
      BY <1>2, <1>4, <2>2, <3>1 DEF Counted
  <2> QED
    BY <2>1, <2>2
<1>5. ASSUME NEW w \in Watchers, Telling(w)'
      PROVE  /\ triggered[watches[w]] <= dropped[TypeOf(w)]
             /\ current'[TypeOf(w)] # addressOf[watches[w]] =>
                  triggered[watches[w]] < dropped[TypeOf(w)]
  <2>1. CASE w = v
    BY <1>1, <1>2, <1>3, <2>1
  <2>2. CASE w # v
    <3>1. Telling(w)
      BY <1>2, <1>5, <2>2 DEF Telling
    <3>2. TypeOf(w) # t /\ TypeOf(w) \in Types
      BY <1>1, <2>2, <3>1, ApartTypes, Counts DEF Telling
    <3> QED
      BY <1>2, <3>1, <3>2 DEF Counted
  <2> QED
    BY <2>1, <2>2
<1>6. AgainOnlyIfDropped'
  BY <1>2 DEF Counted, AgainOnlyIfDropped
<1> QED
  BY <1>2, <1>4, <1>5, <1>6 DEF Counted, TypeOf

(* ... and executing its scripts takes it. *)
LEMMA CountedTrigger ==
    ASSUME DInv, RestTypes, Apart, Counted, NEW v \in Watchers, Trigger(v)
    PROVE  Counted'
<1> DEFINE m == watches[v]
<1>1. at[v] = "triggering" /\ Telling(v) /\ m \in live
  BY DEF Trigger, Apart, Telling
<1>2. m \in DataModels /\ kindOf[m] \in Types /\ kindOf[m] # None
  BY <1>1, Counts
<1>3. /\ UNCHANGED <<kindOf, addressOf, live, current, watches, dropped>>
      /\ \A w \in Watchers : at'[w] = IF w = v THEN "scripts" ELSE at[w]
      /\ \A d \in DataModels : triggered'[d] = IF d = m THEN triggered[d] + 1 ELSE triggered[d]
  BY <1>2 DEF Trigger, DInv, MapTypes, RestTypes
<1>4. /\ triggered[m] <= dropped[kindOf[m]]
      /\ current[kindOf[m]] # addressOf[m] => triggered[m] < dropped[kindOf[m]]
  BY <1>1 DEF Counted, TypeOf
<1>5. triggered[m] \in Nat /\ dropped[kindOf[m]] \in Nat
  BY <1>2, Counts
<1> HIDE DEF m
<1>6. AgainOnlyIfDropped'
  BY <1>3, <1>4, <1>5 DEF Counted, AgainOnlyIfDropped
<1>7. \A d \in DataModels : kindOf[d] = None => triggered'[d] = 0
  BY <1>2, <1>3 DEF Counted
<1>8. \A d \in live : current[kindOf[d]] # addressOf[d] => triggered'[d] <= dropped[kindOf[d]]
  BY <1>3, <1>4, <1>5, Counts DEF Counted
<1>9. ASSUME NEW w \in Watchers, Telling(w)'
      PROVE  Telling(w) /\ triggered'[watches[w]] = triggered[watches[w]]
  <2>1. w # v /\ Telling(w)
    BY <1>3, <1>9 DEF Telling
  <2>2. watches[w] # m
    BY <1>1, <2>1 DEF Apart, Telling, m
  <2> QED
    BY <1>3, <2>1, <2>2, Counts
<1>10. ASSUME NEW w \in Watchers, Telling(w)'
       PROVE  /\ triggered'[watches[w]] <= dropped[TypeOf(w)]
              /\ current[TypeOf(w)] # addressOf[watches[w]] =>
                   triggered'[watches[w]] < dropped[TypeOf(w)]
  BY <1>9, <1>10 DEF Counted
<1> QED
  BY <1>3, <1>6, <1>7, <1>8, <1>10 DEF Counted, TypeOf

LEMMA CountedKept == ASSUME DInv, RestTypes, Apart, Way, Counted, [Next]_vars PROVE Counted'
<1>1. CASE \/ UNCHANGED vars \/ StillActions \/ OtherEnds
           \/ \E m \in DataModels : Close(m)
           \/ \E w \in Watchers, t \in Types : CleanEngine(w, t)
  <2>1. UNCHANGED <<kindOf, addressOf, at, watches>> /\ live' \subseteq live
    BY <1>1, Takers
  <2>2. UNCHANGED <<current, triggered, dropped>>
    BY <1>1 DEF vars, StillActions, OtherEnds, Close, CleanEngine, Frame, FindOrphans, ShutdownFlag,
       TimePasses, Glance, Track, GiveThread, ScheduleMod, Unload, Reload, CleanOrphan, EngineDown,
       ShutdownEngines
  <2> QED
    BY <2>1, <2>2, CountedStays DEF Telling
<1>2. ASSUME NEW w \in Watchers, Compare(w) \/ ReadOld(w) \/ Replace(w) \/ Create(w) \/ Done(w)
      PROVE  Counted'
  <2>1. UNCHANGED <<kindOf, addressOf, live, current, watches, triggered, dropped>>
    BY <1>2 DEF Compare, ReadOld, Replace, Create, Done
  <2>2. \/ at' = [at EXCEPT ![w] = "triggering"] /\ at[w] = "creating"
        \/ \E a \in {"idle", "cleaning", "replacing", "publishing"} : at' = [at EXCEPT ![w] = a]
    BY <1>2 DEF Compare, ReadOld, Replace, Create, Done
  <2>3. /\ \/ at'[w] = "triggering" /\ at[w] = "creating"
           \/ at'[w] \notin {"creating", "triggering"}
        /\ \A v \in Watchers : v # w => at'[v] = at[v]
    BY <2>2 DEF DInv, MapTypes
  <2>4. ASSUME NEW v \in Watchers, Telling(v)' PROVE Telling(v)
    BY <2>3, <2>4 DEF Telling
  <2> QED
    BY <2>1, <2>4, CountedStays
<1>3. ASSUME NEW w \in Watchers, NEW m \in DataModels, Poll(w, m) PROVE Counted'
  <2>1. /\ UNCHANGED <<kindOf, addressOf, live, current, triggered, dropped>>
        /\ \A v \in Watchers : v # w => at'[v] = at[v] /\ watches'[v] = watches[v]
        /\ at'[w] = "polled"
    BY <1>3 DEF Poll, Track, DInv, MapTypes
  <2> QED
    BY <2>1 DEF Counted, AgainOnlyIfDropped, Telling, TypeOf
<1> QED
  BY <1>1, <1>2, <1>3, BySteps, CountedOpen, CountedClean, CountedPublish, CountedTrigger

(* However many threads step a DataModel, its scripts are executed once, and once more
   at most for each time that a cleanup of a stale type took the type out of
   m_data_models. *)
THEOREM AgainNeedsDrop == Spec => []AgainOnlyIfDropped
<1>1. Init => Apart /\ Way /\ Counted
  <2> SUFFICES ASSUME Init PROVE Apart /\ Way /\ Counted
    OBVIOUS
  <2>1. Apart /\ Way
    BY DEF Init, Apart, Way, OnTheWay
  <2>2. Counted
    BY DEF Init, Counted, AgainOnlyIfDropped, Telling
  <2> QED
    BY <2>1, <2>2
<1>2. DInv /\ RestTypes /\ Apart /\ Way /\ Counted /\ [Next]_vars => Apart' /\ Way' /\ Counted'
  BY ApartKept, WayKept, CountedKept
<1>3. Counted => AgainOnlyIfDropped
  BY DEF Counted
<1> QED
  BY <1>1, <1>2, <1>3, EnginesKept, PTL DEF Spec

--------------------------------------------------------------------------------
(* Scripts were scheduled on an engine made for a DataModel of their type; what an
   engine was made for stays. *)
OwnSlots == \A s \in scheduled : SlotOf[s.engine] = s.type

LEMMA SlotStays ==
    ASSUME [Slots!Next]_(Slots!vars), Known, NEW e \in Engines, SlotOf[e] # None
    PROVE  SlotOf'[e] = SlotOf[e]
<1>1. status[e] # "none"
  BY DEF Known, SlotOf
<1>2. ASSUME NEW d \in Engines, NEW t \in Types, Slots!Start(d, t) PROVE SlotOf'[e] = SlotOf[e]
  <2>1. d # e /\ SlotOf' = [SlotOf EXCEPT ![d] = t]
    BY <1>1, <1>2 DEF Slots!Start
  <2> QED
    BY <2>1 DEF SlotOf
<1> QED
  BY <1>2 DEF Slots!Next, Slots!vars, Slots!Retire, Slots!Stop, Slots!StopAll

LEMMA OwnSlotsKept ==
    ASSUME DInv, RestTypes, Known, OwnSlots, [Next]_vars, [Slots!Next]_(Slots!vars)
    PROVE  OwnSlots'
<1>1. ASSUME UNCHANGED scheduled PROVE OwnSlots'
  <2>1. ASSUME NEW s \in scheduled PROVE SlotOf'[s.engine] = s.type
    <3>1. s.engine \in Engines /\ SlotOf[s.engine] = s.type /\ s.type # None
      BY DEF RestTypes, OwnSlots
    <3> QED
      BY <3>1, SlotStays
  <2> QED
    BY <1>1, <2>1 DEF OwnSlots
<1>2. ASSUME NEW w \in Watchers, NEW d \in Mods, ScheduleMod(w, d) PROVE OwnSlots'
  <2>1. TypeOf(w) \in Types /\ SlotOf' = SlotOf
    BY <1>2, IsWatching DEF ScheduleMod, SlotOf
  <2>2. \A s \in scheduled' : s.type = TypeOf(w) /\ s.engine = engineOf[TypeOf(w)] /\ s.engine # None
    BY <1>2 DEF ScheduleMod, Hosts
  <2> QED
    BY <2>1, <2>2 DEF OwnSlots, Known
<1>3. \/ UNCHANGED scheduled
      \/ \E w \in Watchers, d \in Mods : ScheduleMod(w, d)
  BY BySteps DEF vars, StillActions, OtherEnds, Close, CleanEngine, Frame, FindOrphans, ShutdownFlag,
     TimePasses, Glance, Track, GiveThread, Unload, Reload, CleanOrphan, EngineDown, ShutdownEngines,
     CleanModel, Open, Poll, Compare, ReadOld, Replace, Publish, Create, Trigger, Done
<1> QED
  BY <1>1, <1>2, <1>3

(* schedule_script_with_mod_thread: with any number of threads that replace, clean up
   and shut down engines, and mods that are reloaded, the scripts of a type are
   scheduled on engines in the Lua state of a DataModel of that type. *)
THEOREM OnOwnType == Spec => []ScriptsOnOwnType
<1>1. Init => Known /\ OwnSlots
  BY DEF Init, Known, OwnSlots
<1>2. DInv /\ RestTypes /\ Known /\ OwnSlots /\ [Next]_vars => Known' /\ OwnSlots'
  BY SlotsNext, OwnSlotsKept
<1>3. RestTypes /\ OwnSlots => ScriptsOnOwnType
  <2> SUFFICES ASSUME RestTypes, OwnSlots, NEW s \in scheduled
               PROVE  kindOf[madeFor[s.engine]] = s.type
    BY DEF ScriptsOnOwnType
  <2>1. s.engine \in Engines /\ SlotOf[s.engine] = s.type /\ s.type # None
    BY DEF RestTypes, OwnSlots
  <2> QED
    BY <2>1 DEF SlotOf
<1> QED
  BY <1>1, <1>2, <1>3, EnginesKept, PTL DEF Spec
================================================================================
