---------------------------- MODULE DataModelEngines ----------------------------
(****************************************************************************)
(* Which script engine serves which DataModel: DataModelWatcherJob notices   *)
(* that the game runs a DataModel it does not know and calls set_data_model  *)
(* of RBX::TaskScheduler, which replaces the engine of the type; the script  *)
(* manager then schedules every mod's scripts for the type on it.  Other     *)
(* threads clean up orphaned engines, shut erased engines down, reload mods  *)
(* and shut the task scheduler down.  A DataModel is known by its address,   *)
(* which the game may use again.                                             *)
(****************************************************************************)
EXTENDS Integers, FiniteSets

CONSTANTS
    Types,       \* DataModelType
    Addresses,   \* values of DataModel pointers
    Watchers,    \* threads that step a WaitingHybridScriptsJob
    Mods,
    ScriptsFor,  \* <<mod, type>>: mods that have scripts for a type
    MaxModels,   \* bound on the DataModels the game opens
    MaxEngines,  \* bound on the engines made
    MaxLapses,   \* bound on the times a type goes stale
    MayFail,     \* whether an engine may fail to initialise
    MayReuse,    \* whether a DataModel may open at the address of a closed one
    None

ASSUME EnginesAssumption ==
    /\ ScriptsFor \subseteq Mods \X Types
    /\ MaxModels \in Nat /\ MaxEngines \in Nat /\ MaxLapses \in Nat
    /\ MayFail \in BOOLEAN /\ MayReuse \in BOOLEAN
    /\ None \notin Types \cup Addresses /\ None \notin Nat

DataModels == 1 .. MaxModels   \* in the order in which they open
Engines == 1 .. MaxEngines

VARIABLES
    kindOf, addressOf, \* of the DataModels opened so far
    live,      \* the DataModels that are open
    current,   \* TaskScheduler::m_data_models
    engineOf,  \* TaskScheduler::m_script_engines
    madeFor,   \* the DataModel whose Lua state the engine runs in
    status,    \* what has become of the engine
    tracked,   \* DataModelWatcherJob::m_data_models
    stale,     \* types not stepped for more than 5 s
    at,        \* where a watcher's should_execute and execute stand
    watches,   \* the DataModel it is stepping
    old,       \* the address set_data_model read
    cleaning,  \* stale_types
    unlisting, \* the type cleanup_data_model is between its two maps for
    todo,      \* mods whose scripts are still to be scheduled
    orphans,   \* orphaned_types of a call of cleanup_orphaned_script_engines
    loaded,    \* the mods of m_loaded_mods
    threadOf,  \* mod_thread: the engine whose Lua state it was made in
    lapses,    \* times a type went stale so far
    throttled, \* 16 ms have not passed since m_last_check
    down,      \* m_shutdown_requested, and where shutdown stands
    scheduled, \* history: mod, type, engine and mod_thread of the scripts scheduled last
    triggered, \* history: times execute_scripts_for_context ran for a DataModel
    dropped    \* history: times cleanup_data_model took a type out of m_data_models

gameVars == <<kindOf, addressOf, live>>
mapVars == <<current, engineOf, madeFor, status>>
clockVars == <<lapses, throttled>>
watchVars == <<tracked, stale, clockVars, at, watches, old, cleaning, unlisting, todo>>
modVars == <<loaded, threadOf>>
historyVars == <<scheduled, triggered, dropped>>
vars == <<gameVars, mapVars, watchVars, orphans, modVars, down, historyVars>>

TypeOf(w) == kindOf[watches[w]]
Quiet == \A w \in Watchers : at[w] = "idle"

--------------------------------------------------------------------------------
(* The game: one DataModel of a type at a time, and no two open ones at one
   address. *)
Open(m, t, a) ==
    /\ kindOf[m] = None
    /\ \A d \in DataModels : d < m => kindOf[d] # None
    /\ \A d \in live : kindOf[d] # t
    /\ \A d \in DataModels : addressOf[d] = a => MayReuse /\ d \notin live
    /\ kindOf' = [kindOf EXCEPT ![m] = t]
    /\ addressOf' = [addressOf EXCEPT ![m] = a]
    /\ live' = live \cup {m}
    /\ UNCHANGED <<mapVars, watchVars, orphans, modVars, down, historyVars>>

(* It closes a DataModel none of whose jobs is being stepped. *)
Close(m) ==
    /\ m \in live
    /\ \A w \in Watchers : at[w] # "idle" => watches[w] # m
    /\ live' = live \ {m}
    /\ UNCHANGED <<kindOf, addressOf, mapVars, watchVars, orphans, modVars, down,
                   historyVars>>

TimePasses(t) ==
    /\ tracked[t] # None
    /\ t \notin stale
    /\ lapses < MaxLapses
    /\ stale' = stale \cup {t}
    /\ lapses' = lapses + 1
    /\ UNCHANGED <<gameVars, mapVars, throttled, tracked, at, watches, old, cleaning,
                   unlisting, todo, orphans, modVars, down, historyVars>>

Frame ==
    /\ throttled
    /\ throttled' = FALSE
    /\ UNCHANGED <<gameVars, mapVars, lapses, tracked, stale, at, watches, old, cleaning,
                   unlisting, todo, orphans, modVars, down, historyVars>>

--------------------------------------------------------------------------------
(* A DataModel has one WaitingHybridScriptsJob.  should_execute_impl tracks the
   DataModel it steps; more than 16 ms after the last check, of whatever type,
   execute_impl follows. *)
TrackAlways(w, m) ==                                   \* seeded fault
    /\ at[w] = "idle"
    /\ \A v \in Watchers : watches[v] = m => at[v] = "idle"
    /\ m \in live
    /\ tracked' = [tracked EXCEPT ![kindOf[m]] = addressOf[m]]
    /\ stale' = stale \ {kindOf[m]}
    /\ UNCHANGED <<gameVars, clockVars, mapVars, old, cleaning, unlisting, todo, orphans,
                   modVars, down, historyVars>>
Track(w, m) ==
    /\ at[w] = "idle"
    /\ \A v \in Watchers : watches[v] = m => at[v] = "idle"
    /\ m \in live
    /\ down = "up"
    /\ tracked' = [tracked EXCEPT ![kindOf[m]] = addressOf[m]]
    /\ stale' = stale \ {kindOf[m]}
    /\ UNCHANGED <<gameVars, clockVars, mapVars, old, cleaning, unlisting, todo, orphans,
                   modVars, down, historyVars>>

Poll(w, m) ==
    /\ ~throttled
    /\ Track(w, m)
    /\ watches' = [watches EXCEPT ![w] = m]
    /\ at' = [at EXCEPT ![w] = "polled"]

Glance(w, m) ==
    /\ throttled
    /\ Track(w, m)
    /\ UNCHANGED <<watches, at>>

(* check_and_cleanup_stale_data_models stops tracking the types that were not
   stepped lately, unless the task scheduler knows them by the same address. *)
Forgotten == {t \in stale : tracked[t] # None /\ current[t] # tracked[t]}

SameIgnored(w) == FALSE                                \* seeded fault
SameIfKnown(w) == current[TypeOf(w)] # None            \* seeded fault
Same(w) == current[TypeOf(w)] = addressOf[watches[w]]

Compare(w) ==
    /\ at[w] = "polled"
    /\ throttled' = TRUE
    /\ IF Same(w)
       THEN /\ at' = [at EXCEPT ![w] = "idle"]
            /\ UNCHANGED <<tracked, stale, cleaning>>
       ELSE /\ cleaning' = [cleaning EXCEPT ![w] = Forgotten]
            /\ tracked' = [t \in Types |-> IF t \in Forgotten THEN None ELSE tracked[t]]
            /\ stale' = stale \ Forgotten
            /\ at' = [at EXCEPT ![w] = "cleaning"]
    /\ UNCHANGED <<gameVars, lapses, mapVars, watches, old, unlisting, todo, orphans, modVars,
                   down, historyVars>>

(* cleanup_script_engine: out of the map at once, shut down by a thread of its
   own. *)
EraseLeaking(t) ==                                     \* seeded fault
    /\ engineOf' = [engineOf EXCEPT ![t] = None]
    /\ UNCHANGED status
EraseKeeping(t) ==                                     \* seeded fault
    /\ status' = [e \in Engines |-> IF e = engineOf[t] THEN "erased" ELSE status[e]]
    /\ UNCHANGED engineOf
EraseEngine(t) ==
    /\ engineOf' = [engineOf EXCEPT ![t] = None]
    /\ status' = [e \in Engines |-> IF e = engineOf[t] THEN "erased" ELSE status[e]]

(* cleanup_data_model: the engine, then the entry of m_data_models. *)
CleanEngine(w, t) ==
    /\ at[w] = "cleaning"
    /\ unlisting[w] = None
    /\ t \in cleaning[w]
    /\ EraseEngine(t)
    /\ unlisting' = [unlisting EXCEPT ![w] = t]
    /\ cleaning' = [cleaning EXCEPT ![w] = @ \ {t}]
    /\ UNCHANGED <<gameVars, clockVars, current, madeFor, tracked, stale, at, watches, old, todo,
                   orphans, modVars, down, historyVars>>

CleanModel(w) ==
    /\ unlisting[w] # None
    /\ current' = [current EXCEPT ![unlisting[w]] = None]
    /\ unlisting' = [unlisting EXCEPT ![w] = None]
    /\ dropped' = [dropped EXCEPT ![unlisting[w]] = @ + 1]
    /\ UNCHANGED <<gameVars, clockVars, engineOf, madeFor, status, tracked, stale, at, watches,
                   old, cleaning, todo, orphans, modVars, down, scheduled, triggered>>

(* set_data_model reads the old address under one lock, replaces the engine
   under another, the address under the first again, ... *)
ReadOld(w) ==
    /\ at[w] = "cleaning"
    /\ cleaning[w] = {} /\ unlisting[w] = None
    /\ old' = [old EXCEPT ![w] = current[TypeOf(w)]]
    /\ at' = [at EXCEPT ![w] = "replacing"]
    /\ UNCHANGED <<gameVars, clockVars, mapVars, tracked, stale, watches, cleaning, unlisting,
                   todo, orphans, modVars, down, historyVars>>

Replace(w) ==
    /\ at[w] = "replacing"
    /\ IF old[w] \notin {None, addressOf[watches[w]]}
       THEN EraseEngine(TypeOf(w))
       ELSE UNCHANGED <<engineOf, status>>
    /\ at' = [at EXCEPT ![w] = "publishing"]
    /\ UNCHANGED <<gameVars, clockVars, current, madeFor, tracked, stale, watches, old, cleaning,
                   unlisting, todo, orphans, modVars, down, historyVars>>

Publish(w) ==
    /\ at[w] = "publishing"
    /\ current' = [current EXCEPT ![TypeOf(w)] = addressOf[watches[w]]]
    /\ at' = [at EXCEPT ![w] = "creating"]
    /\ UNCHANGED <<gameVars, clockVars, engineOf, madeFor, status, tracked, stale, watches, old,
                   cleaning, unlisting, todo, orphans, modVars, down, historyVars>>

(* ... and creates an engine unless the type has one; it may fail. *)
MakeEngine(w, e) ==
    /\ status[e] = "none"
    /\ \A d \in Engines : d < e => status[d] # "none"
    /\ engineOf' = [engineOf EXCEPT ![TypeOf(w)] = e]
    /\ madeFor' = [madeFor EXCEPT ![e] = watches[w]]
    /\ status' = [status EXCEPT ![e] = "running"]

Create(w) ==
    /\ at[w] = "creating"
    /\ \/ engineOf[TypeOf(w)] = None /\ \E e \in Engines : MakeEngine(w, e)
       \/ /\ engineOf[TypeOf(w)] # None \/ MayFail
          /\ UNCHANGED <<engineOf, madeFor, status>>
    /\ at' = [at EXCEPT ![w] = "triggering"]
    /\ UNCHANGED <<gameVars, clockVars, current, tracked, stale, watches, old, cleaning, unlisting,
                   todo, orphans, modVars, down, historyVars>>

--------------------------------------------------------------------------------
(* execute_scripts_for_context holds m_scripts_mutex to its end. *)
ScriptsFree == \A w \in Watchers : at[w] # "scripts"

Trigger(w) ==
    /\ at[w] = "triggering"
    /\ ScriptsFree
    /\ todo' = [todo EXCEPT ![w] = {d \in loaded : <<d, TypeOf(w)>> \in ScriptsFor}]
    /\ triggered' = [triggered EXCEPT ![watches[w]] = @ + 1]
    /\ at' = [at EXCEPT ![w] = "scripts"]
    /\ UNCHANGED <<gameVars, clockVars, mapVars, tracked, stale, watches, old, cleaning, unlisting,
                   orphans, modVars, down, scheduled, dropped>>

(* A mod gets its thread with the first scripts it has, from the engine of
   their type, and goes without when there is none. *)
GiveThread(w, d) ==
    /\ at[w] = "scripts"
    /\ d \in todo[w]
    /\ threadOf[d] = None
    /\ threadOf' = [threadOf EXCEPT ![d] = engineOf[TypeOf(w)]]
    /\ todo' = [todo EXCEPT ![w] = IF engineOf[TypeOf(w)] = None THEN @ \ {d} ELSE @]
    /\ UNCHANGED <<gameVars, clockVars, mapVars, tracked, stale, at, watches, old, cleaning,
                   unlisting, orphans, loaded, down, historyVars>>

(* Its scripts then go to the engine of the type, if it still has one. *)
HostsThread(w, d) == {threadOf[d]}                     \* seeded fault
Hosts(w, d) == {engineOf[TypeOf(w)]} \ {None}

ScheduleMod(w, d) ==
    /\ at[w] = "scripts"
    /\ d \in todo[w]
    /\ threadOf[d] # None
    /\ todo' = [todo EXCEPT ![w] = @ \ {d}]
    /\ scheduled' =
           {[mod |-> d, type |-> TypeOf(w), engine |-> e, thread |-> threadOf[d]] : e \in Hosts(w, d)}
    /\ UNCHANGED <<gameVars, clockVars, mapVars, tracked, stale, at, watches, old, cleaning,
                   unlisting, orphans, modVars, down, triggered, dropped>>

Done(w) ==
    /\ at[w] = "scripts"
    /\ todo[w] = {}
    /\ at' = [at EXCEPT ![w] = "idle"]
    /\ UNCHANGED <<gameVars, clockVars, mapVars, tracked, stale, watches, old, cleaning, unlisting,
                   todo, orphans, modVars, down, historyVars>>

(* reload_mod_scripts drops the thread and the mod under the mutex, and loads
   it again without. *)
Unload(d) ==
    /\ d \in loaded
    /\ ScriptsFree
    /\ loaded' = loaded \ {d}
    /\ threadOf' = [threadOf EXCEPT ![d] = None]
    /\ UNCHANGED <<gameVars, mapVars, watchVars, orphans, down, historyVars>>

Reload(d) ==
    /\ d \notin loaded
    /\ loaded' = loaded \cup {d}
    /\ UNCHANGED <<gameVars, mapVars, watchVars, orphans, threadOf, down, historyVars>>

--------------------------------------------------------------------------------
(* cleanup_orphaned_script_engines decides under both locks and acts without. *)
FindOrphans ==
    /\ orphans = {}
    /\ orphans' = {t \in Types : engineOf[t] # None /\ current[t] = None}
    /\ orphans' # {}
    /\ UNCHANGED <<gameVars, mapVars, watchVars, modVars, down, historyVars>>

CleanOrphan(t) ==
    /\ t \in orphans
    /\ EraseEngine(t)
    /\ orphans' = orphans \ {t}
    /\ UNCHANGED <<gameVars, current, madeFor, watchVars, modVars, down, historyVars>>

EngineDown(e) ==
    /\ status[e] = "erased"
    /\ status' = [status EXCEPT ![e] = "stopped"]
    /\ UNCHANGED <<gameVars, current, engineOf, madeFor, watchVars, orphans, modVars,
                   down, historyVars>>

(* shutdown: the flag, then every engine, under the lock of the map. *)
ShutdownFlag ==
    /\ down = "up"
    /\ down' = "flagged"
    /\ UNCHANGED <<gameVars, mapVars, watchVars, orphans, modVars, historyVars>>

ShutdownEngines ==
    /\ down = "flagged"
    /\ status' = [e \in Engines |->
                     IF \E t \in Types : engineOf[t] = e THEN "stopped" ELSE status[e]]
    /\ engineOf' = [t \in Types |-> None]
    /\ down' = "down"
    /\ UNCHANGED <<gameVars, current, madeFor, watchVars, orphans, modVars, historyVars>>

--------------------------------------------------------------------------------
Init ==
    /\ kindOf = [m \in DataModels |-> None]
    /\ addressOf = [m \in DataModels |-> None]
    /\ live = {}
    /\ current = [t \in Types |-> None]
    /\ engineOf = [t \in Types |-> None]
    /\ madeFor = [e \in Engines |-> None]
    /\ status = [e \in Engines |-> "none"]
    /\ tracked = [t \in Types |-> None]
    /\ stale = {}
    /\ lapses = 0
    /\ throttled = FALSE
    /\ at = [w \in Watchers |-> "idle"]
    /\ watches = [w \in Watchers |-> None]
    /\ old = [w \in Watchers |-> None]
    /\ cleaning = [w \in Watchers |-> {}]
    /\ unlisting = [w \in Watchers |-> None]
    /\ todo = [w \in Watchers |-> {}]
    /\ orphans = {}
    /\ loaded = Mods
    /\ threadOf = [d \in Mods |-> None]
    /\ down = "up"
    /\ scheduled = {}
    /\ triggered = [m \in DataModels |-> 0]
    /\ dropped = [t \in Types |-> 0]

Watch(w) ==
    \/ Compare(w) \/ (\E t \in Types : CleanEngine(w, t)) \/ CleanModel(w)
    \/ ReadOld(w) \/ Replace(w) \/ Publish(w) \/ Create(w)
    \/ Trigger(w) \/ (\E d \in Mods : GiveThread(w, d) \/ ScheduleMod(w, d)) \/ Done(w)

Step(w, m) == Poll(w, m) \/ Glance(w, m)

Others ==
    \/ \E m \in DataModels : Close(m) \/ (\E t \in Types, a \in Addresses : Open(m, t, a))
    \/ \E t \in Types : TimePasses(t) \/ CleanOrphan(t)
    \/ Frame
    \/ \E w \in Watchers : Watch(w)
    \/ \E d \in Mods : Unload(d) \/ Reload(d)
    \/ FindOrphans
    \/ \E e \in Engines : EngineDown(e)
    \/ ShutdownFlag \/ ShutdownEngines

Next == Others \/ \E w \in Watchers, m \in DataModels : Step(w, m)

Spec == Init /\ [][Next]_vars

(* A step that has begun ends, and time passes. *)
Progress == WF_vars(Frame) /\ \A w \in Watchers : WF_vars(Watch(w))

(* The game steps every open DataModel again and again, so it checks one whose
   check stays possible: one that the checks of others leave alone for 16 ms. *)
FairSpec ==
    /\ Spec /\ Progress
    /\ \A m \in DataModels : WF_vars(\E w \in Watchers : Poll(w, m))

--------------------------------------------------------------------------------
TypeOK ==
    /\ kindOf \in [DataModels -> Types \cup {None}]
    /\ addressOf \in [DataModels -> Addresses \cup {None}]
    /\ live \subseteq DataModels
    /\ current \in [Types -> Addresses \cup {None}]
    /\ engineOf \in [Types -> Engines \cup {None}]
    /\ madeFor \in [Engines -> DataModels \cup {None}]
    /\ status \in [Engines -> {"none", "running", "erased", "stopped"}]
    /\ tracked \in [Types -> Addresses \cup {None}]
    /\ stale \subseteq Types
    /\ lapses \in 0 .. MaxLapses
    /\ throttled \in BOOLEAN
    /\ at \in [Watchers -> {"idle", "polled", "cleaning", "replacing", "publishing",
                            "creating", "triggering", "scripts"}]
    /\ watches \in [Watchers -> DataModels \cup {None}]
    /\ old \in [Watchers -> Addresses \cup {None}]
    /\ cleaning \in [Watchers -> SUBSET Types]
    /\ unlisting \in [Watchers -> Types \cup {None}]
    /\ todo \in [Watchers -> SUBSET Mods]
    /\ orphans \subseteq Types
    /\ loaded \subseteq Mods
    /\ threadOf \in [Mods -> Engines \cup {None}]
    /\ down \in {"up", "flagged", "down"}
    /\ scheduled \subseteq [mod : Mods, type : Types, engine : Engines, thread : Engines]
    /\ triggered \in [DataModels -> Nat]
    /\ dropped \in [Types -> Nat]

(* get_script_engine hands out engines that run, each for one type: an engine
   that a cleanup or the shutdown has taken is out of the map before it is
   shut down. *)
MapHoldsRunning ==
    \A t \in Types : engineOf[t] # None =>
        /\ status[engineOf[t]] = "running"
        /\ \A u \in Types : engineOf[u] = engineOf[t] => u = t

(* set_data_model takes its locks one after the other, and so does cleanup_data_model,
   with other threads in between: all the same, an engine comes to stand for another
   DataModel than the one whose Lua state it runs in only if it was an orphan before,
   that is, if the step that made it crossed a cleanup of its type. *)
Orphan(t) == engineOf[t] # None /\ current[t] = None
Superseded(t) ==
    engineOf[t] # None /\ current[t] \notin {None, addressOf[madeFor[engineOf[t]]]}
SupersededOnlyAsOrphan ==
    [][\A t \in Types : Superseded(t)' => Superseded(t) \/ Orphan(t)]_vars

(* No engine is lost on the way out: an engine that runs is in the map, where
   the next cleanup or the shutdown finds it, whichever threads replaced,
   cleaned up or reloaded what in between. *)
NoEngineLeaks ==
    \A e \in Engines : status[e] = "running" => \E t \in Types : engineOf[t] = e

(* After the shutdown of all engines one may run that a step makes which had begun
   before it, and no other: at most one for each thread, of the DataModel it was
   stepping. *)
OnlyBegunRemain ==
    down = "down" => \A e \in Engines : status[e] = "running" =>
        \E w \in Watchers : watches[w] = madeFor[e] /\ at[w] \in {"triggering", "scripts", "idle"}

(* Maps, DataModels, watchers and cleanups together keep one engine for each type. *)
SlotOf == [e \in Engines |-> IF madeFor[e] = None THEN None ELSE kindOf[madeFor[e]]]
Slots == INSTANCE EngineSlots WITH slot <- SlotOf
ImplementsSlots == Slots!Spec

(* "New DataModel type: {}, executing context scripts"
   (data_model_watcher_job.cpp:78): however many threads step it, and however often,
   that is once for each DataModel, and once more for each time that a cleanup dropped
   its type. *)
AgainOnlyIfDropped ==
    \A m \in DataModels : kindOf[m] # None => triggered[m] <= 1 + dropped[kindOf[m]]

(* The scripts a mod has for one type run in the Lua state of a DataModel of that type,
   although mods are reloaded, engines replaced and shut down, and the thread of the
   mod may come from an engine of another. *)
ScriptsOnOwnType == \A s \in scheduled : kindOf[madeFor[s.engine]] = s.type

(* A DataModel that is the only open one from some time on ends up in m_data_models
   and has had its scripts executed, whatever engines failed, whatever was dropped or
   reloaded, and whoever was checked before: the throttle, which all types share, does
   not hold it up for ever. *)
Handled(m) ==
    m \in live /\ current[kindOf[m]] = addressOf[m] /\ triggered[m] # 0
LoneModelHandled ==
    \A m \in DataModels : <>[](live = {m} /\ down = "up") => <>[]Handled(m)

(* The engine of a type runs in the Lua state of the DataModel the type stands for,
   whenever no thread is in between: what set_data_model is for. *)
EngineMatchesModel ==
    Quiet => \A t \in Types : ~Superseded(t)

(* "Found orphaned ScriptEngine for DataModel type: {}, cleaning up"
   (task_scheduler.cpp:472): an engine cleaned up as an orphan is one whose type
   has no DataModel. *)
OnlyOrphansCleaned ==
    [][\A t \in orphans \ orphans' : engineOf[t] # None => current[t] = None]_vars

(* "New DataModel type: {}, executing context scripts"
   (data_model_watcher_job.cpp:78): a DataModel that stays open has the scripts
   of its type executed. *)
NewModelTriggered ==
    \A m \in DataModels : m \in live ~> m \notin live \/ down # "up" \/ triggered[m] # 0

(* create_mod_thread makes the thread from the engine of "DataModel type {}"
   (script_manager.cpp:598), and the scripts of the type run on it: both are of
   the Lua state of one DataModel. *)
ThreadFitsEngine == \A s \in scheduled : madeFor[s.thread] = madeFor[s.engine]

(* "Successfully triggered mod scripts for DataModel type: {}"
   (data_model_watcher_job.cpp:83): then the type has an engine that they run on. *)
TriggeredMeansHosted ==
    Quiet /\ down = "up" => \A m \in live : triggered[m] # 0 => engineOf[kindOf[m]] # None

(* "All ScriptEngines shut down successfully" (task_scheduler.cpp:336): after
   that no engine runs. *)
AllShutDown == down = "down" => \A e \in Engines : status[e] # "running"
================================================================================
