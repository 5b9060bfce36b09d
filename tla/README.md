# A verification project for RobloxModLoader

RobloxModLoader (RML) is a DLL that lives inside Roblox Studio. It hooks the
steps of Roblox's own jobs, runs jobs of its own and of mods on those threads,
notices which DataModels (edit, client, server, ...) the game runs, gives each
its script engine, and schedules the Luau scripts of the mods on it. All of it is
concurrent code around a program it does not control: Roblox's worker threads
step jobs while the loader is still starting, mods register and unregister from
their threads, detached threads wait for scripts and shut engines down, one thread
watches a file, and others search memory.

This directory holds TLA+ models of that core, TLC configurations that check
them on small instances, and TLAPS proofs for instances of any size.
`PROJECT.json` lists the runs, what each definition models (file, lines, symbol),
the mutations every property catches, the hazards, the findings and the theorems.

## 1. Inventory

Paths are relative to the repository. "State" is what survives a call.

| Component | State | Operations | Uses, is used by |
|---|---|---|---|
| ScriptScheduler `src/luau/script_scheduler.cpp` | five FIFO queues, parked coroutines, running flag, limit, counters, one promise per script | start, schedule_script, step, yield, resume, cancel, cancel_all, stop | engine; Lua |
| ScriptEngine `src/luau/script_engine.cpp` | running and destroyed flags, context, scheduler | initialize, execute_*, step, shutdown | script manager, waiting job, TaskScheduler |
| LuauWaitingScriptJob `src/roblox/jobs/scripting/` | none of its own | should_execute, execute | TaskScheduler, engine |
| TaskScheduler, jobs `src/roblox/task_scheduler.cpp` | m_jobs, m_name_to_id, next id, shutdown flag | register, unregister, execute_jobs_for_kind, cleanup, shutdown | hook, JobManager, mods |
| TaskScheduler, engines (same file) | m_data_models, m_script_engines | set_data_model, create_or_get, cleanup_*, shutdown | watcher, script manager, waiting job |
| Jobs `job_base.hpp`, `job_manager.cpp` | job state, last execution | should_execute, execute, destroy | TaskScheduler |
| DataModelWatcherJob `src/roblox/jobs/data_model_watcher_job.cpp` | tracked DataModels, when each was stepped, time of the last check | should_execute, execute | TaskScheduler, script manager |
| ScriptManager `src/luau/script_manager.cpp` | loaded mods, their scripts by type, one Lua thread per mod | load, execute_scripts_for_context, reload | TaskScheduler, engine |
| ScriptContext `src/luau/script_context.cpp` | Lua state, identity | elevate, set identity | engine |
| Job step hook `src/hooks/task_scheduler/jobs.cpp` | none | on_job_step | hooking, TaskScheduler |
| Hooking `src/hooking/` | vtables, detours, m_jobs_hook | construct, enable, disable | main |
| Startup `src/main.cpp` | the global pointers | one thread creates everything in order | all |
| Mod manager, events `src/mod_manager.cpp`, `events.hpp` | mods, handlers | load, unload, register, emit | main, native mods |
| GlobalsRegistry `src/luau/environment/globals_registry.cpp` | providers | register_provider, register_all_globals | script manager, engines |
| BridgeProvider `bridge_provider.cpp` | listeners, functions, shared data, lua_state | add, remove, trigger, call_luau_function, handles | native mods, scripts |
| RequireProvider `require_provider.cpp` | module caches, kept original functions | custom_require, original_require | scripts |
| Configuration `src/config/` | core and mod settings, watching thread | load, save, update, watch, stop | main, mods |
| Memory scanning, RTTI `src/memory/` | a batch and its futures; none after | scan, scan_all, run | pointers, TaskScheduler |
| Exceptions, logging, profiling, rendering hooks | output | | |

How they interact. `on_job_step` replaces `Job::step` in the vtables of four Roblox
job classes; on whichever thread Roblox steps such a job it calls
`execute_jobs_for_kind`, which takes a snapshot of the registered jobs under a
shared lock and runs them without it, and then the original function through
`g_hooking`. Two jobs matter here: the DataModelWatcherJob, which calls
`set_data_model` (and so creates and erases engines) and then
`execute_scripts_for_context`; and the LuauWaitingScriptJob, which steps the
scheduler of an engine. Scheduling a script returns a `std::future`; a detached
thread waits for it and answers the caller. Engines are held by `shared_ptr`: the map has
one reference, a call or step in progress another, the detached threads none. When an
engine is set up the providers of `GlobalsRegistry` put `require` and the bridge into its
Lua state. Native mods and scripts meet in the bridge.

What is hard. Nothing is stepped by one thread only; decisions are taken under
one lock and acted on under another, or under none; objects are looked up twice
in one operation; promises must be set exactly once on every path; failures
leave the first of two updates done; a DataModel, a Lua state and a Lua thread are
known by an address; pointers are published in the middle of what reads them; listeners
come and go while they are called; a file changes while it is read. The list, with lines and
the properties that watch each, is `hazards` in `PROJECT.json`.

What makes each component right:

* ScriptScheduler: a script that was accepted is started once, in its turn, or its promise
  says why not; nothing is lost, doubled, run early, or left open.
* ScriptEngine: every caller is answered, once; nobody is inside an engine that is
  gone.
* Job registry: both maps tell one story; answers are true; what is due runs; what is
  unregistered does not.
* DataModels and engines: a type has one engine, which runs; it runs in the Lua state of the
  type's DataModel unless it was an orphan; a DataModel gets its scripts once for each time it was
  forgotten, on an engine of its type; no engine is left running.
* Startup: who comes late finds everything, and who comes too early finds nothing null
  after the last pointer is set; native mods come before scripts.
* Environment: a listener has one owner and is called once for each event; a call into Lua
  ends in the state it began in; a module runs once.
* Configuration: what is loaded never goes back in time, and a write is not missed.
* Signatures: the search passes over nothing and ends, and the batch tells the truth about it.

## 2. Modules

| Module | Models | Checked by |
|---|---|---|
| `ScriptLifecycle` | what a scheduler promises of each script, with no queues or threads | abstract specification |
| `JobTable` | what the job registry promises: one table of jobs by name, answers given once, jobs run as they were found | abstract specification |
| `EngineSlots` | what the task scheduler promises of engines: one running engine for a type | abstract specification |
| `ScriptScheduler` | `script_scheduler.cpp` | TLC, TLAPS; implements `ScriptLifecycle` |
| `ScriptEngine` | `script_engine.cpp`, the waiting job, the callers in `script_manager.cpp`, composed with `ScriptScheduler` | TLC, TLAPS; implements `ScriptScheduler` |
| `JobRegistry` | the job part of `task_scheduler.cpp`, `job_base.hpp`, `job_manager.cpp` | TLC, TLAPS; implements `JobTable` |
| `DataModelEngines` | the engine part of `task_scheduler.cpp`, `data_model_watcher_job.cpp`, `script_manager.cpp` | TLC, TLAPS; implements `EngineSlots` |
| `Startup` | `main.cpp`, the constructors of hooking and ScriptManager, `mod_manager.cpp`, `jobs.cpp` | TLC, TLAPS |
| `Environment` | `bridge_provider.cpp`, `require_provider.cpp`, `register_all_globals` | TLC, TLAPS |
| `ConfigManager` | `config_manager.cpp`, `config_helpers.hpp` | TLC, TLAPS |
| `SignatureScan` | `range.cpp`, `batch.hpp` | TLC, TLAPS |
| `*Proofs` (eight) | the theorems about the module of that name | TLAPS |
| `MC*` | small instances; `MCDataModelEnginesStarved` adds a history variable | TLC |

An action is what one thread does between two points at which another thread may
get in: one critical section with the unlocked reads just before it that cannot be
told apart from it, or one unlocked read or write. `C++` names are kept where
TLA+ allows. Definitions marked "seeded fault" are plausible bugs: the entry in
`mutants` says which definition each stands in for, and each makes a property
fail; the specifications never use them.

### ScriptScheduler

`queue`, `yielded`, `running`, `limit`, `executing` are the members of the class;
`promise` is the `completion_promise` of each context (`none`, `pending`, or what it
holds in the end, `broken` when it is destroyed unset); `caller`, `stepper`, `hand`,
`target` and `down` say where a call of schedule_script, of step, of cancel_script and of
stop stands and what it holds; `deferred` and `arrival` are history.

| Action | Code |
|---|---|
| `Submit`, `Admit`, `AdmitRefused` | schedule_script: the test of `m_is_running` without the lock; the limit and the push under it |
| `StepBegin`, `StepPoll`, `StepTake`, `StepFindsNothing` | step and get_next_script, queue by queue, with the rotation of a delayed front |
| `StepEnter`, `StepExecute`, `StepLeave` | execute_script around task_defer, its exception path, the end of the context and of its promise |
| `YieldScript`, `ResumeScript` | the parked coroutines |
| `CancelQueued`, `CancelYielded` | the two critical sections of cancel_script |
| `ShutdownFlag`, `ShutdownDrain`, `ShutdownUnpark`, `Destroy` | stop, cancel_all_scripts, the destructor |

`ScriptLifecycle` is refined under the mapping `StatusOf`: new, waiting, started, and then
finished, cancelled or refused by what the promise holds. An accepted script is queued or in the
hand of a step.

### ScriptEngine

EXTENDS `ScriptScheduler` and uses its actions, without delayed scripts (`EngineAssumption`: nothing in the
engine calls schedule_script_delayed). `engine` follows one engine from
its construction through the map to its destruction (`erased` and `stopping` are the
cleanup thread's or the shutdown's doing); `request` and `result` follow a call of
execute_internal* and the future it returned; `polled` is the decision of
should_execute_impl, which looks the engine up and lets go of it before execute_impl looks
it up again. Calls and steps hold a reference, so `Drop` waits for them; the detached
waiter and a job between poll and step do not. Whoever cancels a script may have looked the engine up
long before, and holds it past its erasure and shutdown. Every step of the composition is one of the
scheduler's actions or leaves its variables alone, so what is proved of the scheduler's `Spec`
carries over.

### JobRegistry

`jobs` and `names` are the two maps, `state` and `elapsed` belong to the jobs,
`registrar`, `remover`, `worker`, `batch` and `current` say where each thread stands;
`answer` is the history of what callers were told. Registration is `RegisterBegin`
(flag, name, id) and `Insert` or `InsertRefused` under the lock; `Insert` may fail between the
two `emplace` calls when `MaxThrows` allows. Removal by name is `LookUp` and `UnregisterFound`.
A step is `StepBegin`, `Snapshot`, `ExecuteBegin`/`ExecuteEnd` for each job by priority, and
`StepEnd` with its cleanup.

`JobTable` is refined with `names` as the table, `answer` as what callers were told and `batch` as
what a thread is going to run: a registration takes effect at `Insert`, a removal where both maps are
erased. An `emplace` that throws half way leaves a job without a name, and the next job of that name can take that name out
with it when it is destroyed; `ImplementsTable` therefore claims the steps up to the first throw, and
`MapsAgree` and `ToldTheTruth` say in one part what survives a throw and in the other what does not.

### DataModelEngines

DataModels are numbers with a type and an address; `current` and `engineOf` are the
maps of the task scheduler, `tracked` and `stale` those of the watcher, `throttled` its
shared 16 ms, `at` where a watcher stands: any number of threads step DataModels, each DataModel one
thread at a time, because it has one job that is stepped. `triggered`, `dropped` and `scheduled` are history:
how often a DataModel's scripts were executed, how often a cleanup took a type out of `m_data_models`, and
what the last scheduled scripts run on. `Poll` (or `Glance`, when throttled) is should_execute,
`Compare` the comparison and the choice of stale types, `CleanEngine` and `CleanModel` the
two halves of cleanup_data_model, `ReadOld`, `Replace`, `Publish`, `Create` the four critical
sections of set_data_model, `Trigger`, `GiveThread`, `ScheduleMod`, `Done` the
execution of the scripts under `m_scripts_mutex`, `Unload`/`Reload` a reload,
`FindOrphans`/`CleanOrphan` the orphan cleanup, `EngineDown` the detached shutdown, and
`ShutdownFlag`/`ShutdownEngines` the end. `Open` and `Close` are the game's.

The test of the shutdown flag in should_execute_impl and the note of the DataModel under its mutex are one step.

`EngineSlots` is refined with the status of an engine and the type of the DataModel it was made for (`SlotOf`).
An engine can come to run for the wrong DataModel (`EngineMatchesModel` is false, section 5), but never beside
another one of its type, and `SupersededOnlyAsOrphan` says by which way alone it comes to that: the step that
made it crossed a cleanup of its type, so that it was left without a DataModel first. Likewise a DataModel's scripts can
be executed again, and `AgainOnlyIfDropped` says how often.

### Startup

`phase` is the statement of main that runs and `todo` what its loop has left, so that
Roblox's steps get in between any two rounds. `HookKind` writes a vtable (`live`) and `StoreHook`
stores the hook where `on_job_step` will look for the original function (`stored`): two steps, as in the
constructor of hooking. `PublishHooking` and `PublishScriptManager` set the two
pointers; the providers, the native mods and the scripts follow. A step of Roblox is `OnJobStep`, `Watch`
or `NothingNew`, `Trigger` (which uses `g_script_manager` unchecked, data_model_watcher_job.cpp:82)
and `CallOriginal`; one that meets a null pointer is `lost`, and with it the process. `late` marks
steps and DataModels that came when main was through with what they need.
load_mod_scripts does not ask whether a mod is enabled; `LoadModScripts` does not either.

### Environment

Engines' Lua states open and close (`open`), scripts run on Lua threads of them (`Owner`), and
`SetUp`, `RegisterRequire`, `RegisterBridge` are register_all_globals. The original `require` is kept if it is a
function when the provider comes, and not otherwise. For require:
`RequireCached`, `RequireFile`, `Load`, `LoadFails`, `RequireOriginal`; the caches are those of a Lua
thread, as in the code, and remember which state their references are of. For
the bridge: `AddListener` by native handle or by Lua, `Unregister` (also the destructor), `MoveAssign`,
`TriggerEvent` which copies the listeners, `CallListener`, `TriggerEnds`; `CallLuau`, `CallNested` and
`CallReturns`, with `instance_mutex` (`holder`) held while Lua runs; a call whose state was closed under it comes
back into nothing (`lost`).

### ConfigManager

`file` is what the file holds, by section the write it comes from; `conf` is the same for the memory.
A load is `Parse` and `Apply` in one critical section, by the client or the watching thread; a
save truncates (`SaveConfig`) and writes (`ConfigSaved`, `SaveFails`), and the file may be read by
nobody but the editor and the program in between. The watching thread is `ReadFirstTime` (or `FirstTimeFails`, which
ends it), `Head`, `Unchanged` or `Poll`, `Reload`, `Reloaded`, `Callback`; time stamps may repeat (`Written`).
`Construct`, `Destroy` and `Move` are those of ConfigWatcher, and stop_watching joins (`Joined`).

### SignatureScan

A memory, some signatures with wildcards, one search each (`Compare`, `NotFound`, `Execute`) and
the loop of run over the futures (`Take`). `Shift` is the shift table that scan_pattern fills, written
as what it holds for a byte.

## 3. Runs that pass

| Run | Instance | Shows |
|---|---|---|
| `scheduler_safety` | three scripts, two of one Lua thread, one delayed, two priorities; two stepping threads, a canceller, limits 1 and 2 that change | `UniqueHolder`, `NoLostPromise`, `HeldIsPending`, `CancelledNeverRuns`, `ExecutingCount`, `NothingSurvives` in every interleaving; `ImplementsLifecycle`: the scheduler is a `ScriptLifecycle`, within its limit |
| `scheduler_fair` | three scripts of one priority, one delayed, one coroutine that may park; one stepping thread | `ImmediateFifo`: rotations and removals keep the others in order; `Settles`: every open promise is answered |
| `engine` | two callers on one mod thread each, a stepping thread, a canceller, limits 1 and 2 | `AnsweredOnce`, `NobodyLeftWaiting`, `NoStepAfterDrop`; `EveryRequestAnswered` |
| `registry` | two registering threads, a remover, a worker, two ids, two names, one of them periodic, two kinds, two emplaces that may throw | `MapsAgree`, `ToldTheTruth`, `RemovesWhatItFound`, `RetiredForGood`; `ImplementsTable`: until one throws, the registry is a `JobTable`; `DueJobRuns` |
| `models` | two DataModels of two types and one mod with scripts for both; two watchers, engines that may fail to start, one lapse of 5 s, reloads without bound | `MapHoldsRunning`, `OnlyBegunRemain`, `AgainOnlyIfDropped`, `ScriptsOnOwnType`, `SupersededOnlyAsOrphan`; `ImplementsSlots`: the maps and their cleanups are `EngineSlots`; `LoneModelHandled` |
| `startup` | two mods, one disabled; two kinds of jobs, any of which may be unknown; two providers, two stepping threads, two DataModels | `SurvivesOnceReady`, `ServedOnceLoaded`, `NativeFirst` |
| `environment` | two Lua states with a script each, two modules of which one requires the other; two events, two handles, two listeners, two threads | `HandleOwnsListener`, `CalledOnce`, `CallKeepsItsState`, `LoadedOnce` |
| `config` | a section and a mod, two changes of the file, two ConfigWatcher objects | `NotedIsLoaded`, `LoadsInOrder`, `WriteIsLoaded` |
| `signatures` | every memory of five bytes of two values, every pair of signatures of up to three bytes | `RunIsRight`, `RunReturns` |

Some properties that the modules state are in no run. `QueueBound`, `NoEngineLeaks` and `NothingSkipped` are what
`ImplementsLifecycle`, `ImplementsSlots` and `RunIsRight` need: a fault that breaks one breaks the other. `ResolvedOnce` is in
`ImplementsLifecycle` as far as a caller can tell one status from another. `NotBeforeDue` and the `TypeOK` of each module are
steps of other arguments. All of them are proved (section 6), and any may be added to the configuration of its module.

The bounds, and why they are enough. Three scripts make a queue with a front, a middle and a
back, which is what rotation and removal need to go wrong, and with limits 1 and 2 the queue is
full in some states and has room in others. Two stepping threads race each other; a third adds
no kind of step. `MaxParked` is 0 in `scheduler_safety` and 1 in `scheduler_fair`: a parked
coroutine has no promise and touches nothing but its list. In `engine` one thread steps, so
that the liveness property is within reach; the races of two stepping threads are the scheduler's
and are checked there. In `registry` two ids let a name be registered, removed and
registered again while somebody still holds the old id, and two throws strike both of them; two threads that register race for a name.
`registry_periodic` has two workers, which is what it is about. `CleanupEvery` is 2 for 100: a cleanup and a step without one. Two
DataModels are of two types, where the check of one makes the watcher forget the other, or of one, where the second
replaces the first; the two watchers step them at the same time. `MaxLapses` bounds how often 5 s pass: one lapse is a
cleanup, after which the same DataModel is found anew, leaves an orphan or takes one over. `MaxEngines` leaves an engine
for each DataModel and one for the lapse, and no behaviour of this instance asks for a fourth. In `startup` two of
everything is a first and a last round of each loop, with a step in between. In `environment` the
listener that is removed and the one that stays are two, and a module that another one requires nests two
deep; `Apart` separates behaviours that require from behaviours that use the bridge, which share no
variable but the Lua states. In `config` two writes are one that is loaded and one that comes meanwhile. In
`signatures` a signature of three bytes has a first, a middle and a last one, each of which may be a
wildcard, and stands at three places. The theorems of section 6 lift most of
these bounds. Deadlock is not checked where the system may stop: after a shutdown, when the bounded
inputs are used up, when the startup is over or a process is lost.

`models` keeps one of each set of states that differ by a renaming of types, addresses and threads (`InOrder`),
because SYMMETRY is unsound for liveness; the constraint only fixes which name comes first. A DataModel keeps
its address and type once it has them, and a thread that has stepped one has stepped one, so a behaviour that leaves the constraint
never comes back into it, and a renaming of it obeys the constraint throughout. Runs that use SYMMETRY check no liveness.

## 4. Fairness

Only what the code or its surroundings owe. A thread inside a call goes on (weak fairness
on its steps). The waiting job is polled every frame and sees a queue that stays
occupied. Time passes for delayed scripts and throttles. A shutdown or cleanup that has begun ends,
and an object is destroyed when nobody holds it. A search goes on, and run waits for it. Nobody is
obliged to call, cancel, register, write or shut down. Strong fairness appears where a step is enabled again and
again, not continuously: `Snapshot` of each kind of job (the worker is busy with others in between), the
destruction of a stopped engine (`Drop`: references to it come and go, and the last one to go takes it
along), and the watching thread of the
configuration (which waits for a mutex that the client takes again and again). `Poll` of a DataModel has weak fairness
only: the 16 ms throttle is shared by all DataModels, so one that is stepped as often as any other may find it set each time,
and `MCDataModelEnginesStarved.cfg` shows that it then is never checked. `LoneModelHandled` therefore promises only what the code keeps: a
DataModel that is the only open one from some time on is handled, whatever failed, was forgotten or was reloaded before. With no other
DataModel to set the throttle, it stays clear until this one is checked. The client of the configuration has weak fairness on finishing what it began.

## 5. What the violations show

Three runs check one statement of a comment, a header or a log line each, and TLC finds the
code doing otherwise. The findings in `PROJECT.json` quote the line.

* `engine_success`, `SuccessMeansRan`: "executed successfully" is logged for a script that was
  refused or cancelled; the waiter never looks into the future.
* `registry_unregister`, `UnregisteredNeverRuns`: a job runs after it was unregistered and freed.
* `registry_periodic`, `OncePerInterval`: a job registered to run "at fixed intervals" runs twice in one
  interval when two threads step its kind: both test the interval before either notes the start.

Further configurations, kept for whoever changes the code, each refute a statement, some under wider
assumptions than the runs above make. Each is run with `tlc -config <file> <module>`.

| Configuration | Statement | What happens |
|---|---|---|
| `MCDataModelEnginesState.cfg` | `EngineMatchesModel` | an orphan is found by the next DataModel of its type, which runs its scripts in the Lua state of the one before |
| `MCDataModelEnginesOrphan.cfg` | `OnlyOrphansCleaned` | the orphan cleanup shuts down the engine of a DataModel published since it looked, which then counts as handled and has no engine |
| `MCDataModelEnginesReused.cfg` | `LoneModelHandled` | a DataModel at the address of a closed one is not noticed |
| `MCDataModelEnginesThread.cfg` | `ThreadFitsEngine` | a mod's scripts for a second type run on a Lua thread of the first one's state |
| `MCDataModelEnginesStarved.cfg` | `NewModelTriggered` | one DataModel's checks keep another from ever being checked, though the game steps both for ever |
| `MCDataModelEnginesFailing.cfg` | `TriggeredMeansHosted` | an engine that fails to start is never tried again, and success is logged |
| `MCDataModelEnginesDown.cfg` | `AllShutDown` | an engine is created after all engines were shut down |
| `MCStartupEarly.cfg` | `TriggeredMeansScripts` | a DataModel met before the scripts are loaded never runs them, and success is logged |
| `MCStartupPartial.cfg` | `FullEnvironment` | a Lua state set up while providers are registered lacks the rest |
| `MCStartupHandlers.cfg` | `HandlersHeard` | what on_load registers is dropped: the event manager is set afterwards |
| `MCEnvironmentOriginal.cfg` | `InstanceRequired` | the original require was kept for the state, and is looked for under the Lua thread of the script |
| `MCEnvironmentReused.cfg` | `CachedHere` | a new Lua thread at the address of an old one finds the references of a closed state |
| `MCEnvironmentClosed.cfg` | `OpenStatesOnly` | a listener or call_luau_function uses the Lua state of an engine that is gone |
| `MCEnvironmentRemoved.cfg` | `RemovedIsNotCalled` | a listener is called after unregister has returned, from the copy of a trigger |
| `MCEnvironmentNested.cfg` | `NobodyStuck` | a Lua function that comes back to call_luau_function waits for itself |
| `MCEnvironmentCircular.cfg` | `LoadedOnce` | modules that require each other are run again and again |

More statements are false and need no configuration of their own: take each for the properties of the one named.

| In | Statement | What happens |
|---|---|---|
| `MCJobRegistry.cfg` | `FailedIsNotRegistered` | when `emplace` throws half way, the caller is told that the registration failed and the job stays registered |
| `MCConfigManager.cfg` | `EveryWriteLoaded` | a second write within the resolution of the time stamps is not loaded |
| `MCConfigManager.cfg` | `UpdateSurvives` | a reload replaces an update that was not saved |
| `MCConfigManager.cfg` | `WatcherWatches` | the destructor of a ConfigWatcher that was moved from stops the other's watching |
| `MCStartupEarly.cfg` | `DisabledStaysOut` | the scripts of a disabled mod run |
| `MCSignatureScan.cfg` | `AllFound` | scan_all leaves out the last place |

Met while modelling, and outside the models: listen_event in Lua keeps a reference to its first argument,
the event name, and not to the callback; `libraries/bridge.luau:36` passes mod, event and callback where
`bridge_provider.cpp` takes the callback second; `LUAE_NEWTHREAD` and `LUA_PUSHVALUE` of `pointers.cpp` (55 to 77)
are prefixes of `LUA_LOAD`; `range::contains` counts the end in; get_core_config returns a
reference that is used after the lock is gone.

## 6. What is proved

Every theorem holds for all values of the constants that satisfy the module's named
assumption, which says what the constants are and bounds nothing that the code does not bound. Hypotheses
beyond it are in the statement.

| Module | Theorems, with the property each states |
|---|---|
| `ScriptSchedulerProofs` | `Inductive`; `TypeCorrect`; `OneOwner` (`UniqueHolder`); `PromiseKept` (`NoLostPromise`); `HeldOpen` (`HeldIsPending`); `QueueBounded` (`QueueBound`); `CancelledStays` (`CancelledNeverRuns`); `Counted` (`ExecutingCount`); `AllAnswered` (`NothingSurvives`); `Punctual` (`NotBeforeDue`); `SetOnce` (`ResolvedOnce`); `InOrderOfArrival` (`ImmediateFifo`); `Refines` (`ImplementsLifecycle`) |
| `ScriptEngineProofs` | `EngineInductive`; `WaitersAnswered` (`NobodyLeftWaiting`); `NobodyInside` (`NoStepAfterDrop`); `OneAnswer` (`AnsweredOnce`) |
| `JobRegistryProofs` | `Registered`; `TypeCorrect`; `OneStory` (`MapsAgree`); `AnswersStayTrue` (`ToldTheTruth`); `RemovalIsExact` (`RemovesWhatItFound`); `GoneIsGone` (`RetiredForGood`); `Implements` (`ImplementsTable`) |
| `DataModelEnginesProofs` | `EnginesKept`; `Typed`; `MapRuns` (`MapHoldsRunning`); `NoneLeaks` (`NoEngineLeaks`); `SlotsImplemented` (`ImplementsSlots`); `BegunRemain` (`OnlyBegunRemain`); `SupersededNeedsCleanup` (`SupersededOnlyAsOrphan`); `AgainNeedsDrop` (`AgainOnlyIfDropped`); `OnOwnType` (`ScriptsOnOwnType`) |
| `StartupProofs` | `Starting`; `StartupTypes`; `StepsSurvive` (`SurvivesOnceReady`); `LateModelsServed` (`ServedOnceLoaded`); `NativeModsFirst` (`NativeFirst`) |
| `EnvironmentProofs` | `Surroundings`; `EnvironmentTypes`; `CallsAreAlone` (`CallKeepsItsState`); `EachCalledOnce` (`CalledOnce`); `HandlesOwn` (`HandleOwnsListener`); for any `rank` with `Ranking(rank)`: `LoadsOnce` (`LoadedOnce`) |
| `ConfigManagerProofs` | `Pending`; `ConfigTypes`; `InOrder` (`LoadsInOrder`); `NotedBeforeLoad` (`NotedIsLoaded`) |
| `SignatureScanProofs` | `Searching`; `SearchTypes`; `SkipsNothing` (`NothingSkipped`); `RunTellsTheTruth` (`RunIsRight`); `EveryStepCounts` |

So every invariant, action property and refinement that a passing run checks is a theorem as well; what is
left to TLC is liveness.

**The scheduler.** None of its invariants is inductive alone. `NoLostPromise` survives a rotation only
if no script is in a queue twice; `HeldIsPending` survives a cancellation only if what is
cancelled is not in a hand; `ResolvedOnce` needs both. `IInv` puts them together:
`QueuesSound` (each queue has distinct entries, of its priority, whose calls have returned, whose
promises are open, that have not run and that nobody holds), `HandsSound` (a stepping thread holds a
script exactly from `taken` on, alone, and unanswered until task_defer), `PromisesSound`
(what a promise says agrees with where the call and the script are) and `EndSound` (a destroyed
scheduler is empty and nobody is inside). The queues are handled through a
small theory: `Picks` says that one sequence's entries are chosen from another's without
repetition, and appending, taking, rotating, filtering and emptying all preserve that (`RankTaken` to
`TakenQueues`); the lemmas with names ending in `Sound` then treat one action each, and
`NextSound` collects them. The refinement computes what `StatusOf` is from the promise and from who holds the
script (`FatesTell`), and maps each action to one of the lifecycle's or to a stutter. For
`ImmediateFifo` a second invariant, `FInv`, says that in every queue the scripts that are not delayed
stand in the order of their arrivals: a rotated front is delayed, because it was not due; a rebuilt
queue keeps the order of what it keeps (`KeptAtInOrder`); and whoever is appended has the largest
number, because arrivals count those that have one.

**The engine.** The lemma `EngineUsesScheduler` comes first: each action of the composition is a step of the
scheduler's `Next` or leaves its variables alone. All of `IInv` is thereby known of the engine,
and `EngineInv` only adds how far the engine and its scheduler are together and where each
request stands. `NobodyLeftWaiting` then follows from the fact that a destroyed scheduler has
no open promise.

**The registry.** `RInv` adds to the properties that an id belongs to one call of register_job, with its name for good
(`IdsGivenOut`), and that what a removal has looked up keeps its name (`FoundKeepsName`). Ids are never given out again,
so what is removed under an id is what was found under it, and a job that is out of the map and of every
snapshot stays out (`GoneIsGone`). No theorem bounds the number of throws: the part of the invariant that a throwing `emplace`
destroys (`WholeUntilThrown`) is claimed until one does, the rest for ever. `Implements` maps each action to
one of `JobTable`'s; a cleanup and a clearing shutdown map to `Remove` of a set, and that the
table and the answers change together is where `MapsAgree` and `ToldTheTruth` are needed.

**The engines of the DataModels.** `MapHoldsRunning` and `NoEngineLeaks` are inductive together with the types and
need no assumption on threads. The refinement of `EngineSlots` adds one invariant, `Known`: an engine that was ever started was made for a DataModel
that has its type by then and keeps it, and the engine in the map under a type was made for that type. A step that creates an engine finds the slot of its type empty because the engine of a type is in the map under that
type (`RunningSlot`), which is where `NoEngineLeaks` comes in. `OnlyBegunRemain` rests on the shutdown flag being tested at the
beginning of a step.

The last three hold for any number of threads, and each has an invariant of its own. `Apart` says that two threads never step the
same type of DataModel past `Compare`: the type has one open DataModel, which nobody closes while it is stepped.
`Way` follows from it that what a step knows of its type can only be taken away by a cleanup: once it has read the old
address, the type has that address or none; from `Replace` on, an engine of the type is an orphan, or one made for the DataModel that is
stepped (`OnTheWay`). Only `Publish` can make an engine
stand for another DataModel than its own, and `Way` leaves only the orphan (`SupersededNeedsCleanup`).
`Counted` compares the executions with the drops: the scripts of an open DataModel that its type does not stand for have been executed at most
as often as the type was dropped, and so have those that a thread which recorded the DataModel is about to execute, one time fewer when
the record is gone again. Only a thread that found the DataModel unrecorded gets to `Trigger`, which adds one; and only a drop takes a record away.
`OwnSlots` says that scripts were scheduled on an engine made for a DataModel of their type: a mod's scripts go to the engine
in the map under the type, which by `Known` was made for it, and what an engine was made for does not change.

**Startup.** `SInv` says of each statement of main what is built by then: a live vtable has its hook stored but for
the last one, late steps see `g_script_manager` set, and late DataModels have all.

**Environment.** `EInv`: lists grow strictly and hold ids that were given out and not removed, each in one list;
handles and listeners correspond; what a trigger has called comes before what it has left to call, and
both together hold whoever was there all along; a call in Lua holds the mutex and its state. That a
module runs once needs that requiring is not circular, which `Ranking` states: a number that falls along
every require. Modules being loaded then have rising ranks, so none is loaded inside itself.

**Configuration.** What a thread has parsed is applied before anybody else parses, and the file's version only
grows, so what is about to be applied is no older than what was loaded (`PendingIsNewer`). `NotedInTime` follows the watching
thread through its round: the write it has noted is no newer than the file when it loads, than what it parsed when it applies, and
than what is loaded when it calls back. The client may load at any of these points, which only makes what is loaded newer.

**Signatures.** The heart is a lemma about `Shift`: if the signature occurs at a place behind the one just compared, and before
the one the shift leads to, then its byte there stands nearer to the end than the table says, or is the wildcard at
which the table starts. `FalseIsNowhere` follows when a search ends, and the loop of run by counting the
signatures it has taken. `EveryStepCounts` gives each signature a measure (`Left`: the places not yet passed, then the callback, then
being taken by run) and shows that every step lowers one of them and leaves the others; `RunReturns` then asks only that threads
are run, and is left to TLC because of that fairness.

TLC checks the strengthened invariants' parts that are properties of their own, in the runs above.

## 7. What is only model-checked, and what is not modelled

Liveness (`Settles`, `EveryRequestAnswered`, `DueJobRuns`, `LoneModelHandled`, `WriteIsLoaded`, `RunReturns`) is
beyond the proof system and is checked on the instances of section 3.

Left out of the modelled components: Lua itself (a script's run is one outcome of task_defer or
lua_resume), job and time statistics, log output, the matching of script files, how a module name is
resolved, the bridge's shared data and function tables and the conversion of values (maps under one mutex, and
copies), the contents of configuration sections, the byte-level races on unprotected containers (each access is one
step), and what a mod's callback does inside a lock. The memory a signature is searched in is at least as long as the signature
(`SignatureAssumption`): the subtraction in `range.cpp:57` would wrap otherwise.

Not modelled, and why:

* The end of the process. Nothing sets `g_running` to false: hooking's disable, unload_mods and shutdown_providers are never
  reached. `EventManager::emit`, `unregister_mod`, `cleanup_cache_for_state`, `byte_patch` have no caller, and the
  authentication hook is never installed. There is no behaviour to be right or wrong about.
* Detours, call hooks, vmt hooks: patches of code through a library, with no state of their own here beyond
  the order in which they are made, which `Startup` models.
* The PE parser and the RTTI scanner: one walk over structures of the image, with no state and nobody else at it.
* ScriptContext, rendering hooks, structures of Roblox: layouts, and writes into them.
* Exceptions, logging, profiling: output.
* Luau type stubs, examples, the proxy generator, build files: not part of the running loader.
* `g3d`, `bullet_physics`, `rbxg3d`, `util` and the like under `include/RobloxModLoader/roblox` and `src/roblox/g3d`: vendored and
  reconstructed mathematics, about 60 000 of the repository's 74 000 lines, none of it concurrent or stateful. This is why the
  models cover a small share of all lines; of the loader's own logic they cover the larger part, and what
  is left of it is in the list above.

## 8. Plan

What would come next:

1. A composition of `JobRegistry` and `DataModelEngines`: the watcher as a registered job, whose entry another thread may
   remove while it is in set_data_model.
2. A composition of `DataModelEngines` and `Environment`: the set-up of an engine's Lua state inside set_data_model, and its
   closing by the detached shutdown, in place of the free `OpenState` and `CloseState`.
3. The bridge's shared data and function tables, if they get operations that are not one critical section.
4. Mods that are unloaded, when something unloads them.
5. `FailedIsNotRegistered` as a theorem, once `register_job` undoes its first `emplace`.

## 9. Running it

    tlasany ScriptScheduler.tla
    tlc -workers 2 -config MCScriptScheduler.cfg MCScriptScheduler
    tlapm ScriptSchedulerProofs.tla
