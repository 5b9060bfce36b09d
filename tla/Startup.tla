-------------------------------- MODULE Startup --------------------------------
(****************************************************************************)
(* The main thread of src/main.cpp brings the loader up in one fixed order,   *)
(* and each constructor publishes a global pointer.  From the middle of the    *)
(* constructor of hooking on, Roblox's threads step jobs through               *)
(* hooks::on_job_step, which uses pointers that are set before it, after it     *)
(* and much later.                                                             *)
(****************************************************************************)
EXTENDS Naturals, Sequences, FiniteSets

CONSTANTS
    Directory,   \* the mod directories, in the order of directory_iterator
    Disabled,    \* those whose mod.toml says enabled = false
    Scripted,    \* those with a mod.toml and a scripts directory
    JobKinds,    \* the kinds hooking hooks, in its order
    Watched,     \* the kind of DataModelWatcherJob, WaitingHybridScripts
    Providers,   \* the default environment providers, in order
    Steppers,    \* Roblox's threads
    Models,      \* DataModels, each of a type of its own
    None

Range(s) == {s[i] : i \in DOMAIN s}
Mods == Range(Directory)
Kinds == Range(JobKinds)

ASSUME StartupAssumption ==
    /\ Directory \in Seq(Mods) /\ JobKinds \in Seq(Kinds) /\ Providers \in Seq(Range(Providers))
    /\ Disabled \subseteq Mods /\ Scripted \subseteq Mods
    /\ Watched \in Kinds
    /\ None \notin Kinds /\ None \notin Models /\ Steppers \cap Models = {}

VARIABLES
    phase,    \* the statement of main that runs
    todo,     \* what its loop has left
    mods,     \* mod_manager::mods
    hearing,  \* mods whose event_manager pointer is set
    handlers, \* mods whose handler of on_load is registered
    mapped,   \* TaskScheduler::m_kind_to_vtable
    live,     \* kinds whose vtable leads to on_job_step
    stored,   \* hooking::m_jobs_hook
    native,   \* mods whose on_script_manager_load has run
    envs,     \* GlobalsRegistry: the registered providers
    scripts,  \* ScriptManager::m_loaded_mods
    at, kind, model,  \* a step: where it stands, its kind, its DataModel
    late,     \* history: the step, the DataModel was met after the loader was up
    known,    \* TaskScheduler::m_data_models
    globals,  \* providers whose globals the engine's Lua state of a DataModel has
    executed  \* mods whose scripts the trigger of a DataModel scheduled

vars == <<phase, todo, mods, hearing, handlers, mapped, live, stored, native, envs,
          scripts, at, kind, model, late, known, globals, executed>>
mainVars == <<phase, todo, mods, hearing, handlers, mapped, live, stored, native,
              envs, scripts>>
stepVars == <<at, kind, model, late, known, globals, executed>>

Alive == phase # "terminated" /\ \A s \in Steppers : at[s] # "lost"

(* Main goes on to the next statement when its loop has nothing left. *)
Main(p) == Alive /\ phase = p /\ UNCHANGED stepVars
Loop == todo # <<>> /\ todo' = Tail(todo) /\ UNCHANGED phase
EndLoop(p, next) == todo = <<>> /\ phase' = p /\ todo' = next

--------------------------------------------------------------------------------
(* load_mods_from_directory: a disabled mod is skipped, and one without a DLL or
   with one that does not load; register_mod takes the others in. *)
RegisterMod ==
    /\ Main("directory") /\ Loop
    /\ \/ mods' = mods
       \/ Head(todo) \notin Disabled /\ mods' = Append(mods, Head(todo))
    /\ UNCHANGED <<hearing, handlers, mapped, live, stored, native, envs, scripts>>

(* load_mods: each on_load, with mods_mutex held and no event manager known to
   mod_manager yet.  register_event_handler does nothing without it.  Nothing
   catches what on_load throws. *)
LoadMods ==
    /\ Main("directory") /\ EndLoop("on_load", mods)
    /\ UNCHANGED <<mods, hearing, handlers, mapped, live, stored, native, envs, scripts>>

OnLoad ==
    /\ Main("on_load") /\ Loop
    /\ handlers' = IF Head(todo) \in hearing THEN handlers \cup {Head(todo)} ELSE handlers
    /\ UNCHANGED <<mods, hearing, mapped, live, stored, native, envs, scripts>>

OnLoadThrows ==
    /\ Main("on_load") /\ todo # <<>>
    /\ phase' = "terminated"
    /\ UNCHANGED <<todo, mods, hearing, handlers, mapped, live, stored, native, envs, scripts>>

SetEventManager ==
    /\ Main("on_load") /\ EndLoop("task_scheduler", <<>>)
    /\ hearing' = Range(mods)
    /\ UNCHANGED <<mods, handlers, mapped, live, stored, native, envs, scripts>>

(* TaskScheduler finds the vtables of the kinds whose RTTI it knows; JobManager
   then registers the watcher.  Nothing is hooked, so nobody sees the difference. *)
CreateScheduler ==
    /\ Main("task_scheduler") /\ phase' = "hooking" /\ todo' = JobKinds
    /\ mapped' \in SUBSET Kinds
    /\ UNCHANGED <<mods, hearing, handlers, live, stored, native, envs, scripts>>

(* The constructor of hooking.  vtable_hook::hook writes the vtable at once, and
   only then the hook is stored where on_job_step looks for the original. *)
Found(k) == k \in mapped

SkipKind ==
    /\ Main("hooking") /\ Loop
    /\ ~Found(Head(todo))
    /\ UNCHANGED <<mods, hearing, handlers, mapped, live, stored, native, envs, scripts>>

HookKind ==
    /\ Main("hooking") /\ todo # <<>>
    /\ Found(Head(todo))
    /\ live' = live \cup {Head(todo)}
    /\ phase' = "store"
    /\ UNCHANGED <<todo, mods, hearing, handlers, mapped, stored, native, envs, scripts>>

StoredLast(k) == {k}                                   \* seeded fault
Stored(k) == stored \cup {k}

StoreHook ==
    /\ Main("store") /\ phase' = "hooking" /\ todo' = Tail(todo)
    /\ stored' = Stored(Head(todo))
    /\ UNCHANGED <<mods, hearing, handlers, mapped, live, native, envs, scripts>>

PublishHooking ==
    /\ Main("hooking") /\ EndLoop("script_manager", <<>>)
    /\ UNCHANGED <<mods, hearing, handlers, mapped, live, stored, native, envs, scripts>>

(* The constructor of ScriptManager publishes itself, then registers the
   providers one by one, then tells the mods. *)
PublishScriptManager ==
    /\ Main("script_manager") /\ phase' = "providers" /\ todo' = Providers
    /\ UNCHANGED <<mods, hearing, handlers, mapped, live, stored, native, envs, scripts>>

RegisteredLast(p) == {p}                               \* seeded fault
Registered(p) == envs \cup {p}

RegisterProvider ==
    /\ Main("providers") /\ Loop
    /\ envs' = Registered(Head(todo))
    /\ UNCHANGED <<mods, hearing, handlers, mapped, live, stored, native, scripts>>

TellMods ==
    /\ Main("providers") /\ EndLoop("native", mods)
    /\ UNCHANGED <<mods, hearing, handlers, mapped, live, stored, native, envs, scripts>>

OnScriptManagerLoad ==
    /\ Main("native") /\ Loop
    /\ native' = native \cup {Head(todo)}
    /\ UNCHANGED <<mods, hearing, handlers, mapped, live, stored, envs, scripts>>

(* load_mod_scripts holds m_scripts_mutex from beginning to end, and looks at
   every directory again: whether a mod is enabled does not matter to it. *)
ReadyEarly == TRUE                                     \* seeded fault
Ready == todo = <<>>

LoadModScripts ==
    /\ Main("native") /\ Ready /\ phase' = "enable" /\ todo' = <<>>
    /\ scripts' = Scripted
    /\ UNCHANGED <<mods, hearing, handlers, mapped, live, stored, native, envs>>

Enable ==
    /\ Main("enable") /\ phase' = "running"
    /\ UNCHANGED <<todo, mods, hearing, handlers, mapped, live, stored, native, envs, scripts>>

--------------------------------------------------------------------------------
HookingSet == phase \notin {"directory", "on_load", "task_scheduler", "hooking", "store"}
ScriptManagerSet == HookingSet /\ phase # "script_manager"
Up == phase \in {"enable", "running"}

(* on_job_step: Roblox calls it through a vtable. *)
OnJobStep(s, k) ==
    /\ Alive /\ at[s] = "idle" /\ k \in live
    /\ at' = [at EXCEPT ![s] = "jobs"]
    /\ kind' = [kind EXCEPT ![s] = k]
    /\ late' = IF ScriptManagerSet THEN late \cup {s} ELSE late \ {s}
    /\ UNCHANGED <<mainVars, model, known, globals, executed>>

(* The watcher meets a DataModel it does not know: set_data_model records it and
   makes its engine, whose Lua state gets the globals of the providers there are. *)
Watch(s, d) ==
    /\ Alive /\ at[s] = "jobs" /\ kind[s] = Watched /\ d \notin known
    /\ known' = known \cup {d}
    /\ globals' = [globals EXCEPT ![d] = envs]
    /\ model' = [model EXCEPT ![s] = d]
    /\ late' = IF Up THEN late \cup {d} ELSE late
    /\ at' = [at EXCEPT ![s] = "trigger"]
    /\ UNCHANGED <<mainVars, kind, executed>>

(* Jobs of other kinds, known DataModels, and steps within the 16 ms. *)
NothingNew(s) ==
    /\ Alive /\ at[s] = "jobs"
    /\ at' = [at EXCEPT ![s] = "original"]
    /\ UNCHANGED <<mainVars, kind, model, late, known, globals, executed>>

(* on_data_model_changed calls execute_scripts_for_context on g_script_manager,
   set or not; the scripts of every loaded mod are scheduled, and that was the
   only time. *)
Trigger(s) ==
    /\ Alive /\ at[s] = "trigger"
    /\ IF ScriptManagerSet
       THEN /\ executed' = [executed EXCEPT ![model[s]] = scripts]
            /\ at' = [at EXCEPT ![s] = "original"]
       ELSE /\ at' = [at EXCEPT ![s] = "lost"]
            /\ UNCHANGED executed
    /\ UNCHANGED <<mainVars, kind, model, late, known, globals>>

(* The original Step, by way of g_hooking and m_jobs_hook[kind]: null when the one
   is not set yet, or the other has no entry. *)
CallOriginal(s) ==
    /\ Alive /\ at[s] = "original"
    /\ at' = [at EXCEPT ![s] = IF HookingSet /\ kind[s] \in stored THEN "idle" ELSE "lost"]
    /\ UNCHANGED <<mainVars, kind, model, late, known, globals, executed>>

--------------------------------------------------------------------------------
Init ==
    /\ phase = "directory" /\ todo = Directory
    /\ mods = <<>> /\ hearing = {} /\ handlers = {}
    /\ mapped = {} /\ live = {} /\ stored = {}
    /\ native = {} /\ envs = {} /\ scripts = {}
    /\ at = [s \in Steppers |-> "idle"]
    /\ kind = [s \in Steppers |-> None]
    /\ model = [s \in Steppers |-> None]
    /\ late = {} /\ known = {}
    /\ globals = [d \in Models |-> {}]
    /\ executed = [d \in Models |-> None]

MainNext ==
    \/ RegisterMod \/ LoadMods \/ OnLoad \/ OnLoadThrows \/ SetEventManager
    \/ CreateScheduler \/ SkipKind \/ HookKind \/ StoreHook \/ PublishHooking
    \/ PublishScriptManager \/ RegisterProvider \/ TellMods \/ OnScriptManagerLoad
    \/ LoadModScripts \/ Enable

Step(s) ==
    \/ \E k \in Kinds : OnJobStep(s, k)
    \/ \E d \in Models : Watch(s, d)
    \/ NothingNew(s) \/ Trigger(s) \/ CallOriginal(s)

Next == MainNext \/ \E s \in Steppers : Step(s)

Spec == Init /\ [][Next]_vars

--------------------------------------------------------------------------------
TypeOK ==
    /\ phase \in {"directory", "on_load", "task_scheduler", "hooking", "store",
                  "script_manager", "providers", "native", "enable", "running", "terminated"}
    /\ todo \in Seq(Mods) \cup Seq(Kinds) \cup Seq(Range(Providers))
    /\ mods \in Seq(Mods)
    /\ hearing \subseteq Mods /\ handlers \subseteq Mods
    /\ native \subseteq Mods /\ scripts \subseteq Mods
    /\ live \subseteq mapped /\ stored \subseteq live /\ mapped \subseteq Kinds
    /\ envs \subseteq Range(Providers)
    /\ at \in [Steppers -> {"idle", "jobs", "trigger", "original", "lost"}]
    /\ kind \in [Steppers -> Kinds \cup {None}]
    /\ model \in [Steppers -> Models \cup {None}]
    /\ late \subseteq Steppers \cup Models
    /\ known \subseteq Models
    /\ globals \in [Models -> SUBSET Range(Providers)]
    /\ executed \in [Models -> {None} \cup SUBSET Mods]

(* A step that begins once g_script_manager is set finds whatever it uses: the
   pointers, and the hook of its kind.  Vtables are live before the hook is stored
   and before either pointer is set, and any number of steps may be on their way. *)
SurvivesOnceReady == \A s \in Steppers : at[s] = "lost" => s \notin late

(* A DataModel met when the scripts are loaded runs the scripts of every mod, in a
   Lua state that has the globals of every provider. *)
ServedOnceLoaded ==
    \A d \in known \cap late :
        executed[d] # None => executed[d] = Scripted /\ globals[d] = Range(Providers)

(* No script of a mod runs before every native mod has heard of the script
   manager, where it registers the functions that scripts call. *)
NativeFirst ==
    \A d \in Models : executed[d] \notin {None, {}} => native = Range(mods)

(* data_model_watcher_job.cpp:83, "Successfully triggered mod scripts for DataModel
   type": the scripts of the mods were triggered, all of them. *)
TriggeredMeansScripts == \A d \in Models : executed[d] # None => executed[d] = Scripted

(* environment.hpp:37, "Lua environment setup completed successfully": what the
   scripts of a DataModel run in is complete. *)
FullEnvironment ==
    \A d \in Models : executed[d] \notin {None, {}} => globals[d] = Range(Providers)

(* mod_base.hpp:39, register_event_handler: a handler that on_load registers is
   registered. *)
HandlersHeard == phase = "running" => handlers = Range(mods)

(* mod_manager.cpp:132, "Mod '{}' is disabled, skipping": nothing of it runs. *)
DisabledStaysOut ==
    \A d \in Models : executed[d] # None => executed[d] \cap Disabled = {}
================================================================================
