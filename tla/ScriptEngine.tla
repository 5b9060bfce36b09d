------------------------------ MODULE ScriptEngine ------------------------------
(****************************************************************************)
(* rml::luau::ScriptEngine (src/luau/script_engine.cpp) around its           *)
(* ScriptScheduler: calls of execute_* find the engine, check it, load and   *)
(* schedule a script, then leave a detached thread behind that waits for the *)
(* completion future and answers the caller; LuauWaitingScriptJob polls the  *)
(* queues and steps the scheduler; the task scheduler takes the engine out   *)
(* of its map and shuts it down; whoever holds the last shared_ptr destroys  *)
(* it.                                                                       *)
(****************************************************************************)
EXTENDS ScriptScheduler

VARIABLES
    engine,   \* constructed, in the map, erased from it, shutting down, shut down, destroyed
    request,  \* where the call of execute_internal* stands, per context
    result,   \* the ExecutionResult of the caller's future, per context
    polled    \* should_execute_impl said yes, per stepping thread

engineVars == <<engine, request, result, polled>>
allVars == <<vars, engineVars>>

(* execute_internal* call schedule_script and never schedule_script_delayed. *)
ASSUME EngineAssumption == Delayed = {}

Inside == {"holding", "checked", "loaded"}

(* get_script_engine finds the engine; the thread that shuts down every engine
   holds the lock of the map from before it starts until the map is empty. *)
Findable == engine = "running"

(* m_is_running *)
EngineRuns == engine \in {"running", "erased"}

--------------------------------------------------------------------------------
(* create_or_get_script_engine makes and initialises the engine and puts it in
   the map in one critical section. *)
Initialize ==
    /\ engine = "constructed"
    /\ engine' = "running"
    /\ UNCHANGED <<vars, request, result, polled>>

(* The script manager takes a reference for the length of the call ... *)
Find(c) ==
    /\ Findable
    /\ request[c] = "none"
    /\ request' = [request EXCEPT ![c] = "holding"]
    /\ UNCHANGED <<vars, engine, result, polled>>

(* ... which reads is_running without the state mutex. *)
Check(c) ==
    /\ request[c] = "holding"
    /\ IF EngineRuns
       THEN request' = [request EXCEPT ![c] = "checked"] /\ UNCHANGED result
       ELSE /\ request' = [request EXCEPT ![c] = "over"]
            /\ result' = [result EXCEPT ![c] = "not_running"]
    /\ UNCHANGED <<vars, engine, polled>>

(* The loader compiles and loads the chunk, or fails. *)
Load(c) ==
    /\ request[c] = "checked"
    /\ \/ request' = [request EXCEPT ![c] = "loaded"] /\ UNCHANGED result
       \/ /\ request' = [request EXCEPT ![c] = "over"]
          /\ result' = [result EXCEPT ![c] = "load_error"]
    /\ UNCHANGED <<vars, engine, polled>>

CallSchedule(c) ==
    /\ request[c] = "loaded"
    /\ Schedule(c)
    /\ UNCHANGED engineVars

(* The waiting thread starts, or std::thread throws after the script has been
   scheduled. *)
SpawnTwice(c) ==                                       \* seeded fault
    /\ request[c] = "loaded"
    /\ caller[c] = "returned"
    /\ request' = [request EXCEPT ![c] = "waited"]
    /\ result' \in {result, [result EXCEPT ![c] = "internal_error"]}
    /\ UNCHANGED <<vars, engine, polled>>

Spawn(c) ==
    /\ request[c] = "loaded"
    /\ caller[c] = "returned"
    /\ \/ request' = [request EXCEPT ![c] = "waited"] /\ UNCHANGED result
       \/ /\ request' = [request EXCEPT ![c] = "over"]
          /\ result' = [result EXCEPT ![c] = "internal_error"]
    /\ UNCHANGED <<vars, engine, polled>>

(* The waiting thread wait()s for the future, and does not look at what it
   holds. *)
Answer(c) ==
    /\ request[c] = "waited"
    /\ promise[c] \in Resolved
    /\ request' = [request EXCEPT ![c] = "over"]
    /\ result' = [result EXCEPT ![c] = "success"]
    /\ UNCHANGED <<vars, engine, polled>>

--------------------------------------------------------------------------------
(* LuauWaitingScriptJob::should_execute_impl finds the engine, adds up the
   queue sizes and lets go of it.  It reads them without their mutex, so the
   sum may be of sizes the queues had at different times, and not zero though
   they are all empty ... *)
JobPolls(t) ==
    /\ Findable
    /\ stepper[t] = "idle"
    /\ ~polled[t]
    /\ polled' = [polled EXCEPT ![t] = TRUE]
    /\ UNCHANGED <<vars, engine, request, result>>

(* ... and execute_impl looks for the engine again; it may be gone by now. *)
JobStepsOver(t) ==                                     \* seeded fault
    /\ polled[t]
    /\ polled' = [polled EXCEPT ![t] = FALSE]
    /\ UNCHANGED <<vars, engine, request, result>>

JobStepsBlind(t) ==                                    \* seeded fault
    /\ polled[t]
    /\ polled' = [polled EXCEPT ![t] = FALSE]
    /\ stepper' = [stepper EXCEPT ![t] = "polling"]
    /\ UNCHANGED <<running, limit, queue, yielded, due, promise, caller, hand, target,
                   executing, down, deferred, arrival, engine, request, result>>

JobSteps(t) ==
    /\ polled[t]
    /\ IF Findable THEN StepBegin(t) ELSE UNCHANGED vars
    /\ polled' = [polled EXCEPT ![t] = FALSE]
    /\ UNCHANGED <<engine, request, result>>

InStep(t) ==
    /\ stepper[t] # "idle"
    /\ Step(t)
    /\ UNCHANGED engineVars

(* cancel_script, by someone who found the engine, maybe long ago, and holds it. *)
Cancel(x) ==
    /\ \/ engine # "constructed" /\ \E L \in LuaThreads : CancelQueued(x, L)
       \/ CancelYielded(x)
    /\ UNCHANGED engineVars

--------------------------------------------------------------------------------
(* cleanup_script_engine erases the engine from the map and starts a thread
   that shuts it down; shutdown_script_engines shuts it down in the map. *)
Erase ==
    /\ Findable
    /\ engine' = "erased"
    /\ UNCHANGED <<vars, request, result, polled>>

(* shutdown, under m_state_mutex: the engine's flag, the scheduler, the
   context, m_is_destroyed. *)
Stop ==
    /\ EngineRuns
    /\ engine' = "stopping"
    /\ UNCHANGED <<vars, request, result, polled>>

StopScheduler ==
    /\ engine = "stopping"
    /\ Shutdown
    /\ UNCHANGED engineVars

Stopped ==
    /\ engine = "stopping"
    /\ down = "down"
    /\ engine' = "stopped"
    /\ UNCHANGED <<vars, request, result, polled>>

(* The last shared_ptr goes: that of create_or_get_script_engine when
   initialize failed, of a cleanup thread that could not be started, or of
   whoever outlived the shutdown.  Calls and steps hold one; the waiting
   threads and a job between its poll and its step do not. *)
Drop ==
    /\ engine \in {"constructed", "erased", "stopped"}
    /\ \A c \in Contexts : request[c] \notin Inside
    /\ Destroy
    /\ engine' = "dropped"
    /\ UNCHANGED <<request, result, polled>>

--------------------------------------------------------------------------------
EngineInit ==
    /\ Init
    /\ engine = "constructed"
    /\ request = [c \in Contexts |-> "none"]
    /\ result = [c \in Contexts |-> "none"]
    /\ polled = [t \in Steppers |-> FALSE]

Execute(c) == Check(c) \/ Load(c) \/ CallSchedule(c) \/ Spawn(c) \/ Answer(c)

EngineNext ==
    \/ Initialize \/ Erase \/ Stop \/ StopScheduler \/ Stopped \/ Drop
    \/ \E c \in Contexts : Find(c) \/ Execute(c)
    \/ \E t \in Steppers : JobPolls(t) \/ JobSteps(t) \/ InStep(t)
    \/ \E x \in Cancellers : Cancel(x)

EngineSpec == EngineInit /\ [][EngineNext]_allVars

(* Calls, waiting threads and steps that have begun go on, the job is polled
   again and again and sees a queue that stays occupied, a cleanup that has
   begun goes on to the end, and the engine is destroyed at the first moment when
   nobody is left to hold it.  Nobody has to call, to cancel or to take the engine out of the
   map. *)
EngineFairness ==
    /\ \A c \in Contexts : WF_allVars(Execute(c))
    /\ \A t \in Steppers : WF_allVars((QueueSize # 0 /\ JobPolls(t)) \/ JobSteps(t) \/ InStep(t))
    /\ \A x \in Cancellers : WF_allVars(CancelYielded(x) /\ UNCHANGED engineVars)
    /\ WF_allVars(engine = "erased" /\ (Stop \/ Drop))
    /\ WF_allVars(StopScheduler \/ Stopped)
    /\ SF_allVars(engine = "stopped" /\ Drop)

EngineFairSpec == EngineSpec /\ EngineFairness

--------------------------------------------------------------------------------
EngineTypeOK ==
    /\ TypeOK
    /\ engine \in {"constructed", "running", "erased", "stopping", "stopped", "dropped"}
    /\ request \in [Contexts -> {"none", "over", "waited"} \cup Inside]
    /\ result \in [Contexts ->
           {"none", "not_running", "load_error", "internal_error", "success"}]
    /\ polled \in [Steppers -> BOOLEAN]

(* A caller's promise is set once, by the call or by the waiting thread it
   left behind: the second set_value would throw out of a detached thread. *)
AnsweredOnce ==
    [][\A c \in Contexts : result[c] # "none" => result'[c] = result[c]]_allVars

(* A waiting thread outlives the engine only to find its future ready: it
   holds no reference to the engine and would otherwise wait for ever. *)
NobodyLeftWaiting ==
    engine = "dropped" => \A c \in Contexts : request[c] = "waited" => promise[c] \in Resolved

(* Nobody is inside an engine that is gone, though the job decided to step it
   while it was there. *)
NoStepAfterDrop ==
    engine = "dropped" =>
        /\ \A t \in Steppers : stepper[t] = "idle"
        /\ \A c \in Contexts : request[c] \notin Inside

(* Everybody who asked for a script to be executed is answered: the script
   runs, is refused or cancelled, or the engine is destroyed. *)
EveryRequestAnswered ==
    \A c \in Contexts : request[c] # "none" ~> result[c] # "none"

(* handle_script_result logs "Script '{}' executed successfully" for every
   result with success set: then the script was handed to Roblox. *)
SuccessMeansRan == \A c \in Contexts : result[c] = "success" => c \in deferred
================================================================================
