--------------------------- MODULE ScriptEngineProofs ---------------------------
(****************************************************************************)
(* Theorems about ScriptEngine for any number of callers, scripts and threads.   *)
(* The engine keeps to the specification of the scheduler, so that the theorems  *)
(* of ScriptSchedulerProofs hold of the scheduler inside an engine.              *)
(****************************************************************************)
EXTENDS ScriptEngine, ScriptSchedulerProofs

LEMMA SchedulerStep == EngineNext => [Next]_vars
<1> SUFFICES ASSUME EngineNext PROVE [Next]_vars
  OBVIOUS
<1>1. CASE Initialize \/ Erase \/ Stop \/ Stopped
  BY <1>1 DEF Initialize, Erase, Stop, Stopped
<1>2. CASE StopScheduler \/ Drop
  BY <1>2 DEF StopScheduler, Drop, Next
<1>3. ASSUME NEW c \in Contexts, Find(c) \/ Execute(c) PROVE [Next]_vars
  BY <1>3 DEF Find, Execute, Check, Load, CallSchedule, Spawn, Answer, Next
<1>4. ASSUME NEW t \in Steppers, JobPolls(t) \/ JobSteps(t) \/ InStep(t) PROVE [Next]_vars
  BY <1>4 DEF JobPolls, JobSteps, InStep, Step, Next
<1>5. ASSUME NEW x \in Cancellers, Cancel(x) PROVE [Next]_vars
  BY <1>5 DEF Cancel, Next
<1> QED
  BY <1>1, <1>2, <1>3, <1>4, <1>5 DEF EngineNext

(* script_engine.cpp, luau_waiting_script_job.cpp and the callers do to the scheduler
   only what its own specification lets its users do. *)
LEMMA EngineUsesScheduler == EngineSpec => Spec
<1>1. EngineInit => Init
  BY DEF EngineInit
<1>2. [EngineNext]_allVars => [Next]_vars
  BY SchedulerStep DEF allVars, vars
<1> QED
  BY <1>1, <1>2, PTL DEF EngineSpec, Spec

--------------------------------------------------------------------------------
(* How far the engine is says how far its scheduler is ... *)
EngineAndScheduler ==
    /\ engine \in {"constructed", "running", "erased"} => down = "up"
    /\ engine = "stopping" => down \in {"up", "flagged", "drained", "down"}
    /\ engine = "stopped" => down = "down"
    /\ engine = "dropped" => down = "destroyed"

(* ... and nobody who holds a reference is left when it is dropped. *)
DroppedIsEmpty == engine = "dropped" => \A c \in Contexts : request[c] \notin Inside

(* Where a request stands, its call of schedule_script and its result. *)
RequestsSound ==
    \A c \in Contexts :
        /\ request[c] \in {"none", "holding", "checked"} => caller[c] = "new"
        /\ request[c] = "waited" => caller[c] = "returned"
        /\ result[c] # "none" => request[c] = "over"

EngineInv == EngineTypeOK /\ EngineAndScheduler /\ DroppedIsEmpty /\ RequestsSound

(* The scheduler's steps that a request does not see. *)
Unseen == UNCHANGED <<caller, down, engine, request, result>>

LEMMA UnseenKeeps ==
    ASSUME EngineInv, Unseen, EngineTypeOK' PROVE EngineInv'
BY DEF EngineInv, Unseen, EngineAndScheduler, DroppedIsEmpty, RequestsSound

LEMMA EngineSteps ==
    ASSUME EngineInv, TypeOK', Initialize \/ Erase \/ Stop \/ StopScheduler \/ Stopped \/ Drop
    PROVE  EngineInv'
<1> USE DEF EngineInv, EngineTypeOK
<1>1. CASE Initialize \/ Erase \/ Stop \/ Stopped
  <2>1. UNCHANGED <<vars, request, result, polled>>
    BY <1>1 DEF Initialize, Erase, Stop, Stopped
  <2>2. EngineAndScheduler' /\ engine' \in {"running", "erased", "stopping", "stopped"}
    BY <1>1, <2>1 DEF Initialize, Erase, Stop, Stopped, Findable, EngineRuns, EngineAndScheduler, vars
  <2> QED
    BY <2>1, <2>2 DEF DroppedIsEmpty, RequestsSound, vars
<1>2. CASE StopScheduler
  <2>1. /\ UNCHANGED <<engine, request, result, polled, caller>> /\ engine = "stopping"
        /\ down' \in {"flagged", "drained", "down"}
    BY <1>2 DEF StopScheduler, Shutdown, ShutdownFlag, ShutdownDrain, ShutdownUnpark, engineVars
  <2> QED
    BY <2>1 DEF EngineAndScheduler, DroppedIsEmpty, RequestsSound
<1>3. CASE Drop
  <2>1. /\ UNCHANGED <<request, result, polled, caller>> /\ engine' = "dropped"
        /\ down' = "destroyed" /\ \A c \in Contexts : request[c] \notin Inside
    BY <1>3 DEF Drop, Destroy
  <2> QED
    BY <2>1 DEF EngineAndScheduler, DroppedIsEmpty, RequestsSound
<1> QED
  BY <1>1, <1>2, <1>3

LEMMA RequestSteps ==
    ASSUME EngineInv, TypeOK', NEW c \in Contexts, Find(c) \/ Execute(c)
    PROVE  EngineInv'
<1> USE DEF EngineInv, EngineTypeOK
<1>1. CASE Find(c) \/ Check(c) \/ Load(c) \/ Spawn(c) \/ Answer(c)
  <2>1. UNCHANGED <<caller, down, engine, polled>>
    BY <1>1 DEF Find, Check, Load, Spawn, Answer, vars
  <2>2. /\ request' \in [Contexts -> {"none", "over", "waited"} \cup Inside]
        /\ result' \in [Contexts ->
             {"none", "not_running", "load_error", "internal_error", "success"}]
    BY <1>1 DEF Find, Check, Load, Spawn, Answer, Inside
  <2>3. \A d \in Contexts : d # c => request'[d] = request[d] /\ result'[d] = result[d]
    BY <1>1 DEF Find, Check, Load, Spawn, Answer
  <2>4. /\ request'[c] \in {"none", "holding", "checked"} => caller[c] = "new"
        /\ request'[c] = "waited" => caller[c] = "returned"
        /\ result'[c] # "none" => request'[c] = "over"
        /\ engine = "dropped" => request'[c] \notin Inside
    BY <1>1 DEF Find, Check, Load, Spawn, Answer, Findable, Inside, RequestsSound, DroppedIsEmpty
  <2> QED
    BY <2>1, <2>2, <2>3, <2>4 DEF EngineAndScheduler, DroppedIsEmpty, RequestsSound
<1>2. CASE CallSchedule(c)
  <2>1. /\ request[c] = "loaded" /\ UNCHANGED <<down, engine, request, result, polled>>
        /\ \A d \in Contexts : d # c => caller'[d] = caller[d]
    BY <1>2 DEF CallSchedule, Schedule, Submit, Admit, AdmitRefused, engineVars, TypeOK
  <2> QED
    BY <2>1 DEF EngineAndScheduler, DroppedIsEmpty, RequestsSound
<1> QED
  BY <1>1, <1>2 DEF Execute

LEMMA JobAndCancelSteps ==
    ASSUME EngineInv, TypeOK',
           (\E t \in Steppers : JobPolls(t) \/ JobSteps(t) \/ InStep(t))
           \/ \E x \in Cancellers : Cancel(x)
    PROVE  EngineInv'
<1>1. Unseen
  BY DEF Unseen, JobPolls, JobSteps, InStep, Cancel, engineVars, vars, Step, StepBegin, StepPoll,
     StepTake, StepFindsNothing, StepEnter, StepExecute, StepLeave, CancelQueued, CancelYielded
<1>2. polled' \in [Steppers -> BOOLEAN]
  BY DEF EngineInv, EngineTypeOK, JobPolls, JobSteps, InStep, Cancel, engineVars
<1>3. EngineTypeOK'
  BY <1>1, <1>2 DEF EngineInv, EngineTypeOK, Unseen
<1> QED
  BY <1>1, <1>3, UnseenKeeps

(* The inductive invariant of the engine around its scheduler. *)
THEOREM EngineInductive == EngineSpec => []EngineInv
<1>1. Init => TypeOK
  BY InitSound DEF IInv
<1>2. EngineInit => EngineInv
  BY <1>1 DEF EngineInit, Init, EngineInv, EngineTypeOK, EngineAndScheduler, DroppedIsEmpty,
              RequestsSound, Inside
<1>3. EngineInv /\ TypeOK' /\ [EngineNext]_allVars => EngineInv'
  <2> SUFFICES ASSUME EngineInv, TypeOK', [EngineNext]_allVars PROVE EngineInv'
    OBVIOUS
  <2>1. CASE UNCHANGED allVars
    <3>1. Unseen /\ EngineTypeOK'
      BY <2>1 DEF allVars, vars, engineVars, Unseen, EngineInv, EngineTypeOK
    <3> QED
      BY <3>1, UnseenKeeps
  <2>2. CASE EngineNext
    BY <2>2, EngineSteps, RequestSteps, JobAndCancelSteps DEF EngineNext
  <2> QED
    BY <2>1, <2>2
<1>4. EngineSpec => []TypeOK
  BY EngineUsesScheduler, TypeCorrect
<1> QED
  BY <1>2, <1>3, <1>4, PTL DEF EngineSpec

--------------------------------------------------------------------------------
(* The detached threads: none of them outlives the engine without an answer, for the
   destructor of the scheduler leaves no promise open. *)
THEOREM WaitersAnswered == EngineSpec => []NobodyLeftWaiting
<1>1. EngineSpec => []IInv /\ []NothingSurvives
  BY EngineUsesScheduler, Inductive, AllAnswered, PTL
<1>2. EngineInv /\ IInv /\ NothingSurvives => NobodyLeftWaiting
  <2> SUFFICES ASSUME EngineInv, IInv, NothingSurvives, engine = "dropped",
                      NEW c \in Contexts, request[c] = "waited"
               PROVE  promise[c] \in Resolved
    BY DEF NobodyLeftWaiting
  <2>1. promise[c] # "pending"
    BY DEF EngineInv, EngineAndScheduler, NothingSurvives
  <2>2. promise[c] # "none"
    BY DEF EngineInv, RequestsSound, IInv, PromisesSound
  <2> QED
    BY <2>1, <2>2 DEF IInv, TypeOK
<1> QED
  BY <1>1, <1>2, EngineInductive, PTL

(* A dropped engine has nobody inside, neither a step that was decided on before it
   was erased nor a call. *)
THEOREM NobodyInside == EngineSpec => []NoStepAfterDrop
<1>1. EngineSpec => []IInv
  BY EngineUsesScheduler, Inductive, PTL
<1>2. EngineInv /\ IInv => NoStepAfterDrop
  BY DEF EngineInv, EngineAndScheduler, DroppedIsEmpty, IInv, EndSound, Unused, NoStepAfterDrop
<1> QED
  BY <1>1, <1>2, EngineInductive, PTL

(* The caller's promise is set once: by the call, or by the thread it left behind. *)
THEOREM OneAnswer == EngineSpec => AnsweredOnce
<1>1. ASSUME EngineInv, EngineNext, NEW c \in Contexts, result[c] # "none"
      PROVE  result'[c] = result[c]
  <2>1. request[c] = "over"
    BY <1>1 DEF EngineInv, RequestsSound
  <2>2. CASE UNCHANGED result
    BY <2>2
  <2>3. ASSUME NEW d \in Contexts, Check(d) \/ Load(d) \/ Spawn(d) \/ Answer(d)
        PROVE  result'[c] = result[c]
    <3>1. d # c
      BY <2>1, <2>3 DEF Check, Load, Spawn, Answer
    <3> QED
      BY <1>1, <2>3, <3>1 DEF EngineInv, EngineTypeOK, Check, Load, Spawn, Answer
  <2> QED
    BY <1>1, <2>2, <2>3 DEF EngineNext, Initialize, Erase, Stop, StopScheduler, Stopped, Drop, Find,
       Execute, CallSchedule, JobPolls, JobSteps, InStep, Cancel, engineVars
<1>2. EngineInv /\ [EngineNext]_allVars =>
        [\A c \in Contexts : result[c] # "none" => result'[c] = result[c]]_allVars
  BY <1>1
<1> QED
  BY <1>2, EngineInductive, PTL DEF EngineSpec, AnsweredOnce
================================================================================
