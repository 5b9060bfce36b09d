---------------------------- MODULE ScriptScheduler ----------------------------
(****************************************************************************)
(* rml::luau::ScriptScheduler (src/luau/script_scheduler.cpp): five FIFO    *)
(* queues of scripts behind one mutex, a list of parked coroutines behind   *)
(* another, and lock-free flags.  Callers of schedule_script, the job that  *)
(* calls step, callers of cancel_script and the thread that shuts the       *)
(* scheduler down all run at once; an action is what one of them does       *)
(* between two points at which another may get in.                          *)
(****************************************************************************)
EXTENDS Integers, Sequences, FiniteSets

CONSTANTS
    Contexts,     \* ExecutionContext objects; each is handed to schedule_script once
    LuaThreads,   \* lua_State pointers
    Priorities,   \* enum class Priority, 0 is the most urgent
    Steppers,     \* threads that call step
    Cancellers,   \* threads that call cancel_script
    QueueLimits,  \* values of max_queue_size
    ThreadOf,     \* ExecutionContext::L
    PriorityOf,   \* ExecutionContext::priority
    Delayed,      \* contexts given to schedule_script_delayed
    MaxParked,    \* bound on the parked coroutines
    None

ASSUME SchedulerAssumption ==
    /\ IsFiniteSet(Contexts)
    /\ IsFiniteSet(Steppers)
    /\ Priorities \subseteq Nat
    /\ QueueLimits \subseteq Nat
    /\ QueueLimits # {}
    /\ ThreadOf \in [Contexts -> LuaThreads]
    /\ PriorityOf \in [Contexts -> Priorities]
    /\ Delayed \subseteq Contexts
    /\ MaxParked \in Nat
    /\ None \notin Contexts
    /\ None \notin LuaThreads

VARIABLES
    running,    \* m_is_running
    limit,      \* m_config.max_queue_size
    queue,      \* m_execution_queues
    yielded,    \* m_yielded_coroutines
    due,        \* scheduled_time <= now, per context
    promise,    \* completion_promise, per context
    caller,     \* where the call of schedule_script stands, per context
    stepper,    \* where the call of step stands, per stepping thread
    hand,       \* the unique_ptr step holds, per stepping thread
    target,     \* the L of a cancel_script that is between its two locks
    executing,  \* m_currently_executing
    down,       \* where shutdown stands
    deferred,   \* history: contexts task_defer was called for
    arrival     \* history: rank in which a context entered the queues, 0 if it did not

vars == <<running, limit, queue, yielded, due, promise, caller, stepper, hand,
          target, executing, down, deferred, arrival>>

--------------------------------------------------------------------------------
Refused == {"not_running", "queue_full"}
Cancelled == {"cancelled", "all_cancelled"}
Resolved == Refused \cup Cancelled \cup {"error", "broken"}

(* What is on the queues: a slot is a priority and a position. *)
Slots == UNION {{p} \X DOMAIN queue[p] : p \in Priorities}
At(s) == queue[s[1]][s[2]]
Queued == {At(s) : s \in Slots}
QueueSize == Cardinality(Slots)

FullByOneTooMany == QueueSize > limit                  \* seeded fault
Full == QueueSize >= limit

(* A delayed script found at the front goes to the back of its queue. *)
RotatedDropping(q) == Tail(q)                          \* seeded fault
RotatedCopying(q) == Append(q, Head(q))                \* seeded fault
Rotated(q) == Append(Tail(q), Head(q))

(* The entries of q at the indices in keep, in their order. *)
KeptAtReversed(q, keep) ==                             \* seeded fault
    [j \in 1 .. Cardinality(keep) |->
        q[CHOOSE i \in keep : Cardinality({k \in keep : k >= i}) = j]]
KeptAt(q, keep) ==
    [j \in 1 .. Cardinality(keep) |->
        q[CHOOSE i \in keep : Cardinality({k \in keep : k <= i}) = j]]

(* The rebuilt queue of cancel_script: everything but L's contexts. *)
SurvivorsAll(q, L) == q                                \* seeded fault
SurvivorsOf(q, L) == KeptAt(q, {i \in DOMAIN q : ThreadOf[q[i]] # L})

(* erase(it) for the first parked coroutine of L. *)
FirstParked(L) ==
    {i \in DOMAIN yielded : /\ yielded[i].thread = L
                            /\ \A j \in 1 .. i - 1 : yielded[j].thread # L}
Unparked(L) == KeptAt(yielded, DOMAIN yielded \ FirstParked(L))

(* set_exception on the promise of every context of S. *)
Fail(S, reason) ==
    promise' = [c \in Contexts |-> IF c \in S THEN reason ELSE promise[c]]

(* The destructor of a promise nobody set. *)
AbandonLeaking(p) == p                                 \* seeded fault
Abandon(p) == IF p = "pending" THEN "broken" ELSE p

Alive == down # "destroyed"

--------------------------------------------------------------------------------
(* schedule_script reads m_is_running before it takes the queue mutex. *)
Submit(c) ==
    /\ Alive
    /\ caller[c] = "new"
    /\ IF running
       THEN /\ caller' = [caller EXCEPT ![c] = "admitting"]
            /\ promise' = [promise EXCEPT ![c] = "pending"]
       ELSE /\ caller' = [caller EXCEPT ![c] = "returned"]
            /\ promise' = [promise EXCEPT ![c] = "not_running"]
    /\ UNCHANGED <<running, limit, queue, yielded, due, stepper, hand, target,
                   executing, down, deferred, arrival>>

(* ... and pushes, or refuses, under the mutex. *)
AdmitRefused(c) ==
    /\ caller[c] = "admitting"
    /\ Full
    /\ caller' = [caller EXCEPT ![c] = "returned"]
    /\ promise' = [promise EXCEPT ![c] = "queue_full"]
    /\ UNCHANGED <<running, limit, queue, yielded, due, stepper, hand, target,
                   executing, down, deferred, arrival>>

Admit(c) ==
    /\ caller[c] = "admitting"
    /\ ~Full
    /\ caller' = [caller EXCEPT ![c] = "returned"]
    /\ queue' = [queue EXCEPT ![PriorityOf[c]] = Append(@, c)]
    /\ arrival' = [arrival EXCEPT ![c] =
                      Cardinality({d \in Contexts : arrival[d] # 0}) + 1]
    /\ UNCHANGED <<running, limit, yielded, due, promise, stepper, hand, target,
                   executing, down, deferred>>

(* The clock passes the scheduled_time of a delayed script. *)
TimePasses(c) ==
    /\ Alive
    /\ caller[c] # "new"
    /\ ~due[c]
    /\ due' = [due EXCEPT ![c] = TRUE]
    /\ UNCHANGED <<running, limit, queue, yielded, promise, caller, stepper,
                   hand, target, executing, down, deferred, arrival>>

--------------------------------------------------------------------------------
(* step: the flag is read once, at the start. *)
StepBegin(t) ==
    /\ Alive
    /\ stepper[t] = "idle"
    /\ running
    /\ stepper' = [stepper EXCEPT ![t] = "polling"]
    /\ UNCHANGED <<running, limit, queue, yielded, due, promise, caller, hand,
                   target, executing, down, deferred, arrival>>

(* process_yielded_coroutines: of the coroutines that can be resumed from
   here, those that are and end, normally or with an error, leave the list;
   the others, and those that yield again, stay. *)
StepPoll(t) ==
    /\ stepper[t] = "polling"
    /\ \E ended \in SUBSET {i \in DOMAIN yielded : yielded[i].auto} :
           yielded' = KeptAt(yielded, DOMAIN yielded \ ended)
    /\ stepper' = [stepper EXCEPT ![t] = "picking"]
    /\ UNCHANGED <<running, limit, queue, due, promise, caller, hand, target,
                   executing, down, deferred, arrival>>

(* get_next_script looks at the front of each queue only.  *)
Waiting == {p \in Priorities : queue[p] # <<>>}
Ready == {p \in Waiting : due[Head(queue[p])]}
RotateUpTo(P) == [p \in Priorities |-> IF p \in P THEN Rotated(queue[p]) ELSE queue[p]]

StepTake(t) ==
    /\ stepper[t] = "picking"
    /\ \E p \in Ready :
           /\ \A q \in Ready : p <= q
           /\ hand' = [hand EXCEPT ![t] = Head(queue[p])]
           /\ queue' = [RotateUpTo({q \in Waiting : q < p}) EXCEPT ![p] = Tail(@)]
    /\ stepper' = [stepper EXCEPT ![t] = "taken"]
    /\ UNCHANGED <<running, limit, yielded, due, promise, caller, target,
                   executing, down, deferred, arrival>>

StepFindsNothing(t) ==
    /\ stepper[t] = "picking"
    /\ Ready = {}
    /\ queue' = RotateUpTo(Waiting)
    /\ stepper' = [stepper EXCEPT ![t] = "idle"]
    /\ UNCHANGED <<running, limit, yielded, due, promise, caller, hand, target,
                   executing, down, deferred, arrival>>

(* execute_script up to the call of task_defer.  Its test of is_cancelled
   never succeeds: HeldIsPending. *)
StepEnter(t) ==
    /\ stepper[t] = "taken"
    /\ stepper' = [stepper EXCEPT ![t] = "executing"]
    /\ executing' = executing + 1
    /\ UNCHANGED <<running, limit, queue, yielded, due, promise, caller, hand,
                   target, down, deferred, arrival>>

(* task_defer returns, or throws and the promise takes the exception. *)
ReturnsOrThrowsUncounted(t) ==                         \* seeded fault
    \/ UNCHANGED promise /\ executing' = executing - 1
    \/ promise' = [promise EXCEPT ![hand[t]] = "error"] /\ UNCHANGED executing
ReturnsOrThrows(t) ==
    /\ \/ UNCHANGED promise
       \/ promise' = [promise EXCEPT ![hand[t]] = "error"]
    /\ executing' = executing - 1

StepExecute(t) ==
    /\ stepper[t] = "executing"
    /\ ReturnsOrThrows(t)
    /\ deferred' = deferred \cup {hand[t]}
    /\ stepper' = [stepper EXCEPT ![t] = "leaving"]
    /\ UNCHANGED <<running, limit, queue, yielded, due, caller, hand, target,
                   down, arrival>>

(* step returns and drops the context.  Nothing set a value, so the promise
   of a script that ran is broken by its destructor. *)
StepLeave(t) ==
    /\ stepper[t] = "leaving"
    /\ stepper' = [stepper EXCEPT ![t] = "idle"]
    /\ hand' = [hand EXCEPT ![t] = None]
    /\ promise' = [promise EXCEPT ![hand[t]] = Abandon(@)]
    /\ UNCHANGED <<running, limit, queue, yielded, due, caller, target,
                   executing, down, deferred, arrival>>

--------------------------------------------------------------------------------
(* yield_script, from a thread some script was started on. *)
YieldScript(L) ==
    /\ Alive
    /\ \E c \in deferred : ThreadOf[c] = L
    /\ Len(yielded) < MaxParked
    /\ \E auto \in BOOLEAN : yielded' = Append(yielded, [thread |-> L, auto |-> auto])
    /\ UNCHANGED <<running, limit, queue, due, promise, caller, stepper, hand,
                   target, executing, down, deferred, arrival>>

(* resume_script, when the coroutine ends: the entry goes. *)
ResumeScript(L) ==
    /\ Alive
    /\ FirstParked(L) # {}
    /\ yielded' = Unparked(L)
    /\ UNCHANGED <<running, limit, queue, due, promise, caller, stepper, hand,
                   target, executing, down, deferred, arrival>>

(* cancel_script: the queues under one mutex ... *)
CancelQueued(x, L) ==
    /\ Alive
    /\ target[x] = None
    /\ queue' = [p \in Priorities |-> SurvivorsOf(queue[p], L)]
    /\ Fail({c \in Queued : ThreadOf[c] = L}, "cancelled")
    /\ target' = [target EXCEPT ![x] = L]
    /\ UNCHANGED <<running, limit, yielded, due, caller, stepper, hand,
                   executing, down, deferred, arrival>>

(* ... then one parked coroutine under the other. *)
CancelYielded(x) ==
    /\ target[x] # None
    /\ yielded' = Unparked(target[x])
    /\ target' = [target EXCEPT ![x] = None]
    /\ UNCHANGED <<running, limit, queue, due, promise, caller, stepper, hand,
                   executing, down, deferred, arrival>>

SetConfig(n) ==
    /\ Alive
    /\ limit # n
    /\ limit' = n
    /\ UNCHANGED <<running, queue, yielded, due, promise, caller, stepper, hand,
                   target, executing, down, deferred, arrival>>

--------------------------------------------------------------------------------
(* shutdown: the flag, then cancel_all_scripts under its two mutexes. *)
ShutdownFlag ==
    /\ down = "up"
    /\ running' = FALSE
    /\ down' = "flagged"
    /\ UNCHANGED <<limit, queue, yielded, due, promise, caller, stepper, hand,
                   target, executing, deferred, arrival>>

DrainHeldToo ==                                        \* seeded fault
    /\ queue' = [p \in Priorities |-> <<>>]
    /\ Fail({c \in Contexts : promise[c] = "pending"}, "all_cancelled")
DrainFrontOnly ==                                      \* seeded fault
    /\ queue' = [p \in Priorities |-> IF queue[p] = <<>> THEN <<>> ELSE Tail(queue[p])]
    /\ Fail({Head(queue[p]) : p \in Waiting}, "all_cancelled")
Drain ==
    /\ queue' = [p \in Priorities |-> <<>>]
    /\ Fail(Queued, "all_cancelled")

ShutdownDrain ==
    /\ down = "flagged"
    /\ Drain
    /\ down' = "drained"
    /\ UNCHANGED <<running, limit, yielded, due, caller, stepper, hand, target,
                   executing, deferred, arrival>>

ShutdownUnpark ==
    /\ down = "drained"
    /\ yielded' = <<>>
    /\ down' = "down"
    /\ UNCHANGED <<running, limit, queue, due, promise, caller, stepper, hand,
                   target, executing, deferred, arrival>>

(* The destructor runs shutdown again.  The last owner of the engine runs it,
   so no call is inside the scheduler. *)
UnusedButByCallers ==                                  \* seeded fault
    /\ \A t \in Steppers : stepper[t] = "idle"
    /\ \A x \in Cancellers : target[x] = None
Unused ==
    /\ \A c \in Contexts : caller[c] # "admitting"
    /\ \A t \in Steppers : stepper[t] = "idle"
    /\ \A x \in Cancellers : target[x] = None

Destroy ==
    /\ down \in {"up", "down"}
    /\ Unused
    /\ running' = FALSE
    /\ Drain
    /\ yielded' = <<>>
    /\ down' = "destroyed"
    /\ UNCHANGED <<limit, due, caller, stepper, hand, target, executing,
                   deferred, arrival>>

--------------------------------------------------------------------------------
Init ==
    /\ running = TRUE
    /\ limit \in QueueLimits
    /\ queue = [p \in Priorities |-> <<>>]
    /\ yielded = <<>>
    /\ due = [c \in Contexts |-> c \notin Delayed]
    /\ promise = [c \in Contexts |-> "none"]
    /\ caller = [c \in Contexts |-> "new"]
    /\ stepper = [t \in Steppers |-> "idle"]
    /\ hand = [t \in Steppers |-> None]
    /\ target = [x \in Cancellers |-> None]
    /\ executing = 0
    /\ down = "up"
    /\ deferred = {}
    /\ arrival = [c \in Contexts |-> 0]

Schedule(c) == Submit(c) \/ Admit(c) \/ AdmitRefused(c)

Step(t) ==
    \/ StepBegin(t) \/ StepPoll(t) \/ StepTake(t) \/ StepFindsNothing(t)
    \/ StepEnter(t) \/ StepExecute(t) \/ StepLeave(t)

Shutdown == ShutdownFlag \/ ShutdownDrain \/ ShutdownUnpark

Next ==
    \/ \E c \in Contexts : Schedule(c) \/ TimePasses(c)
    \/ \E t \in Steppers : Step(t)
    \/ \E L \in LuaThreads : YieldScript(L) \/ ResumeScript(L)
    \/ \E x \in Cancellers, L \in LuaThreads : CancelQueued(x, L)
    \/ \E x \in Cancellers : CancelYielded(x)
    \/ \E n \in QueueLimits : SetConfig(n)
    \/ Shutdown
    \/ Destroy

Spec == Init /\ [][Next]_vars
(* What the threads owe: a call that has begun goes on, the job that calls
   step is stepped by the engine every frame, time passes, and the thread that
   shut the scheduler down drops its reference afterwards.  Callers, cancels
   and the shutdown itself need not come. *)
Fairness ==
    /\ \A c \in Contexts : WF_vars(Admit(c) \/ AdmitRefused(c))
    /\ \A c \in Contexts : WF_vars(TimePasses(c))
    /\ \A t \in Steppers : WF_vars(Step(t))
    /\ \A x \in Cancellers : WF_vars(CancelYielded(x))
    /\ WF_vars(ShutdownDrain \/ ShutdownUnpark)
    /\ SF_vars(down = "down" /\ Destroy)

FairSpec == Spec /\ Fairness

--------------------------------------------------------------------------------
Parked == [thread : LuaThreads, auto : BOOLEAN]

TypeOK ==
    /\ running \in BOOLEAN
    /\ limit \in QueueLimits
    /\ queue \in [Priorities -> Seq(Contexts)]
    /\ yielded \in Seq(Parked)
    /\ due \in [Contexts -> BOOLEAN]
    /\ promise \in [Contexts -> Resolved \cup {"none", "pending"}]
    /\ caller \in [Contexts -> {"new", "admitting", "returned"}]
    /\ stepper \in [Steppers -> {"idle", "polling", "picking", "taken", "executing", "leaving"}]
    /\ hand \in [Steppers -> Contexts \cup {None}]
    /\ target \in [Cancellers -> LuaThreads \cup {None}]
    /\ executing \in Nat
    /\ down \in {"up", "flagged", "drained", "down", "destroyed"}
    /\ deferred \subseteq Contexts
    /\ arrival \in [Contexts -> Nat]

(* A script is owned once: it is in at most one slot of the queues or in the
   hand of one thread inside step, never in two places.  Two threads may step
   while others schedule and cancel. *)
UniqueHolder ==
    /\ \A s, r \in Slots : At(s) = At(r) => s = r
    /\ \A t \in Steppers : hand[t] \notin Queued
    /\ \A t, u \in Steppers : hand[t] = hand[u] /\ hand[t] # None => t = u

(* Whoever waits on a future that is not ready waits on something: the script
   is about to be admitted, is queued, or is being run. *)
NoLostPromise ==
    \A c \in Contexts : promise[c] = "pending" =>
        \/ caller[c] = "admitting"
        \/ c \in Queued
        \/ \E t \in Steppers : hand[t] = c

(* A script that has left the queues for execution cannot have been cancelled:
   the test of is_cancelled in execute_script is dead, and the promise it would
   set a second time is still open. *)
HeldIsPending ==
    \A t \in Steppers : stepper[t] \in {"taken", "executing"} =>
        promise[hand[t]] = "pending"

(* Callers that passed the running test together cannot overfill the queues,
   whatever max_queue_size is set to in between. *)
QueueBound == \E n \in QueueLimits : QueueSize <= n

(* A caller told that its script was refused or cancelled never sees it run. *)
CancelledNeverRuns ==
    \A c \in Contexts : promise[c] \in Refused \cup Cancelled => c \notin deferred

(* m_currently_executing counts the threads between fetch_add and fetch_sub,
   also when task_defer throws. *)
ExecutingCount == executing = Cardinality({t \in Steppers : stepper[t] = "executing"})

(* Once the destructor has run nobody is left waiting, not even for a script
   admitted after the shutdown that preceded it. *)
NothingSurvives == down = "destroyed" => \A c \in Contexts : promise[c] # "pending"

(* A future gets one result; a second set_exception would throw inside a
   noexcept function. *)
ResolvedOnce ==
    [][\A c \in Contexts : promise[c] \in Resolved => promise'[c] = promise[c]]_vars

(* Scripts of one priority that are not delayed start in the order in which
   they were admitted, across rotations of delayed ones and rebuilds of the
   queues by cancel_script. *)
ImmediateFifo ==
    [][\A t \in Steppers :
         hand[t] = None /\ hand'[t] \in Contexts \ Delayed =>
             \A c \in Queued \ (Delayed \cup {hand'[t]}) :
                 PriorityOf[c] = PriorityOf[hand'[t]] => arrival[hand'[t]] < arrival[c]]_vars

(* schedule_script_delayed: no script starts before its time. *)
NotBeforeDue == \A t \in Steppers : hand[t] # None => due[hand[t]]

(* Every future becomes ready: a script at the back of a queue whose front is
   delayed, of the lowest priority, or admitted after a shutdown drained the
   queues. *)
Settles == \A c \in Contexts : promise[c] = "pending" ~> promise[c] \in Resolved

--------------------------------------------------------------------------------
(* What the caller of schedule_script can observe of its script. *)
Open(c) == promise[c] \in {"none", "pending"}
StatusOf(c) ==
    CASE promise[c] \in Refused -> "refused"
      [] promise[c] \in Cancelled -> "cancelled"
      [] promise[c] \in {"error", "broken"} -> "finished"
      [] Open(c) /\ c \in Queued -> "waiting"
      [] Open(c) /\ (\E t \in Steppers : hand[t] = c) -> "started"
      [] OTHER -> "new"

Lifecycle == INSTANCE ScriptLifecycle
    WITH Scripts <- Contexts, Limits <- QueueLimits,
         status <- [c \in Contexts |-> StatusOf(c)]

(* The queues, locks and racing threads of the scheduler implement the
   lifecycle it promises: accepted at most once and within the limit, started
   or cancelled but never both, and never reconsidered. *)
ImplementsLifecycle == Lifecycle!Spec
================================================================================
