------------------------------ MODULE JobRegistry ------------------------------
(****************************************************************************)
(* The job registry of RBX::TaskScheduler (src/roblox/task_scheduler.cpp):   *)
(* two maps under one shared_mutex, an atomic id counter and an atomic       *)
(* shutdown flag.  Mods register and unregister jobs from their threads      *)
(* while the threads of Roblox's own scheduler, which hooks::on_job_step     *)
(* intercepts, take a snapshot of the jobs that want to run and run them     *)
(* after the lock is gone.  A job is a JobBase (job_base.hpp); the periodic  *)
(* ones are JobManager::PeriodicJob (job_manager.cpp).                       *)
(****************************************************************************)
EXTENDS Integers, FiniteSets

CONSTANTS
    Names,        \* job names
    Registrars,   \* threads that call register_job
    Removers,     \* threads that call unregister_job with a name
    Workers,      \* threads that run on_job_step
    Kinds,        \* JobKind of the Roblox job being stepped
    TargetsOf,    \* the kinds a job asks for; all of them for JobKind::Custom
    PriorityOf,   \* JobPriority
    Periodic,     \* names of PeriodicJobs; the others decide for themselves
    MaxId,        \* bound on the ids handed out
    CleanupEvery, \* 100 in the code
    MaxThrows,    \* bound on the emplace calls that throw
    None

ASSUME RegistryAssumption ==
    /\ TargetsOf \in [Names -> SUBSET Kinds]
    /\ PriorityOf \in [Names -> Int]
    /\ Periodic \subseteq Names
    /\ MaxId \in Nat /\ MaxThrows \in Nat
    /\ CleanupEvery \in Nat \ {0}
    /\ None \notin Names /\ None \notin Nat

Ids == 1 .. MaxId

VARIABLES
    nextId,    \* m_next_job_id
    nameOf,    \* m_name of the job that was given the id
    jobs,      \* the keys of m_jobs
    names,     \* m_name_to_id
    state,     \* m_state of the job
    elapsed,   \* now - m_last_execution >= m_interval
    down,      \* m_shutdown_requested, and where shutdown stands
    registrar, \* the id a call of register_job took before it locks
    answer,    \* history: what the caller was told about the id
    remover,   \* the name and id a call of unregister_job looked up
    worker,    \* where execute_jobs_for_kind stands
    current,   \* the job it is executing
    batch,     \* jobs_to_execute
    counter,   \* cleanup_counter % CleanupEvery
    throws     \* emplace calls that threw

vars == <<nextId, nameOf, jobs, names, state, elapsed, down, registrar, answer,
          remover, worker, current, batch, counter, throws>>

--------------------------------------------------------------------------------
(* generate_job_id; the id is spent even when the name turns out to be taken. *)
TakeIdReusing == Cardinality(jobs) + 1                 \* seeded fault
TakeId == nextId

(* register_job up to the lock: the flag, the name, the id. *)
RegisterBegin(r, n) ==
    /\ down = "up"
    /\ registrar[r] = None
    /\ nextId \in Ids
    /\ registrar' = [registrar EXCEPT ![r] = TakeId]
    /\ nameOf' = [nameOf EXCEPT ![TakeId] = n]
    /\ nextId' = nextId + 1
    /\ UNCHANGED <<jobs, names, state, elapsed, down, answer, remover, worker, current,
                   batch, counter, throws>>

(* ... and under it: the name is looked up before the maps are touched.  Both
   emplace calls are in a try block; the first map keeps the job when the
   second throws. *)
TakenNever(n) == FALSE                                 \* seeded fault
Taken(n) == names[n] # None

Insert(r) ==
    LET id == registrar[r] n == nameOf[id] IN
    /\ id # None
    /\ ~Taken(n)
    /\ \/ /\ jobs' = jobs \cup {id}
          /\ names' = [names EXCEPT ![n] = id]
          /\ answer' = [answer EXCEPT ![id] = "registered"]
          /\ UNCHANGED throws
       \/ /\ throws < MaxThrows
          /\ throws' = throws + 1
          /\ jobs' \in {jobs, jobs \cup {id}}
          /\ answer' = [answer EXCEPT ![id] = "failed"]
          /\ UNCHANGED names
    /\ state' = [state EXCEPT ![id] = "Running"]
    /\ elapsed' = [elapsed EXCEPT ![id] = FALSE]
    /\ registrar' = [registrar EXCEPT ![r] = None]
    /\ UNCHANGED <<nextId, nameOf, down, remover, worker, current, batch, counter>>

InsertRefused(r) ==
    LET id == registrar[r] IN
    /\ id # None
    /\ Taken(nameOf[id])
    /\ answer' = [answer EXCEPT ![id] = "failed"]
    /\ registrar' = [registrar EXCEPT ![r] = None]
    /\ UNCHANGED <<nextId, nameOf, jobs, names, state, elapsed, down, remover,
                   worker, current, batch, counter, throws>>

--------------------------------------------------------------------------------
(* unregister_job: destroy, then out of both maps. *)
EraseJob(id) ==                                        \* seeded fault
    /\ jobs' = jobs \ {id}
    /\ UNCHANGED names
EraseBoth(id) ==
    /\ jobs' = jobs \ {id}
    /\ names' = [names EXCEPT ![nameOf[id]] = None]

Remove(id) ==
    /\ state' = [state EXCEPT ![id] = "Destroyed"]
    /\ EraseBoth(id)
    /\ answer' = [answer EXCEPT ![id] = "removed"]

UnregisterId(id) ==
    /\ id \in jobs
    /\ Remove(id)
    /\ UNCHANGED <<nextId, nameOf, elapsed, down, registrar, remover, worker, current,
                   batch, counter, throws>>

(* By name: the id is looked up under a shared lock that is released ... *)
LookUp(u, n) ==
    /\ remover[u] = None
    /\ names[n] # None
    /\ remover' = [remover EXCEPT ![u] = [name |-> n, id |-> names[n]]]
    /\ UNCHANGED <<nextId, nameOf, jobs, names, state, elapsed, down, registrar,
                   answer, worker, current, batch, counter, throws>>

(* ... before the job with that id is unregistered, if it is still there. *)
UnregisterFound(u) ==
    /\ remover[u] # None
    /\ IF remover[u].id \in jobs
       THEN Remove(remover[u].id)
       ELSE UNCHANGED <<state, jobs, names, answer>>
    /\ remover' = [remover EXCEPT ![u] = None]
    /\ UNCHANGED <<nextId, nameOf, elapsed, down, registrar, worker, current, batch,
                   counter, throws>>

(* A mod calls destroy on what get_job returned. *)
Destroy(id) ==
    /\ id \in jobs
    /\ state[id] # "Destroyed"
    /\ state' = [state EXCEPT ![id] = "Destroyed"]
    /\ UNCHANGED <<nextId, nameOf, jobs, names, elapsed, down, registrar, answer,
                   remover, worker, current, batch, counter, throws>>

TimePasses(id) ==
    /\ id \in jobs
    /\ nameOf[id] \in Periodic
    /\ ~elapsed[id]
    /\ elapsed' = [elapsed EXCEPT ![id] = TRUE]
    /\ UNCHANGED <<nextId, nameOf, jobs, names, state, down, registrar, answer,
                   remover, worker, current, batch, counter, throws>>

--------------------------------------------------------------------------------
(* execute_jobs_for_kind: the flag ... *)
StepBegin(w) ==
    /\ down = "up"
    /\ worker[w] = "idle"
    /\ worker' = [worker EXCEPT ![w] = "entered"]
    /\ UNCHANGED <<current, nextId, nameOf, jobs, names, state, elapsed, down, registrar,
                   answer, remover, batch, counter, throws>>

(* ... the jobs that should_execute, under a shared lock: it looks at the kind
   and asks the job, never at its state ... *)
Asked(k) == {id \in jobs : k \in TargetsOf[nameOf[id]]}
DueIgnored(k) == {}                                    \* seeded fault
Due(k) == {id \in Asked(k) : nameOf[id] \in Periodic /\ elapsed[id]}
Willing(k) == {id \in Asked(k) : nameOf[id] \notin Periodic}

Snapshot(w, k) ==
    /\ worker[w] = "entered"
    /\ \E S \in SUBSET Willing(k) : batch' = [batch EXCEPT ![w] = Due(k) \cup S]
    /\ worker' = [worker EXCEPT ![w] = "running"]
    /\ UNCHANGED <<current, nextId, nameOf, jobs, names, state, elapsed, down, registrar,
                   answer, remover, counter, throws>>

(* ... then each of them, by priority, with no lock.  PeriodicJob notes the
   time before it calls the function.  The entry of a job that has left the map
   is freed, and the code uses it still: whatever that does, the model lets the
   job run to its end. *)
Foremost(w) == {id \in batch[w] : \A j \in batch[w] :
                                     PriorityOf[nameOf[id]] <= PriorityOf[nameOf[j]]}

ExecuteBegin(w, id) ==
    /\ worker[w] = "running"
    /\ current[w] = None
    /\ id \in Foremost(w)
    /\ current' = [current EXCEPT ![w] = id]
    /\ elapsed' = [elapsed EXCEPT ![id] = FALSE]
    /\ UNCHANGED <<nextId, nameOf, jobs, names, state, down, registrar, answer,
                   remover, worker, batch, counter, throws>>

(* JobBase::execute swallows what the job throws, and ends in Finished whatever
   the state was. *)
ExecuteEnd(w) ==
    LET id == current[w] IN
    /\ id # None
    /\ state' = [state EXCEPT ![id] = "Finished"]
    /\ batch' = [batch EXCEPT ![w] = @ \ {id}]
    /\ current' = [current EXCEPT ![w] = None]
    /\ UNCHANGED <<nextId, nameOf, jobs, names, elapsed, down, registrar, answer,
                   remover, worker, counter, throws>>

(* cleanup_counter, which all threads share. *)
NextCount == (counter + 1) % CleanupEvery

(* The last thing a step does: one in CleanupEvery takes the destroyed jobs
   out of both maps. *)
CleanUp ==
    LET gone == {id \in jobs : state[id] = "Destroyed"} IN
    /\ jobs' = jobs \ gone
    /\ names' = [n \in Names |-> IF \E id \in gone : nameOf[id] = n THEN None ELSE names[n]]
    /\ answer' = [id \in Ids |-> IF id \in gone THEN "removed" ELSE answer[id]]

StepEnd(w) ==
    /\ worker[w] = "running"
    /\ batch[w] = {}
    /\ current[w] = None
    /\ IF counter = 0 THEN CleanUp ELSE UNCHANGED <<jobs, names, answer>>
    /\ counter' = NextCount
    /\ worker' = [worker EXCEPT ![w] = "idle"]
    /\ UNCHANGED <<current, nextId, nameOf, state, elapsed, down, registrar, remover,
                   batch, throws>>

--------------------------------------------------------------------------------
(* shutdown: the flag, the script engines, then the maps under their lock.  The
   destructor runs it again, which is why it can clear more than once. *)
ShutdownFlag ==
    /\ down = "up"
    /\ down' = "flagged"
    /\ UNCHANGED <<nextId, nameOf, jobs, names, state, elapsed, registrar, answer,
                   remover, worker, current, batch, counter, throws>>

ShutdownClear ==
    /\ down = "flagged"
    /\ state' = [id \in Ids |-> IF id \in jobs THEN "Destroyed" ELSE state[id]]
    /\ jobs' = {}
    /\ names' = [n \in Names |-> None]
    /\ answer' = [id \in Ids |-> IF id \in jobs THEN "removed" ELSE answer[id]]
    /\ down' = "down"
    /\ UNCHANGED <<nextId, nameOf, elapsed, registrar, remover, worker, current, batch,
                   counter, throws>>

ShutdownAgain ==
    /\ down = "down"
    /\ down' = "flagged"
    /\ UNCHANGED <<nextId, nameOf, jobs, names, state, elapsed, registrar, answer,
                   remover, worker, current, batch, counter, throws>>

--------------------------------------------------------------------------------
Init ==
    /\ nextId = 1
    /\ nameOf = [id \in Ids |-> None]
    /\ jobs = {}
    /\ names = [n \in Names |-> None]
    /\ state = [id \in Ids |-> "Idle"]
    /\ elapsed = [id \in Ids |-> FALSE]
    /\ down = "up"
    /\ registrar = [r \in Registrars |-> None]
    /\ answer = [id \in Ids |-> "none"]
    /\ remover = [u \in Removers |-> None]
    /\ worker = [w \in Workers |-> "idle"]
    /\ current = [w \in Workers |-> None]
    /\ batch = [w \in Workers |-> {}]
    /\ counter = 0
    /\ throws = 0

Execute(w) == (\E id \in Ids : ExecuteBegin(w, id)) \/ ExecuteEnd(w)

Next ==
    \/ \E r \in Registrars : (\E n \in Names : RegisterBegin(r, n)) \/ Insert(r) \/ InsertRefused(r)
    \/ \E id \in Ids : UnregisterId(id) \/ Destroy(id) \/ TimePasses(id)
    \/ \E u \in Removers : (\E n \in Names : LookUp(u, n)) \/ UnregisterFound(u)
    \/ \E w \in Workers : StepBegin(w) \/ (\E k \in Kinds : Snapshot(w, k)) \/ Execute(w) \/ StepEnd(w)
    \/ ShutdownFlag \/ ShutdownClear \/ ShutdownAgain

Spec == Init /\ [][Next]_vars

(* Roblox steps its jobs every frame, on its own threads, those of each kind
   among them; a step that has begun goes on. *)
Fairness ==
    /\ \A w \in Workers : WF_vars(StepBegin(w)) /\ WF_vars(Execute(w)) /\ WF_vars(StepEnd(w))
    /\ \A w \in Workers, k \in Kinds : SF_vars(Snapshot(w, k))

FairSpec == Spec /\ Fairness

--------------------------------------------------------------------------------
TypeOK ==
    /\ nextId \in 1 .. MaxId + 1
    /\ nameOf \in [Ids -> Names \cup {None}]
    /\ jobs \subseteq Ids
    /\ names \in [Names -> Ids \cup {None}]
    /\ state \in [Ids -> {"Idle", "Running", "Finished", "Destroyed"}]
    /\ elapsed \in [Ids -> BOOLEAN]
    /\ down \in {"up", "flagged", "down"}
    /\ registrar \in [Registrars -> Ids \cup {None}]
    /\ answer \in [Ids -> {"none", "registered", "failed", "removed"}]
    /\ remover \in [Removers -> [name : Names, id : Ids] \cup {None}]
    /\ worker \in [Workers -> {"idle", "entered", "running"}]
    /\ current \in [Workers -> Ids \cup {None}]
    /\ batch \in [Workers -> SUBSET Ids]
    /\ counter \in 0 .. CleanupEvery - 1
    /\ throws \in 0 .. MaxThrows

(* A name that leads somewhere leads to a registered job of that name, although an
   emplace that threw may have left jobs without a name behind, and a job of the
   same name that is registered after one of those may lose its name to it. *)
NamesLeadToJobs ==
    \A n \in Names : names[n] # None => names[n] \in jobs /\ nameOf[names[n]] = n

(* The two maps tell the same story, so that a job can be found by either key, and
   removed by its name: as long as no emplace has thrown, each registered job is the
   one its name leads to.  Registrations of one name race each other, removals by
   name and by id, cleanups and the shutdown. *)
MapsAgree ==
    /\ NamesLeadToJobs
    /\ throws = 0 => \A id \in jobs : names[nameOf[id]] = id

(* What a caller of register_job was told stays true until someone removes the job:
   a job said to be registered is; one said not to be is not, unless an emplace
   threw. *)
ToldTheTruth ==
    \A id \in Ids : /\ answer[id] = "registered" => id \in jobs
                    /\ throws = 0 /\ id \in jobs => answer[id] = "registered"

(* unregister_job by name uses an id it looked up before it let the lock go:
   it never takes out a job of another name, or a newer one of the same. *)
RemovesWhatItFound ==
    [][\A u \in Removers : remover[u] # None /\ remover'[u] = None =>
           \A id \in jobs \ jobs' : id = remover[u].id /\ nameOf[id] = remover[u].name]_vars

(* What a mod waits for before it frees what its job uses: a job that is out of the
   map and in no thread's snapshot is never run again, however registrations
   and removals go on.  Leaving the map alone is not enough (below). *)
Retired(id) ==
    /\ answer[id] # "none" /\ id \notin jobs
    /\ \A w \in Workers : id \notin batch[w]
RetiredForGood == [][\A id \in Ids : Retired(id) => Retired(id)']_vars

(* Up to the first emplace that throws, the registry is one table of jobs by name,
   and its threads run what they found there, once. *)
Table == INSTANCE JobTable WITH table <- names, told <- answer, held <- batch
ImplementsTable ==
    /\ Table!Init
    /\ [][throws' = 0 => [Table!Next]_(Table!vars)]_vars

(* A periodic job whose interval is over runs again, if it stays registered
   and the loader is not shutting down. *)
DueJobRuns ==
    \A id \in Ids : id \in jobs /\ elapsed[id] ~> ~elapsed[id] \/ id \notin jobs \/ down # "up"

(* job_manager.hpp:84-87, "Unregister a job by ID", returns true once the job
   is gone: then no thread is running it. *)
UnregisteredNeverRuns == \A w \in Workers : current[w] # None => current[w] \in jobs

(* job_manager.hpp:26: "Expected containing job ID on success, error message on
   failure": a job whose registration failed is not registered. *)
FailedIsNotRegistered == \A id \in Ids : answer[id] = "failed" => id \notin jobs

(* job_manager.hpp:68, "a periodic job that executes at fixed intervals": it
   starts only when the interval since its last start is over. *)
OncePerInterval ==
    [][\A w \in Workers :
           /\ current[w] = None
           /\ current'[w] # None
           /\ nameOf[current'[w]] \in Periodic
           => elapsed[current'[w]]]_vars
================================================================================
