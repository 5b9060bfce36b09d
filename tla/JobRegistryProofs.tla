---------------------------- MODULE JobRegistryProofs ----------------------------
(****************************************************************************)
(* Proofs about JobRegistry, for any names, ids, threads and exceptions.  What    *)
(* an emplace that throws destroys is claimed until one does.                     *)
(****************************************************************************)
EXTENDS JobRegistry, TLAPS

USE RegistryAssumption DEF Ids

(* The ids that have been given out: each to one call of register_job, with its
   name for good, and a job is in the map only once that call has its answer. *)
IdsGivenOut ==
    /\ \A id \in jobs : answer[id] # "none" /\ nameOf[id] \in Names
    /\ \A id \in Ids : answer[id] # "none" => id < nextId
    /\ \A r \in Registrars : registrar[r] # None =>
         /\ registrar[r] < nextId /\ nameOf[registrar[r]] \in Names
         /\ answer[registrar[r]] = "none"
    /\ \A r, q \in Registrars : registrar[r] # None /\ registrar[r] = registrar[q] => r = q

(* What a call of unregister_job has looked up keeps its name. *)
FoundKeepsName ==
    \A u \in Removers : remover[u] # None =>
        remover[u].id < nextId /\ nameOf[remover[u].id] = remover[u].name

(* The half of ToldTheTruth that survives exceptions. *)
RegisteredStays == \A id \in Ids : answer[id] = "registered" => id \in jobs

(* What only an exception can break. *)
BothMaps ==
    /\ \A id \in jobs : names[nameOf[id]] = id
    /\ NamesLeadToJobs

AnswersExact == \A id \in Ids : answer[id] = "registered" <=> id \in jobs

WholeUntilThrown == throws = 0 => BothMaps /\ AnswersExact

MapInv == TypeOK /\ NamesLeadToJobs /\ RegisteredStays /\ WholeUntilThrown /\ IdsGivenOut
                 /\ FoundKeepsName

(* A thread holds jobs only while it runs them, and jobs that were in the map. *)
WorkInv ==
    \A w \in Workers :
        /\ \A id \in batch[w] : answer[id] # "none"
        /\ worker[w] # "running" => batch[w] = {} /\ current[w] = None
        /\ current[w] # None => current[w] \in batch[w]

RInv == MapInv /\ WorkInv

Quiet == UNCHANGED <<nextId, nameOf, jobs, names, registrar, answer, remover, throws>>

(* Nobody but the workers changes where they stand, and no answer is taken back. *)
OutsideWork ==
    /\ UNCHANGED <<worker, batch, current>>
    /\ \A id \in Ids : answer[id] # "none" => answer'[id] # "none"

LEMMA QuietKeeps ==
    ASSUME MapInv, Quiet, TypeOK' PROVE MapInv'
BY DEF MapInv, Quiet, NamesLeadToJobs, BothMaps, AnswersExact, RegisteredStays, WholeUntilThrown,
       IdsGivenOut, FoundKeepsName

LEMMA OutsideWorkKeeps ==
    ASSUME TypeOK, WorkInv, OutsideWork PROVE WorkInv'
BY DEF TypeOK, WorkInv, OutsideWork

LEMMA BeginKeeps ==
    ASSUME MapInv, NEW r \in Registrars, NEW n \in Names, RegisterBegin(r, n) PROVE MapInv'
<1> USE DEF MapInv
<1>1. /\ nextId \in Ids /\ nextId' = nextId + 1 /\ registrar' = [registrar EXCEPT ![r] = nextId]
      /\ nameOf' = [nameOf EXCEPT ![nextId] = n]
      /\ UNCHANGED <<jobs, names, state, elapsed, down, answer, remover, worker, current,
                     batch, counter, throws>>
  BY DEF RegisterBegin, TakeId
<1>2. /\ registrar'[r] = nextId /\ \A q \in Registrars : q # r => registrar'[q] = registrar[q]
      /\ nameOf'[nextId] = n /\ \A i \in Ids : i # nextId => nameOf'[i] = nameOf[i]
  BY <1>1 DEF TypeOK
<1>3. \A i \in Ids : i < nextId => i # nextId /\ i < nextId' /\ nameOf'[i] = nameOf[i]
  BY <1>1, <1>2
<1>4. answer[nextId] = "none" /\ nextId # None /\ nextId < nextId'
  BY <1>1 DEF IdsGivenOut
<1>5. TypeOK'
  <2>1. nextId' \in 1 .. MaxId + 1 /\ registrar' \in [Registrars -> Ids \cup {None}]
        /\ nameOf' \in [Ids -> Names \cup {None}]
    BY <1>1 DEF TypeOK
  <2> QED
    BY <1>1, <2>1 DEF TypeOK
<1>6. NamesLeadToJobs' /\ RegisteredStays' /\ WholeUntilThrown'
  <2>1. \A i \in jobs : i \in Ids /\ nameOf'[i] = nameOf[i]
    BY <1>3 DEF IdsGivenOut, TypeOK
  <2>2. NamesLeadToJobs'
    BY <1>1, <2>1 DEF NamesLeadToJobs
  <2> QED
    BY <1>1, <2>1, <2>2 DEF BothMaps, AnswersExact, RegisteredStays, WholeUntilThrown
<1>7. IdsGivenOut'
  <2>1. \A i \in jobs' : answer'[i] # "none" /\ nameOf'[i] \in Names
    BY <1>1, <1>3 DEF IdsGivenOut, TypeOK
  <2>2. \A i \in Ids : answer'[i] # "none" => i < nextId'
    BY <1>1, <1>3 DEF IdsGivenOut
  <2>3. \A q \in Registrars : registrar[q] # None => registrar[q] \in Ids /\ registrar[q] # nextId
    BY <1>3 DEF IdsGivenOut, TypeOK
  <2>4. ASSUME NEW q \in Registrars, registrar'[q] # None
        PROVE  /\ registrar'[q] < nextId' /\ nameOf'[registrar'[q]] \in Names
               /\ answer'[registrar'[q]] = "none"
    <3>1. CASE q = r
      BY <1>1, <1>2, <1>4, <3>1
    <3>2. CASE q # r
      BY <1>1, <1>2, <1>3, <2>3, <2>4, <3>2 DEF IdsGivenOut
    <3> QED
      BY <3>1, <3>2
  <2>5. \A q, s \in Registrars : registrar'[q] # None /\ registrar'[q] = registrar'[s] => q = s
    BY <1>2, <2>3 DEF IdsGivenOut
  <2> QED
    BY <2>1, <2>2, <2>4, <2>5 DEF IdsGivenOut
<1>8. FoundKeepsName'
  BY <1>1, <1>3 DEF FoundKeepsName, TypeOK
<1> QED
  BY <1>5, <1>6, <1>7, <1>8

LEMMA InsertKeeps ==
    ASSUME MapInv, NEW r \in Registrars, Insert(r) \/ InsertRefused(r) PROVE MapInv'
<1> USE DEF MapInv
<1> DEFINE id == registrar[r]
           n == nameOf[id]
<1>1. id # None /\ id \in Ids /\ n \in Names /\ answer[id] = "none" /\ id < nextId /\ id \notin jobs
  BY DEF Insert, InsertRefused, TypeOK, IdsGivenOut
<1>2. registrar' = [registrar EXCEPT ![r] = None] /\ UNCHANGED <<nextId, nameOf, remover, down,
        worker, current, batch, counter>>
  BY DEF Insert, InsertRefused
<1>3. FoundKeepsName'
  BY <1>2 DEF FoundKeepsName
<1>4. \A q \in Registrars : registrar'[q] # None => q # r /\ registrar'[q] = registrar[q]
                                                  /\ registrar[q] # id
  BY <1>1, <1>2 DEF TypeOK, IdsGivenOut
<1>5. ASSUME NEW a \in {"registered", "failed"}, answer' = [answer EXCEPT ![id] = a],
             jobs' \in {jobs, jobs \cup {id}}
      PROVE  IdsGivenOut'
  <2>1. \A i \in Ids : answer'[i] = IF i = id THEN a ELSE answer[i]
    BY <1>1, <1>5 DEF TypeOK
  <2>2. jobs \subseteq Ids /\ n = nameOf[id]
    BY DEF TypeOK, n
  <2> HIDE DEF id, n
  <2>3. \A i \in jobs' : answer'[i] # "none" /\ nameOf'[i] \in Names
    BY <1>1, <1>2, <1>5, <2>1, <2>2 DEF IdsGivenOut
  <2>4. \A i \in Ids : answer'[i] # "none" => i < nextId'
    BY <1>1, <1>2, <2>1 DEF IdsGivenOut
  <2>5. ASSUME NEW q \in Registrars, registrar'[q] # None
        PROVE  /\ registrar'[q] < nextId' /\ nameOf'[registrar'[q]] \in Names
               /\ answer'[registrar'[q]] = "none"
    <3>1. registrar[q] \in Ids
      BY <1>4, <2>5 DEF TypeOK
    <3> QED
      BY <1>2, <1>4, <2>1, <2>5, <3>1 DEF IdsGivenOut
  <2>6. \A q, t \in Registrars : registrar'[q] # None /\ registrar'[q] = registrar'[t] => q = t
    BY <1>4 DEF IdsGivenOut
  <2> QED
    BY <2>3, <2>4, <2>5, <2>6 DEF IdsGivenOut
<1>6. CASE InsertRefused(r)
  <2>1. /\ jobs' = jobs /\ names' = names /\ answer' = [answer EXCEPT ![id] = "failed"]
        /\ throws' = throws /\ state' = state /\ elapsed' = elapsed
    BY <1>6 DEF InsertRefused
  <2>2. IdsGivenOut'
    BY <1>5, <2>1
  <2> HIDE DEF id, n
  <2>3. TypeOK'
    BY <1>1, <1>2, <2>1 DEF TypeOK
  <2>4. RegisteredStays' /\ (AnswersExact => AnswersExact')
    BY <1>1, <2>1 DEF RegisteredStays, AnswersExact, TypeOK
  <2>5. NamesLeadToJobs' /\ (BothMaps => BothMaps')
    BY <1>2, <2>1 DEF NamesLeadToJobs, BothMaps
  <2> QED
    BY <1>3, <2>1, <2>2, <2>3, <2>4, <2>5 DEF WholeUntilThrown
<1>7. ASSUME Insert(r), throws' # throws PROVE MapInv'
  <2>1. /\ throws' = throws + 1 /\ throws < MaxThrows
        /\ jobs' \in {jobs, jobs \cup {id}} /\ names' = names
        /\ answer' = [answer EXCEPT ![id] = "failed"]
        /\ state' = [state EXCEPT ![id] = "Running"] /\ elapsed' = [elapsed EXCEPT ![id] = FALSE]
    BY <1>7 DEF Insert
  <2>2. IdsGivenOut'
    BY <1>5, <2>1
  <2> HIDE DEF id, n
  <2>3. TypeOK'
    BY <1>1, <1>2, <2>1 DEF TypeOK
  <2>4. RegisteredStays'
    BY <1>1, <2>1 DEF RegisteredStays, TypeOK
  <2>5. NamesLeadToJobs'
    BY <1>2, <2>1 DEF NamesLeadToJobs
  <2>6. throws' # 0
    BY <2>1 DEF TypeOK
  <2> QED
    BY <1>3, <2>2, <2>3, <2>4, <2>5, <2>6 DEF WholeUntilThrown
<1>8. ASSUME Insert(r), throws' = throws PROVE MapInv'
  <2>1. /\ names[n] = None /\ jobs' = jobs \cup {id} /\ names' = [names EXCEPT ![n] = id]
        /\ answer' = [answer EXCEPT ![id] = "registered"] /\ throws' = throws
        /\ state' = [state EXCEPT ![id] = "Running"] /\ elapsed' = [elapsed EXCEPT ![id] = FALSE]
    BY <1>8 DEF Insert, Taken, TypeOK
  <2>2. IdsGivenOut'
    BY <1>5, <2>1
  <2>3. n = nameOf[id]
    OBVIOUS
  <2> HIDE DEF id, n
  <2>4. TypeOK'
    BY <1>1, <1>2, <2>1 DEF TypeOK
  <2>5. \A m \in Names : names'[m] = IF m = n THEN id ELSE names[m]
    BY <1>1, <2>1 DEF TypeOK
  <2>6. NamesLeadToJobs'
    BY <1>1, <1>2, <2>1, <2>3, <2>5 DEF NamesLeadToJobs
  <2>7. BothMaps => BothMaps'
    <3>1. BothMaps => \A i \in jobs : nameOf[i] # n /\ nameOf[i] \in Names
      BY <1>1, <2>1 DEF BothMaps, IdsGivenOut, TypeOK
    <3> QED
      BY <1>1, <1>2, <2>1, <2>3, <2>5, <2>6, <3>1 DEF BothMaps
  <2>8. RegisteredStays' /\ (AnswersExact => AnswersExact')
    BY <1>1, <2>1 DEF RegisteredStays, AnswersExact, TypeOK
  <2> QED
    BY <1>3, <2>1, <2>2, <2>4, <2>6, <2>7, <2>8 DEF WholeUntilThrown
<1> QED
  BY <1>6, <1>7, <1>8

(* Taking a set of jobs out of both maps, as removals, cleanups and the shutdown do. *)
TakenOut(G) ==
    /\ G \subseteq jobs
    /\ jobs' = jobs \ G
    /\ names' \in [Names -> Ids \cup {None}]
    /\ \A n \in Names : names'[n] = IF \E id \in G : nameOf[id] = n THEN None ELSE names[n]
    /\ answer' \in [Ids -> {"none", "registered", "failed", "removed"}]
    /\ \A id \in Ids : answer'[id] = IF id \in G THEN "removed" ELSE answer[id]
    /\ UNCHANGED <<nextId, nameOf, registrar, throws>>

LEMMA TakenOutKeeps ==
    ASSUME MapInv, NEW G, TakenOut(G)
    PROVE  NamesLeadToJobs' /\ RegisteredStays' /\ WholeUntilThrown' /\ IdsGivenOut'
<1> USE DEF MapInv
<1>1. G \subseteq Ids /\ jobs \subseteq Ids /\ \A i \in jobs : nameOf[i] \in Names
  BY DEF TakenOut, TypeOK, IdsGivenOut
<1>2. NamesLeadToJobs'
  <2> SUFFICES ASSUME NEW n \in Names, names'[n] # None
               PROVE  names'[n] \in jobs' /\ nameOf'[names'[n]] = n
    BY DEF NamesLeadToJobs
  <2>1. names'[n] = names[n] /\ \A g \in G : nameOf[g] # n
    BY DEF TakenOut
  <2>2. names[n] \in jobs /\ nameOf[names[n]] = n
    BY <2>1 DEF NamesLeadToJobs
  <2> QED
    BY <2>1, <2>2 DEF TakenOut
<1>3. ASSUME BothMaps PROVE BothMaps'
  <2>1. ASSUME NEW i \in jobs' PROVE names'[nameOf'[i]] = i
    <3>1. i \in jobs /\ i \notin G /\ nameOf'[i] = nameOf[i] /\ nameOf[i] \in Names
      BY <1>1, <2>1 DEF TakenOut
    <3>2. \A g \in G : nameOf[g] # nameOf[i]
      BY <1>3, <3>1 DEF BothMaps, TakenOut
    <3> QED
      BY <1>3, <3>1, <3>2 DEF BothMaps, TakenOut
  <2> QED
    BY <1>2, <2>1 DEF BothMaps
<1>4. RegisteredStays' /\ (AnswersExact => AnswersExact')
  BY <1>1 DEF RegisteredStays, AnswersExact, TakenOut
<1>5. IdsGivenOut'
  BY <1>1 DEF IdsGivenOut, TakenOut, TypeOK
<1> QED
  BY <1>2, <1>3, <1>4, <1>5 DEF WholeUntilThrown, TakenOut

LEMMA TakenOutIsOutside ==
    ASSUME MapInv, NEW G, TakenOut(G), UNCHANGED <<worker, batch, current>> PROVE OutsideWork
BY DEF TakenOut, OutsideWork

LEMMA RemoveTakesOut ==
    ASSUME MapInv, NEW id \in jobs, Remove(id), UNCHANGED <<nextId, nameOf, registrar, throws>>
    PROVE  /\ TakenOut({id})
           /\ state' \in [Ids -> {"Idle", "Running", "Finished", "Destroyed"}]
<1>1. id \in Ids /\ nameOf[id] \in Names
  BY DEF MapInv, TypeOK, IdsGivenOut
<1> QED
  BY <1>1 DEF MapInv, TypeOK, Remove, EraseBoth, TakenOut

LEMMA UnregisterKeeps ==
    ASSUME MapInv, NEW id \in Ids, UnregisterId(id) PROVE MapInv'
<1>1. TakenOut({id}) /\ state' \in [Ids -> {"Idle", "Running", "Finished", "Destroyed"}]
  BY RemoveTakesOut DEF UnregisterId
<1>2. NamesLeadToJobs' /\ RegisteredStays' /\ WholeUntilThrown' /\ IdsGivenOut'
  BY <1>1, TakenOutKeeps
<1>3. TypeOK'
  BY <1>1 DEF MapInv, TypeOK, TakenOut, UnregisterId
<1>4. FoundKeepsName'
  BY DEF MapInv, FoundKeepsName, UnregisterId
<1> QED
  BY <1>2, <1>3, <1>4 DEF MapInv

LEMMA LookUpKeeps ==
    ASSUME MapInv, NEW u \in Removers, NEW n \in Names, LookUp(u, n) PROVE MapInv'
<1> USE DEF MapInv
<1>1. /\ names[n] \in Ids /\ names[n] \in jobs /\ nameOf[names[n]] = n /\ names[n] < nextId
      /\ remover' = [remover EXCEPT ![u] = [name |-> n, id |-> names[n]]]
      /\ UNCHANGED <<nextId, nameOf, jobs, names, state, elapsed, down, registrar,
                     answer, worker, current, batch, counter, throws>>
  BY DEF LookUp, TypeOK, NamesLeadToJobs, IdsGivenOut
<1>2. TypeOK'
  BY <1>1 DEF TypeOK
<1>3. FoundKeepsName'
  BY <1>1 DEF FoundKeepsName, TypeOK
<1>4. NamesLeadToJobs' /\ RegisteredStays' /\ WholeUntilThrown' /\ IdsGivenOut'
  BY <1>1 DEF NamesLeadToJobs, BothMaps, RegisteredStays, AnswersExact, WholeUntilThrown, IdsGivenOut
<1> QED
  BY <1>2, <1>3, <1>4

(* Taking jobs out keeps the types, if what else the step does keeps its own. *)
LEMMA TakenOutTypes ==
    ASSUME MapInv, NEW G, TakenOut(G), UNCHANGED elapsed,
           state' \in [Ids -> {"Idle", "Running", "Finished", "Destroyed"}],
           down' \in {"up", "flagged", "down"},
           remover' \in [Removers -> [name : Names, id : Ids] \cup {None}],
           worker' \in [Workers -> {"idle", "entered", "running"}],
           UNCHANGED <<current, batch>>, counter' \in 0 .. CleanupEvery - 1
    PROVE  TypeOK'
<1>1. jobs' \subseteq Ids
  BY DEF MapInv, TypeOK, TakenOut
<1>2. /\ names' \in [Names -> Ids \cup {None}]
      /\ answer' \in [Ids -> {"none", "registered", "failed", "removed"}]
  BY DEF TakenOut
<1>3. UNCHANGED <<nextId, nameOf, registrar, throws, elapsed, current, batch>>
  BY DEF TakenOut
<1> QED
  BY <1>1, <1>2, <1>3 DEF MapInv, TypeOK

LEMMA FoundKeeps ==
    ASSUME MapInv, NEW u \in Removers, UnregisterFound(u) PROVE MapInv'
<1>1. /\ remover' \in [Removers -> [name : Names, id : Ids] \cup {None}]
      /\ remover'[u] = None /\ \A v \in Removers : v # u => remover'[v] = remover[v]
      /\ UNCHANGED <<nextId, nameOf, elapsed, down, registrar, worker, current, batch,
                     counter, throws>>
  BY DEF MapInv, TypeOK, UnregisterFound
<1>2. FoundKeepsName'
  BY <1>1 DEF MapInv, FoundKeepsName
<1>3. CASE remover[u].id \in jobs
  <2>1. /\ TakenOut({remover[u].id})
        /\ state' \in [Ids -> {"Idle", "Running", "Finished", "Destroyed"}]
    BY <1>1, <1>3, RemoveTakesOut DEF UnregisterFound
  <2>2. NamesLeadToJobs' /\ RegisteredStays' /\ WholeUntilThrown' /\ IdsGivenOut'
    BY <2>1, TakenOutKeeps
  <2>3. TypeOK'
    BY <1>1, <2>1, TakenOutTypes DEF MapInv, TypeOK
  <2> QED
    BY <1>2, <2>2, <2>3 DEF MapInv
<1>4. CASE remover[u].id \notin jobs
  <2>1. UNCHANGED <<state, jobs, names, answer>>
    BY <1>4 DEF UnregisterFound
  <2>2. TypeOK'
    BY <1>1, <2>1 DEF MapInv, TypeOK
  <2>3. NamesLeadToJobs' /\ RegisteredStays' /\ WholeUntilThrown' /\ IdsGivenOut'
    BY <1>1, <2>1 DEF MapInv, NamesLeadToJobs, BothMaps, RegisteredStays, AnswersExact, WholeUntilThrown, IdsGivenOut
  <2> QED
    BY <1>2, <2>2, <2>3 DEF MapInv
<1> QED
  BY <1>3, <1>4

LEMMA WorkerKeeps ==
    ASSUME MapInv, NEW w \in Workers,
           StepBegin(w) \/ (\E k \in Kinds : Snapshot(w, k)) \/ Execute(w) PROVE MapInv'
<1>1. Quiet
  BY DEF StepBegin, Snapshot, Execute, ExecuteBegin, ExecuteEnd, Quiet
<1>2. CASE StepBegin(w)
  BY <1>1, <1>2, QuietKeeps DEF StepBegin, MapInv, TypeOK
<1>3. ASSUME NEW k \in Kinds, Snapshot(w, k) PROVE MapInv'
  <2>1. batch' \in [Workers -> SUBSET Ids]
    <3>1. PICK S \in SUBSET Willing(k) : batch' = [batch EXCEPT ![w] = Due(k) \cup S]
      BY <1>3 DEF Snapshot
    <3>2. Due(k) \cup S \subseteq jobs
      BY DEF Due, Willing, Asked
    <3> QED
      BY <3>1, <3>2 DEF MapInv, TypeOK
  <2>2. TypeOK'
    BY <1>3, <2>1 DEF Snapshot, MapInv, TypeOK
  <2> QED
    BY <1>1, <2>2, QuietKeeps
<1>4. ASSUME NEW id \in Ids, ExecuteBegin(w, id) PROVE MapInv'
  <2>1. TypeOK'
    BY <1>4 DEF ExecuteBegin, MapInv, TypeOK
  <2> QED
    BY <1>1, <2>1, QuietKeeps
<1>5. CASE ExecuteEnd(w)
  <2>1. TypeOK'
    BY <1>5 DEF ExecuteEnd, MapInv, TypeOK
  <2> QED
    BY <1>1, <2>1, QuietKeeps
<1> QED
  BY <1>2, <1>3, <1>4, <1>5 DEF Execute

LEMMA CleanUpTakesOut ==
    ASSUME MapInv, CleanUp, UNCHANGED <<nextId, nameOf, registrar, throws>>
    PROVE  TakenOut({id \in jobs : state[id] = "Destroyed"})
<1> DEFINE gone == {id \in jobs : state[id] = "Destroyed"}
<1>1. /\ jobs' = jobs \ gone
      /\ names' = [n \in Names |-> IF \E id \in gone : nameOf[id] = n THEN None ELSE names[n]]
      /\ answer' = [id \in Ids |-> IF id \in gone THEN "removed" ELSE answer[id]]
  BY DEF CleanUp
<1>2. gone \subseteq jobs
  OBVIOUS
<1> HIDE DEF gone
<1>3. names' \in [Names -> Ids \cup {None}]
  BY <1>1 DEF MapInv, TypeOK
<1>4. answer' \in [Ids -> {"none", "registered", "failed", "removed"}]
  BY <1>1 DEF MapInv, TypeOK
<1>5. TakenOut(gone)
  BY <1>1, <1>2, <1>3, <1>4 DEF TakenOut
<1> QED
  BY <1>5 DEF gone

LEMMA StepEndKeeps ==
    ASSUME MapInv, NEW w \in Workers, StepEnd(w) PROVE MapInv'
<1>1. /\ counter' \in 0 .. CleanupEvery - 1 /\ worker' \in [Workers -> {"idle", "entered", "running"}]
      /\ UNCHANGED <<current, nextId, nameOf, state, elapsed, down, registrar, remover,
                     batch, throws>>
  BY DEF StepEnd, NextCount, MapInv, TypeOK
<1>2. FoundKeepsName'
  BY <1>1 DEF MapInv, FoundKeepsName
<1>3. CASE counter = 0
  <2> DEFINE gone == {id \in jobs : state[id] = "Destroyed"}
  <2>1. TakenOut(gone)
    BY <1>1, <1>3, CleanUpTakesOut DEF StepEnd
  <2>2. NamesLeadToJobs' /\ RegisteredStays' /\ WholeUntilThrown' /\ IdsGivenOut'
    BY <2>1, TakenOutKeeps
  <2>3. TypeOK'
    BY <1>1, <2>1, TakenOutTypes DEF MapInv, TypeOK
  <2> QED
    BY <1>2, <2>2, <2>3 DEF MapInv
<1>4. CASE counter # 0
  <2>1. UNCHANGED <<jobs, names, answer>>
    BY <1>4 DEF StepEnd
  <2>2. TypeOK'
    BY <1>1, <2>1 DEF MapInv, TypeOK
  <2>3. NamesLeadToJobs' /\ RegisteredStays' /\ WholeUntilThrown' /\ IdsGivenOut'
    BY <1>1, <2>1 DEF MapInv, NamesLeadToJobs, BothMaps, RegisteredStays, AnswersExact, WholeUntilThrown, IdsGivenOut
  <2> QED
    BY <1>2, <2>2, <2>3 DEF MapInv
<1> QED
  BY <1>3, <1>4

LEMMA ShutdownTakesOut ==
    ASSUME MapInv, ShutdownClear PROVE TakenOut(jobs)
<1>1. \A n \in Names : names[n] # None => \E id \in jobs : nameOf[id] = n
  BY DEF MapInv, NamesLeadToJobs
<1> QED
  BY <1>1 DEF ShutdownClear, TakenOut, MapInv, TypeOK

LEMMA ShutdownKeeps ==
    ASSUME MapInv, ShutdownFlag \/ ShutdownClear \/ ShutdownAgain PROVE MapInv'
<1>1. CASE ShutdownFlag \/ ShutdownAgain
  BY <1>1, QuietKeeps DEF ShutdownFlag, ShutdownAgain, Quiet, MapInv, TypeOK
<1>2. CASE ShutdownClear
  <2>1. TakenOut(jobs)
    BY <1>2, ShutdownTakesOut
  <2>2. NamesLeadToJobs' /\ RegisteredStays' /\ WholeUntilThrown' /\ IdsGivenOut'
    BY <2>1, TakenOutKeeps
  <2>3. TypeOK'
    BY <1>2, <2>1 DEF ShutdownClear, MapInv, TypeOK, TakenOut
  <2>4. FoundKeepsName'
    BY <1>2 DEF ShutdownClear, MapInv, FoundKeepsName
  <2> QED
    BY <2>2, <2>3, <2>4 DEF MapInv
<1> QED
  BY <1>1, <1>2

LEMMA OthersKeep ==
    ASSUME MapInv, NEW id \in Ids, Destroy(id) \/ TimePasses(id) PROVE MapInv'
<1>1. Quiet
  BY DEF Destroy, TimePasses, Quiet
<1>2. TypeOK'
  BY DEF Destroy, TimePasses, MapInv, TypeOK
<1> QED
  BY <1>1, <1>2, QuietKeeps

(* No answer is taken back, so who only answers leaves the work alone. *)
LEMMA CallersAreOutside ==
    ASSUME MapInv, NEW r \in Registrars,
           (\E n \in Names : RegisterBegin(r, n)) \/ Insert(r) \/ InsertRefused(r)
    PROVE  OutsideWork
<1>1. registrar[r] # None => registrar[r] \in Ids
  BY DEF MapInv, TypeOK
<1> QED
  BY <1>1 DEF RegisterBegin, Insert, InsertRefused, OutsideWork, MapInv, TypeOK

LEMMA RemovalsAreOutside ==
    ASSUME MapInv,
           \/ \E id \in Ids : UnregisterId(id) \/ Destroy(id) \/ TimePasses(id)
           \/ \E u \in Removers : (\E n \in Names : LookUp(u, n)) \/ UnregisterFound(u)
           \/ ShutdownFlag \/ ShutdownClear \/ ShutdownAgain
    PROVE  OutsideWork
<1>1. ASSUME NEW id \in jobs, Remove(id) PROVE \A i \in Ids : answer[i] # "none" => answer'[i] # "none"
  BY <1>1 DEF Remove, MapInv, TypeOK
<1>2. ASSUME NEW id \in Ids, UnregisterId(id) \/ Destroy(id) \/ TimePasses(id) PROVE OutsideWork
  BY <1>1, <1>2 DEF UnregisterId, Destroy, TimePasses, OutsideWork
<1>3. ASSUME NEW u \in Removers, (\E n \in Names : LookUp(u, n)) \/ UnregisterFound(u)
      PROVE  OutsideWork
  BY <1>1, <1>3 DEF LookUp, UnregisterFound, OutsideWork
<1>4. CASE ShutdownFlag \/ ShutdownClear \/ ShutdownAgain
  BY <1>4 DEF ShutdownFlag, ShutdownClear, ShutdownAgain, OutsideWork, MapInv, TypeOK
<1> QED
  BY <1>2, <1>3, <1>4

LEMMA WorkersKeepWork ==
    ASSUME RInv, NEW w \in Workers,
           StepBegin(w) \/ (\E k \in Kinds : Snapshot(w, k)) \/ Execute(w) \/ StepEnd(w)
    PROVE  WorkInv'
<1> USE DEF RInv, MapInv, TypeOK
<1>1. \A i \in Ids : answer[i] # "none" => answer'[i] # "none"
  <2>1. CASE StepEnd(w) /\ counter = 0
    BY <2>1 DEF StepEnd, CleanUp
  <2>2. CASE StepEnd(w) /\ counter # 0
    BY <2>2 DEF StepEnd
  <2>3. CASE ~StepEnd(w)
    BY <2>3 DEF StepBegin, Snapshot, Execute, ExecuteBegin, ExecuteEnd
  <2> QED
    BY <2>1, <2>2, <2>3
<1>2. \A v \in Workers : v # w => worker'[v] = worker[v] /\ batch'[v] = batch[v] /\ current'[v] = current[v]
  BY DEF StepBegin, Snapshot, Execute, ExecuteBegin, ExecuteEnd, StepEnd
<1>3. ASSUME \A id \in batch'[w] : id \in Ids /\ answer[id] # "none",
             worker'[w] # "running" => batch'[w] = {} /\ current'[w] = None,
             current'[w] # None => current'[w] \in batch'[w]
      PROVE  WorkInv'
  <2>1. \A v \in Workers : batch[v] \subseteq Ids
    OBVIOUS
  <2>2. ASSUME NEW v \in Workers, v # w
        PROVE  /\ \A id \in batch'[v] : answer'[id] # "none"
               /\ worker'[v] # "running" => batch'[v] = {} /\ current'[v] = None
               /\ current'[v] # None => current'[v] \in batch'[v]
    BY <1>1, <1>2, <2>1, <2>2 DEF WorkInv
  <2> QED
    BY <1>1, <1>3, <2>2 DEF WorkInv
<1>4. CASE StepBegin(w) \/ StepEnd(w)
  BY <1>3, <1>4 DEF StepBegin, StepEnd, WorkInv
<1>5. ASSUME NEW k \in Kinds, Snapshot(w, k) PROVE WorkInv'
  <2>1. PICK S \in SUBSET Willing(k) : batch'[w] = Due(k) \cup S
    BY <1>5 DEF Snapshot
  <2>2. batch'[w] \subseteq jobs
    BY <2>1 DEF Due, Willing, Asked
  <2>3. worker'[w] = "running" /\ current'[w] = None
    BY <1>5 DEF Snapshot, WorkInv
  <2> QED
    BY <1>3, <2>2, <2>3 DEF IdsGivenOut
<1>6. ASSUME NEW id \in Ids, ExecuteBegin(w, id) PROVE WorkInv'
  BY <1>3, <1>6 DEF ExecuteBegin, Foremost, WorkInv
<1>7. CASE ExecuteEnd(w)
  BY <1>3, <1>7 DEF ExecuteEnd, WorkInv
<1> QED
  BY <1>4, <1>5, <1>6, <1>7 DEF Execute

LEMMA RegistryInit == Init => RInv
<1> SUFFICES ASSUME Init PROVE RInv
  OBVIOUS
<1>1. TypeOK
  BY DEF Init, TypeOK
<1>2. MapInv
  BY <1>1 DEF Init, MapInv, NamesLeadToJobs, BothMaps, RegisteredStays, AnswersExact, WholeUntilThrown,
     IdsGivenOut, FoundKeepsName
<1>3. WorkInv
  BY DEF Init, WorkInv
<1> QED
  BY <1>2, <1>3 DEF RInv

LEMMA RegistryNext ==
    ASSUME RInv, [Next]_vars PROVE RInv'
<1> USE DEF RInv
<1>0. TypeOK
  BY DEF MapInv
<1>1. CASE UNCHANGED vars
  <2>1. TypeOK' /\ Quiet /\ OutsideWork
    BY <1>0, <1>1 DEF vars, Quiet, TypeOK, OutsideWork
  <2> QED
    BY <1>0, <2>1, QuietKeeps, OutsideWorkKeeps
<1>2. CASE Next
  <2>1. ASSUME NEW r \in Registrars,
               (\E n \in Names : RegisterBegin(r, n)) \/ Insert(r) \/ InsertRefused(r) PROVE RInv'
    BY <1>0, <2>1, BeginKeeps, InsertKeeps, CallersAreOutside, OutsideWorkKeeps
  <2>2. ASSUME NEW id \in Ids, UnregisterId(id) \/ Destroy(id) \/ TimePasses(id) PROVE RInv'
    BY <1>0, <2>2, UnregisterKeeps, OthersKeep, RemovalsAreOutside, OutsideWorkKeeps
  <2>3. ASSUME NEW u \in Removers, (\E n \in Names : LookUp(u, n)) \/ UnregisterFound(u) PROVE RInv'
    BY <1>0, <2>3, LookUpKeeps, FoundKeeps, RemovalsAreOutside, OutsideWorkKeeps
  <2>4. ASSUME NEW w \in Workers,
               StepBegin(w) \/ (\E k \in Kinds : Snapshot(w, k)) \/ Execute(w) \/ StepEnd(w)
        PROVE  RInv'
    BY <2>4, WorkerKeeps, StepEndKeeps, WorkersKeepWork
  <2>5. CASE ShutdownFlag \/ ShutdownClear \/ ShutdownAgain
    BY <1>0, <2>5, ShutdownKeeps, RemovalsAreOutside, OutsideWorkKeeps
  <2> QED
    BY <1>2, <2>1, <2>2, <2>3, <2>4, <2>5 DEF Next
<1> QED
  BY <1>1, <1>2

(* The inductive invariant of the registry. *)
THEOREM Registered == Spec => []RInv
<1>1. RInv /\ [Next]_vars => RInv'
  BY RegistryNext
<1> QED
  BY <1>1, RegistryInit, PTL DEF Spec

(* Every variable keeps its type: no id is used that was not made. *)
THEOREM TypeCorrect == Spec => []TypeOK
<1>1. RInv => TypeOK
  BY DEF RInv, MapInv
<1> QED
  BY <1>1, Registered, PTL

(* m_jobs and m_name_to_id tell one story, whatever registrations, removals,
   cleanups and shutdowns race each other: no name ever leads to a job that is gone,
   and until an emplace throws no job is without its name. *)
THEOREM OneStory == Spec => []MapsAgree
<1>1. RInv => MapsAgree
  BY DEF RInv, MapInv, WholeUntilThrown, BothMaps, MapsAgree
<1> QED
  BY <1>1, Registered, PTL

(* What register_job answered stays true until the job is removed; that it failed
   is true until an emplace throws. *)
THEOREM AnswersStayTrue == Spec => []ToldTheTruth
<1>1. RInv => ToldTheTruth
  BY DEF RInv, MapInv, WholeUntilThrown, AnswersExact, RegisteredStays, ToldTheTruth
<1> QED
  BY <1>1, Registered, PTL

(* unregister_job by name, whose two critical sections others get between, takes out
   the job it looked up or nothing. *)
THEOREM RemovalIsExact == Spec => RemovesWhatItFound
<1>1. ASSUME RInv, [Next]_vars, NEW u \in Removers, remover[u] # None, remover'[u] = None
      PROVE  \A id \in jobs \ jobs' : id = remover[u].id /\ nameOf[id] = remover[u].name
  <2>1. UnregisterFound(u)
    <3>1. remover' # remover
      BY <1>1
    <3>2. PICK v \in Removers : (\E n \in Names : LookUp(v, n)) \/ UnregisterFound(v)
      BY <1>1, <3>1 DEF Next, vars, RegisterBegin, Insert, InsertRefused, UnregisterId, Destroy,
         TimePasses, StepBegin, Snapshot, Execute, ExecuteBegin, ExecuteEnd, StepEnd, ShutdownFlag,
         ShutdownClear, ShutdownAgain
    <3>3. v = u
      BY <1>1, <3>2 DEF LookUp, UnregisterFound, RInv, MapInv, TypeOK
    <3> QED
      BY <1>1, <3>2, <3>3 DEF LookUp
  <2>2. jobs \ jobs' \subseteq {remover[u].id}
    BY <2>1 DEF UnregisterFound, Remove, EraseBoth
  <2> QED
    BY <1>1, <2>2 DEF RInv, MapInv, FoundKeepsName
<1>2. RInv /\ [Next]_vars =>
        [\A u \in Removers : remover[u] # None /\ remover'[u] = None =>
           \A id \in jobs \ jobs' : id = remover[u].id /\ nameOf[id] = remover[u].name]_vars
  BY <1>1
<1> QED
  BY <1>2, Registered, PTL DEF Spec, RemovesWhatItFound

--------------------------------------------------------------------------------
(* What only the registration and the snapshot do: put a job into the map, and take
   jobs from it. *)
LEMMA NewJobsAreNew ==
    ASSUME RInv, [Next]_vars, NEW id \in jobs' \ jobs PROVE answer[id] = "none"
<1> USE DEF RInv, MapInv
<1>1. ASSUME NEW r \in Registrars, Insert(r) PROVE answer[id] = "none"
  BY <1>1 DEF Insert, IdsGivenOut
<1>2. PICK r \in Registrars : Insert(r)
  BY DEF Next, vars, RegisterBegin, InsertRefused, UnregisterId, Remove, EraseBoth, LookUp,
     UnregisterFound, Destroy, TimePasses, StepBegin, Snapshot, Execute, ExecuteBegin, ExecuteEnd,
     StepEnd, CleanUp, ShutdownFlag, ShutdownClear, ShutdownAgain
<1> QED
  BY <1>1, <1>2

LEMMA NewWorkIsRegistered ==
    ASSUME RInv, [Next]_vars, NEW w \in Workers, NEW id \in batch'[w] \ batch[w] PROVE id \in jobs
<1> USE DEF RInv, MapInv
<1>1. batch' # batch
  OBVIOUS
<1>2. PICK v \in Workers : (\E k \in Kinds : Snapshot(v, k)) \/ ExecuteEnd(v)
  BY <1>1 DEF Next, vars, RegisterBegin, Insert, InsertRefused, UnregisterId, LookUp,
     UnregisterFound, Destroy, TimePasses, StepBegin, Execute, ExecuteBegin,
     StepEnd, ShutdownFlag, ShutdownClear, ShutdownAgain
<1>3. v = w
  BY <1>2 DEF Snapshot, ExecuteEnd, TypeOK
<1>4. CASE ExecuteEnd(v)
  BY <1>3, <1>4 DEF ExecuteEnd, TypeOK
<1>5. ASSUME NEW k \in Kinds, Snapshot(v, k) PROVE id \in jobs
  <2>1. PICK S \in SUBSET Willing(k) : batch' = [batch EXCEPT ![v] = Due(k) \cup S]
    BY <1>5 DEF Snapshot
  <2>2. batch'[w] \subseteq jobs
    BY <1>3, <2>1 DEF Due, Willing, Asked, TypeOK
  <2> QED
    BY <2>2
<1> QED
  BY <1>2, <1>4, <1>5

(* A job that was unregistered and that no thread has in its snapshot is never run
   again: ids are not given out twice, and only the map fills a snapshot. *)
THEOREM GoneIsGone == Spec => RetiredForGood
<1>1. ASSUME RInv, [Next]_vars, NEW id \in Ids, Retired(id) PROVE Retired(id)'
  <2>1. id \notin jobs'
    BY <1>1, NewJobsAreNew DEF Retired
  <2>2. \A w \in Workers : id \notin batch'[w]
    BY <1>1, NewWorkIsRegistered DEF Retired
  <2>3. answer'[id] # "none"
    <3>1. CASE \E r \in Registrars :
                 (\E n \in Names : RegisterBegin(r, n)) \/ Insert(r) \/ InsertRefused(r)
      BY <1>1, <3>1, CallersAreOutside DEF RInv, OutsideWork, Retired
    <3>2. CASE \/ \E i \in Ids : UnregisterId(i) \/ Destroy(i) \/ TimePasses(i)
               \/ \E u \in Removers : (\E n \in Names : LookUp(u, n)) \/ UnregisterFound(u)
               \/ ShutdownFlag \/ ShutdownClear \/ ShutdownAgain
      BY <1>1, <3>2, RemovalsAreOutside DEF RInv, OutsideWork, Retired
    <3>3. ASSUME NEW w \in Workers,
                 StepBegin(w) \/ (\E k \in Kinds : Snapshot(w, k)) \/ Execute(w)
          PROVE  answer' = answer
      BY <3>3 DEF StepBegin, Snapshot, Execute, ExecuteBegin, ExecuteEnd
    <3>4. ASSUME NEW w \in Workers, StepEnd(w) PROVE answer'[id] # "none"
      <4>1. CASE counter = 0
        BY <1>1, <3>4, <4>1 DEF StepEnd, CleanUp, Retired
      <4>2. CASE counter # 0
        BY <1>1, <3>4, <4>2 DEF StepEnd, Retired
      <4> QED
        BY <4>1, <4>2
    <3> QED
      BY <1>1, <3>1, <3>2, <3>3, <3>4 DEF Next, vars, Retired
  <2> QED
    BY <2>1, <2>2, <2>3 DEF Retired
<1>2. RInv /\ [Next]_vars => [\A id \in Ids : Retired(id) => Retired(id)']_vars
  BY <1>1
<1> QED
  BY <1>2, Registered, PTL DEF Spec, RetiredForGood

--------------------------------------------------------------------------------
(* The registry is one table: the steps that matter are those under the lock. *)
LEMMA TableInit == Init => Table!Init
BY DEF Init, Table!Init

(* Taking jobs out of both maps is taking them out of the table. *)
LEMMA TakenOutOfTable ==
    ASSUME RInv, BothMaps, NEW G, TakenOut(G), UNCHANGED batch PROVE Table!Next
<1> USE DEF RInv, MapInv, TypeOK
<1>1. G \subseteq Ids
  BY DEF TakenOut
<1>2. ASSUME NEW n \in Names PROVE (names[n] \in G) <=> (\E id \in G : nameOf[id] = n)
  <2>1. ASSUME names[n] \in G PROVE nameOf[names[n]] = n
    <3>1. names[n] # None
      <4>1. names[n] \in Ids
        BY <1>1, <2>1
      <4> HIDE DEF MapInv, TypeOK, RInv
      <4> QED
        BY <4>1
    <3> QED
      BY <3>1 DEF NamesLeadToJobs
  <2>2. ASSUME NEW id \in G, nameOf[id] = n PROVE names[n] = id
    BY <2>2 DEF TakenOut, BothMaps
  <2> QED
    BY <2>1, <2>2
<1>3. names' = [n \in Names |-> IF names[n] \in G THEN None ELSE names[n]]
  BY <1>2 DEF TakenOut
<1>4. answer' = [id \in Ids |-> IF id \in G THEN "removed" ELSE answer[id]]
  BY DEF TakenOut
<1>5. G \in SUBSET Table!Listed
  <2>1. ASSUME NEW id \in G PROVE id \in {names[n] : n \in Names} /\ id # None
    BY <1>1, <2>1 DEF TakenOut, BothMaps, IdsGivenOut
  <2> QED
    BY <2>1 DEF Table!Listed
<1>6. Table!Remove(G)
  BY <1>3, <1>4 DEF Table!Remove
<1> QED
  BY <1>5, <1>6 DEF Table!Next

LEMMA TableNext ==
    ASSUME throws' = 0, RInv, [Next]_vars PROVE [Table!Next]_(Table!vars)
<1> USE DEF RInv, MapInv, TypeOK
<1>0. throws = 0 /\ BothMaps /\ AnswersExact
  <2>1. throws' = throws \/ throws' = throws + 1
    BY DEF Next, vars, RegisterBegin, Insert, InsertRefused, UnregisterId, LookUp, UnregisterFound, Destroy,
       TimePasses, StepBegin, Snapshot, Execute, ExecuteBegin, ExecuteEnd, StepEnd, ShutdownFlag,
       ShutdownClear, ShutdownAgain
  <2> QED
    BY <2>1 DEF WholeUntilThrown
<1>1. CASE UNCHANGED <<names, answer, batch>>
  BY <1>1 DEF Table!vars
<1>2. ASSUME NEW r \in Registrars, Insert(r) PROVE Table!Next
  <2> DEFINE id == registrar[r]
             n == nameOf[id]
  <2>1. id \in Ids /\ n \in Names /\ answer[id] = "none"
    BY <1>2 DEF Insert, IdsGivenOut
  <2>2. Table!Register(n, id)
    BY <1>0, <1>2, <2>1 DEF Insert, Taken, Table!Register
  <2> QED
    BY <2>1, <2>2 DEF Table!Next
<1>3. ASSUME NEW r \in Registrars, InsertRefused(r) PROVE Table!Next
  <2> DEFINE id == registrar[r]
             n == nameOf[id]
  <2>1. id \in Ids /\ n \in Names /\ answer[id] = "none"
    BY <1>3 DEF InsertRefused, IdsGivenOut
  <2>2. Table!Refuse(n, id)
    BY <1>3, <2>1 DEF InsertRefused, Taken, Table!Refuse
  <2> QED
    BY <2>1, <2>2 DEF Table!Next
<1>4. ASSUME NEW id \in jobs, Remove(id), UNCHANGED <<nextId, nameOf, registrar, throws, batch>>
      PROVE  Table!Next
  BY <1>0, <1>4, RemoveTakesOut, TakenOutOfTable
<1>5. ASSUME NEW w \in Workers, NEW k \in Kinds, Snapshot(w, k) PROVE Table!Next
  <2>1. PICK S \in SUBSET Willing(k) : batch' = [batch EXCEPT ![w] = Due(k) \cup S]
    BY <1>5 DEF Snapshot
  <2>2. Due(k) \cup S \subseteq jobs
    BY <2>1 DEF Due, Willing, Asked
  <2>3. \A id \in jobs : id \in {names[n] : n \in Names} /\ id # None
    BY <1>0 DEF BothMaps, IdsGivenOut
  <2>4. Due(k) \cup S \in SUBSET Table!Listed
    BY <2>2, <2>3 DEF Table!Listed
  <2>5. Table!Look(w, Due(k) \cup S)
    BY <1>5, <2>1 DEF Snapshot, WorkInv, Table!Look
  <2> QED
    BY <2>4, <2>5 DEF Table!Next
<1>6. ASSUME NEW w \in Workers, ExecuteEnd(w) PROVE Table!Next
  <2>1. current[w] \in Ids /\ Table!Run(w, current[w])
    BY <1>6 DEF ExecuteEnd, WorkInv, Table!Run
  <2> QED
    BY <2>1 DEF Table!Next
<1>7. ASSUME NEW w \in Workers, StepEnd(w), counter = 0 PROVE Table!Next
  <2> DEFINE gone == {id \in jobs : state[id] = "Destroyed"}
  <2>1. TakenOut(gone)
    BY <1>7, CleanUpTakesOut DEF StepEnd
  <2> QED
    BY <1>0, <1>7, <2>1, TakenOutOfTable DEF StepEnd
<1>8. CASE ShutdownClear
  BY <1>0, <1>8, ShutdownTakesOut, TakenOutOfTable DEF ShutdownClear
<1> QED
  <2>1. ASSUME NEW id \in Ids, UnregisterId(id) PROVE Table!Next
    BY <1>4, <2>1 DEF UnregisterId
  <2>2. ASSUME NEW u \in Removers, UnregisterFound(u) PROVE [Table!Next]_(Table!vars)
    <3>1. CASE remover[u].id \in jobs
      BY <1>4, <2>2, <3>1 DEF UnregisterFound
    <3>2. CASE remover[u].id \notin jobs
      BY <1>1, <2>2, <3>2 DEF UnregisterFound
    <3> QED
      BY <3>1, <3>2
  <2>3. ASSUME NEW w \in Workers, StepBegin(w) \/ (\E id \in Ids : ExecuteBegin(w, id)) \/
               (StepEnd(w) /\ counter # 0)
        PROVE  UNCHANGED <<names, answer, batch>>
    BY <2>3 DEF StepBegin, ExecuteBegin, StepEnd
  <2>4. CASE Next
    BY <2>4, <1>1, <1>2, <1>3, <1>5, <1>6, <1>7, <1>8, <2>1, <2>2, <2>3 DEF Next, RegisterBegin, Destroy,
       TimePasses, LookUp, Execute, ShutdownFlag, ShutdownAgain
  <2> QED
    BY <1>1, <2>4 DEF vars

(* As long as no emplace throws, the registry with its two maps, its locks let go in
   between and its ids looked up ahead is a JobTable: every registration and
   removal takes effect at one instant, and threads run what they saw there. *)
THEOREM Implements == Spec => ImplementsTable
<1>1. RInv /\ [Next]_vars => [throws' = 0 => [Table!Next]_(Table!vars)]_vars
  BY TableNext
<1> QED
  BY <1>1, Registered, TableInit, PTL DEF Spec, ImplementsTable
================================================================================
