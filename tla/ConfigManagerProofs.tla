-------------------------- MODULE ConfigManagerProofs --------------------------
(****************************************************************************)
(* Proofs about ConfigManager: types, and the order of loads, for any sections, *)
(* mods and watchers and any number of writes.                                  *)
(****************************************************************************)
EXTENDS ConfigManager, TLAPS

USE ConfigAssumption

(* Times of last write do not run ahead of the writes. *)
TimesBehind == mtime <= version

(* m_config_mutex is held by whoever is between its lock and its unlock. *)
HolderIsInside ==
    /\ holder = "client" <=> client \in {"loading", "saving"}
    /\ holder = "thread" <=> thread = "apply"

(* What has been parsed and is about to be applied is no older than what was loaded
   last, and neither is newer than the file. *)
PendingIsNewer ==
    /\ loaded <= version
    /\ client = "loading" => loaded <= parsed["client"].version
    /\ thread = "apply" => loaded <= parsed["thread"].version
    /\ \A a \in {"client", "thread"} : parsed[a].version <= version

CInv == TypeOK /\ TimesBehind /\ HolderIsInside /\ PendingIsNewer

LEMMA WrittenTypes ==
    ASSUME TypeOK, TimesBehind, NEW f, Written(f),
           f \in [exists : BOOLEAN, whole : BOOLEAN, parts : [Parts -> 0..Updated]]
    PROVE  /\ file' \in [exists : BOOLEAN, whole : BOOLEAN, parts : [Parts -> 0..Updated]]
           /\ version' \in 1..MaxWrites /\ mtime' \in 1..MaxWrites
           /\ mtime' <= version' /\ version' = version + 1
BY DEF TypeOK, TimesBehind, Written

(* Whatever writes the file or changes the configuration in memory without loading
   it: nothing that is pending gets old by it. *)
LEMMA FileStep ==
    ASSUME CInv, EditFile \/ DeleteFile
    PROVE  CInv'
<1>1. CASE EditFile
  <2>1. PICK S \in SUBSET Parts, w \in BOOLEAN :
          Written([exists |-> TRUE, whole |-> w,
                   parts |-> [p \in Parts |-> IF w /\ p \in S THEN version + 1 ELSE 0]])
    BY <1>1 DEF EditFile
  <2>2. version + 1 \in 0..Updated /\ 0 \in 0..Updated
    BY DEF CInv, TypeOK, Updated
  <2>3. [p \in Parts |-> IF w /\ p \in S THEN version + 1 ELSE 0] \in [Parts -> 0..Updated]
    <3>1. \A p \in Parts : (IF w /\ p \in S THEN version + 1 ELSE 0) \in 0..Updated
      BY <2>2
    <3> QED
      BY <3>1
  <2>4. /\ file' \in [exists : BOOLEAN, whole : BOOLEAN, parts : [Parts -> 0..Updated]]
        /\ version' \in 1..MaxWrites /\ mtime' \in 1..MaxWrites
        /\ mtime' <= version' /\ version' = version + 1
    BY <2>1, <2>3, WrittenTypes DEF CInv
  <2> QED
    BY <1>1, <2>4 DEF EditFile, confVars, watchVars, CInv, TypeOK, TimesBehind,
                      HolderIsInside, PendingIsNewer
<1>2. CASE DeleteFile
  <2>1. Absent \in [exists : BOOLEAN, whole : BOOLEAN, parts : [Parts -> 0..Updated]]
    BY DEF Absent, Updated
  <2>2. /\ file' \in [exists : BOOLEAN, whole : BOOLEAN, parts : [Parts -> 0..Updated]]
        /\ version' \in 1..MaxWrites /\ mtime' \in 1..MaxWrites
        /\ mtime' <= version' /\ version' = version + 1
    BY <1>2, <2>1, WrittenTypes DEF CInv, DeleteFile
  <2> QED
    BY <1>2, <2>2 DEF DeleteFile, confVars, watchVars, CInv, TypeOK, TimesBehind,
                      HolderIsInside, PendingIsNewer
<1> QED
  BY <1>1, <1>2

(* load_config up to the end of the parsing, by either thread. *)
LEMMA ParseTypes ==
    ASSUME CInv, NEW a \in {"client", "thread"}, Parse(a)
    PROVE  /\ parsed' \in [{"client", "thread"} ->
                     [ok : BOOLEAN, parts : [Parts -> 0..Updated], version : 0..MaxWrites]]
           /\ parsed'[a].version = version
           /\ \A b \in {"client", "thread"} : b # a => parsed'[b] = parsed[b]
           /\ holder = "nobody" /\ holder' = a
           /\ UNCHANGED <<fileVars, confVars, object>>
<1>1. [ok |-> file.exists /\ file.whole, parts |-> file.parts, version |-> version]
        \in [ok : BOOLEAN, parts : [Parts -> 0..Updated], version : 0..MaxWrites]
  BY DEF CInv, TypeOK
<1> QED
  BY <1>1 DEF Parse, Free, CInv, TypeOK

(* The rest of it: a load that takes effect is of the version that was parsed. *)
LEMMA ApplyTypes ==
    ASSUME CInv, NEW a \in {"client", "thread"}, Apply(a)
    PROVE  /\ parsed' \in [{"client", "thread"} ->
                     [ok : BOOLEAN, parts : [Parts -> 0..Updated], version : 0..MaxWrites]]
           /\ parsed'[a].version = 0
           /\ \A b \in {"client", "thread"} : b # a => parsed'[b] = parsed[b]
           /\ holder' = "nobody"
           /\ conf' \in [Parts -> 0..Updated] /\ unsaved' \subseteq Parts
           /\ loaded' = loaded \/ loaded' = parsed[a].version
           /\ UNCHANGED <<fileVars, object>>
<1>1. Nothing \in [ok : BOOLEAN, parts : [Parts -> 0..Updated], version : 0..MaxWrites]
  BY DEF Nothing, Updated
<1>2. parsed' = [parsed EXCEPT ![a] = Nothing]
  BY DEF Apply
<1>3. conf' \in [Parts -> 0..Updated] /\ unsaved' \subseteq Parts
  <2>1. parsed[a].parts \in [Parts -> 0..Updated]
    BY DEF CInv, TypeOK
  <2> QED
    BY <2>1 DEF Apply, CInv, TypeOK, confVars
<1>4. /\ parsed' \in [{"client", "thread"} ->
                [ok : BOOLEAN, parts : [Parts -> 0..Updated], version : 0..MaxWrites]]
      /\ parsed'[a].version = 0
      /\ \A b \in {"client", "thread"} : b # a => parsed'[b] = parsed[b]
  BY <1>1, <1>2 DEF CInv, TypeOK, Nothing
<1> QED
  BY <1>3, <1>4 DEF Apply, confVars

--------------------------------------------------------------------------------
(* What the client does with a file it loads or saves, or with a part. *)
LEMMA ClientStep == ASSUME CInv, ClientNext PROVE CInv'
<1> USE DEF CInv, TypeOK, TimesBehind, HolderIsInside, PendingIsNewer, watchVars
<1>1. CASE LoadConfig
  <2>1. /\ Parse("client") /\ client = "idle" /\ client' = "loading" /\ UNCHANGED watchVars
    BY <1>1 DEF LoadConfig
  <2> QED
    BY <2>1, ParseTypes DEF fileVars, confVars
<1>2. CASE ConfigLoaded
  <2>1. Apply("client") /\ client = "loading" /\ client' = "idle" /\ UNCHANGED watchVars
    BY <1>2 DEF ConfigLoaded
  <2>2. thread # "apply"
    BY <2>1
  <2> QED
    BY <2>1, <2>2, ApplyTypes DEF fileVars
<1>3. CASE SaveConfig
  <2>1. PICK w \in BOOLEAN :
          Written([exists |-> TRUE, whole |-> w, parts |-> [p \in Parts |-> 0]])
    BY <1>3 DEF SaveConfig
  <2>2. [p \in Parts |-> 0] \in [Parts -> 0..Updated]
    BY DEF Updated
  <2>3. /\ file' \in [exists : BOOLEAN, whole : BOOLEAN, parts : [Parts -> 0..Updated]]
        /\ version' \in 1..MaxWrites /\ mtime' \in 1..MaxWrites
        /\ mtime' <= version' /\ version' = version + 1
    BY <2>1, <2>2, WrittenTypes
  <2> QED
    BY <1>3, <2>3 DEF SaveConfig, Free, confVars
<1>4. CASE ConfigSaved
  <2>1. version + 1 \in 0..Updated /\ 0 \in 0..Updated
    BY DEF Updated
  <2>2. conf' \in [Parts -> 0..Updated]
    <3>1. conf' = [p \in Parts |-> IF p \in Mods /\ conf[p] = 0 THEN 0 ELSE version + 1]
      BY <1>4 DEF ConfigSaved
    <3>2. \A p \in Parts : (IF p \in Mods /\ conf[p] = 0 THEN 0 ELSE version + 1) \in 0..Updated
      BY <2>1
    <3> QED
      BY <3>1, <3>2
  <2>3. Written([exists |-> TRUE, whole |-> TRUE, parts |-> conf'])
    BY <1>4 DEF ConfigSaved
  <2>4. /\ file' \in [exists : BOOLEAN, whole : BOOLEAN, parts : [Parts -> 0..Updated]]
        /\ version' \in 1..MaxWrites /\ mtime' \in 1..MaxWrites
        /\ mtime' <= version' /\ version' = version + 1
    BY <2>2, <2>3, WrittenTypes
  <2> QED
    BY <1>4, <2>2, <2>4 DEF ConfigSaved
<1>5. CASE SaveFails
  BY <1>5 DEF SaveFails, fileVars, confVars
<1>6. CASE Joined
  <2>1. /\ client \in {"rewatch", "unwatch"} /\ client' = "idle"
        /\ thread \in {"none", "ended"} /\ thread' \in {"none", "start"}
        /\ seen' \in 0..MaxWrites
        /\ UNCHANGED <<fileVars, confVars, holder, parsed, object>>
    BY <1>6 DEF Joined
  <2>2. stop' \in BOOLEAN
    BY <1>6, Zenon DEF Joined
  <2>3. TypeOK'
    BY <2>1, <2>2 DEF fileVars, confVars
  <2>4. TimesBehind' /\ HolderIsInside'
    BY <2>1 DEF fileVars
  <2>5. PendingIsNewer'
    BY <2>1 DEF fileVars, confVars
  <2> QED
    BY <2>3, <2>4, <2>5
<1>7. ASSUME NEW S \in SUBSET Parts, NEW n \in {0, Updated}, Update(S, n) PROVE CInv'
  <2>1. n \in 0..Updated
    BY DEF Updated
  <2>2. conf' \in [Parts -> 0..Updated]
    <3>1. \A p \in Parts : (IF p \in S THEN n ELSE conf[p]) \in 0..Updated
      BY <2>1
    <3> QED
      BY <1>7, <3>1 DEF Update
  <2> QED
    BY <1>7, <2>2 DEF Update, fileVars
<1>8. ASSUME NEW o \in Watchers, Construct(o) \/ Destroy(o) \/ \E q \in Watchers : Move(o, q)
      PROVE  CInv'
  BY <1>8 DEF Construct, Destroy, Move, fileVars, confVars
<1>9. UpdateCore => CInv'
  BY <1>7 DEF UpdateCore
<1>10. ASSUME NEW m \in Mods, UpdateMod(m) \/ RemoveMod(m) PROVE CInv'
  BY <1>7, <1>10 DEF UpdateMod, RemoveMod
<1> QED
  BY <1>1, <1>2, <1>3, <1>4, <1>5, <1>6, <1>8, <1>9, <1>10 DEF ClientNext, Finish

(* What the watching thread does. *)
LEMMA ThreadStep == ASSUME CInv, ThreadNext PROVE CInv'
<1> USE DEF CInv, TypeOK, TimesBehind, HolderIsInside, PendingIsNewer, Watching
<1>1. CASE Reload
  BY <1>1, ParseTypes DEF Reload, fileVars, confVars
<1>2. CASE Reloaded
  <2>1. /\ Apply("thread") /\ thread = "apply" /\ thread' \in {"callback", "head"}
        /\ seen' = seen /\ UNCHANGED <<client, stop>>
    BY <1>2 DEF Reloaded, Noted
  <2>2. client # "loading"
    BY <2>1
  <2> QED
    BY <2>1, <2>2, ApplyTypes DEF fileVars
<1>3. CASE ReadFirstTime \/ FirstTimeFails
  BY <1>3 DEF ReadFirstTime, FirstTimeFails, fileVars, confVars
<1>4. CASE Head
  BY <1>4 DEF Head, fileVars, confVars
<1>5. CASE Poll
  BY <1>5 DEF Poll, Noted, fileVars, confVars
<1>6. CASE Unchanged \/ Callback \/ CallbackStops
  BY <1>6 DEF Unchanged, Callback, CallbackStops, fileVars, confVars
<1> QED
  BY <1>1, <1>2, <1>3, <1>4, <1>5, <1>6 DEF ThreadNext

LEMMA InitPending == ASSUME Init PROVE CInv
<1>1. file \in [exists : BOOLEAN, whole : BOOLEAN, parts : [Parts -> 0..Updated]]
  <2>1. [p \in Parts |-> 1] \in [Parts -> 0..Updated] /\ [p \in Parts |-> 0] \in [Parts -> 0..Updated]
    BY DEF Updated
  <2>2. CASE file = Absent
    BY <2>1, <2>2 DEF Absent
  <2>3. CASE file = [exists |-> TRUE, whole |-> TRUE, parts |-> [p \in Parts |-> 1]]
    BY <2>1, <2>3
  <2> QED
    BY <2>2, <2>3 DEF Init
<1>2. Nothing \in [ok : BOOLEAN, parts : [Parts -> 0..Updated], version : 0..MaxWrites]
  BY DEF Nothing, Updated
<1>3. conf \in [Parts -> 0..Updated]
  BY DEF Init, Updated
<1>4. parsed \in [{"client", "thread"} ->
               [ok : BOOLEAN, parts : [Parts -> 0..Updated], version : 0..MaxWrites]]
  BY <1>2 DEF Init
<1>5. TypeOK
  <2>1. object \in [Watchers -> {"none", "live", "moved"}]
    BY DEF Init
  <2>2. version \in 1..MaxWrites /\ mtime \in 1..MaxWrites /\ seen \in 0..MaxWrites /\ loaded \in 0..MaxWrites
    BY DEF Init
  <2>3. unsaved \subseteq Parts /\ holder = "nobody" /\ client = "idle" /\ thread = "none" /\ stop = FALSE
    BY DEF Init
  <2> QED
    BY <1>1, <1>3, <1>4, <2>1, <2>2, <2>3 DEF TypeOK
<1>6. TimesBehind /\ HolderIsInside /\ PendingIsNewer
  BY DEF Init, TimesBehind, HolderIsInside, PendingIsNewer, Nothing
<1> QED
  BY <1>5, <1>6 DEF CInv

LEMMA StutterPending == ASSUME CInv, UNCHANGED vars PROVE CInv'
BY DEF CInv, TypeOK, TimesBehind, HolderIsInside, PendingIsNewer, vars, fileVars, confVars, watchVars

--------------------------------------------------------------------------------
(* The inductive invariant: who holds the mutex, and that what it protects while it
   is parsed does not get older than what is loaded. *)
THEOREM Pending == Spec => []CInv
<1>1. Init => CInv
  BY InitPending
<1>2. CInv /\ [Next]_vars => CInv'
  BY FileStep, ClientStep, ThreadStep, StutterPending DEF Next
<1> QED
  BY <1>1, <1>2, PTL DEF Spec

(* Every variable keeps its type. *)
THEOREM ConfigTypes == Spec => []TypeOK
<1>1. CInv => TypeOK
  BY DEF CInv
<1> QED
  BY <1>1, Pending, PTL

(* load_config of either thread never replaces a newer state of the file by an older
   one. *)
THEOREM InOrder == Spec => LoadsInOrder
<1>1. CInv /\ [Next]_vars => [loaded' >= loaded]_vars
  <2>1. SUFFICES ASSUME CInv, Next PROVE loaded' >= loaded
    OBVIOUS
  <2>2. loaded \in Nat
    BY <2>1 DEF CInv, TypeOK
  <2>3. CASE ConfigLoaded
    BY <2>1, <2>2, <2>3, ApplyTypes DEF ConfigLoaded, CInv, PendingIsNewer
  <2>4. CASE Reloaded
    BY <2>1, <2>2, <2>4, ApplyTypes DEF Reloaded, Watching, CInv, PendingIsNewer
  <2>5. CASE ~ConfigLoaded /\ ~Reloaded
    <3>1. loaded' = loaded
      <4> USE DEF confVars
      <4>1. CASE EditFile \/ DeleteFile
        BY <4>1 DEF EditFile, DeleteFile
      <4>2. CASE ClientNext
        BY <2>5, <4>2 DEF ClientNext, Finish, LoadConfig, Parse, SaveConfig, ConfigSaved,
             SaveFails, Joined, UpdateCore, UpdateMod, RemoveMod, Update, Construct, Destroy, Move
      <4>3. CASE ThreadNext
        BY <2>5, <4>3 DEF ThreadNext, ReadFirstTime, FirstTimeFails, Head, Unchanged, Poll, Reload, Parse,
             Callback, CallbackStops
      <4> QED
        BY <2>1, <4>1, <4>2, <4>3 DEF Next
    <3> QED
      BY <2>2, <3>1
  <2> QED
    BY <2>3, <2>4, <2>5
<1> QED
  BY <1>1, Pending, PTL DEF Spec, LoadsInOrder

--------------------------------------------------------------------------------
(* The time the thread noted is that of a write up to the one it parses. *)
NotedInTime ==
    /\ thread = "load" => seen <= version
    /\ thread = "apply" => seen <= parsed["thread"].version
    /\ NotedIsLoaded

(* What neither the watching thread does nor its next join keeps it so. *)
LEMMA OthersNote ==
    ASSUME CInv, NotedInTime, UNCHANGED <<thread, seen>>,
           version' \in Nat, version' >= version, loaded' \in Nat, loaded' >= loaded,
           parsed'["thread"] = parsed["thread"]
    PROVE  NotedInTime'
BY DEF CInv, TypeOK, NotedInTime, NotedIsLoaded

LEMMA ClientNotes == ASSUME CInv, NotedInTime, ClientNext \/ EditFile \/ DeleteFile PROVE NotedInTime'
<1>1. version \in Nat /\ loaded \in Nat
  BY DEF CInv, TypeOK
<1>2. CASE Joined
  BY <1>2 DEF Joined, NotedInTime, NotedIsLoaded
<1>3. CASE LoadConfig
  <2>1. Parse("client") /\ UNCHANGED watchVars
    BY <1>3 DEF LoadConfig
  <2>2. version' = version /\ loaded' = loaded /\ parsed'["thread"] = parsed["thread"]
    BY <2>1, ParseTypes DEF fileVars, confVars
  <2> QED
    BY <1>1, <2>1, <2>2, OthersNote DEF watchVars
<1>4. CASE ConfigLoaded
  <2>1. Apply("client") /\ client = "loading" /\ UNCHANGED watchVars
    BY <1>4 DEF ConfigLoaded
  <2>2. /\ version' = version /\ parsed'["thread"] = parsed["thread"]
        /\ loaded' = loaded \/ loaded' = parsed["client"].version
    BY <2>1, ApplyTypes DEF fileVars
  <2>3. loaded' \in Nat /\ loaded' >= loaded
    <3>1. parsed["client"].version \in Nat
      BY DEF CInv, TypeOK
    <3> QED
      BY <1>1, <2>1, <2>2, <3>1 DEF CInv, PendingIsNewer
  <2> QED
    BY <1>1, <2>1, <2>2, <2>3, OthersNote DEF watchVars
<1>5. CASE EditFile \/ DeleteFile \/ SaveConfig \/ ConfigSaved \/ SaveFails
  <2>1. UNCHANGED <<thread, seen, loaded>> /\ (parsed' = parsed)
    BY <1>5 DEF EditFile, DeleteFile, SaveConfig, ConfigSaved, SaveFails, confVars, watchVars
  <2>2. version' = version \/ version' = version + 1
    BY <1>5 DEF EditFile, DeleteFile, SaveConfig, ConfigSaved, SaveFails, Written, fileVars
  <2> QED
    BY <1>1, <2>1, <2>2, OthersNote
<1>6. ASSUME UNCHANGED <<thread, seen, version, loaded, parsed>> PROVE NotedInTime'
  BY <1>1, <1>6, OthersNote
<1>7. CASE \/ UpdateCore \/ \E m \in Mods : UpdateMod(m) \/ RemoveMod(m)
           \/ \E o \in Watchers : Construct(o) \/ Destroy(o) \/ \E q \in Watchers : Move(o, q)
  BY <1>6, <1>7 DEF UpdateCore, UpdateMod, RemoveMod, Update, Construct, Destroy, Move, fileVars, confVars,
     watchVars
<1> QED
  BY <1>2, <1>3, <1>4, <1>5, <1>7 DEF ClientNext, Finish

LEMMA ThreadNotes == ASSUME CInv, NotedInTime, ThreadNext PROVE NotedInTime'
<1> USE DEF Watching
<1>1. CASE Poll
  BY <1>1 DEF Poll, Noted, NotedInTime, NotedIsLoaded, CInv, TimesBehind, fileVars
<1>2. CASE Reload
  <2>1. Parse("thread") /\ thread = "load" /\ thread' = "apply" /\ seen' = seen
    BY <1>2 DEF Reload
  <2> QED
    BY <2>1, ParseTypes DEF NotedInTime, NotedIsLoaded
<1>3. CASE Reloaded
  <2>1. /\ Apply("thread") /\ thread = "apply" /\ seen' = seen
        /\ thread' = IF parsed["thread"].ok THEN "callback" ELSE "head"
    BY <1>3 DEF Reloaded, Noted
  <2>2. parsed["thread"].ok => loaded' = parsed["thread"].version
    BY <2>1 DEF Apply
  <2> QED
    BY <2>1, <2>2 DEF NotedInTime, NotedIsLoaded
<1>4. CASE ReadFirstTime \/ FirstTimeFails \/ Head \/ Unchanged \/ Callback \/ CallbackStops
  BY <1>4 DEF ReadFirstTime, FirstTimeFails, Head, Unchanged, Callback, CallbackStops, NotedInTime, NotedIsLoaded
<1> QED
  BY <1>1, <1>2, <1>3, <1>4 DEF ThreadNext

(* The time is noted before the file is loaded: whatever is written meanwhile, and
   whatever the client loads meanwhile, the thread does not take a write it has not
   loaded for one it has.  The half of WriteIsLoaded that needs no fairness. *)
THEOREM NotedBeforeLoad == Spec => []NotedIsLoaded
<1>1. Init => NotedInTime
  BY DEF Init, NotedInTime, NotedIsLoaded
<1>2. CInv /\ NotedInTime /\ [Next]_vars => NotedInTime'
  <2>1. ASSUME CInv, NotedInTime, UNCHANGED vars PROVE NotedInTime'
    BY <2>1 DEF vars, NotedInTime, NotedIsLoaded
  <2> QED
    BY <2>1, ClientNotes, ThreadNotes DEF Next
<1>3. NotedInTime => NotedIsLoaded
  BY DEF NotedInTime
<1> QED
  BY <1>1, <1>2, <1>3, Pending, PTL DEF Spec
================================================================================
