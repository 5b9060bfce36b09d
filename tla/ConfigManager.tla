----------------------------- MODULE ConfigManager -----------------------------
(****************************************************************************)
(* The configuration in memory, its file, and the thread that watches the file  *)
(* once a second.  The program has one ConfigManager; a client thread loads,     *)
(* saves, updates and watches, and an editor writes the file at any time.        *)
(****************************************************************************)
EXTENDS Naturals, FiniteSets

CONSTANTS
    Parts,     \* the sections of CoreConfig and the mods: what loading replaces as a whole
    Mods,      \* those that are mods
    Watchers,  \* ConfigWatcher objects
    MaxWrites  \* bound: changes of the file

ASSUME ConfigAssumption == Mods \subseteq Parts /\ MaxWrites \in Nat \ {0}

VARIABLES
    file,    \* does it exist, does it parse, and which write each part is from, 0 if absent
    version, \* writes so far
    mtime,   \* last_write_time of the file
    conf,    \* m_core_config and m_mod_configs: the write each part is from, 0 the
             \* default of a section, and a mod that is not there
    unsaved, \* history: parts updated in memory only
    loaded,  \* history: the version that was loaded last
    holder,  \* m_config_mutex
    parsed,  \* what a loading thread has parsed, with its version
    client,  \* what the client is doing
    thread,  \* m_watch_thread: what it is doing
    stop,    \* stop_requested, or m_watching false
    seen,    \* last_write_time of the thread
    object   \* the ConfigWatcher objects: none, live or moved from

vars == <<file, version, mtime, conf, unsaved, loaded, holder, parsed, client,
          thread, stop, seen, object>>
fileVars == <<file, version, mtime>>
confVars == <<conf, unsaved, loaded>>
watchVars == <<thread, stop, seen>>

Updated == MaxWrites + 1
Nothing == [ok |-> FALSE, parts |-> [p \in Parts |-> 0], version |-> 0]
Absent == [exists |-> FALSE, whole |-> FALSE, parts |-> [p \in Parts |-> 0]]

(* Another content, and with it another time of last write, or the same when the
   last write was within the resolution of the file system. *)
Written(f) ==
    /\ version < MaxWrites /\ version' = version + 1 /\ file' = f
    /\ mtime' \in {mtime, mtime + 1}

--------------------------------------------------------------------------------
EditFile ==
    /\ \E S \in SUBSET Parts, w \in BOOLEAN :
         Written([exists |-> TRUE, whole |-> w,
                  parts |-> [p \in Parts |-> IF w /\ p \in S THEN version + 1 ELSE 0]])
    /\ UNCHANGED <<confVars, holder, parsed, client, watchVars, object>>

DeleteFile ==
    /\ file.exists /\ Written(Absent)
    /\ UNCHANGED <<confVars, holder, parsed, client, watchVars, object>>

--------------------------------------------------------------------------------
(* load_config parses and applies with the mutex held. *)
FreeAlways == TRUE                                     \* seeded fault
Free == holder = "nobody"

Parse(a) ==
    /\ Free /\ holder' = a
    /\ parsed' = [parsed EXCEPT ![a] = [ok |-> file.exists /\ file.whole,
                                        parts |-> file.parts, version |-> version]]
    /\ UNCHANGED <<fileVars, confVars, object>>

(* A part that is not in the file stays as it is, and so does a mod whose table is
   in it and does not parse: its part of the file is 0.  Nothing is validated. *)
Apply(a) ==
    /\ holder' = "nobody"
    /\ IF parsed[a].ok
       THEN /\ conf' = [p \in Parts |-> IF parsed[a].parts[p] = 0 THEN conf[p]
                                        ELSE parsed[a].parts[p]]
            /\ unsaved' = {p \in unsaved : parsed[a].parts[p] = 0}
            /\ loaded' = parsed[a].version
       ELSE UNCHANGED confVars
    /\ parsed' = [parsed EXCEPT ![a] = Nothing]
    /\ UNCHANGED <<fileVars, object>>

LoadConfig ==
    /\ client = "idle" /\ Parse("client") /\ client' = "loading" /\ UNCHANGED watchVars

ConfigLoaded ==
    /\ client = "loading" /\ Apply("client") /\ client' = "idle" /\ UNCHANGED watchVars

(* save_config truncates the file and writes it, with the mutex shared; what is in
   the file in between may parse or not. *)
SaveConfig ==
    /\ client = "idle" /\ Free
    /\ \E w \in BOOLEAN :
         Written([exists |-> TRUE, whole |-> w, parts |-> [p \in Parts |-> 0]])
    /\ client' = "saving" /\ holder' = "client"
    /\ UNCHANGED <<confVars, parsed, watchVars, object>>

ConfigSaved ==
    /\ client = "saving"
    /\ conf' = [p \in Parts |-> IF p \in Mods /\ conf[p] = 0 THEN 0 ELSE version + 1]
    /\ Written([exists |-> TRUE, whole |-> TRUE, parts |-> conf'])
    /\ client' = "idle" /\ holder' = "nobody"
    /\ unsaved' = {}
    /\ UNCHANGED <<loaded, parsed, watchVars, object>>

(* ofstream fails; the file stays as it was left. *)
SaveFails ==
    /\ client = "saving"
    /\ client' = "idle" /\ holder' = "nobody"
    /\ UNCHANGED <<fileVars, confVars, parsed, watchVars, object>>

(* update_core_config of a valid value, register_mod_config and update_mod_config,
   remove_mod_config. *)
Update(S, n) ==
    /\ client = "idle" /\ Free
    /\ conf' = [p \in Parts |-> IF p \in S THEN n ELSE conf[p]]
    /\ unsaved' = unsaved \cup S
    /\ UNCHANGED <<fileVars, loaded, holder, parsed, client, watchVars, object>>

UpdateCore == Update(Parts \ Mods, Updated)
UpdateMod(m) == Update({m}, Updated)
RemoveMod(m) == conf[m] # 0 /\ Update({m}, 0)

--------------------------------------------------------------------------------
(* The constructor of ConfigWatcher calls watch_config_file, its destructor
   stop_watching; that of an object that was moved from does so too. *)
Construct(o) ==
    /\ client = "idle" /\ object[o] = "none"
    /\ object' = [object EXCEPT ![o] = "live"]
    /\ client' = "rewatch" /\ stop' = TRUE
    /\ UNCHANGED <<fileVars, confVars, holder, parsed, thread, seen>>

Destroy(o) ==
    /\ client = "idle" /\ object[o] # "none"
    /\ object' = [object EXCEPT ![o] = "none"]
    /\ client' = "unwatch" /\ stop' = TRUE
    /\ UNCHANGED <<fileVars, confVars, holder, parsed, thread, seen>>

Move(o, q) ==
    /\ client = "idle" /\ object[o] = "live" /\ object[q] = "none"
    /\ object' = [object EXCEPT ![o] = "moved", ![q] = "live"]
    /\ UNCHANGED <<fileVars, confVars, holder, parsed, client, watchVars>>

(* join, and then the new thread if there is to be one. *)
Joined ==
    /\ client \in {"rewatch", "unwatch"} /\ thread \in {"none", "ended"}
    /\ client' = "idle"
    /\ thread' = IF client = "rewatch" THEN "start" ELSE "none"
    /\ stop' = FALSE /\ seen' = 0
    /\ UNCHANGED <<fileVars, confVars, holder, parsed, object>>

--------------------------------------------------------------------------------
(* watch_thread_func. *)
Watching(at, next) == thread = at /\ thread' = next /\ UNCHANGED <<client, stop>>

ReadFirstTime ==
    /\ Watching("start", "head")
    /\ seen' = IF file.exists THEN mtime ELSE seen
    /\ UNCHANGED <<fileVars, confVars, holder, parsed, object>>

(* The file system throws, for one when the file is deleted between the two calls:
   the thread returns. *)
FirstTimeFails ==
    /\ Watching("start", "ended")
    /\ UNCHANGED <<fileVars, confVars, holder, parsed, seen, object>>

Head ==
    /\ Watching("head", IF stop THEN "ended" ELSE "poll")
    /\ UNCHANGED <<fileVars, confVars, holder, parsed, seen, object>>

(* The time is noted before the file is loaded, so a write in between is found in
   the next round; one that cannot be loaded is not tried again. *)
NotedAfter(step) == IF step = "apply" THEN mtime ELSE seen  \* seeded fault
Noted(step) == IF step = "poll" THEN mtime ELSE seen

Changed == file.exists /\ mtime # seen

Unchanged ==
    /\ ~Changed /\ Watching("poll", "head")
    /\ UNCHANGED <<fileVars, confVars, holder, parsed, seen, object>>

Poll ==
    /\ Changed /\ Watching("poll", "load")
    /\ seen' = Noted("poll")
    /\ UNCHANGED <<fileVars, confVars, holder, parsed, object>>

Reload == Watching("load", "apply") /\ Parse("thread") /\ UNCHANGED seen

Reloaded ==
    /\ Watching("apply", IF parsed["thread"].ok THEN "callback" ELSE "head")
    /\ seen' = Noted("apply")
    /\ Apply("thread")

Callback ==
    /\ Watching("callback", "head")
    /\ UNCHANGED <<fileVars, confVars, holder, parsed, seen, object>>

(* A callback that stops the watching: the thread cannot join itself, the exception
   is caught by the thread, but the stop has been requested. *)
CallbackStops ==
    /\ thread = "callback" /\ client = "idle"
    /\ thread' = "head" /\ stop' = TRUE
    /\ UNCHANGED <<fileVars, confVars, holder, parsed, client, seen, object>>

--------------------------------------------------------------------------------
Init ==
    /\ file \in {Absent, [exists |-> TRUE, whole |-> TRUE, parts |-> [p \in Parts |-> 1]]}
    /\ version = 1 /\ mtime = 1
    /\ conf = [p \in Parts |-> 0] /\ unsaved = {} /\ loaded = 0
    /\ holder = "nobody"
    /\ parsed = [a \in {"client", "thread"} |-> Nothing]
    /\ client = "idle"
    /\ thread = "none" /\ stop = FALSE /\ seen = 0
    /\ object = [o \in Watchers |-> "none"]

Finish == ConfigLoaded \/ ConfigSaved \/ SaveFails \/ Joined

ClientNext ==
    \/ LoadConfig \/ SaveConfig \/ Finish
    \/ UpdateCore \/ \E m \in Mods : UpdateMod(m) \/ RemoveMod(m)
    \/ \E o \in Watchers : Construct(o) \/ Destroy(o) \/ \E q \in Watchers : Move(o, q)

ThreadNext ==
    \/ ReadFirstTime \/ FirstTimeFails \/ Head \/ Unchanged \/ Poll \/ Reload \/ Reloaded
    \/ Callback \/ CallbackStops

Next == EditFile \/ DeleteFile \/ ClientNext \/ ThreadNext

(* A thread that can go on does: the mutex is given up by whoever holds it, and the
   watching thread wakes up every second and gets the mutex at some time. *)
Fairness == WF_vars(Finish) /\ SF_vars(ThreadNext)

Spec == Init /\ [][Next]_vars /\ Fairness

--------------------------------------------------------------------------------
TypeOK ==
    /\ file \in [exists : BOOLEAN, whole : BOOLEAN, parts : [Parts -> 0..Updated]]
    /\ version \in 1..MaxWrites /\ mtime \in 1..MaxWrites /\ seen \in 0..MaxWrites
    /\ conf \in [Parts -> 0..Updated] /\ unsaved \subseteq Parts
    /\ loaded \in 0..MaxWrites
    /\ holder \in {"nobody", "client", "thread"}
    /\ parsed \in [{"client", "thread"} ->
                     [ok : BOOLEAN, parts : [Parts -> 0..Updated], version : 0..MaxWrites]]
    /\ client \in {"idle", "loading", "saving", "rewatch", "unwatch"}
    /\ thread \in {"none", "start", "head", "poll", "load", "apply", "callback", "ended"}
    /\ stop \in BOOLEAN
    /\ object \in [Watchers -> {"none", "live", "moved"}]

(* The configuration never goes back to an older state of the file, though the
   client and the watching thread both load it while it changes. *)
LoadsInOrder == [][loaded' >= loaded]_vars

(* A thread that has just reloaded has loaded what it noted the time of, or something
   newer, although the file may have been written between the two: a write after the
   one that was loaded is still news to it.  The time of last write is n only once
   there have been n writes. *)
NotedIsLoaded == thread = "callback" => loaded >= seen

Watches == thread \notin {"none", "start", "ended"} /\ ~stop
Current(n) == version = n /\ file.whole

(* A write that parses and that the watching thread can tell from what it has seen
   is loaded, unless the file changes again or the watching ends. *)
WriteIsLoaded ==
    \A n \in 1..MaxWrites :
        (Current(n) /\ Watches /\ mtime # seen) ~> (loaded = n \/ version # n \/ ~Watches)

--------------------------------------------------------------------------------
(* config_manager.cpp:343, "Failed to reload configuration after file change": the
   file is reloaded when it changes; what is in the file is loaded in the end. *)
EveryWriteLoaded ==
    \A n \in 1..MaxWrites :
        (Current(n) /\ Watches) ~> (loaded = n \/ version # n \/ ~Watches)

(* An update that has not been saved is not overwritten by the file as it was saved
   before it. *)
UpdateSurvives == [][thread = "apply" => unsaved \subseteq unsaved']_vars

(* config_helpers.hpp:9, ConfigWatcher: while there is one, the file is watched. *)
WatcherWatches ==
    client = "idle" /\ (\E o \in Watchers : object[o] = "live") =>
        thread \notin {"none", "ended"}
================================================================================
