------------------------------ MODULE Environment ------------------------------
(****************************************************************************)
(* What the providers of GlobalsRegistry give to Lua: the bridge between        *)
(* native mods and scripts, with its listeners and its one lua_state, and the    *)
(* require function with its caches.  They meet in the Lua states of the         *)
(* engines, which are set up by register_all_globals, close without a word to    *)
(* either provider, and may come back at the same address.                      *)
(****************************************************************************)
EXTENDS Naturals, Sequences, FiniteSets

CONSTANTS
    States,       \* addresses of the Lua states engines are made for
    Scripts,      \* addresses of the Lua threads that scripts run on
    Owner,        \* the state of each of them
    Modules,      \* module names that resolve to a file
    Needs,        \* the modules that the file of a module requires
    Events,       \* event names
    Slots,        \* the EventListenerHandle objects of native mods
    Threads,      \* threads that call the bridge or set up an engine
    MaxListeners, \* bound: calls of add_event_listener
    MaxOpens,     \* bound: Lua states at one address
    MaxDepth,     \* bound: modules being loaded by one Lua thread
    None

ASSUME EnvironmentAssumption ==
    /\ Owner \in [Scripts -> States]
    /\ Needs \in [Modules -> SUBSET Modules]
    /\ {MaxListeners, MaxOpens, MaxDepth} \subseteq Nat
    /\ None \notin States \cup Threads \cup Scripts \cup [event : Events, id : Nat]

VARIABLES
    opened,    \* how many Lua states there have been at an address
    open,      \* those that exist
    lost,      \* a closed Lua state was used: nothing is certain any more
    original,  \* states for which original_require_ref is kept
    cache,     \* module_cache of a Lua thread: the state that the reference is of, 0 if none
    loading,   \* the modules a Lua thread runs, the innermost first
    loads,     \* history: how often a module was loaded on a Lua thread, since it exists
    refused,   \* history: scripts whose require found no original function
    stale,     \* history: a reference was taken from the cache of an earlier state
    luaState,  \* BridgeProvider::lua_state
    holder,    \* instance_mutex
    listeners, \* event_listeners: ids in order
    captured,  \* the Lua thread that the callback of an id captured
    nextId,    \* next_listener_id
    handle,    \* valid handles: event_name and listener_id
    removed,   \* history: ids whose removal has returned
    act        \* what a thread is doing

requireVars == <<original, cache, loading, loads, refused, stale>>
eventVars == <<listeners, captured, nextId, handle, removed>>
bridgeVars == <<luaState, holder, eventVars, act>>
vars == <<opened, open, lost, requireVars, bridgeVars>>

Idle == [op |-> "idle"]

--------------------------------------------------------------------------------
(* Roblox makes and destroys Lua states. *)
OpenState(v) ==
    /\ ~lost /\ v \notin open /\ opened[v] < MaxOpens
    /\ open' = open \cup {v}
    /\ opened' = [opened EXCEPT ![v] = @ + 1]
    /\ loads' = [s \in Scripts |-> IF Owner[s] = v THEN [m \in Modules |-> 0] ELSE loads[s]]
    /\ UNCHANGED <<lost, original, cache, loading, refused, stale, bridgeVars>>

CloseState(v) ==
    /\ ~lost /\ v \in open
    /\ open' = open \ {v}
    /\ loading' = [s \in Scripts |-> IF Owner[s] = v THEN <<>> ELSE loading[s]]
    /\ UNCHANGED <<opened, lost, original, cache, loads, refused, stale, bridgeVars>>

(* register_all_globals goes through the providers in the order of a hash map. *)
SetUp(t, v) ==
    /\ ~lost /\ act[t] = Idle /\ v \in open
    /\ act' = [act EXCEPT ![t] = [op |-> "setup", state |-> v, left |-> {"require", "bridge"}]]
    /\ UNCHANGED <<opened, open, lost, requireVars, luaState, holder, eventVars>>

Registering(t, p) == ~lost /\ act[t].op = "setup" /\ p \in act[t].left
Registered(t, p) == IF act[t].left = {p} THEN [act EXCEPT ![t] = Idle]
                                         ELSE [act EXCEPT ![t].left = @ \ {p}]

(* RequireProvider::register_globals keeps the original function for L, if `require`
   is one and the registry takes it. *)
RegisterRequire(t) ==
    /\ Registering(t, "require")
    /\ original' \in {original, original \cup {act[t].state}}
    /\ act' = Registered(t, "require")
    /\ UNCHANGED <<opened, open, lost, cache, loading, loads, refused, stale,
                   luaState, holder, eventVars>>

(* BridgeProvider::register_globals: set_lua_state takes instance_mutex. *)
GuardIgnored == TRUE                                   \* seeded fault
Guard == holder = None

RegisterBridge(t) ==
    /\ Registering(t, "bridge") /\ Guard
    /\ luaState' = act[t].state
    /\ act' = Registered(t, "bridge")
    /\ UNCHANGED <<opened, open, lost, requireVars, holder, eventVars>>

--------------------------------------------------------------------------------
(* custom_require, called on the Lua thread s by its script or by the module it is
   loading.  The cache is that of s, not of its state. *)
Calls(s) == IF loading[s] = <<>> THEN Modules ELSE Needs[Head(loading[s])]
Run(s) == ~lost /\ Owner[s] \in open

CacheIgnored(s, m) == FALSE                            \* seeded fault
Cached(s, m) == cache[s][m] # 0

RequireCached(s, m) ==
    /\ Run(s) /\ m \in Calls(s) /\ Cached(s, m)
    /\ stale' = (stale \/ cache[s][m] # opened[Owner[s]])
    /\ UNCHANGED <<opened, open, lost, original, cache, loading, loads, refused, bridgeVars>>

RequireFile(s, m) ==
    /\ Run(s) /\ m \in Calls(s) /\ ~Cached(s, m)
    /\ Len(loading[s]) < MaxDepth
    /\ loading' = [loading EXCEPT ![s] = <<m>> \o @]
    /\ UNCHANGED <<opened, open, lost, original, cache, loads, refused, stale, bridgeVars>>

(* The module returns, and is cached; or it fails, and is not. *)
Load(s) ==
    /\ Run(s) /\ loading[s] # <<>>
    /\ LET m == Head(loading[s]) IN
         /\ cache' = [cache EXCEPT ![s][m] = opened[Owner[s]]]
         /\ loads' = [loads EXCEPT ![s][m] = IF @ < 2 THEN @ + 1 ELSE @]
    /\ loading' = [loading EXCEPT ![s] = Tail(@)]
    /\ UNCHANGED <<opened, open, lost, original, refused, stale, bridgeVars>>

LoadFails(s) ==
    /\ Run(s) /\ loading[s] # <<>>
    /\ loading' = [loading EXCEPT ![s] = Tail(@)]
    /\ UNCHANGED <<opened, open, lost, original, cache, loads, refused, stale, bridgeVars>>

(* An instance, or a name that is no file, goes to original_require, which looks
   its reference up under s. *)
RequireOriginal(s) ==
    /\ Run(s)
    /\ refused' = IF s \in original THEN refused ELSE refused \cup {s}
    /\ UNCHANGED <<opened, open, lost, original, cache, loading, loads, stale, bridgeVars>>

--------------------------------------------------------------------------------
IdsOf(e) == {listeners[e][i] : i \in DOMAIN listeners[e]}

(* remove_event_listener; unregister calls it, and with it the destructor, the
   move assignment and the mod itself.  No id is twice in a list. *)
Without(l, id) ==
    LET p == CHOOSE i \in DOMAIN l : l[i] = id
    IN  [i \in 1..(Len(l) - 1) |-> IF i < p THEN l[i] ELSE l[i + 1]]
Remove(e, id) ==
    IF id \in IdsOf(e) THEN [listeners EXCEPT ![e] = Without(@, id)] ELSE listeners

AddListener(e, l) ==
    /\ nextId <= MaxListeners
    /\ nextId' = nextId + 1
    /\ listeners' = [listeners EXCEPT ![e] = Append(@, nextId)]
    /\ captured' = [captured EXCEPT ![nextId] = l]
    /\ UNCHANGED <<opened, open, lost, requireVars, luaState, holder, removed, act>>

ListenEvent(h, e) ==
    /\ ~lost /\ handle[h] = None /\ AddListener(e, None)
    /\ handle' = [handle EXCEPT ![h] = [event |-> e, id |-> nextId]]

(* The listener of a script: nobody can take it out again. *)
ListenEventLua(s, e) == Run(s) /\ AddListener(e, s) /\ UNCHANGED handle

Unregister(h) ==
    /\ ~lost /\ handle[h] # None
    /\ listeners' = Remove(handle[h].event, handle[h].id)
    /\ handle' = [handle EXCEPT ![h] = None]
    /\ removed' = removed \cup {handle[h].id}
    /\ UNCHANGED <<opened, open, lost, requireVars, luaState, holder, captured, nextId, act>>

(* Move construction is the case of an invalid handle h. *)
MovedKept(h, k) == [handle EXCEPT ![h] = handle[k]]    \* seeded fault
Moved(h, k) == [handle EXCEPT ![h] = handle[k], ![k] = None]

MoveAssign(h, k) ==
    /\ ~lost /\ h # k
    /\ handle' = Moved(h, k)
    /\ IF handle[h] = None
       THEN UNCHANGED <<listeners, removed>>
       ELSE /\ listeners' = Remove(handle[h].event, handle[h].id)
            /\ removed' = removed \cup {handle[h].id}
    /\ UNCHANGED <<opened, open, lost, requireVars, luaState, holder, captured, nextId, act>>

(* trigger_event copies the listeners and calls them without a lock.  What a
   callback does meanwhile is what the other actions do. *)
SnapshotLess(e) == SubSeq(listeners[e], 2, Len(listeners[e]))  \* seeded fault
Snapshot(e) == listeners[e]

TriggerEvent(t, e) ==
    /\ ~lost /\ act[t] = Idle
    /\ act' = [act EXCEPT ![t] = [op |-> "trigger", event |-> e, left |-> Snapshot(e),
                                  called |-> <<>>, since |-> nextId, gone |-> removed]]
    /\ UNCHANGED <<opened, open, lost, requireVars, luaState, holder, eventVars>>

CallListener(t) ==
    /\ ~lost /\ act[t].op = "trigger" /\ act[t].left # <<>>
    /\ LET id == Head(act[t].left) IN
         /\ act' = [act EXCEPT ![t].left = Tail(@), ![t].called = Append(@, id)]
         /\ lost' = (captured[id] # None /\ Owner[captured[id]] \notin open)
    /\ UNCHANGED <<opened, open, requireVars, luaState, holder, eventVars>>

TriggerEnds(t) ==
    /\ ~lost /\ act[t].op = "trigger" /\ act[t].left = <<>>
    /\ act' = [act EXCEPT ![t] = Idle]
    /\ UNCHANGED <<opened, open, lost, requireVars, luaState, holder, eventVars>>

(* call_luau_function holds instance_mutex while Lua runs, and pops the results from
   the state it called, which may be closed by then.  Without a Lua state it
   returns an error, and changes nothing. *)
CallLuau(t) ==
    /\ ~lost /\ act[t] = Idle /\ Guard /\ luaState # None
    /\ holder' = t
    /\ act' = [act EXCEPT ![t] = [op |-> "call", state |-> luaState]]
    /\ lost' = (luaState \notin open)
    /\ UNCHANGED <<opened, open, requireVars, luaState, eventVars>>

(* The Lua function calls a native one that calls call_luau_function: the thread
   locks a mutex it holds. *)
CallNested(t) ==
    /\ ~lost /\ act[t].op = "call"
    /\ act' = [act EXCEPT ![t].op = "stuck"]
    /\ UNCHANGED <<opened, open, lost, requireVars, luaState, holder, eventVars>>

CallReturns(t) ==
    /\ ~lost /\ act[t].op = "call"
    /\ holder' = None
    /\ act' = [act EXCEPT ![t] = Idle]
    /\ lost' = (act[t].state \notin open)
    /\ UNCHANGED <<opened, open, requireVars, luaState, eventVars>>

--------------------------------------------------------------------------------
Init ==
    /\ opened = [v \in States |-> 0] /\ open = {} /\ lost = FALSE
    /\ original = {}
    /\ cache = [s \in Scripts |-> [m \in Modules |-> 0]]
    /\ loading = [s \in Scripts |-> <<>>]
    /\ loads = [s \in Scripts |-> [m \in Modules |-> 0]]
    /\ refused = {} /\ stale = FALSE
    /\ luaState = None /\ holder = None
    /\ listeners = [e \in Events |-> <<>>]
    /\ captured = [i \in 1..MaxListeners |-> None]
    /\ nextId = 1
    /\ handle = [h \in Slots |-> None]
    /\ removed = {}
    /\ act = [t \in Threads |-> Idle]

StateNext == \E v \in States : OpenState(v) \/ CloseState(v) \/ \E t \in Threads : SetUp(t, v)

ScriptNext(s) ==
    \/ \E m \in Modules : RequireCached(s, m) \/ RequireFile(s, m)
    \/ Load(s) \/ LoadFails(s) \/ RequireOriginal(s)
    \/ \E e \in Events : ListenEventLua(s, e)

HandleNext(h) ==
    \/ \E e \in Events : ListenEvent(h, e)
    \/ Unregister(h)
    \/ \E k \in Slots : MoveAssign(h, k)

ThreadNext(t) ==
    \/ RegisterRequire(t) \/ RegisterBridge(t)
    \/ \E e \in Events : TriggerEvent(t, e)
    \/ CallListener(t) \/ TriggerEnds(t)
    \/ CallLuau(t) \/ CallNested(t) \/ CallReturns(t)

Next ==
    \/ StateNext
    \/ \E s \in Scripts : ScriptNext(s)
    \/ \E h \in Slots : HandleNext(h)
    \/ \E t \in Threads : ThreadNext(t)

Spec == Init /\ [][Next]_vars

--------------------------------------------------------------------------------
Ids == 1..MaxListeners
Acts ==
    {Idle}
    \cup [op : {"setup"}, state : States, left : SUBSET {"require", "bridge"}]
    \cup [op : {"trigger"}, event : Events, left : Seq(Ids), called : Seq(Ids),
          since : 1..(MaxListeners + 1), gone : SUBSET Ids]
    \cup [op : {"call", "stuck"}, state : States]

TypeOK ==
    /\ opened \in [States -> 0..MaxOpens] /\ open \subseteq States
    /\ lost \in BOOLEAN /\ stale \in BOOLEAN
    /\ original \subseteq States /\ refused \subseteq Scripts
    /\ cache \in [Scripts -> [Modules -> 0..MaxOpens]]
    /\ loading \in [Scripts -> Seq(Modules)]
    /\ loads \in [Scripts -> [Modules -> 0..2]]
    /\ luaState \in States \cup {None} /\ holder \in Threads \cup {None}
    /\ listeners \in [Events -> Seq(Ids)]
    /\ captured \in [Ids -> Scripts \cup {None}]
    /\ nextId \in 1..(MaxListeners + 1) /\ removed \subseteq Ids
    /\ handle \in [Slots -> {None} \cup [event : Events, id : Ids]]
    /\ act \in [Threads -> Acts]

(* EventListenerHandle owns its listener: each listener of a native mod is in the
   list of its event once, and belongs to exactly one handle, whatever was moved,
   assigned over and destroyed; the bridge keeps no listener that nobody can remove. *)
HandleOwnsListener ==
    /\ \A h \in Slots : handle[h] # None => handle[h].id \in IdsOf(handle[h].event)
    /\ \A e \in Events : \A id \in IdsOf(e) :
         captured[id] = None =>
           Cardinality({h \in Slots : handle[h] = [event |-> e, id |-> id]}) = 1
    /\ \A h, k \in Slots : handle[h] # None /\ handle[h] = handle[k] => h = k

(* A trigger that is through has called every listener that was there all along,
   each once, in the order of registration, and none that came later: others are
   added and removed while the callbacks run. *)
CalledOnce ==
    \A t \in Threads :
      act[t].op = "trigger" /\ act[t].left = <<>> =>
        LET c == act[t].called IN
        /\ \A i, j \in DOMAIN c : i < j => c[i] < c[j]
        /\ \A id \in IdsOf(act[t].event) : id < act[t].since => \E i \in DOMAIN c : c[i] = id
        /\ \A i \in DOMAIN c : c[i] < act[t].since /\ c[i] \notin act[t].gone

(* While call_luau_function is in Lua, no other call is, and no engine that is set
   up replaces the Lua state it will pop the results from. *)
CallKeepsItsState ==
    \A t \in Threads : act[t].op \in {"call", "stuck"} =>
        /\ luaState = act[t].state
        /\ \A u \in Threads : act[u].op \in {"call", "stuck"} => u = t

(* A module that requires only what does not require it is loaded once on a Lua
   thread, however often it is required and whichever modules fail meanwhile. *)
LoadedOnce == \A s \in Scripts : \A m \in Modules : loads[s][m] <= 1

--------------------------------------------------------------------------------
(* require_provider.cpp:78, "Check if is the roblox instance": require of an
   instance goes to the original function, which was kept at line 50. *)
InstanceRequired == \A s \in refused : Owner[s] \notin original

(* require_provider.cpp:93, "Found cached module": the reference found is one into
   the registry of the Lua state that asks. *)
CachedHere == ~stale

(* No closed Lua state is used, neither by a listener of a script nor by
   call_luau_function. *)
OpenStatesOnly == ~lost

(* bridge_provider.hpp:86, unregister: when it has returned, the listener is not
   called any more. *)
RemovedIsNotCalled ==
    [][\A t \in Threads :
         act[t].op = "trigger" /\ act'[t].op = "trigger" /\ act'[t].called # act[t].called
           => Head(act[t].left) \notin removed]_vars

(* No thread waits for itself in call_luau_function. *)
NobodyStuck == \A t \in Threads : act[t].op # "stuck"
================================================================================
