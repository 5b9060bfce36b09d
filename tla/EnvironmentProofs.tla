---------------------------- MODULE EnvironmentProofs ----------------------------
(****************************************************************************)
(* Proofs about Environment: the lists of listeners and the handles, the calls    *)
(* of a trigger, the mutex of call_luau_function and the cache of require, for    *)
(* any number of states, scripts, modules, events, handles and threads.           *)
(****************************************************************************)
EXTENDS Environment, FiniteSetTheorems, TLAPS

USE EnvironmentAssumption

USE DEF requireVars, eventVars, bridgeVars

--------------------------------------------------------------------------------
(* What Without takes out of a list that grows strictly. *)
Growing(l) == \A i, j \in DOMAIN l : i < j => l[i] < l[j]
Elements(l) == {l[i] : i \in DOMAIN l}

LEMMA IdsAreNats == Ids \subseteq Nat
BY DEF Ids

LEMMA WithoutTakesOne ==
    ASSUME NEW l \in Seq(Ids), NEW id \in Elements(l), Growing(l)
    PROVE  /\ Without(l, id) \in Seq(Ids)
           /\ Growing(Without(l, id))
           /\ Elements(Without(l, id)) = Elements(l) \ {id}
<1> DEFINE p == CHOOSE i \in DOMAIN l : l[i] = id
           w == Without(l, id)
<1>1. p \in DOMAIN l /\ l[p] = id
  BY DEF Elements
<1>2. /\ Len(l) \in Nat /\ DOMAIN l = 1..Len(l) /\ Ids \subseteq Nat
      /\ \A i \in 1..Len(l) : l[i] \in Ids
  BY IdsAreNats
<1>3. w = [i \in 1..(Len(l) - 1) |-> IF i < p THEN l[i] ELSE l[i + 1]]
  BY DEF Without
<1> HIDE DEF p, w
<1>4. Len(l) - 1 \in Nat /\ p \in 1..Len(l)
  BY <1>1, <1>2
<1>5. \A i \in 1..(Len(l) - 1) : (IF i < p THEN l[i] ELSE l[i + 1]) \in Ids
  BY <1>2, <1>4
<1>6. w \in Seq(Ids) /\ DOMAIN w = 1..(Len(l) - 1)
  BY <1>3, <1>4, <1>5
<1>7. \A i \in 1..(Len(l) - 1) : w[i] = IF i < p THEN l[i] ELSE l[i + 1]
  BY <1>3
<1>8. Growing(w)
  <2>1. SUFFICES ASSUME NEW i \in 1..(Len(l) - 1), NEW j \in 1..(Len(l) - 1), i < j
                 PROVE  w[i] < w[j]
    BY <1>6 DEF Growing
  <2>2. \A a, b \in 1..Len(l) : a < b => l[a] < l[b]
    BY <1>2 DEF Growing
  <2> QED
    BY <1>2, <1>4, <1>7, <2>1, <2>2
<1>9. Elements(w) = Elements(l) \ {id}
  <2>1. ASSUME NEW x \in Elements(w) PROVE x \in Elements(l) \ {id}
    <3>1. PICK i \in 1..(Len(l) - 1) : x = w[i]
      BY <1>6, <2>1 DEF Elements
    <3>2. PICK k \in 1..Len(l) : x = l[k] /\ k # p
      BY <1>4, <1>7, <3>1
    <3>3. x # id
      <4>1. l[k] \in Nat /\ l[p] \in Nat
        BY <1>2, <1>4
      <4>2. l[k] < l[p] \/ l[p] < l[k]
        BY <1>2, <1>4, <3>2 DEF Growing
      <4> QED
        BY <1>1, <3>2, <4>1, <4>2
    <3> QED
      BY <1>2, <3>2, <3>3 DEF Elements
  <2>2. ASSUME NEW x \in Elements(l) \ {id} PROVE x \in Elements(w)
    <3>1. PICK k \in 1..Len(l) : x = l[k]
      BY <1>2, <2>2 DEF Elements
    <3>2. k # p
      BY <1>1, <3>1, <2>2
    <3>3. CASE k < p
      <4>1. k \in 1..(Len(l) - 1) /\ w[k] = x
        BY <1>4, <1>7, <3>1, <3>3
      <4> QED
        BY <1>6, <4>1 DEF Elements
    <3>4. CASE k > p
      <4>1. k - 1 \in 1..(Len(l) - 1) /\ w[k - 1] = x
        BY <1>4, <1>7, <3>1, <3>4
      <4> QED
        BY <1>6, <4>1 DEF Elements
    <3> QED
      BY <1>4, <3>2, <3>3, <3>4
  <2> QED
    BY <2>1, <2>2
<1> QED
  BY <1>6, <1>8, <1>9 DEF w

LEMMA AppendAddsOne ==
    ASSUME NEW l \in Seq(Ids), NEW x \in Ids, Growing(l),
           \A y \in Elements(l) : y < x
    PROVE  /\ Append(l, x) \in Seq(Ids)
           /\ Growing(Append(l, x))
           /\ Elements(Append(l, x)) = Elements(l) \cup {x}
<1> DEFINE a == Append(l, x)
<1>1. /\ Len(l) \in Nat /\ DOMAIN l = 1..Len(l) /\ Ids \subseteq Nat
      /\ \A i \in 1..Len(l) : l[i] \in Ids
  BY IdsAreNats
<1>2. /\ a \in Seq(Ids) /\ DOMAIN a = 1..(Len(l) + 1)
      /\ \A i \in 1..Len(l) : a[i] = l[i]
      /\ a[Len(l) + 1] = x
  BY <1>1
<1> HIDE DEF a
<1>3. \A i \in 1..Len(l) : l[i] < x
  BY <1>1 DEF Elements
<1>4. Growing(a)
  <2>1. SUFFICES ASSUME NEW i \in 1..(Len(l) + 1), NEW j \in 1..(Len(l) + 1), i < j
                 PROVE  a[i] < a[j]
    BY <1>2 DEF Growing
  <2>2. CASE j = Len(l) + 1
    BY <1>1, <1>2, <1>3, <2>1, <2>2
  <2>3. CASE j # Len(l) + 1
    <3>1. i \in 1..Len(l) /\ j \in 1..Len(l)
      BY <1>1, <2>1, <2>3
    <3>2. l[i] < l[j]
      BY <1>1, <2>1, <3>1 DEF Growing
    <3> QED
      BY <1>2, <3>1, <3>2
  <2> QED
    BY <2>2, <2>3
<1>5. Elements(a) = Elements(l) \cup {x}
  <2>1. ASSUME NEW y \in Elements(a) PROVE y \in Elements(l) \cup {x}
    <3>1. PICK i \in 1..(Len(l) + 1) : y = a[i]
      BY <1>2, <2>1 DEF Elements
    <3>2. CASE i = Len(l) + 1
      BY <1>2, <3>1, <3>2
    <3>3. CASE i # Len(l) + 1
      <4>1. i \in DOMAIN l /\ l[i] = y
        BY <1>1, <1>2, <3>1, <3>3
      <4> QED
        BY <4>1 DEF Elements
    <3> QED
      BY <3>2, <3>3
  <2>2. ASSUME NEW y \in Elements(l) PROVE y \in Elements(a)
    <3>1. PICK i \in 1..Len(l) : y = l[i]
      BY <1>1, <2>2 DEF Elements
    <3>2. i \in DOMAIN a /\ a[i] = y
      BY <1>1, <1>2, <3>1
    <3> QED
      BY <3>2 DEF Elements
  <2>3. x \in Elements(a)
    BY <1>1, <1>2 DEF Elements
  <2> QED
    BY <2>1, <2>2, <2>3
<1> QED
  BY <1>2, <1>4, <1>5 DEF a

LEMMA TailDropsOne ==
    ASSUME NEW l \in Seq(Ids), l # <<>>, Growing(l)
    PROVE  /\ Head(l) \in Ids /\ Tail(l) \in Seq(Ids) /\ Growing(Tail(l))
           /\ Elements(l) = {Head(l)} \cup Elements(Tail(l))
           /\ \A y \in Elements(Tail(l)) : Head(l) < y
<1> DEFINE t == Tail(l)
<1>1. /\ Len(l) \in Nat /\ Len(l) >= 1 /\ DOMAIN l = 1..Len(l) /\ Ids \subseteq Nat
      /\ \A i \in 1..Len(l) : l[i] \in Ids
      /\ Head(l) = l[1]
  BY IdsAreNats
<1>2. /\ t \in Seq(Ids) /\ DOMAIN t = 1..(Len(l) - 1)
      /\ \A i \in 1..(Len(l) - 1) : t[i] = l[i + 1]
  BY <1>1
<1> HIDE DEF t
<1>3. Growing(t)
  <2>1. SUFFICES ASSUME NEW i \in 1..(Len(l) - 1), NEW j \in 1..(Len(l) - 1), i < j
                 PROVE  t[i] < t[j]
    BY <1>2 DEF Growing
  <2>2. i + 1 \in 1..Len(l) /\ j + 1 \in 1..Len(l) /\ i + 1 < j + 1
    BY <1>1, <2>1
  <2>3. l[i + 1] < l[j + 1]
    BY <1>1, <2>2 DEF Growing
  <2> QED
    BY <1>2, <2>3
<1>4. \A y \in Elements(t) : Head(l) < y
  <2>1. SUFFICES ASSUME NEW i \in 1..(Len(l) - 1) PROVE l[1] < t[i]
    BY <1>1, <1>2 DEF Elements
  <2>2. 1 \in 1..Len(l) /\ i + 1 \in 1..Len(l) /\ 1 < i + 1
    BY <1>1, <2>1
  <2>3. l[1] < l[i + 1]
    BY <1>1, <2>2 DEF Growing
  <2> QED
    BY <1>2, <2>1, <2>3
<1>5. Elements(l) = {Head(l)} \cup Elements(t)
  <2>1. ASSUME NEW y \in Elements(l) PROVE y \in {Head(l)} \cup Elements(t)
    <3>1. PICK i \in 1..Len(l) : y = l[i]
      BY <1>1, <2>1 DEF Elements
    <3>2. CASE i = 1
      BY <1>1, <3>1, <3>2
    <3>3. CASE i # 1
      <4>1. i - 1 \in DOMAIN t /\ t[i - 1] = y
        BY <1>1, <1>2, <3>1, <3>3
      <4> QED
        BY <4>1 DEF Elements
    <3> QED
      BY <3>2, <3>3
  <2>2. ASSUME NEW y \in Elements(t) PROVE y \in Elements(l)
    <3>1. PICK i \in 1..(Len(l) - 1) : y = t[i]
      BY <1>2, <2>2 DEF Elements
    <3>2. i + 1 \in DOMAIN l /\ l[i + 1] = y
      BY <1>1, <1>2, <3>1
    <3> QED
      BY <3>2 DEF Elements
  <2>3. Head(l) \in Elements(l)
    BY <1>1 DEF Elements
  <2> QED
    BY <2>1, <2>2, <2>3
<1> QED
  BY <1>1, <1>2, <1>3, <1>4, <1>5 DEF t

--------------------------------------------------------------------------------
(* Lists grow strictly, hold ids that have been given out and not been removed, and
   no id is in two of them. *)
ListsSound ==
    /\ \A e \in Events : Growing(listeners[e]) /\ \A id \in IdsOf(e) : id < nextId
    /\ \A id \in removed : id < nextId
    /\ \A e \in Events : \A id \in IdsOf(e) : id \notin removed
    /\ \A e, f \in Events : \A id \in IdsOf(e) : id \in IdsOf(f) => e = f

(* EventListenerHandle, without cardinalities. *)
HandlesSound ==
    /\ \A h \in Slots : \A e \in Events : \A id \in Ids :
         handle[h] = [event |-> e, id |-> id] => id \in IdsOf(e)
    /\ \A e \in Events : \A id \in IdsOf(e) :
         captured[id] = None => \E h \in Slots : handle[h] = [event |-> e, id |-> id]
    /\ \A h, k \in Slots : handle[h] # None /\ handle[h] = handle[k] => h = k

(* What a trigger has called and has left to call. *)
TriggerSound ==
    \A t \in Threads : act[t].op = "trigger" =>
        LET c == act[t].called
            l == act[t].left
        IN  /\ Growing(c) /\ Growing(l)
            /\ \A x \in Elements(c) : \A y \in Elements(l) : x < y
            /\ \A x \in Elements(c) \cup Elements(l) : x < act[t].since /\ x \notin act[t].gone
            /\ \A id \in IdsOf(act[t].event) :
                 id < act[t].since => id \in Elements(c) \cup Elements(l)
            /\ act[t].since <= nextId

(* instance_mutex is held by whoever is in Lua, and only they have a Lua state. *)
MutexHeld ==
    \A t \in Threads : act[t].op \in {"call", "stuck"} =>
        holder = t /\ luaState = act[t].state

EInv == TypeOK /\ ListsSound /\ HandlesSound /\ TriggerSound /\ MutexHeld

LEMMA EventNotNone == \A e \in Events : \A id \in Ids : [event |-> e, id |-> id] # None
BY DEF Ids

LEMMA HandleOwns ==
    ASSUME TypeOK, HandlesSound, NEW h \in Slots, handle[h] # None
    PROVE  /\ handle[h].event \in Events /\ handle[h].id \in Ids
           /\ handle[h] = [event |-> handle[h].event, id |-> handle[h].id]
           /\ handle[h].id \in IdsOf(handle[h].event)
<1>1. handle[h] \in [event : Events, id : Ids]
  BY DEF TypeOK
<1>2. handle[h] = [event |-> handle[h].event, id |-> handle[h].id]
  BY <1>1
<1> QED
  BY <1>1, <1>2 DEF HandlesSound

LEMMA IdsAreElements == \A e \in Events : IdsOf(e) = Elements(listeners[e])
BY DEF IdsOf, Elements

(* The two ways in which a list changes. *)
LEMMA RemoveEffect ==
    ASSUME TypeOK, ListsSound, NEW e \in Events, NEW id \in Ids, id \in IdsOf(e)
    PROVE  /\ Remove(e, id) \in [Events -> Seq(Ids)]
           /\ Growing(Remove(e, id)[e])
           /\ Elements(Remove(e, id)[e]) = IdsOf(e) \ {id}
           /\ \A f \in Events : f # e => Remove(e, id)[f] = listeners[f]
<1>1. listeners[e] \in Seq(Ids) /\ Growing(listeners[e]) /\ id \in Elements(listeners[e])
  BY DEF TypeOK, ListsSound, IdsOf, Elements
<1>3. /\ Without(listeners[e], id) \in Seq(Ids) /\ Growing(Without(listeners[e], id))
      /\ Elements(Without(listeners[e], id)) = Elements(listeners[e]) \ {id}
  BY <1>1, WithoutTakesOne
<1>4. Remove(e, id) = [listeners EXCEPT ![e] = Without(listeners[e], id)]
  BY DEF Remove
<1> QED
  BY <1>3, <1>4, IdsAreElements DEF TypeOK

LEMMA AddEffect ==
    ASSUME TypeOK, ListsSound, NEW e \in Events, nextId <= MaxListeners,
           listeners' = [listeners EXCEPT ![e] = Append(@, nextId)]
    PROVE  /\ listeners' \in [Events -> Seq(Ids)]
           /\ Growing(listeners'[e])
           /\ Elements(listeners'[e]) = IdsOf(e) \cup {nextId}
           /\ \A f \in Events : f # e => listeners'[f] = listeners[f]
<1>1. listeners[e] \in Seq(Ids) /\ Growing(listeners[e]) /\ \A y \in Elements(listeners[e]) : y < nextId
  BY DEF TypeOK, ListsSound, IdsOf, Elements
<1>2. nextId \in Ids
  BY DEF Ids, TypeOK
<1>3. /\ Append(listeners[e], nextId) \in Seq(Ids) /\ Growing(Append(listeners[e], nextId))
      /\ Elements(Append(listeners[e], nextId)) = Elements(listeners[e]) \cup {nextId}
  BY <1>1, <1>2, AppendAddsOne
<1> QED
  BY <1>3, IdsAreElements DEF TypeOK

--------------------------------------------------------------------------------
(* The kinds of action, by what they leave alone. *)
Requires ==
    \E s \in Scripts :
        \/ \E m \in Modules : RequireCached(s, m) \/ RequireFile(s, m)
        \/ Load(s) \/ LoadFails(s) \/ RequireOriginal(s)
Adds == \E e \in Events :
            (\E s \in Scripts : ListenEventLua(s, e)) \/ (\E h \in Slots : ListenEvent(h, e))
Removes == \E h \in Slots : Unregister(h) \/ \E k \in Slots : MoveAssign(h, k)
SetsUp == \E t \in Threads :
            (\E v \in States : SetUp(t, v)) \/ RegisterRequire(t) \/ RegisterBridge(t)
Triggers == \E t \in Threads :
              (\E e \in Events : TriggerEvent(t, e)) \/ CallListener(t) \/ TriggerEnds(t)
CallsLuau == \E t \in Threads : CallLuau(t) \/ CallNested(t) \/ CallReturns(t)
OpensOrCloses == \E v \in States : OpenState(v) \/ CloseState(v)

LEMMA KindsOfAction ==
    Next => Requires \/ Adds \/ Removes \/ SetsUp \/ Triggers \/ CallsLuau \/ OpensOrCloses
BY DEF Next, StateNext, ScriptNext, HandleNext, ThreadNext, Requires, Adds, Removes, SetsUp,
       Triggers, CallsLuau, OpensOrCloses

LEMMA OpenTypes == ASSUME EInv, OpensOrCloses PROVE TypeOK' /\ UNCHANGED bridgeVars
<1> USE DEF EInv, TypeOK
<1>1. ASSUME NEW v \in States, OpenState(v) PROVE TypeOK' /\ UNCHANGED bridgeVars
  <2>1. opened' \in [States -> 0..MaxOpens]
    BY <1>1 DEF OpenState
  <2>2. loads' \in [Scripts -> [Modules -> 0..2]]
    BY <1>1 DEF OpenState
  <2> QED
    BY <1>1, <2>1, <2>2 DEF OpenState
<1>2. ASSUME NEW v \in States, CloseState(v) PROVE TypeOK' /\ UNCHANGED bridgeVars
  <2>1. loading' \in [Scripts -> Seq(Modules)]
    BY <1>2 DEF CloseState
  <2> QED
    BY <1>2, <2>1 DEF CloseState
<1> QED
  BY <1>1, <1>2 DEF OpensOrCloses

LEMMA RequireTypes == ASSUME EInv, Requires PROVE TypeOK' /\ UNCHANGED bridgeVars
<1> USE DEF EInv, TypeOK
<1>1. PICK s \in Scripts :
        \/ \E m \in Modules : RequireCached(s, m) \/ RequireFile(s, m)
        \/ Load(s) \/ LoadFails(s) \/ RequireOriginal(s)
  BY DEF Requires
<1>2. ASSUME NEW m \in Modules, RequireCached(s, m) PROVE TypeOK' /\ UNCHANGED bridgeVars
  BY <1>2 DEF RequireCached
<1>3. ASSUME NEW m \in Modules, RequireFile(s, m) PROVE TypeOK' /\ UNCHANGED bridgeVars
  <2>1. loading' = [loading EXCEPT ![s] = <<m>> \o loading[s]]
    BY <1>3 DEF RequireFile
  <2>2. <<m>> \o loading[s] \in Seq(Modules)
    OBVIOUS
  <2>3. loading' \in [Scripts -> Seq(Modules)]
    BY <2>1, <2>2
  <2> QED
    BY <1>3, <2>3 DEF RequireFile
<1>4. CASE Load(s)
  <2>1. loading[s] \in Seq(Modules) /\ loading[s] # <<>>
    BY <1>4 DEF Load
  <2>2. Head(loading[s]) \in Modules /\ Tail(loading[s]) \in Seq(Modules)
    BY <2>1
  <2>3. loading' \in [Scripts -> Seq(Modules)]
    BY <1>4, <2>2 DEF Load
  <2> DEFINE m == Head(loading[s])
  <2>4. cache' \in [Scripts -> [Modules -> 0..MaxOpens]]
    <3>1. opened[Owner[s]] \in 0..MaxOpens
      OBVIOUS
    <3>2. cache' = [cache EXCEPT ![s] = [cache[s] EXCEPT ![m] = opened[Owner[s]]]]
      BY <1>4 DEF Load
    <3> QED
      BY <2>2, <3>1, <3>2
  <2>5. loads' \in [Scripts -> [Modules -> 0..2]]
    <3>1. (IF loads[s][m] < 2 THEN loads[s][m] + 1 ELSE loads[s][m]) \in 0..2
      BY <2>2
    <3>2. loads' = [loads EXCEPT ![s] = [loads[s] EXCEPT ![m] =
                      IF loads[s][m] < 2 THEN loads[s][m] + 1 ELSE loads[s][m]]]
      BY <1>4 DEF Load
    <3> HIDE DEF m
    <3> QED
      BY <2>2, <3>1, <3>2
  <2> QED
    BY <1>4, <2>3, <2>4, <2>5 DEF Load
<1>5. CASE LoadFails(s)
  <2>1. Tail(loading[s]) \in Seq(Modules)
    BY <1>5 DEF LoadFails
  <2> QED
    BY <1>5, <2>1 DEF LoadFails
<1>6. CASE RequireOriginal(s)
  BY <1>6 DEF RequireOriginal
<1> QED
  BY <1>1, <1>2, <1>3, <1>4, <1>5, <1>6

LEMMA ListTypes == ASSUME EInv, Adds \/ Removes PROVE TypeOK'
<1> USE DEF EInv, TypeOK, Ids
<1>1. ASSUME NEW e \in Events, NEW l \in Scripts \cup {None}, AddListener(e, l),
             handle' \in [Slots -> {None} \cup [event : Events, id : Ids]]
      PROVE  TypeOK'
  <2>1. listeners' \in [Events -> Seq(Ids)]
    BY <1>1, AddEffect DEF AddListener
  <2>2. captured' \in [Ids -> Scripts \cup {None}]
    BY <1>1 DEF AddListener
  <2>3. nextId' \in 1..(MaxListeners + 1)
    BY <1>1 DEF AddListener
  <2> QED
    BY <1>1, <2>1, <2>2, <2>3 DEF AddListener
<1>2. ASSUME NEW e \in Events, NEW s \in Scripts, ListenEventLua(s, e) PROVE TypeOK'
  BY <1>1, <1>2 DEF ListenEventLua
<1>3. ASSUME NEW e \in Events, NEW h \in Slots, ListenEvent(h, e) PROVE TypeOK'
  <2>1. nextId \in Ids
    BY <1>3 DEF ListenEvent, AddListener
  <2>2. handle' \in [Slots -> {None} \cup [event : Events, id : Ids]]
    BY <1>3, <2>1 DEF ListenEvent
  <2> QED
    BY <1>1, <1>3, <2>2 DEF ListenEvent
<1>4. ASSUME NEW h \in Slots, handle[h] # None
      PROVE  /\ handle[h].event \in Events /\ handle[h].id \in Ids
             /\ Remove(handle[h].event, handle[h].id) \in [Events -> Seq(Ids)]
  BY <1>4, HandleOwns, RemoveEffect
<1>5. ASSUME NEW h \in Slots, Unregister(h) PROVE TypeOK'
  <2>1. handle[h] # None /\ handle' = [handle EXCEPT ![h] = None]
    BY <1>5 DEF Unregister
  <2>2. handle' \in [Slots -> {None} \cup [event : Events, id : Ids]]
    BY <2>1
  <2>3. listeners' \in [Events -> Seq(Ids)] /\ removed' \subseteq Ids
    BY <1>4, <1>5, <2>1 DEF Unregister
  <2> QED
    BY <1>5, <2>2, <2>3 DEF Unregister
<1>6. ASSUME NEW h \in Slots, NEW k \in Slots, MoveAssign(h, k) PROVE TypeOK'
  <2>1. handle' \in [Slots -> {None} \cup [event : Events, id : Ids]]
    BY <1>6 DEF MoveAssign, Moved
  <2>2. listeners' \in [Events -> Seq(Ids)] /\ removed' \subseteq Ids
    <3>1. CASE handle[h] = None
      BY <1>6, <3>1 DEF MoveAssign
    <3>2. CASE handle[h] # None
      <4>1. /\ listeners' = Remove(handle[h].event, handle[h].id)
            /\ removed' = removed \cup {handle[h].id}
        BY <1>6, <3>2 DEF MoveAssign
      <4>2. /\ Remove(handle[h].event, handle[h].id) \in [Events -> Seq(Ids)]
            /\ handle[h].id \in Ids
        BY <1>4, <3>2
      <4> QED
        BY <4>1, <4>2
    <3> QED
      BY <3>1, <3>2
  <2> QED
    BY <1>6, <2>1, <2>2 DEF MoveAssign
<1> QED
  BY <1>2, <1>3, <1>5, <1>6 DEF Adds, Removes

SetUps == [op : {"setup"}, state : States, left : SUBSET {"require", "bridge"}]
Triggerings == [op : {"trigger"}, event : Events, left : Seq(Ids), called : Seq(Ids),
                since : 1..(MaxListeners + 1), gone : SUBSET Ids]
InLua == [op : {"call", "stuck"}, state : States]

LEMMA KindsOfAct ==
    ASSUME TypeOK, NEW t \in Threads
    PROVE  /\ act[t].op = "setup" => act[t] \in SetUps
           /\ act[t].op = "trigger" => act[t] \in Triggerings
           /\ act[t].op \in {"call", "stuck"} => act[t] \in InLua
<1>1. act[t] = Idle \/ act[t] \in SetUps \/ act[t] \in Triggerings \/ act[t] \in InLua
  BY DEF TypeOK, Acts, SetUps, Triggerings, InLua
<1>2. act[t] = Idle => act[t].op = "idle"
  BY DEF Idle
<1>3. act[t] \in SetUps => act[t].op = "setup"
  BY DEF SetUps
<1>4. act[t] \in Triggerings => act[t].op = "trigger"
  BY DEF Triggerings
<1>5. act[t] \in InLua => act[t].op \in {"call", "stuck"}
  BY DEF InLua
<1> QED
  BY <1>1, <1>2, <1>3, <1>4, <1>5

LEMMA ActTypes ==
    ASSUME TypeOK, NEW t \in Threads, NEW a \in Acts, act' = [act EXCEPT ![t] = a]
    PROVE  act' \in [Threads -> Acts]
BY DEF TypeOK

LEMMA SetUpTypes == ASSUME EInv, SetsUp PROVE TypeOK'
<1>1. TypeOK
  BY DEF EInv
<1>2. ASSUME NEW t \in Threads, NEW v \in States, SetUp(t, v) PROVE TypeOK'
  <2>1. [op |-> "setup", state |-> v, left |-> {"require", "bridge"}] \in Acts
    BY DEF Acts
  <2>2. act' \in [Threads -> Acts]
    BY <1>1, <1>2, <2>1, ActTypes DEF SetUp
  <2> QED
    BY <1>1, <1>2, <2>2 DEF SetUp, TypeOK
<1>3. ASSUME NEW t \in Threads, NEW p, Registering(t, p), act' = Registered(t, p)
      PROVE  act' \in [Threads -> Acts] /\ act[t].state \in States
  <2>1. act[t] \in SetUps
    BY <1>1, <1>3, KindsOfAct DEF Registering
  <2>2. [act[t] EXCEPT !.left = @ \ {p}] \in SetUps
    BY <2>1 DEF SetUps
  <2>3. SetUps \subseteq Acts /\ Idle \in Acts
    BY DEF Acts, SetUps
  <2>4. act' = [act EXCEPT ![t] = Idle]
        \/ act' = [act EXCEPT ![t] = [act[t] EXCEPT !.left = @ \ {p}]]
    BY <1>3 DEF Registered
  <2>5. act' \in [Threads -> Acts]
    BY <1>1, <2>2, <2>3, <2>4, ActTypes
  <2> QED
    BY <2>1, <2>5 DEF SetUps
<1>4. ASSUME NEW t \in Threads, RegisterRequire(t) PROVE TypeOK'
  <2>1. act' \in [Threads -> Acts] /\ act[t].state \in States
    BY <1>3, <1>4 DEF RegisterRequire
  <2> QED
    BY <1>1, <1>4, <2>1 DEF RegisterRequire, TypeOK
<1>5. ASSUME NEW t \in Threads, RegisterBridge(t) PROVE TypeOK'
  <2>1. act' \in [Threads -> Acts] /\ act[t].state \in States
    BY <1>3, <1>5 DEF RegisterBridge
  <2> QED
    BY <1>1, <1>5, <2>1 DEF RegisterBridge, TypeOK
<1> QED
  BY <1>2, <1>4, <1>5 DEF SetsUp

LEMMA TriggerTypes == ASSUME EInv, Triggers PROVE TypeOK'
<1>1. TypeOK
  BY DEF EInv
<1>2. ASSUME NEW t \in Threads, NEW e \in Events, TriggerEvent(t, e) PROVE TypeOK'
  <2>1. [op |-> "trigger", event |-> e, left |-> listeners[e], called |-> <<>>,
         since |-> nextId, gone |-> removed] \in Acts
    BY <1>1 DEF Acts, TypeOK
  <2>2. act' \in [Threads -> Acts]
    BY <1>1, <1>2, <2>1, ActTypes DEF TriggerEvent, Snapshot
  <2> QED
    BY <1>1, <1>2, <2>2 DEF TriggerEvent, TypeOK
<1>3. ASSUME NEW t \in Threads, CallListener(t) PROVE TypeOK'
  <2> DEFINE l == act[t].left
             a == [act[t] EXCEPT !.left = Tail(l), !.called = Append(act[t].called, Head(l))]
  <2>1. act[t].op = "trigger" /\ l # <<>>
    BY <1>3 DEF CallListener
  <2>2. act[t] \in Triggerings
    BY <1>1, <2>1, KindsOfAct
  <2>3. Head(l) \in Ids /\ Tail(l) \in Seq(Ids) /\ Append(act[t].called, Head(l)) \in Seq(Ids)
    BY <2>1, <2>2 DEF Triggerings
  <2>4. a \in Triggerings /\ Triggerings \subseteq Acts
    BY <2>2, <2>3 DEF Acts, Triggerings
  <2>5. act' = [act EXCEPT ![t] = a]
    BY <1>1, <1>3, <2>2 DEF CallListener, TypeOK, Triggerings
  <2>6. act' \in [Threads -> Acts]
    BY <1>1, <2>4, <2>5, ActTypes
  <2>7. lost' \in BOOLEAN
    BY <1>3 DEF CallListener
  <2> QED
    BY <1>1, <1>3, <2>6, <2>7 DEF CallListener, TypeOK
<1>4. ASSUME NEW t \in Threads, TriggerEnds(t) PROVE TypeOK'
  <2>1. act' \in [Threads -> Acts]
    BY <1>1, <1>4, ActTypes DEF TriggerEnds, Acts
  <2> QED
    BY <1>1, <1>4, <2>1 DEF TriggerEnds, TypeOK
<1> QED
  BY <1>2, <1>3, <1>4 DEF Triggers

LEMMA CallTypes == ASSUME EInv, CallsLuau PROVE TypeOK'
<1>1. TypeOK
  BY DEF EInv
<1>2. ASSUME NEW t \in Threads, CallLuau(t) PROVE TypeOK'
  <2>1. [op |-> "call", state |-> luaState] \in Acts
    BY <1>1, <1>2 DEF CallLuau, Acts, TypeOK
  <2>2. act' \in [Threads -> Acts] /\ lost' \in BOOLEAN
    BY <1>1, <1>2, <2>1, ActTypes DEF CallLuau
  <2> QED
    BY <1>1, <1>2, <2>2 DEF CallLuau, TypeOK
<1>3. ASSUME NEW t \in Threads, CallNested(t) PROVE TypeOK'
  <2>1. act[t] \in InLua
    BY <1>1, <1>3, KindsOfAct DEF CallNested
  <2>2. [act[t] EXCEPT !.op = "stuck"] \in Acts
    BY <2>1 DEF Acts, InLua
  <2>3. act' \in [Threads -> Acts]
    BY <1>1, <1>3, <2>2, ActTypes DEF CallNested, TypeOK
  <2> QED
    BY <1>1, <1>3, <2>3 DEF CallNested, TypeOK
<1>4. ASSUME NEW t \in Threads, CallReturns(t) PROVE TypeOK'
  <2>1. act' \in [Threads -> Acts]
    BY <1>1, <1>4, ActTypes DEF CallReturns, Acts
  <2> QED
    BY <1>1, <1>4, <2>1 DEF CallReturns, TypeOK
<1> QED
  BY <1>2, <1>3, <1>4 DEF CallsLuau

LEMMA TypesKept == ASSUME EInv, [Next]_vars PROVE TypeOK'
<1>1. CASE Next
  BY <1>1, KindsOfAction, OpenTypes, RequireTypes, ListTypes, SetUpTypes, TriggerTypes, CallTypes
<1>2. CASE UNCHANGED vars
  BY <1>2 DEF vars, EInv, TypeOK
<1> QED
  BY <1>1, <1>2

--------------------------------------------------------------------------------
(* The lists and the handles, by kind of action. *)
LEMMA ListsKept ==
    ASSUME ListsSound, HandlesSound, UNCHANGED eventVars
    PROVE  ListsSound' /\ HandlesSound'
BY DEF ListsSound, HandlesSound, IdsOf

LEMMA TriggerKept ==
    ASSUME TypeOK, TriggerSound, act' = act, nextId \in Nat, nextId' \in Nat, nextId <= nextId',
           \A f \in Events : \A n \in Nat : n <= nextId =>
              \A id \in IdsOf(f)' : id < n => id \in IdsOf(f)
    PROVE  TriggerSound'
<1> SUFFICES ASSUME NEW t \in Threads, act[t].op = "trigger", NEW e, e = act[t].event
             PROVE  /\ \A id \in IdsOf(e)' : id < act[t].since =>
                         id \in Elements(act[t].called) \cup Elements(act[t].left)
                    /\ act[t].since <= nextId'
  BY DEF TriggerSound, IdsOf
<1>1. e \in Events /\ act[t].since \in Nat /\ act[t].since <= nextId
  BY KindsOfAct DEF TriggerSound, Triggerings
<1>2. \A id \in IdsOf(e) : id < act[t].since =>
        id \in Elements(act[t].called) \cup Elements(act[t].left)
  BY DEF TriggerSound
<1> QED
  BY <1>1, <1>2

LEMMA RemoveIds ==
    ASSUME EInv, NEW h \in Slots, handle[h] # None,
           listeners' = Remove(handle[h].event, handle[h].id)
    PROVE  /\ handle[h].id \in Ids /\ handle[h].event \in Events
           /\ handle[h].id \in IdsOf(handle[h].event)
           /\ \A f \in Events : Growing(listeners'[f]) /\ IdsOf(f)' = IdsOf(f) \ {handle[h].id}
<1>1. handle[h].id \in Ids /\ handle[h].event \in Events
  BY HandleOwns DEF EInv
<1>2. handle[h].id \in IdsOf(handle[h].event)
  BY HandleOwns DEF EInv
<1> DEFINE e == handle[h].event
           id == handle[h].id
<1>3. /\ Growing(listeners'[e]) /\ Elements(listeners'[e]) = IdsOf(e) \ {id}
      /\ \A f \in Events : f # e => listeners'[f] = listeners[f]
  BY <1>1, <1>2, RemoveEffect DEF EInv
<1>4. \A f \in Events : IdsOf(f)' = Elements(listeners'[f])
  BY DEF IdsOf, Elements
<1>5. \A f \in Events : f # e => id \notin IdsOf(f)
  BY <1>1, <1>2 DEF EInv, ListsSound
<1>6. \A f \in Events : f # e => Elements(listeners'[f]) = IdsOf(f) /\ Growing(listeners'[f])
  BY <1>3, IdsAreElements DEF EInv, ListsSound
<1> QED
  BY <1>1, <1>2, <1>3, <1>4, <1>5, <1>6

LEMMA OtherIds ==
    ASSUME EInv, NEW h \in Slots, NEW k \in Slots, handle[h] # None, handle[k] # None, h # k
    PROVE  handle[k].id # handle[h].id
<1>1. /\ handle[h].event \in Events /\ handle[h].id \in IdsOf(handle[h].event)
      /\ handle[h] = [event |-> handle[h].event, id |-> handle[h].id]
      /\ handle[k].event \in Events /\ handle[k].id \in IdsOf(handle[k].event)
      /\ handle[k] = [event |-> handle[k].event, id |-> handle[k].id]
  BY HandleOwns DEF EInv
<1> QED
  BY <1>1 DEF EInv, ListsSound, HandlesSound

LEMMA RemovesKeep == ASSUME EInv, Removes PROVE ListsSound' /\ HandlesSound'
<1>1. \A e \in Events : IdsOf(e) \subseteq Ids
  BY DEF EInv, TypeOK, IdsOf
<1>2. ASSUME NEW h \in Slots, handle[h] # None,
             listeners' = Remove(handle[h].event, handle[h].id),
             removed' = removed \cup {handle[h].id}, nextId' = nextId, captured' = captured
      PROVE  ListsSound'
  <2>1. /\ handle[h].id \in Ids /\ handle[h].event \in Events
        /\ handle[h].id \in IdsOf(handle[h].event)
        /\ \A f \in Events : Growing(listeners'[f]) /\ IdsOf(f)' = IdsOf(f) \ {handle[h].id}
    BY <1>2, RemoveIds
  <2>2. handle[h].id < nextId
    BY <2>1 DEF EInv, ListsSound
  <2> QED
    BY <1>2, <2>1, <2>2 DEF EInv, ListsSound
<1>3. ASSUME NEW h \in Slots, Unregister(h) PROVE ListsSound' /\ HandlesSound'
  <2>1. /\ handle[h] # None /\ listeners' = Remove(handle[h].event, handle[h].id)
        /\ removed' = removed \cup {handle[h].id} /\ nextId' = nextId /\ captured' = captured
        /\ handle' = [handle EXCEPT ![h] = None]
    BY <1>3 DEF Unregister
  <2>2. \A f \in Events : IdsOf(f)' = IdsOf(f) \ {handle[h].id}
    BY <2>1, RemoveIds
  <2>3. \A k \in Slots : handle'[k] = IF k = h THEN None ELSE handle[k]
    BY <2>1 DEF EInv, TypeOK
  <2>4. ListsSound'
    BY <1>2, <2>1
  <2>5. \A k \in Slots : handle[k] # None /\ k # h => handle[k].id # handle[h].id
    BY <2>1, OtherIds
  <2>6. HandlesSound'
    <3>1. ASSUME NEW k \in Slots, NEW e \in Events, NEW id \in Ids,
                 handle'[k] = [event |-> e, id |-> id]
          PROVE  id \in IdsOf(e)'
      <4>1. k # h /\ handle[k] = [event |-> e, id |-> id] /\ handle[k] # None
        BY <2>3, <3>1, EventNotNone
      <4>2. id \in IdsOf(e) /\ id # handle[h].id
        BY <2>5, <4>1 DEF EInv, HandlesSound
      <4> QED
        BY <2>2, <4>2
    <3>2. ASSUME NEW e \in Events, NEW id \in IdsOf(e)', captured'[id] = None
          PROVE  \E k \in Slots : handle'[k] = [event |-> e, id |-> id]
      <4>1. id \in IdsOf(e) /\ id # handle[h].id /\ captured[id] = None
        BY <2>1, <2>2, <3>2
      <4>2. PICK k \in Slots : handle[k] = [event |-> e, id |-> id]
        BY <4>1 DEF EInv, HandlesSound
      <4> QED
        BY <2>3, <4>1, <4>2
    <3>3. \A i, j \in Slots : handle'[i] # None /\ handle'[i] = handle'[j] => i = j
      BY <2>3 DEF EInv, HandlesSound
    <3> QED
      BY <3>1, <3>2, <3>3 DEF HandlesSound
  <2> QED
    BY <2>4, <2>6
<1>4. ASSUME NEW h \in Slots, NEW k \in Slots, MoveAssign(h, k)
      PROVE  ListsSound' /\ HandlesSound'
  <2>1. /\ h # k /\ nextId' = nextId /\ captured' = captured
        /\ \A j \in Slots : handle'[j] = IF j = k THEN None ELSE IF j = h THEN handle[k]
                                                               ELSE handle[j]
    BY <1>4 DEF MoveAssign, Moved, EInv, TypeOK
  <2>2. CASE handle[h] = None
    <3>1. listeners' = listeners /\ removed' = removed
      BY <1>4, <2>2 DEF MoveAssign
    <3>2. \A f \in Events : IdsOf(f)' = IdsOf(f)
      BY <3>1 DEF IdsOf
    <3>3. ListsSound'
      BY <2>1, <3>1, <3>2 DEF EInv, ListsSound
    <3>4. ASSUME NEW j \in Slots, NEW e \in Events, NEW id \in Ids,
                 handle'[j] = [event |-> e, id |-> id]
          PROVE  id \in IdsOf(e)'
      <4>1. PICK i \in Slots : handle[i] = [event |-> e, id |-> id]
        BY <2>1, <3>4, EventNotNone
      <4> QED
        BY <3>2, <4>1 DEF EInv, HandlesSound
    <3>5. ASSUME NEW e \in Events, NEW id \in IdsOf(e)', captured'[id] = None
          PROVE  \E j \in Slots : handle'[j] = [event |-> e, id |-> id]
      <4>1. PICK i \in Slots : handle[i] = [event |-> e, id |-> id]
        BY <2>1, <3>2, <3>5 DEF EInv, HandlesSound
      <4>2. i # h
        BY <1>1, <2>2, <3>2, <3>5, <4>1, EventNotNone
      <4>3. handle'[IF i = k THEN h ELSE i] = [event |-> e, id |-> id]
        BY <2>1, <4>1, <4>2
      <4> QED
        BY <4>3
    <3>6. \A i, j \in Slots : handle'[i] # None /\ handle'[i] = handle'[j] => i = j
      BY <2>1 DEF EInv, HandlesSound
    <3> QED
      BY <3>3, <3>4, <3>5, <3>6 DEF HandlesSound
  <2>3. CASE handle[h] # None
    <3>1. /\ listeners' = Remove(handle[h].event, handle[h].id)
          /\ removed' = removed \cup {handle[h].id}
      BY <1>4, <2>3 DEF MoveAssign
    <3>2. \A f \in Events : IdsOf(f)' = IdsOf(f) \ {handle[h].id}
      BY <2>3, <3>1, RemoveIds
    <3>3. ListsSound'
      BY <1>2, <2>1, <2>3, <3>1
    <3>4. \A j \in Slots : handle[j] # None /\ j # h => handle[j].id # handle[h].id
      BY <2>3, OtherIds
    <3>5. ASSUME NEW j \in Slots, NEW e \in Events, NEW id \in Ids,
                 handle'[j] = [event |-> e, id |-> id]
          PROVE  id \in IdsOf(e)'
      <4>1. PICK i \in Slots : i # h /\ handle[i] = [event |-> e, id |-> id]
        BY <2>1, <3>5, EventNotNone
      <4> QED
        BY <3>2, <3>4, <4>1, EventNotNone DEF EInv, HandlesSound
    <3>6. ASSUME NEW e \in Events, NEW id \in IdsOf(e)', captured'[id] = None
          PROVE  \E j \in Slots : handle'[j] = [event |-> e, id |-> id]
      <4>1. id \in IdsOf(e) /\ id # handle[h].id /\ captured[id] = None
        BY <2>1, <3>2, <3>6
      <4>2. PICK i \in Slots : handle[i] = [event |-> e, id |-> id]
        BY <4>1 DEF EInv, HandlesSound
      <4>3. i # h
        BY <4>1, <4>2
      <4> QED
        BY <2>1, <4>2, <4>3
    <3>7. \A i, j \in Slots : handle'[i] # None /\ handle'[i] = handle'[j] => i = j
      BY <2>1 DEF EInv, HandlesSound
    <3> QED
      BY <3>3, <3>5, <3>6, <3>7 DEF HandlesSound
  <2> QED
    BY <2>2, <2>3
<1> QED
  BY <1>3, <1>4 DEF Removes

LEMMA RemovesKeepThreads == ASSUME EInv, Removes PROVE TriggerSound' /\ MutexHeld'
<1>1. act' = act /\ nextId' = nextId /\ luaState' = luaState /\ holder' = holder
  BY DEF Removes, Unregister, MoveAssign
<1>2. nextId \in Nat
  BY DEF EInv, TypeOK
<1>3. \A f \in Events : \A id \in IdsOf(f)' : id \in IdsOf(f)
  <2>1. ASSUME NEW h \in Slots, Unregister(h) PROVE \A f \in Events : IdsOf(f)' \subseteq IdsOf(f)
    BY <2>1, RemoveIds DEF Unregister
  <2>2. ASSUME NEW h \in Slots, NEW k \in Slots, MoveAssign(h, k)
        PROVE  \A f \in Events : IdsOf(f)' \subseteq IdsOf(f)
    <3>1. CASE handle[h] = None
      BY <2>2, <3>1 DEF MoveAssign, IdsOf
    <3>2. CASE handle[h] # None
      BY <2>2, <3>2, RemoveIds DEF MoveAssign
    <3> QED
      BY <3>1, <3>2
  <2> QED
    BY <2>1, <2>2 DEF Removes
<1>4. TriggerSound'
  BY <1>1, <1>2, <1>3, TriggerKept DEF EInv
<1>5. MutexHeld'
  BY <1>1 DEF EInv, MutexHeld
<1> QED
  BY <1>4, <1>5

LEMMA AddsKeep ==
    ASSUME EInv, Adds PROVE ListsSound' /\ HandlesSound' /\ TriggerSound' /\ MutexHeld'
<1>1. PICK e \in Events, l \in Scripts \cup {None} :
        /\ AddListener(e, l)
        /\ \/ l # None /\ handle' = handle
           \/ \E h \in Slots : /\ l = None /\ handle[h] = None
                              /\ handle' = [handle EXCEPT ![h] = [event |-> e, id |-> nextId]]
  BY DEF Adds, ListenEventLua, ListenEvent
<1>2. /\ nextId \in Ids /\ nextId' = nextId + 1 /\ removed' = removed /\ act' = act
      /\ luaState' = luaState /\ holder' = holder
      /\ captured' = [captured EXCEPT ![nextId] = l]
  BY <1>1 DEF AddListener, EInv, TypeOK, Ids
<1>3. /\ Growing(listeners'[e]) /\ Elements(listeners'[e]) = IdsOf(e) \cup {nextId}
      /\ \A f \in Events : f # e => listeners'[f] = listeners[f]
  BY <1>1, AddEffect DEF AddListener, EInv
<1>4. \A f \in Events : IdsOf(f)' = Elements(listeners'[f])
  BY DEF IdsOf, Elements
<1>5. \A f \in Events : IdsOf(f) \subseteq Ids /\ \A id \in IdsOf(f) : id < nextId
  BY DEF EInv, ListsSound, TypeOK, IdsOf
<1>6. \A f \in Events : IdsOf(f)' = IF f = e THEN IdsOf(e) \cup {nextId} ELSE IdsOf(f)
  BY <1>3, <1>4, IdsAreElements
<1>7. nextId \in Nat /\ ~(nextId < nextId) /\ Ids \subseteq Nat /\ removed \subseteq Ids
      /\ nextId < nextId' /\ \A id \in Ids : id < nextId => id < nextId'
  BY <1>2, IdsAreNats DEF EInv, TypeOK
<1>8. ListsSound'
  <2>1. \A f \in Events : Growing(listeners'[f])
    BY <1>3 DEF EInv, ListsSound
  <2>2. ASSUME NEW f \in Events, NEW id \in IdsOf(f)' PROVE id < nextId'
    <3>1. id = nextId \/ (id \in Ids /\ id < nextId)
      BY <1>5, <1>6, <2>2
    <3> QED
      BY <1>2, <1>7, <3>1
  <2>3. \A id \in removed' : id < nextId'
    BY <1>2, <1>7 DEF EInv, ListsSound
  <2>4. \A f \in Events : \A id \in IdsOf(f)' : id \notin removed'
    BY <1>2, <1>6, <1>7 DEF EInv, ListsSound
  <2>5. \A f, g \in Events : \A id \in IdsOf(f)' : id \in IdsOf(g)' => f = g
    BY <1>5, <1>6, <1>7 DEF EInv, ListsSound
  <2> QED
    BY <2>1, <2>2, <2>3, <2>4, <2>5 DEF ListsSound
<1>9. HandlesSound'
  <2>1. \A h \in Slots : handle[h] # None => handle[h].id \in IdsOf(handle[h].event)
                                              /\ handle[h].event \in Events
    BY HandleOwns DEF EInv
  <2>2. \A i \in Ids : captured'[i] = IF i = nextId THEN l ELSE captured[i]
    BY <1>2 DEF EInv, TypeOK
  <2>3. [event |-> e, id |-> nextId] # None
    BY <1>2, EventNotNone
  <2>4. CASE l # None /\ handle' = handle
    <3>1. \A f \in Events : \A id \in IdsOf(f)' :
            captured'[id] = None => id \in IdsOf(f) /\ captured[id] = None
      BY <1>2, <1>5, <1>6, <2>2, <2>4
    <3> QED
      BY <1>6, <2>1, <2>4, <3>1 DEF EInv, HandlesSound
  <2>5. ASSUME NEW h \in Slots, l = None, handle[h] = None,
               handle' = [handle EXCEPT ![h] = [event |-> e, id |-> nextId]]
        PROVE  HandlesSound'
    <3>1. \A j \in Slots : handle'[j] = IF j = h THEN [event |-> e, id |-> nextId] ELSE handle[j]
      BY <2>5 DEF EInv, TypeOK
    <3>2. \A j \in Slots : handle[j] # None => handle[j].id # nextId
      BY <1>5, <1>7, <2>1
    <3>3. ASSUME NEW j \in Slots, NEW f \in Events, NEW id \in Ids,
                 handle'[j] = [event |-> f, id |-> id]
          PROVE  id \in IdsOf(f)'
      <4>1. CASE j = h
        BY <1>6, <3>1, <3>3, <4>1
      <4>2. CASE j # h
        BY <1>6, <3>1, <3>3, <4>2 DEF EInv, HandlesSound
      <4> QED
        BY <4>1, <4>2
    <3>4. ASSUME NEW f \in Events, NEW id \in IdsOf(f)', captured'[id] = None
          PROVE  \E j \in Slots : handle'[j] = [event |-> f, id |-> id]
      <4>1. CASE id \in IdsOf(f)
        <5>1. captured[id] = None
          BY <1>5, <1>7, <2>2, <3>4, <4>1
        <5>2. PICK j \in Slots : handle[j] = [event |-> f, id |-> id]
          BY <4>1, <5>1 DEF EInv, HandlesSound
        <5>3. handle[j] # None
          BY <1>5, <4>1, <5>2, EventNotNone
        <5> QED
          BY <2>5, <3>1, <5>2, <5>3
      <4>2. CASE id \notin IdsOf(f)
        <5>1. f = e /\ id = nextId
          BY <1>6, <3>4, <4>2
        <5> QED
          BY <3>1, <5>1
      <4> QED
        BY <4>1, <4>2
    <3>5. \A i, j \in Slots : handle'[i] # None /\ handle'[i] = handle'[j] => i = j
      BY <3>1, <3>2 DEF EInv, HandlesSound
    <3> QED
      BY <3>3, <3>4, <3>5 DEF HandlesSound
  <2> QED
    BY <1>1, <2>4, <2>5
<1>10. TriggerSound'
  <2>1. \A f \in Events : \A n \in Nat : n <= nextId =>
          \A id \in IdsOf(f)' : id < n => id \in IdsOf(f)
    BY <1>6, <1>7
  <2> QED
    BY <1>2, <1>7, <2>1, TriggerKept DEF EInv
<1>11. MutexHeld'
  BY <1>2 DEF EInv, MutexHeld
<1> QED
  BY <1>8, <1>9, <1>10, <1>11

--------------------------------------------------------------------------------
(* The threads, by kind of action. *)
LEMMA SetUpKeeps ==
    ASSUME EInv, SetsUp
    PROVE  UNCHANGED eventVars /\ TriggerSound' /\ MutexHeld'
<1>1. PICK t \in Threads :
        /\ act[t] = Idle \/ act[t].op = "setup"
        /\ act' \in [Threads -> Acts]
        /\ act'[t].op \in {"idle", "setup"} /\ \A u \in Threads : u # t => act'[u] = act[u]
        /\ UNCHANGED <<eventVars, holder>> /\ (luaState' = luaState \/ holder = None)
  <2>1. ASSUME NEW t \in Threads, NEW v \in States, SetUp(t, v)
        PROVE  /\ act'[t].op = "setup" /\ \A u \in Threads : u # t => act'[u] = act[u]
    BY <2>1 DEF SetUp, EInv, TypeOK
  <2>2. ASSUME NEW t \in Threads, NEW p, Registering(t, p), act' = Registered(t, p)
        PROVE  /\ act'[t].op \in {"idle", "setup"}
               /\ \A u \in Threads : u # t => act'[u] = act[u]
    <3>1. act[t] \in SetUps
      BY <2>2, KindsOfAct DEF Registering, EInv
    <3>2. CASE act[t].left = {p}
      BY <2>2, <3>2 DEF Registered, Idle, EInv, TypeOK
    <3>3. CASE act[t].left # {p}
      BY <2>2, <3>1, <3>3 DEF Registered, SetUps, EInv, TypeOK
    <3> QED
      BY <3>2, <3>3
  <2>3. TypeOK'
    BY SetUpTypes
  <2>4. act' \in [Threads -> Acts]
    BY <2>3 DEF TypeOK
  <2>5. ASSUME NEW t \in Threads, NEW v \in States, SetUp(t, v)
        PROVE  act[t] = Idle /\ UNCHANGED <<eventVars, holder, luaState>>
    BY <2>5 DEF SetUp
  <2>6. ASSUME NEW t \in Threads, RegisterRequire(t)
        PROVE  /\ Registering(t, "require") /\ act' = Registered(t, "require")
               /\ act[t].op = "setup" /\ UNCHANGED <<eventVars, holder, luaState>>
    BY <2>6 DEF RegisterRequire, Registering
  <2>7. ASSUME NEW t \in Threads, RegisterBridge(t)
        PROVE  /\ Registering(t, "bridge") /\ act' = Registered(t, "bridge")
               /\ act[t].op = "setup" /\ UNCHANGED <<eventVars, holder>> /\ holder = None
    BY <2>7 DEF RegisterBridge, Registering, Guard
  <2>8. CASE \E t \in Threads, v \in States : SetUp(t, v)
    BY <2>1, <2>4, <2>5, <2>8
  <2>9. CASE \E t \in Threads : RegisterRequire(t)
    BY <2>2, <2>4, <2>6, <2>9
  <2>10. CASE \E t \in Threads : RegisterBridge(t)
    BY <2>2, <2>4, <2>7, <2>10
  <2> QED
    BY <2>8, <2>9, <2>10 DEF SetsUp
<1>2. \A u \in Threads : act'[u].op \in {"trigger", "call", "stuck"} => u # t /\ act'[u] = act[u]
  BY <1>1
<1>3. TriggerSound'
  <2>1. \A u \in Threads : act'[u].op = "trigger" => act'[u] = act[u]
    BY <1>2
  <2>2. nextId' = nextId /\ \A e : IdsOf(e)' = IdsOf(e)
    BY <1>1 DEF IdsOf, eventVars
  <2> QED
    BY <2>1, <2>2 DEF EInv, TriggerSound
<1>4. MutexHeld'
  <2>1. CASE luaState' = luaState
    BY <1>1, <1>2, <2>1 DEF EInv, MutexHeld
  <2>2. CASE holder = None
    BY <1>2, <2>2 DEF EInv, MutexHeld
  <2> QED
    BY <1>1, <2>1, <2>2
<1> QED
  BY <1>1, <1>3, <1>4

LEMMA CallKeeps ==
    ASSUME EInv, CallsLuau
    PROVE  UNCHANGED eventVars /\ TriggerSound' /\ MutexHeld'
<1>1. PICK t \in Threads :
        /\ CallLuau(t) \/ CallNested(t) \/ CallReturns(t)
        /\ UNCHANGED <<eventVars, luaState>>
  BY DEF CallsLuau, CallLuau, CallNested, CallReturns
<1>2. act \in [Threads -> Acts]
  BY DEF EInv, TypeOK
<1>3. /\ act'[t].op \in {"idle", "call", "stuck"}
      /\ \A u \in Threads : u # t => act'[u] = act[u]
  <2>1. CASE CallLuau(t)
    BY <1>2, <2>1 DEF CallLuau
  <2>2. CASE CallNested(t)
    <3>1. act[t] \in InLua
      BY <2>2, KindsOfAct DEF CallNested, EInv
    <3> QED
      BY <1>2, <2>2, <3>1 DEF CallNested, InLua
  <2>3. CASE CallReturns(t)
    BY <1>2, <2>3 DEF CallReturns, Idle
  <2> QED
    BY <1>1, <2>1, <2>2, <2>3
<1>4. TriggerSound'
  <2>1. \A u \in Threads : act'[u].op = "trigger" => act'[u] = act[u]
    BY <1>3
  <2> QED
    BY <1>1, <2>1 DEF EInv, TriggerSound, IdsOf
<1>5. MutexHeld'
  <2>1. CASE CallLuau(t)
    <3>1. holder = None /\ holder' = t /\ act' = [act EXCEPT ![t] = [op |-> "call", state |-> luaState]]
      BY <2>1 DEF CallLuau, Guard
    <3>2. \A u \in Threads : act[u].op \notin {"call", "stuck"}
      BY <3>1 DEF EInv, MutexHeld
    <3>3. act'[t].state = luaState
      BY <1>2, <3>1
    <3> QED
      BY <1>1, <1>3, <3>1, <3>2, <3>3 DEF MutexHeld
  <2>2. CASE CallNested(t)
    <3>1. act[t] \in InLua /\ act[t].op = "call" /\ holder' = holder
      BY <2>2, KindsOfAct DEF CallNested, EInv
    <3>2. act'[t].state = act[t].state
      BY <1>2, <2>2, <3>1 DEF CallNested, InLua
    <3> QED
      BY <1>1, <1>3, <3>1, <3>2 DEF MutexHeld, EInv
  <2>3. CASE CallReturns(t)
    <3>1. act[t].op = "call" /\ act'[t].op = "idle"
      BY <1>2, <2>3 DEF CallReturns, Idle
    <3>2. \A u \in Threads : u # t => act[u].op \notin {"call", "stuck"}
      BY <3>1 DEF EInv, MutexHeld
    <3> QED
      BY <1>3, <3>1, <3>2 DEF MutexHeld
  <2> QED
    BY <1>1, <2>1, <2>2, <2>3
<1> QED
  BY <1>1, <1>4, <1>5

LEMMA TriggerKeeps ==
    ASSUME EInv, Triggers
    PROVE  UNCHANGED eventVars /\ TriggerSound' /\ MutexHeld'
<1>1. PICK t \in Threads :
        /\ (\E e \in Events : TriggerEvent(t, e)) \/ CallListener(t) \/ TriggerEnds(t)
        /\ UNCHANGED <<eventVars, luaState, holder>>
  BY DEF Triggers, TriggerEvent, CallListener, TriggerEnds
<1>2. act \in [Threads -> Acts]
  BY DEF EInv, TypeOK
<1> DEFINE Sound(a) ==
        /\ Growing(a.called) /\ Growing(a.left)
        /\ \A x \in Elements(a.called) : \A y \in Elements(a.left) : x < y
        /\ \A x \in Elements(a.called) \cup Elements(a.left) : x < a.since /\ x \notin a.gone
        /\ \A id \in IdsOf(a.event) :
             id < a.since => id \in Elements(a.called) \cup Elements(a.left)
        /\ a.since <= nextId
<1>3. /\ act'[t].op \in {"idle", "trigger"}
      /\ \A u \in Threads : u # t => act'[u] = act[u]
      /\ act'[t].op = "trigger" => Sound(act'[t])
  <2>1. ASSUME NEW e \in Events, TriggerEvent(t, e)
        PROVE  /\ act'[t].op = "trigger" /\ Sound(act'[t])
               /\ \A u \in Threads : u # t => act'[u] = act[u]
    <3>1. /\ act'[t] = [op |-> "trigger", event |-> e, left |-> listeners[e], called |-> <<>>,
                       since |-> nextId, gone |-> removed]
          /\ \A u \in Threads : u # t => act'[u] = act[u]
      BY <1>2, <2>1 DEF TriggerEvent, Snapshot
    <3>2. Growing(<<>>) /\ Elements(<<>>) = {} /\ nextId <= nextId
      BY DEF Growing, Elements, EInv, TypeOK
    <3>3. Sound(act'[t])
      BY <3>1, <3>2, IdsAreElements DEF EInv, ListsSound
    <3> QED
      BY <3>1, <3>3
  <2>2. CASE CallListener(t)
    <3> DEFINE l == act[t].left
               c == act[t].called
    <3>1. act[t].op = "trigger" /\ l # <<>> /\ act[t] \in Triggerings
      BY <2>2, KindsOfAct DEF CallListener, EInv
    <3>2. /\ act'[t].op = "trigger" /\ act'[t].left = Tail(l) /\ act'[t].called = Append(c, Head(l))
          /\ act'[t].event = act[t].event /\ act'[t].since = act[t].since
          /\ act'[t].gone = act[t].gone /\ \A u \in Threads : u # t => act'[u] = act[u]
      BY <1>2, <2>2, <3>1 DEF CallListener, Triggerings
    <3>3. l \in Seq(Ids) /\ c \in Seq(Ids) /\ Sound(act[t])
      BY <3>1 DEF Triggerings, EInv, TriggerSound
    <3> HIDE DEF l, c
    <3>4. /\ Head(l) \in Ids /\ Growing(Tail(l)) /\ Elements(l) = {Head(l)} \cup Elements(Tail(l))
          /\ \A y \in Elements(Tail(l)) : Head(l) < y
      BY <3>1, <3>3, TailDropsOne DEF l
    <3>5. \A x \in Elements(c) : x < Head(l)
      BY <3>3, <3>4 DEF l, c
    <3>6. Growing(Append(c, Head(l))) /\ Elements(Append(c, Head(l))) = Elements(c) \cup {Head(l)}
      BY <3>3, <3>4, <3>5, AppendAddsOne DEF c
    <3>7. Sound(act'[t])
      BY <3>2, <3>3, <3>4, <3>6 DEF l, c
    <3> QED
      BY <3>2, <3>7
  <2>3. CASE TriggerEnds(t)
    BY <1>2, <2>3 DEF TriggerEnds, Idle
  <2> QED
    BY <1>1, <2>1, <2>2, <2>3
<1>4. TriggerSound'
  <2>1. \A u \in Threads : act'[u].op = "trigger" => Sound(act'[u])
    BY <1>3 DEF EInv, TriggerSound
  <2>2. nextId' = nextId /\ listeners' = listeners
    BY <1>1
  <2> QED
    BY <2>1, <2>2 DEF TriggerSound, IdsOf
<1>5. MutexHeld'
  BY <1>1, <1>3 DEF EInv, MutexHeld
<1> QED
  BY <1>1, <1>4, <1>5

--------------------------------------------------------------------------------
LEMMA Initially == Init => EInv
<1> SUFFICES ASSUME Init PROVE EInv
  OBVIOUS
<1>1. TypeOK
  <2>1. /\ opened \in [States -> 0..MaxOpens] /\ open \subseteq States
        /\ cache \in [Scripts -> [Modules -> 0..MaxOpens]]
        /\ loads \in [Scripts -> [Modules -> 0..2]]
    BY DEF Init
  <2>2. nextId \in 1..(MaxListeners + 1) /\ captured \in [Ids -> Scripts \cup {None}]
    BY DEF Init, Ids
  <2>3. /\ loading \in [Scripts -> Seq(Modules)] /\ listeners \in [Events -> Seq(Ids)]
        /\ handle \in [Slots -> {None} \cup [event : Events, id : Ids]]
    BY DEF Init
  <2>4. act \in [Threads -> Acts]
    BY DEF Init, Acts
  <2> QED
    BY <2>1, <2>2, <2>3, <2>4 DEF Init, TypeOK
<1>2. \A e \in Events : IdsOf(e) = {} /\ Growing(listeners[e])
  BY DEF Init, IdsOf, Growing
<1>3. ListsSound
  BY <1>2 DEF Init, ListsSound
<1>4. HandlesSound
  BY <1>2, EventNotNone DEF Init, HandlesSound
<1>5. TriggerSound /\ MutexHeld
  BY DEF Init, TriggerSound, MutexHeld, Idle
<1> QED
  BY <1>1, <1>3, <1>4, <1>5 DEF EInv

LEMMA Kept == EInv /\ [Next]_vars => EInv'
<1> SUFFICES ASSUME EInv, [Next]_vars PROVE EInv'
  OBVIOUS
<1>1. TypeOK'
  BY TypesKept
<1>2. CASE UNCHANGED bridgeVars
  <2>1. TriggerSound' /\ MutexHeld'
    BY <1>2 DEF EInv, TriggerSound, MutexHeld, IdsOf
  <2>2. ListsSound' /\ HandlesSound'
    BY <1>2, ListsKept DEF EInv
  <2> QED
    BY <1>1, <2>1, <2>2 DEF EInv
<1>3. CASE SetsUp \/ Triggers \/ CallsLuau
  BY <1>1, <1>3, SetUpKeeps, TriggerKeeps, CallKeeps, ListsKept DEF EInv
<1>4. CASE Adds
  BY <1>1, <1>4, AddsKeep DEF EInv
<1>5. CASE Removes
  BY <1>1, <1>5, RemovesKeep, RemovesKeepThreads DEF EInv
<1>6. UNCHANGED vars => UNCHANGED bridgeVars
  BY DEF vars
<1> QED
  BY <1>2, <1>3, <1>4, <1>5, <1>6, KindsOfAction, RequireTypes, OpenTypes

(* The inductive invariant of the environment. *)
THEOREM Surroundings == Spec => []EInv
BY Initially, Kept, PTL DEF Spec

(* The values of all variables stay in their sets. *)
THEOREM EnvironmentTypes == Spec => []TypeOK
<1>1. EInv => TypeOK
  BY DEF EInv
<1> QED
  BY <1>1, Surroundings, PTL

(* call_luau_function, for any number of engines and threads: nobody replaces the
   Lua state of a call that is in Lua, and no second call is. *)
THEOREM CallsAreAlone == Spec => []CallKeepsItsState
<1>1. EInv => CallKeepsItsState
  BY DEF EInv, MutexHeld, CallKeepsItsState
<1> QED
  BY <1>1, Surroundings, PTL

(* trigger_event, for any number of listeners that come and go meanwhile. *)
THEOREM EachCalledOnce == Spec => []CalledOnce
<1>1. ASSUME EInv PROVE CalledOnce
  <2> SUFFICES ASSUME NEW t \in Threads, act[t].op = "trigger", act[t].left = <<>>,
                      NEW c, c = act[t].called
               PROVE  /\ \A i, j \in DOMAIN c : i < j => c[i] < c[j]
                      /\ \A id \in IdsOf(act[t].event) :
                           id < act[t].since => \E i \in DOMAIN c : c[i] = id
                      /\ \A i \in DOMAIN c : c[i] < act[t].since /\ c[i] \notin act[t].gone
    BY DEF CalledOnce
  <2>1. Elements(act[t].left) = {}
    BY DEF Elements
  <2>2. /\ Growing(c) /\ \A x \in Elements(c) : x < act[t].since /\ x \notin act[t].gone
        /\ \A id \in IdsOf(act[t].event) : id < act[t].since => id \in Elements(c)
    BY <1>1, <2>1 DEF EInv, TriggerSound
  <2> QED
    BY <2>2 DEF Growing, Elements
<1> QED
  BY <1>1, Surroundings, PTL

(* EventListenerHandle, for any number of handles: no listener is left without an
   owner, and none has two. *)
THEOREM HandlesOwn == Spec => []HandleOwnsListener
<1>1. ASSUME EInv PROVE HandleOwnsListener
  <2>1. \A h \in Slots : handle[h] # None => handle[h].id \in IdsOf(handle[h].event)
    BY <1>1, HandleOwns DEF EInv
  <2>2. ASSUME NEW e \in Events, NEW id \in IdsOf(e), captured[id] = None
        PROVE  Cardinality({h \in Slots : handle[h] = [event |-> e, id |-> id]}) = 1
    <3>1. PICK k \in Slots : handle[k] = [event |-> e, id |-> id]
      BY <1>1, <2>2 DEF EInv, HandlesSound
    <3>2. handle[k] # None
      <4>1. id \in Ids
        BY <1>1 DEF EInv, TypeOK, IdsOf
      <4> QED
        BY <3>1, <4>1, EventNotNone
    <3>3. {h \in Slots : handle[h] = [event |-> e, id |-> id]} = {k}
      BY <1>1, <3>1, <3>2 DEF EInv, HandlesSound
    <3>4. Cardinality({k}) = 1
      BY FS_Singleton
    <3> QED
      BY <3>3, <3>4
  <2>3. \A h, k \in Slots : handle[h] # None /\ handle[h] = handle[k] => h = k
    BY <1>1 DEF EInv, HandlesSound
  <2> QED
    BY <2>1, <2>2, <2>3 DEF HandleOwnsListener
<1> QED
  BY <1>1, Surroundings, PTL

--------------------------------------------------------------------------------
(* The modules a Lua thread is loading, when no module requires itself through
   others: each ranks below the one that required it, and none is in the cache. *)
Ranking(rank) ==
    rank \in [Modules -> Nat] /\ \A m \in Modules : \A n \in Needs[m] : rank[n] < rank[m]

Rising(rank, l) == \A i, j \in DOMAIN l : i < j => rank[l[i]] < rank[l[j]]

LoadingSound(rank) ==
    /\ \A v \in open : opened[v] # 0
    /\ \A s \in Scripts :
         /\ Rising(rank, loading[s])
         /\ \A i \in DOMAIN loading[s] : cache[s][loading[s][i]] = 0
         /\ \A m \in Modules : loads[s][m] = 0 \/ (loads[s][m] = 1 /\ cache[s][m] # 0)

LEMMA PushRises ==
    ASSUME NEW rank, Ranking(rank), NEW l \in Seq(Modules), NEW m \in Modules, Rising(rank, l),
           l # <<>> => m \in Needs[Head(l)]
    PROVE  /\ Rising(rank, <<m>> \o l)
           /\ \A i \in DOMAIN (<<m>> \o l) : i = 1 \/ i - 1 \in DOMAIN l
           /\ \A i \in DOMAIN (<<m>> \o l) : (<<m>> \o l)[i] = IF i = 1 THEN m ELSE l[i - 1]
<1> DEFINE k == <<m>> \o l
<1>1. /\ Len(l) \in Nat /\ DOMAIN l = 1..Len(l) /\ \A i \in 1..Len(l) : l[i] \in Modules
  OBVIOUS
<1>2. /\ DOMAIN k = 1..(Len(l) + 1)
      /\ \A i \in 1..(Len(l) + 1) : k[i] = IF i = 1 THEN m ELSE l[i - 1]
  BY <1>1
<1> HIDE DEF k
<1>3. ASSUME NEW j \in 1..Len(l) PROVE rank[m] < rank[l[j]]
  <2>1. /\ l # <<>> /\ Head(l) = l[1] /\ l[1] \in Modules /\ l[j] \in Modules /\ 1 \in 1..Len(l)
        /\ rank[m] \in Nat /\ rank[l[1]] \in Nat /\ rank[l[j]] \in Nat
    BY <1>1, <1>3 DEF Ranking
  <2>2. rank[m] < rank[l[1]]
    BY <2>1 DEF Ranking
  <2>3. j = 1 \/ rank[l[1]] < rank[l[j]]
    BY <1>1, <1>3, <2>1 DEF Rising
  <2> QED
    BY <2>1, <2>2, <2>3
<1>4. Rising(rank, k)
  <2>1. SUFFICES ASSUME NEW i \in 1..(Len(l) + 1), NEW j \in 1..(Len(l) + 1), i < j
                 PROVE  rank[k[i]] < rank[k[j]]
    BY <1>2 DEF Rising
  <2>2. j - 1 \in 1..Len(l) /\ k[j] = l[j - 1]
    BY <1>1, <1>2, <2>1
  <2>3. CASE i = 1
    BY <1>2, <1>3, <2>2, <2>3
  <2>4. CASE i # 1
    <3>1. i - 1 \in 1..Len(l) /\ k[i] = l[i - 1] /\ i - 1 < j - 1
      BY <1>1, <1>2, <2>1, <2>4
    <3> QED
      BY <1>1, <2>2, <3>1 DEF Rising
  <2> QED
    BY <2>3, <2>4
<1> QED
  BY <1>1, <1>2, <1>4 DEF k

LEMMA PopRises ==
    ASSUME NEW rank, Ranking(rank), NEW l \in Seq(Modules), l # <<>>, Rising(rank, l)
    PROVE  /\ Rising(rank, Tail(l)) /\ Head(l) \in Modules
           /\ \A i \in DOMAIN Tail(l) :
                i + 1 \in DOMAIN l /\ Tail(l)[i] = l[i + 1] /\ Tail(l)[i] # Head(l)
<1> DEFINE k == Tail(l)
<1>1. /\ Len(l) \in Nat /\ Len(l) >= 1 /\ DOMAIN l = 1..Len(l) /\ Head(l) = l[1]
      /\ \A i \in 1..Len(l) : l[i] \in Modules
  OBVIOUS
<1>2. DOMAIN k = 1..(Len(l) - 1) /\ \A i \in 1..(Len(l) - 1) : k[i] = l[i + 1]
  BY <1>1
<1> HIDE DEF k
<1>3. Rising(rank, k)
  <2>1. SUFFICES ASSUME NEW i \in 1..(Len(l) - 1), NEW j \in 1..(Len(l) - 1), i < j
                 PROVE  rank[k[i]] < rank[k[j]]
    BY <1>2 DEF Rising
  <2>2. i + 1 \in 1..Len(l) /\ j + 1 \in 1..Len(l) /\ i + 1 < j + 1
    BY <1>1, <2>1
  <2>3. rank[l[i + 1]] < rank[l[j + 1]]
    BY <1>1, <2>2 DEF Rising
  <2> QED
    BY <1>2, <2>3
<1>4. ASSUME NEW i \in 1..(Len(l) - 1) PROVE i + 1 \in DOMAIN l /\ k[i] # Head(l)
  <2>1. 1 \in DOMAIN l /\ i + 1 \in DOMAIN l /\ 1 < i + 1 /\ l[1] \in Modules
    BY <1>1, <1>4
  <2>2. rank[l[1]] < rank[l[i + 1]]
    BY <2>1 DEF Rising
  <2>3. rank[l[1]] \in Nat
    BY <2>1 DEF Ranking
  <2> QED
    BY <1>1, <1>2, <1>4, <2>1, <2>2, <2>3
<1> QED
  BY <1>1, <1>2, <1>3, <1>4 DEF k

LEMMA LoadingKept ==
    ASSUME NEW rank, Ranking(rank), TypeOK, LoadingSound(rank), [Next]_vars
    PROVE  LoadingSound(rank)'
<1> USE DEF LoadingSound
<1>1. ASSUME NEW v \in States, OpenState(v) PROVE LoadingSound(rank)'
  <2>1. opened'[v] = opened[v] + 1 /\ \A w \in States : w # v => opened'[w] = opened[w]
    BY <1>1 DEF OpenState, TypeOK
  <2>2. \A w \in open' : opened'[w] # 0
    BY <1>1, <2>1 DEF OpenState, TypeOK
  <2>3. \A s \in Scripts : \A m \in Modules : loads'[s][m] = 0 \/ loads'[s][m] = loads[s][m]
    BY <1>1 DEF OpenState
  <2> QED
    BY <1>1, <2>2, <2>3 DEF OpenState
<1>2. ASSUME NEW v \in States, CloseState(v) PROVE LoadingSound(rank)'
  <2>1. \A s \in Scripts : loading'[s] = <<>> \/ loading'[s] = loading[s]
    BY <1>2 DEF CloseState
  <2>2. Rising(rank, <<>>) /\ DOMAIN <<>> = {}
    BY DEF Rising
  <2>3. \A s \in Scripts : /\ Rising(rank, loading'[s])
                          /\ \A i \in DOMAIN loading'[s] : cache[s][loading'[s][i]] = 0
    BY <2>1, <2>2
  <2> QED
    BY <1>2, <2>3 DEF CloseState
<1>3. ASSUME NEW s \in Scripts, NEW m \in Modules, RequireFile(s, m) PROVE LoadingSound(rank)'
  <2>1. loading[s] \in Seq(Modules) /\ (loading[s] # <<>> => m \in Needs[Head(loading[s])])
    BY <1>3 DEF RequireFile, Calls, TypeOK
  <2>2. /\ loading'[s] = <<m>> \o loading[s] /\ cache[s][m] = 0
        /\ \A u \in Scripts : u # s => loading'[u] = loading[u]
    BY <1>3 DEF RequireFile, Cached, TypeOK
  <2>3. /\ Rising(rank, loading'[s])
        /\ \A i \in DOMAIN loading'[s] :
             (i = 1 /\ loading'[s][i] = m)
             \/ (i - 1 \in DOMAIN loading[s] /\ loading'[s][i] = loading[s][i - 1])
    BY <2>1, <2>2, PushRises
  <2>4. \A i \in DOMAIN loading'[s] : cache[s][loading'[s][i]] = 0
    BY <2>2, <2>3
  <2> QED
    BY <1>3, <2>2, <2>3, <2>4 DEF RequireFile
<1>4. ASSUME NEW s \in Scripts, loading[s] # <<>>, loading' = [loading EXCEPT ![s] = Tail(@)]
      PROVE  /\ Head(loading[s]) \in Modules
             /\ \A u \in Scripts : Rising(rank, loading'[u])
             /\ \A u \in Scripts : \A i \in DOMAIN loading'[u] :
                  /\ cache[u][loading'[u][i]] = 0
                  /\ u = s => loading'[u][i] # Head(loading[s])
  <2>1. loading[s] \in Seq(Modules) /\ loading'[s] = Tail(loading[s])
        /\ \A u \in Scripts : u # s => loading'[u] = loading[u]
    BY <1>4 DEF TypeOK
  <2>2. /\ Rising(rank, Tail(loading[s])) /\ Head(loading[s]) \in Modules
        /\ \A i \in DOMAIN Tail(loading[s]) :
             /\ i + 1 \in DOMAIN loading[s] /\ Tail(loading[s])[i] = loading[s][i + 1]
             /\ Tail(loading[s])[i] # Head(loading[s])
    BY <1>4, <2>1, PopRises
  <2>3. ASSUME NEW u \in Scripts, NEW i \in DOMAIN loading'[u]
        PROVE  cache[u][loading'[u][i]] = 0 /\ (u = s => loading'[u][i] # Head(loading[s]))
    <3>1. CASE u = s
      <4>1. i \in DOMAIN Tail(loading[s]) /\ loading'[u][i] = Tail(loading[s])[i]
        BY <2>1, <2>3, <3>1
      <4>2. cache[s][loading[s][i + 1]] = 0
        BY <2>2, <4>1
      <4> QED
        BY <2>2, <3>1, <4>1, <4>2
    <3>2. CASE u # s
      BY <2>1, <2>3, <3>2
    <3> QED
      BY <3>1, <3>2
  <2>4. \A u \in Scripts : Rising(rank, loading'[u])
    BY <2>1, <2>2
  <2> QED
    BY <2>2, <2>3, <2>4
<1>5. ASSUME NEW s \in Scripts, LoadFails(s) PROVE LoadingSound(rank)'
  <2>1. loading[s] # <<>> /\ loading' = [loading EXCEPT ![s] = Tail(@)]
    BY <1>5 DEF LoadFails
  <2>2. /\ Head(loading[s]) \in Modules
        /\ \A u \in Scripts : Rising(rank, loading'[u])
        /\ \A u \in Scripts : \A i \in DOMAIN loading'[u] :
             /\ cache[u][loading'[u][i]] = 0
             /\ u = s => loading'[u][i] # Head(loading[s])
    BY <1>4, <2>1
  <2> QED
    BY <1>5, <2>2 DEF LoadFails
<1>6. ASSUME NEW s \in Scripts, Load(s) PROVE LoadingSound(rank)'
  <2> DEFINE m == Head(loading[s])
  <2>1. /\ m \in Modules /\ \A u \in Scripts : Rising(rank, loading'[u])
        /\ \A u \in Scripts : \A i \in DOMAIN loading'[u] :
             cache[u][loading'[u][i]] = 0 /\ (u = s => loading'[u][i] # m)
    BY <1>4, <1>6 DEF Load
  <2>2. cache[s][m] = 0 /\ loads[s][m] = 0
    <3>1. loading[s] \in Seq(Modules) /\ loading[s] # <<>>
      BY <1>6 DEF Load, TypeOK
    <3>2. 1 \in DOMAIN loading[s] /\ m = loading[s][1]
      BY <3>1
    <3>3. cache[s][m] = 0
      BY <3>2
    <3> QED
      BY <2>1, <3>3
  <2>3. opened[Owner[s]] # 0
    BY <1>6 DEF Load, Run
  <2> HIDE DEF m
  <2>4. /\ cache'[s][m] = opened[Owner[s]] /\ loads'[s][m] = 1
        /\ \A n \in Modules : n # m => cache'[s][n] = cache[s][n] /\ loads'[s][n] = loads[s][n]
        /\ \A u \in Scripts : u # s => cache'[u] = cache[u] /\ loads'[u] = loads[u]
    <3>1. /\ cache' = [cache EXCEPT ![s][m] = opened[Owner[s]]]
          /\ loads' = [loads EXCEPT ![s][m] = IF @ < 2 THEN @ + 1 ELSE @]
      BY <1>6 DEF Load, m
    <3>2. /\ cache \in [Scripts -> [Modules -> 0..MaxOpens]]
          /\ loads \in [Scripts -> [Modules -> 0..2]]
      BY DEF TypeOK
    <3> QED
      BY <2>1, <2>2, <3>1, <3>2
  <2>5. \A u \in Scripts : \A i \in DOMAIN loading'[u] : loading'[u][i] \in Modules
    <3>1. loading' \in [Scripts -> Seq(Modules)]
      <4>1. loading[s] \in Seq(Modules) /\ loading[s] # <<>>
        BY <1>6 DEF Load, TypeOK
      <4>2. Tail(loading[s]) \in Seq(Modules)
        BY <4>1
      <4> QED
        BY <1>6, <4>2 DEF Load, TypeOK
    <3> QED
      BY <3>1
  <2>6. \A u \in Scripts : \A i \in DOMAIN loading'[u] : cache'[u][loading'[u][i]] = 0
    BY <2>1, <2>4, <2>5
  <2>7. \A u \in Scripts : \A n \in Modules : loads'[u][n] = 0 \/ (loads'[u][n] = 1 /\ cache'[u][n] # 0)
    BY <2>1, <2>3, <2>4
  <2>8. open' = open /\ opened' = opened
    BY <1>6 DEF Load
  <2> QED
    BY <2>1, <2>6, <2>7, <2>8
<1>7. UNCHANGED <<opened, open, cache, loading, loads>> => LoadingSound(rank)'
  OBVIOUS
<1>8. CASE UNCHANGED vars
  BY <1>7, <1>8 DEF vars
<1>9. CASE Adds \/ Removes \/ SetsUp \/ Triggers \/ CallsLuau
  <2>1. UNCHANGED <<opened, open, cache, loading, loads>>
    BY <1>9 DEF Adds, Removes, SetsUp, Triggers, CallsLuau, ListenEventLua, ListenEvent, AddListener,
         Unregister, MoveAssign, SetUp, RegisterRequire, RegisterBridge, TriggerEvent, CallListener,
         TriggerEnds, CallLuau, CallNested, CallReturns
  <2> QED
    BY <1>7, <2>1
<1>10. ASSUME NEW s \in Scripts, RequireOriginal(s) \/ \E m \in Modules : RequireCached(s, m)
       PROVE  LoadingSound(rank)'
  BY <1>7, <1>10 DEF RequireOriginal, RequireCached
<1> QED
  BY <1>1, <1>2, <1>3, <1>5, <1>6, <1>8, <1>9, <1>10, KindsOfAction DEF Requires, OpensOrCloses

(* custom_require, when the modules require each other in no circle: a module runs
   at most once on a Lua thread, however deep the modules nest. *)
THEOREM LoadsOnce ==
    ASSUME NEW CONSTANT rank, Ranking(rank)
    PROVE  Spec => []LoadedOnce
<1>1. Init => LoadingSound(rank)
  BY DEF Init, LoadingSound, Rising
<1>2. EInv /\ LoadingSound(rank) /\ [Next]_vars => LoadingSound(rank)'
  BY LoadingKept DEF EInv
<1>3. LoadingSound(rank) => LoadedOnce
  BY DEF LoadingSound, LoadedOnce
<1> QED
  BY <1>1, <1>2, <1>3, Surroundings, PTL DEF Spec
================================================================================
