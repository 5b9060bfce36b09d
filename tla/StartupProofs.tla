------------------------------ MODULE StartupProofs ------------------------------
(****************************************************************************)
(* Proofs about Startup: what a step finds that begins once the loader is up,    *)
(* for any mods, kinds of job, providers, threads and DataModels.                *)
(****************************************************************************)
EXTENDS Startup, TLAPS

USE StartupAssumption

(* What the loop of a statement goes through. *)
LoopsTyped ==
    /\ phase \in {"directory", "on_load", "native"} => todo \in Seq(Mods)
    /\ phase \in {"hooking", "store"} => todo \in Seq(Kinds)
    /\ phase = "providers" => todo \in Seq(Range(Providers))
    /\ phase = "store" => todo # <<>>

(* Vtables lead to on_job_step only from the constructor of hooking on, and all but
   the last one have their hook stored. *)
HooksInOrder ==
    /\ phase \in {"directory", "on_load", "task_scheduler", "terminated"} => live = {}
    /\ phase = "store" => Head(todo) \in live
    /\ live \subseteq stored \cup (IF phase = "store" THEN {Head(todo)} ELSE {})
    /\ \A s \in Steppers : at[s] \in {"jobs", "trigger", "original"} => kind[s] \in live

(* A step is late only if the script manager is set, and that it stays. *)
LateIsReady == \A s \in Steppers : s \in late => ScriptManagerSet

(* What the constructor of ScriptManager has done, and has left to do. *)
ConstructorDone ==
    /\ phase \notin {"providers", "native", "enable", "running"} => envs = {}
    /\ phase = "providers" => envs \cup Range(todo) = Range(Providers)
    /\ phase \in {"native", "enable", "running"} => envs = Range(Providers)
    /\ phase \notin {"native", "enable", "running"} => native = {}
    /\ phase = "native" => native \cup Range(todo) = Range(mods)
    /\ Up => native = Range(mods) /\ scripts = Scripted
    /\ ~Up => scripts = {} /\ \A d \in Models : executed[d] \in {None, {}}

(* Scripts are triggered for DataModels that the watcher has met. *)
KnownFirst ==
    /\ \A s \in Steppers : at[s] = "trigger" => model[s] \in known
    /\ \A d \in Models : executed[d] # None => d \in known

(* A DataModel that was met late has everything, but for its scripts until they are
   triggered. *)
LateIsServed ==
    \A d \in Models : d \in late =>
        /\ Up /\ d \in known
        /\ globals[d] = Range(Providers)
        /\ executed[d] # None => executed[d] = Scripted

SInv ==
    /\ TypeOK /\ LoopsTyped /\ HooksInOrder /\ LateIsReady
    /\ SurvivesOnceReady /\ ConstructorDone /\ KnownFirst /\ LateIsServed

LEMMA HeadAndTail ==
    ASSUME NEW S, NEW q \in Seq(S), q # <<>>
    PROVE  Head(q) \in S /\ Tail(q) \in Seq(S)
OBVIOUS

(* The first element of a sequence and the rest of it are all of it. *)
LEMMA RangeOfRest ==
    ASSUME NEW S, NEW q \in Seq(S), q # <<>>
    PROVE  /\ Range(q) = {Head(q)} \cup Range(Tail(q))
           /\ Head(q) \in S /\ Tail(q) \in Seq(S)
<1>1. Len(q) \in Nat /\ Len(q) >= 1 /\ Head(q) = q[1]
  OBVIOUS
<1>2. Tail(q) \in Seq(S) /\ Len(Tail(q)) = Len(q) - 1 /\ \A i \in 1..(Len(q) - 1) : Tail(q)[i] = q[i + 1]
  OBVIOUS
<1>3. ASSUME NEW x \in Range(q) PROVE x \in {Head(q)} \cup Range(Tail(q))
  <2>1. PICK i \in 1..Len(q) : x = q[i]
    BY <1>1, <1>3 DEF Range
  <2>2. CASE i = 1
    BY <1>1, <2>1, <2>2
  <2>3. CASE i # 1
    <3>1. i - 1 \in 1..Len(Tail(q)) /\ Tail(q)[i - 1] = x
      BY <1>1, <1>2, <2>1, <2>3
    <3>2. DOMAIN Tail(q) = 1..Len(Tail(q))
      BY <1>2
    <3> QED
      BY <3>1, <3>2 DEF Range
  <2> QED
    BY <2>2, <2>3
<1>4. ASSUME NEW x \in Range(Tail(q)) PROVE x \in Range(q)
  <2>1. PICK i \in 1..(Len(q) - 1) : x = q[i + 1]
    BY <1>1, <1>2, <1>4 DEF Range
  <2> QED
    BY <1>1, <2>1 DEF Range
<1>5. Head(q) \in Range(q)
  BY <1>1 DEF Range
<1> QED
  BY <1>1, <1>2, <1>3, <1>4, <1>5

LEMMA RangeOfEmpty == Range(<<>>) = {}
BY DEF Range

--------------------------------------------------------------------------------
LEMMA InitStarts == ASSUME Init PROVE SInv
<1>1. TypeOK
  BY DEF Init, TypeOK
<1>2. LoopsTyped /\ HooksInOrder /\ LateIsReady /\ SurvivesOnceReady
  BY DEF Init, LoopsTyped, HooksInOrder, LateIsReady, SurvivesOnceReady
<1>3. ConstructorDone /\ LateIsServed
  BY DEF Init, ConstructorDone, LateIsServed, Up
<1>4. KnownFirst
  BY DEF Init, KnownFirst
<1> QED
  BY <1>1, <1>2, <1>3, <1>4 DEF SInv

(* The steps of main: they touch nothing of the steps of Roblox. *)
LEMMA MainTypes == ASSUME SInv, MainNext PROVE TypeOK' /\ LoopsTyped'
<1> USE DEF SInv, TypeOK, LoopsTyped, Main, stepVars
<1>1. CASE RegisterMod
  <2>1. /\ phase = "directory" /\ todo # <<>> /\ todo' = Tail(todo) /\ UNCHANGED phase
        /\ mods' = mods \/ mods' = Append(mods, Head(todo))
        /\ UNCHANGED <<hearing, handlers, mapped, live, stored, native, envs, scripts, stepVars>>
    BY <1>1 DEF RegisterMod, Loop
  <2>2. Head(todo) \in Mods /\ todo' \in Seq(Mods)
    <3>1. todo \in Seq(Mods) /\ todo # <<>>
      BY <2>1
    <3> QED
      BY <2>1, <3>1, HeadAndTail
  <2>3. mods' \in Seq(Mods)
    <3>1. mods \in Seq(Mods) /\ Append(mods, Head(todo)) \in Seq(Mods)
      BY <2>2
    <3> QED
      BY <2>1, <3>1
  <2> QED
    BY <2>1, <2>2, <2>3
<1>2. CASE LoadMods
  BY <1>2 DEF LoadMods, EndLoop
<1>3. CASE OnLoad
  BY <1>3, RangeOfRest DEF OnLoad, Loop
<1>4. CASE OnLoadThrows
  BY <1>4 DEF OnLoadThrows
<1>5. CASE SetEventManager
  <2>1. Range(mods) \subseteq Mods
    BY DEF Range
  <2> QED
    BY <1>5, <2>1 DEF SetEventManager, EndLoop
<1>6. CASE CreateScheduler
  BY <1>6 DEF CreateScheduler, HooksInOrder
<1>7. CASE SkipKind
  BY <1>7, RangeOfRest DEF SkipKind, Loop
<1>8. CASE HookKind
  BY <1>8, RangeOfRest DEF HookKind, Found
<1>9. CASE StoreHook
  BY <1>9, RangeOfRest DEF StoreHook, Stored, HooksInOrder
<1>10. CASE PublishHooking
  BY <1>10 DEF PublishHooking, EndLoop
<1>11. CASE PublishScriptManager
  BY <1>11 DEF PublishScriptManager
<1>12. CASE RegisterProvider
  BY <1>12, RangeOfRest DEF RegisterProvider, Registered, Loop
<1>13. CASE TellMods
  BY <1>13 DEF TellMods, EndLoop
<1>14. CASE OnScriptManagerLoad
  BY <1>14, RangeOfRest DEF OnScriptManagerLoad, Loop
<1>15. CASE LoadModScripts
  BY <1>15 DEF LoadModScripts
<1>16. CASE Enable
  BY <1>16 DEF Enable
<1> QED
  BY <1>1, <1>2, <1>3, <1>4, <1>5, <1>6, <1>7, <1>8, <1>9, <1>10, <1>11, <1>12, <1>13,
     <1>14, <1>15, <1>16 DEF MainNext

LEMMA MainHooks == ASSUME SInv, MainNext PROVE HooksInOrder' /\ LateIsReady' /\ SurvivesOnceReady'
<1> USE DEF SInv, HooksInOrder, LateIsReady, SurvivesOnceReady, Main, stepVars,
            ScriptManagerSet, HookingSet
<1>1. CASE RegisterMod
  BY <1>1 DEF RegisterMod, Loop
<1>2. CASE LoadMods
  BY <1>2 DEF LoadMods, EndLoop
<1>3. CASE OnLoad
  BY <1>3 DEF OnLoad, Loop
<1>4. CASE OnLoadThrows
  BY <1>4 DEF OnLoadThrows
<1>5. CASE SetEventManager
  BY <1>5 DEF SetEventManager, EndLoop
<1>6. CASE CreateScheduler
  BY <1>6 DEF CreateScheduler
<1>7. CASE SkipKind
  BY <1>7 DEF SkipKind, Loop
<1>8. CASE HookKind
  BY <1>8 DEF HookKind
<1>9. CASE StoreHook
  BY <1>9 DEF StoreHook, Stored
<1>10. CASE PublishHooking
  BY <1>10 DEF PublishHooking, EndLoop
<1>11. CASE PublishScriptManager
  BY <1>11 DEF PublishScriptManager
<1>12. CASE RegisterProvider
  BY <1>12 DEF RegisterProvider, Loop
<1>13. CASE TellMods
  BY <1>13 DEF TellMods, EndLoop
<1>14. CASE OnScriptManagerLoad
  BY <1>14 DEF OnScriptManagerLoad, Loop
<1>15. CASE LoadModScripts
  BY <1>15 DEF LoadModScripts
<1>16. CASE Enable
  BY <1>16 DEF Enable
<1> QED
  BY <1>1, <1>2, <1>3, <1>4, <1>5, <1>6, <1>7, <1>8, <1>9, <1>10, <1>11, <1>12, <1>13,
     <1>14, <1>15, <1>16 DEF MainNext

(* Each loop of the constructor, and of load_mods, moves one element from what is
   left to what is done. *)
LEMMA MainConstructs == ASSUME SInv, MainNext PROVE ConstructorDone' /\ LateIsServed'
<1> USE DEF SInv, ConstructorDone, LateIsServed, Up, Main, stepVars
<1>1. CASE RegisterMod
  BY <1>1 DEF RegisterMod, Loop
<1>2. CASE LoadMods
  BY <1>2 DEF LoadMods, EndLoop
<1>3. CASE OnLoad
  BY <1>3 DEF OnLoad, Loop
<1>4. CASE OnLoadThrows
  BY <1>4 DEF OnLoadThrows
<1>5. CASE SetEventManager
  BY <1>5 DEF SetEventManager, EndLoop
<1>6. CASE CreateScheduler
  BY <1>6 DEF CreateScheduler
<1>7. CASE SkipKind
  BY <1>7 DEF SkipKind, Loop
<1>8. CASE HookKind
  BY <1>8 DEF HookKind
<1>9. CASE StoreHook
  BY <1>9 DEF StoreHook
<1>10. CASE PublishHooking
  BY <1>10 DEF PublishHooking, EndLoop
<1>11. CASE PublishScriptManager
  BY <1>11 DEF PublishScriptManager
<1>12. CASE RegisterProvider
  <2>1. Range(todo) = {Head(todo)} \cup Range(todo')
    BY <1>12, RangeOfRest DEF RegisterProvider, Loop, LoopsTyped
  <2> QED
    BY <1>12, <2>1 DEF RegisterProvider, Registered, Loop
<1>13. CASE TellMods
  BY <1>13, RangeOfEmpty DEF TellMods, EndLoop
<1>14. CASE OnScriptManagerLoad
  <2>1. Range(todo) = {Head(todo)} \cup Range(todo')
    BY <1>14, RangeOfRest DEF OnScriptManagerLoad, Loop, LoopsTyped
  <2> QED
    BY <1>14, <2>1 DEF OnScriptManagerLoad, Loop
<1>15. CASE LoadModScripts
  BY <1>15, RangeOfEmpty DEF LoadModScripts, Ready
<1>16. CASE Enable
  BY <1>16 DEF Enable
<1> QED
  BY <1>1, <1>2, <1>3, <1>4, <1>5, <1>6, <1>7, <1>8, <1>9, <1>10, <1>11, <1>12, <1>13,
     <1>14, <1>15, <1>16 DEF MainNext

--------------------------------------------------------------------------------
(* The steps of Roblox's threads: they touch nothing of what main builds. *)
LEMMA StepTypes ==
    ASSUME SInv, NEW s \in Steppers, Step(s)
    PROVE  TypeOK' /\ LoopsTyped' /\ HooksInOrder' /\ LateIsReady' /\ SurvivesOnceReady'
<1> USE DEF SInv, TypeOK, LoopsTyped, HooksInOrder, LateIsReady, SurvivesOnceReady,
            mainVars, ScriptManagerSet, HookingSet
<1>1. ASSUME NEW k \in Kinds, OnJobStep(s, k)
      PROVE  TypeOK' /\ LoopsTyped' /\ HooksInOrder' /\ LateIsReady' /\ SurvivesOnceReady'
  BY <1>1 DEF OnJobStep
<1>2. ASSUME NEW d \in Models, Watch(s, d)
      PROVE  TypeOK' /\ LoopsTyped' /\ HooksInOrder' /\ LateIsReady' /\ SurvivesOnceReady'
  BY <1>2 DEF Watch
<1>3. CASE NothingNew(s)
  BY <1>3 DEF NothingNew
<1>4. CASE Trigger(s)
  <2>1. /\ at[s] = "trigger" /\ at' = [at EXCEPT ![s] = IF ScriptManagerSet THEN "original" ELSE "lost"]
        /\ UNCHANGED <<mainVars, kind, model, late, known, globals>>
    BY <1>4 DEF Trigger
  <2>2. TypeOK'
    <3>1. at' \in [Steppers -> {"idle", "jobs", "trigger", "original", "lost"}]
      BY <2>1
    <3>2. executed' \in [Models -> {None} \cup SUBSET Mods]
      BY <1>4 DEF Trigger
    <3> QED
      BY <2>1, <3>1, <3>2
  <2>3. LoopsTyped'
    BY <2>1
  <2>4. HooksInOrder' /\ LateIsReady' /\ SurvivesOnceReady'
    BY <2>1
  <2> QED
    BY <2>2, <2>3, <2>4
<1>5. CASE CallOriginal(s)
  BY <1>5 DEF CallOriginal
<1> QED
  BY <1>1, <1>2, <1>3, <1>4, <1>5 DEF Step

LEMMA KnownStep == ASSUME SInv, Next PROVE KnownFirst'
<1> USE DEF SInv, KnownFirst
<1>1. CASE MainNext
  <2>1. UNCHANGED stepVars
    BY <1>1 DEF MainNext, Main, RegisterMod, LoadMods, OnLoad, OnLoadThrows, SetEventManager,
         CreateScheduler, SkipKind, HookKind, StoreHook, PublishHooking, PublishScriptManager,
         RegisterProvider, TellMods, OnScriptManagerLoad, LoadModScripts, Enable
  <2> QED
    BY <2>1 DEF stepVars
<1>2. ASSUME NEW s \in Steppers, Step(s) PROVE KnownFirst'
  <2>1. ASSUME NEW k \in Kinds, OnJobStep(s, k) PROVE KnownFirst'
    BY <2>1 DEF OnJobStep, TypeOK
  <2>2. ASSUME NEW d \in Models, Watch(s, d) PROVE KnownFirst'
    BY <2>2 DEF Watch, TypeOK
  <2>3. CASE NothingNew(s)
    BY <2>3 DEF NothingNew, TypeOK
  <2>4. CASE Trigger(s)
    <3>1. /\ at[s] = "trigger" /\ UNCHANGED <<model, known>>
          /\ \A r \in Steppers : at'[r] = "trigger" => at[r] = "trigger"
      BY <2>4 DEF Trigger, TypeOK
    <3>2. \A d \in Models : executed'[d] = executed[d] \/ d = model[s]
      BY <2>4 DEF Trigger, TypeOK
    <3> QED
      BY <3>1, <3>2
  <2>5. CASE CallOriginal(s)
    BY <2>5 DEF CallOriginal, TypeOK
  <2> QED
    BY <1>2, <2>1, <2>2, <2>3, <2>4, <2>5 DEF Step
<1> QED
  BY <1>1, <1>2 DEF Next

LEMMA StepServes ==
    ASSUME SInv, NEW s \in Steppers, Step(s)
    PROVE  ConstructorDone' /\ LateIsServed'
<1> USE DEF SInv, ConstructorDone, LateIsServed, Up, mainVars
<1>1. ASSUME NEW k \in Kinds, OnJobStep(s, k) PROVE ConstructorDone' /\ LateIsServed'
  BY <1>1 DEF OnJobStep
<1>2. ASSUME NEW d \in Models, Watch(s, d) PROVE ConstructorDone' /\ LateIsServed'
  <2>1. /\ d \notin known /\ known' = known \cup {d} /\ globals' = [globals EXCEPT ![d] = envs]
        /\ late' = (IF Up THEN late \cup {d} ELSE late)
        /\ UNCHANGED <<mainVars, executed>>
    BY <1>2 DEF Watch
  <2>2. ConstructorDone'
    BY <2>1
  <2>3. ASSUME NEW e \in Models, e \in late'
        PROVE  Up /\ e \in known' /\ globals'[e] = Range(Providers)
               /\ (executed[e] # None => executed[e] = Scripted)
    <3>1. CASE e = d
      BY <2>1, <2>3, <3>1 DEF TypeOK, KnownFirst
    <3>2. CASE e # d
      BY <2>1, <2>3, <3>2 DEF TypeOK
    <3> QED
      BY <3>1, <3>2
  <2> QED
    BY <2>1, <2>2, <2>3
<1>3. CASE NothingNew(s)
  BY <1>3 DEF NothingNew
<1>4. CASE Trigger(s)
  <2>1. /\ \/ executed' = executed
           \/ executed' = [executed EXCEPT ![model[s]] = scripts]
        /\ UNCHANGED <<mainVars, late, known, globals>>
    BY <1>4 DEF Trigger
  <2>2. \A d \in Models : executed'[d] = executed[d] \/ executed'[d] = scripts
    BY <2>1 DEF TypeOK
  <2>3. ConstructorDone'
    BY <2>1, <2>2
  <2>4. LateIsServed'
    BY <2>1, <2>2
  <2> QED
    BY <2>3, <2>4
<1>5. CASE CallOriginal(s)
  BY <1>5 DEF CallOriginal
<1> QED
  BY <1>1, <1>2, <1>3, <1>4, <1>5 DEF Step

LEMMA StutterStarts == ASSUME SInv, UNCHANGED vars PROVE SInv'
BY DEF SInv, TypeOK, LoopsTyped, HooksInOrder, LateIsReady, SurvivesOnceReady, ConstructorDone,
       KnownFirst, LateIsServed, Up, ScriptManagerSet, HookingSet, vars

--------------------------------------------------------------------------------
(* The inductive invariant: how far main is, what it has built by then, and what the
   steps on their way may rely on. *)
THEOREM Starting == Spec => []SInv
<1>1. Init => SInv
  BY InitStarts
<1>2. SInv /\ [Next]_vars => SInv'
  <2>1. SInv /\ MainNext => SInv'
    BY MainTypes, MainHooks, MainConstructs, KnownStep DEF SInv, Next
  <2>2. SInv /\ (\E s \in Steppers : Step(s)) => SInv'
    BY StepTypes, StepServes, KnownStep DEF SInv, Next
  <2> QED
    BY <2>1, <2>2, StutterStarts DEF Next
<1> QED
  BY <1>1, <1>2, PTL DEF Spec

(* Every variable keeps its type. *)
THEOREM StartupTypes == Spec => []TypeOK
<1>1. SInv => TypeOK
  BY DEF SInv
<1> QED
  BY <1>1, Starting, PTL

(* No step of Roblox that begins once g_script_manager is set meets a null pointer. *)
THEOREM StepsSurvive == Spec => []SurvivesOnceReady
<1>1. SInv => SurvivesOnceReady
  BY DEF SInv
<1> QED
  BY <1>1, Starting, PTL

(* A DataModel met when load_mod_scripts is through is served in full. *)
THEOREM LateModelsServed == Spec => []ServedOnceLoaded
<1>1. SInv => ServedOnceLoaded
  BY DEF SInv, LateIsServed, ServedOnceLoaded, TypeOK
<1> QED
  BY <1>1, Starting, PTL

(* Scripts run only after every on_script_manager_load. *)
THEOREM NativeModsFirst == Spec => []NativeFirst
<1>1. SInv => NativeFirst
  BY DEF SInv, ConstructorDone, NativeFirst
<1> QED
  BY <1>1, Starting, PTL
================================================================================
