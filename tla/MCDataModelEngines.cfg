SPECIFICATION FairSpec
CONSTANTS
  edit = edit
  client = client
  d1 = d1
  d2 = d2
  mod = mod
  w1 = w1
  None = None
  Types = {edit, client}
  Addresses = {d1, d2}
  Watchers = {w1, w2}
  Mods = {mod}
  ScriptsFor <- BothTypes
  MaxModels = 2
  MaxEngines = 3
  MaxLapses = 1
  MayFail = TRUE
  MayReuse = FALSE
INVARIANTS MapHoldsRunning OnlyBegunRemain AgainOnlyIfDropped 
PROPERTIES ImplementsSlots  LoneModelHandled
CONSTRAINT InOrder
CHECK_DEADLOCK FALSE
