SPECIFICATION Spec
CONSTANTS
  v1 = v1
  v2 = v2
  s1 = s1
  s2 = s2
  lib = lib
  util = util
  None = None
  States = {v1, v2}
  Scripts = {s1, s2}
  Owner <- MCOwner
  Modules = {lib, util}
  Needs <- MCNeeds
  Events = {e1, e2}
  Slots = {h1, h2}
  Threads = {t1, t2}
  MaxListeners = 2
  MaxOpens = 1
  MaxDepth = 3
CONSTRAINT Apart
SYMMETRY Symmetric
INVARIANTS HandleOwnsListener CalledOnce CallKeepsItsState LoadedOnce
CHECK_DEADLOCK FALSE
