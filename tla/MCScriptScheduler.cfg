SPECIFICATION Spec
CONSTANTS
  a = a
  b = b
  c = c
  L1 = L1
  L2 = L2
  None = None
  t1 = t1
  t2 = t2
  Contexts = {a, b, c}
  LuaThreads = {L1, L2}
  Priorities = {0, 1}
  Steppers = {t1, t2}
  Cancellers = {x}
  QueueLimits = {1, 2}
  ThreadOf <- MCThreadOf
  PriorityOf <- MCPriorityOf
  Delayed = {b}
  MaxParked = 0
INVARIANTS UniqueHolder NoLostPromise HeldIsPending CancelledNeverRuns ExecutingCount NothingSurvives
PROPERTY ImplementsLifecycle
SYMMETRY Stepping
CHECK_DEADLOCK FALSE
