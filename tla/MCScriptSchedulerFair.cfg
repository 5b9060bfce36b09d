SPECIFICATION FairSpec
CONSTANTS
  a = a
  b = b
  c = c
  L1 = L1
  L2 = L2
  None = None
  t1 = t1
  t2 = t2
  Contexts = {a, b, c}
  LuaThreads = {L1, L2}
  Priorities = {0}
  Steppers = {t1}
  Cancellers = {x}
  QueueLimits = {3}
  ThreadOf <- MCThreadOfFair
  PriorityOf <- MCSamePriority
  Delayed = {b}
  MaxParked = 1
PROPERTIES ImmediateFifo Settles
CHECK_DEADLOCK FALSE
