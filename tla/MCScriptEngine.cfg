SPECIFICATION EngineFairSpec
CONSTANTS
  a = a
  b = b
  L1 = L1
  L2 = L2
  None = None
  t1 = t1
  t2 = t2
  Contexts = {a, b}
  LuaThreads = {L1, L2}
  Priorities = {2}
  Steppers = {t1}
  Cancellers = {x}
  QueueLimits = {1, 2}
  ThreadOf <- MCThreadOf
  PriorityOf <- MCPriorityOf
  Delayed = {}
  MaxParked = 0
INVARIANTS NobodyLeftWaiting NoStepAfterDrop
PROPERTIES AnsweredOnce EveryRequestAnswered
CHECK_DEADLOCK FALSE
