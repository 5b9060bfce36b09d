SPECIFICATION FairSpec
CONSTANTS
  p = p
  q = q
  heartbeat = heartbeat
  render = render
  None = None
  Names = {p, q}
  Registrars = {r1, r2}
  Removers = {u1}
  Workers = {w1}
  Kinds = {heartbeat, render}
  TargetsOf <- MCTargetsOf
  PriorityOf <- MCPriorityOf
  Periodic = {p}
  MaxId = 2
  CleanupEvery = 2
  MaxThrows = 2
INVARIANTS MapsAgree ToldTheTruth
PROPERTIES RemovesWhatItFound ImplementsTable RetiredForGood DueJobRuns
