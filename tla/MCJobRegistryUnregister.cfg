SPECIFICATION Spec
CONSTANTS
  p = p
  q = q
  heartbeat = heartbeat
  render = render
  None = None
  Names = {p}
  Registrars = {r1}
  Removers = {}
  Workers = {w1}
  Kinds = {heartbeat}
  TargetsOf <- MCTargetsOfOne
  PriorityOf <- MCPriorityOfOne
  Periodic = {p}
  MaxId = 1
  CleanupEvery = 2
  MaxThrows = 0
INVARIANT UnregisteredNeverRuns
