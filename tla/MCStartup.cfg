SPECIFICATION Spec
CONSTANTS
  m1 = m1
  m2 = m2
  heartbeat = heartbeat
  waiting = waiting
  require = require
  bridge = bridge
  None = None
  Directory <- MCDirectory
  Disabled = {m2}
  Scripted = {m1, m2}
  JobKinds <- MCJobKinds
  Watched = waiting
  Providers <- MCProviders
  Steppers = {s1, s2}
  Models = {d1, d2}
INVARIANTS SurvivesOnceReady ServedOnceLoaded NativeFirst
CHECK_DEADLOCK FALSE
