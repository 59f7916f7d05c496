SPECIFICATION Spec
CONSTANTS
  m1 = m1  m2 = m2  s1 = s1  s2 = s2
  Machines = {m1, m2}
  Specs = {s1, s2}
  NoSpec = NoSpec
  Registries <- Floors
  MaxCrashes = 2
  SlowStop = FALSE
  MaxInstances = 3
  MaxEdits = 1

INVARIANTS TypeOK Applied NotLost FailedIsLeftAlone EscapedHaveCrashed
PROPERTY StoppedForCause
CHECK_DEADLOCK FALSE
