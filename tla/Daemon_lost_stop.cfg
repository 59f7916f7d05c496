SPECIFICATION Spec
CONSTANTS
  m1 = m1  m2 = m2  s1 = s1  s2 = s2
  Machines = {m1}
  Specs = {s1, s2}
  NoSpec = NoSpec
  Registries <- ValidOrRefused
  MaxCrashes = 2
  SlowStop = FALSE
  MaxInstances = 3
  MaxEdits = 2

INVARIANT Owned
CHECK_DEADLOCK FALSE
