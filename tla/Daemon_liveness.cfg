SPECIFICATION FairSpec
CONSTANTS
  m1 = m1  m2 = m2  s1 = s1  s2 = s2
  Machines = {m1}
  Specs = {s1, s2}
  NoSpec = NoSpec
  Registries <- ValidOrRefused
  MaxCrashes = 2
  SlowStop = TRUE
  MaxInstances = 3
  MaxEdits = 1

PROPERTIES StopIsObeyed ReloadIsTaken
CHECK_DEADLOCK FALSE
