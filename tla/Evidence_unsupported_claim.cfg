SPECIFICATION Spec
CONSTANTS
  ProfileEvents <- KnownEvents
  ProfilePhases <- KnownPhases
  Profiles <- TwoProfiles
  PhasePlan <- Hold
  Dyeing = "dyeing"
  NoKey = NoKey  GatewayKey = GatewayKey
  AnyRun = AnyRun  NoRange = NoRange  NoRunId = NoRunId  NoLine = NoLine
  Gateway = Gateway  Machine = Machine  RunId = RunId
  Garbage = {noise}
  EndTime = 2
  CycleTimes = {1}
  EnergyEvery = 1
  Readings = {100}
  SignFrom = {1, 4}
  Corruptible = {3}
  Rewritable = {5}
  Claims = {100}
  OtherPhase = "pretreat"
  MaxFaults = 1
INVARIANT ConsistentIsDerivable
CHECK_DEADLOCK FALSE
