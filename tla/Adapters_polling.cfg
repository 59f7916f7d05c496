SPECIFICATION Spec
CONSTANTS
  MaxDelay = 4
  Window = 1
  Channels = {"flow", "temp"}
  NoBlock = NoBlock
  Mappings <- TwoMaps
  RegNames = {"state", "parts", "flow", "level", "far"}
  WordValues = {0, 7}
  TidModulus = 5
  NoValue = NoValue
  MaxTime = 3
  MaxFaults = 2
  Patterns <- Profile
  SerialLines = {"TEMP", "ALARM", "KWH"}
  SampleValues <- BelowAndAbove
  NoPart = NoPart
  MaxLines = 5
  MaxMishaps = 3
  SampleAddresses <- Boundaries
  SampleWords <- EdgeWords
INVARIANTS HealthHonest  SamplesCounted StoryUnbroken
PROPERTIES Attribution BlocksSane
CHECK_DEADLOCK FALSE
