SPECIFICATION FairSpec
CONSTANTS
  m1 = m1  e1 = e1  e2 = e2  nMqtt = nMqtt  nStdout = nStdout
  mqtt = mqtt  mqtt2 = mqtt2  tty = tty  pipe = pipe
  Machines = {m1}
  Names = {nMqtt, nStdout}
  BatchSize = 2
  Emitters = {e1, e2}
  MachineOf <- OneMachine
  Main = Main
  NoThread = NoThread
  Destinations <- MqttTty
  NameOf <- NamesMqttTty
  Buffered = {}
  Configs <- ListMqttTty
  JoinTimesOut = TRUE
  MaxSeq = 3
  MaxBoots = 2
  MaxFaults = 0

PROPERTY EmittedIsDelivered
CHECK_DEADLOCK FALSE
