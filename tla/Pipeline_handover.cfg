SPECIFICATION Spec
CONSTANTS
  m1 = m1  e1 = e1  e2 = e2  nMqtt = nMqtt  nStdout = nStdout
  mqtt = mqtt  mqtt2 = mqtt2  tty = tty  pipe = pipe
  Machines = {m1}
  Names = {nMqtt, nStdout}
  BatchSize = 2
  Emitters = {e1, e2}
  MachineOf <- OneMachine
  Main = Main
  NoThread = NoThread
  Destinations <- MqttPipe
  NameOf <- NamesMqttPipe
  Buffered = {pipe}
  Configs <- ListMqttOrPipe
  JoinTimesOut = TRUE
  MaxSeq = 3
  MaxBoots = 2
  MaxFaults = 1
INVARIANTS TypeOK IInv AckedIsDelivered DuplicateWindow KeysUnique GapsAreDeadLetters
PROPERTIES CursorMonotone LateOnlyAfterGivingUp PruneOnlyDelivered ImplementsContract
CHECK_DEADLOCK FALSE
