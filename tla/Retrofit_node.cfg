SPECIFICATION Spec
CONSTANTS
  RING_CAPACITY = 2
  Message <- NodeMessages
  NoMessage = NoMessage
  ENERGY_INTERVAL = 1
  MaxMessages = 4
  MaxFaults = 2
INVARIANTS Accounted OrderKept CopiesBounded DropsSurfaced
CHECK_DEADLOCK FALSE
