SPECIFICATION Spec
CONSTANTS
  Capacity = 2
  MaxPackets = 3
  Modulus = 5
  Timeout = 1
  Totals = {2, 4}
  MaxMessages = 2
  MaxTime = 0
INVARIANTS
  OnlyContinuousSent
CHECK_DEADLOCK FALSE
