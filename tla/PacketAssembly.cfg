SPECIFICATION Spec
CONSTANTS
  Capacity = 2
  MaxPackets = 3
  Modulus = 5
  Timeout = 1
  Totals = {1, 2, 3, 4, 7}
  MaxMessages = 3
  MaxTime = 2
INVARIANTS
  TypeOK
  BufferInBounds
  FullRuns
  WholeMessages
  NoStaleJoin
  WrittenOnce
CHECK_DEADLOCK FALSE
