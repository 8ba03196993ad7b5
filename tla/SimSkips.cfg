SPECIFICATION SimSpec
CONSTANTS
  Keys = {k1, k2}
  ZeroKey = k1
  Lengths = {2}
  MinEntries = 1
  MaxEntries = 2
  MaxWait = 3
  BatchSize = 2
  Capacity = 2
  Modulus = 6
  MaxFrames = 3
  MaxMet = 1
  Consumers = {"simulator", "reporter"}
  Values <- Frames
  NoValue <- ZeroFrame
INVARIANTS
  NextFrameIsProcessed
CHECK_DEADLOCK FALSE
