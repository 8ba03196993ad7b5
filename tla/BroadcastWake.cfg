SPECIFICATION SysFairSpec
CONSTANTS
  NumChannels = 1
  QueueDepth = 2
  GroupSizes = {2}
  Window = 1
  ConfigRequests <- WakeRequests
  MaxConfigs = 2
  MaxPulses = 2
  MaxTime = 2
  MaxInterrupts = 2
INVARIANTS
  NoStaleClaim
  LoadedInWindow
  OneGroupPerWake
  NoLostWakeup
  NoInventedPulse
  NoSleepThrough
PROPERTIES
  WakesAreClaimed
  SendersReturn
  PulseIsProcessed
