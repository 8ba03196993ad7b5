SPECIFICATION ScheduleSpec
CONSTANTS
  NumChannels = 6
  QueueDepth = 1
  GroupSizes = {}
  Window = 0
  ConfigRequests <- ScheduleRequests
  MaxConfigs = 1
  MaxPulses = 13
  MaxTime = 0
INVARIANTS
  TypeOK
  EvenSchedule
