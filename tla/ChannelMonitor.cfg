SPECIFICATION MonSpec
CONSTANTS
  NumChannels = 2
  Clients = {c1, c2}
  Requests <- ConfigRequests
  MaxRequests = 2
  RingSize = 2
  BatchSize = 2
  MaxFrames <- OneSender
SYMMETRY AnyClient
INVARIANTS
  RecordMatchesDevice
  SuccessIsReal
  QuietRowsAreTrue
  MonitorInOrder
