SPECIFICATION MonSpec
CONSTANTS
  NumChannels = 2
  Clients = {c1}
  Requests <- TypeRequests
  MaxRequests = 2
  RingSize = 1
  BatchSize = 1
  MaxFrames <- OneSender
INVARIANTS
  TypeIsOwn
