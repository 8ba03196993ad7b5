SPECIFICATION FairSpec
CONSTANTS
  HeaderSize = 2
  Capacity = 4
  Lengths = {0, 1, 2, 3}
  StreamSize = 6
INVARIANTS
  TypeOK
  RoomToReceive
  SplitIndependent
PROPERTIES
  AllDelivered
CHECK_DEADLOCK FALSE
