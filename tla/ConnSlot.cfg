SPECIFICATION FairSpec
CONSTANTS
  Uploads = {upload}
  Downloads = {download}
  Conns = {c1, c2}
  Fds = {f1, f2}
  MaxBatches = 1
  NoFd = NoFd
  NoConn = NoConn
INVARIANTS
  OwnDescriptor
  SlotNamesCurrent
  ReplacedAreDown
  OneProducer
PROPERTIES
  ReplacedUploadCloses
