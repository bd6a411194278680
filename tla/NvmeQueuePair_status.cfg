SPECIFICATION Spec
CONSTANTS
  QueueSize = 3
  Io = {a}
  NoIo = NoIo
  Status = {0, 256}
  BadCid = {}
  MaxBadCqe = 0
  MaxNest = 1
PROPERTIES
  ServiceSpec
CHECK_DEADLOCK FALSE
