SPECIFICATION Spec
CONSTANTS
  QueueSize = 3
  Io = {a, b, c}
  NoIo = NoIo
  Status = {0, 129}
  BadCid = {}
  MaxBadCqe = 0
  MaxNest = 2
SYMMETRY IoSymmetry
INVARIANTS
  TypeOK
  SqNeverOverrun
  DeviceOwnsRequest
  NoCidConflict
  CqHasRoom
  InflightExact
  AbortOnlyWhenFull
PROPERTIES
  ServiceSpec
CHECK_DEADLOCK FALSE
