SPECIFICATION Spec
CONSTANTS
  QueueSize = 4
  Io = {a, b, c}
  NoIo = NoIo
  Status = {0}
  BadCid = {}
  MaxBadCqe = 0
  MaxNest = 1
INVARIANTS
  NoAbort
CHECK_DEADLOCK FALSE
