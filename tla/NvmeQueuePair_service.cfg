SPECIFICATION FairSpec
CONSTANTS
  QueueSize = 3
  Io = {a, b}
  NoIo = NoIo
  Status = {2}
  BadCid = {3}
  MaxBadCqe = 2
  MaxNest = 1
INVARIANTS
  PhaseTagExact
PROPERTIES
  CqeStable
  ServiceSpec
  EveryIoAnswered
CHECK_DEADLOCK FALSE
