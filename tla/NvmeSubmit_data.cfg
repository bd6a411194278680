SPECIFICATION Spec
CONSTANTS
  PageBlocks = 2
  MaxEntries = 4
  NlbMod = 16
  ListPage = 9
  Vectors <- MCVectors
  MaxCommands = 3
  Ordered = TRUE
INVARIANTS
  TypeOK
  TransfersVector
  PagesMapped
PROPERTIES
  FetchFresh
