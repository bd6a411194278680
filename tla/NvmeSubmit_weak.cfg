SPECIFICATION Spec
CONSTANTS
  PageBlocks = 2
  MaxEntries = 4
  NlbMod = 16
  ListPage = 9
  Vectors <- MCFewVectors
  MaxCommands = 3
  Ordered = FALSE
PROPERTIES
  FetchFresh
