SPECIFICATION FairSpec
CONSTANTS
  Status <- MCStatus
  Rc <- MCRc
INVARIANTS
  TypeOK
  OnlyMyQueues
  CommandWhileReady
  DeviceUsable
PROPERTIES
  ProgrammedWhileOff
  InitReturns
