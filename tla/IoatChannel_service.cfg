SPECIFICATION FairSpec
CONSTANTS
  RingSize = 4
  DmaMod = 8
  CountMod = 8
  Req = {a, b}
  NoReq = NoReq
  NoSlot = NoSlot
  CopyParts = {1, 2}
  FillParts = {0}
PROPERTIES
  ServiceSpec
  EveryRequestAnswered
