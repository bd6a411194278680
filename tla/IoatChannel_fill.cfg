SPECIFICATION Spec
CONSTANTS
  RingSize = 4
  DmaMod = 8
  CountMod = 8
  Req = {a}
  NoReq = NoReq
  NoSlot = NoSlot
  CopyParts = {1}
  FillParts = {0}
PROPERTIES
  RefusedOnlyWhenFull
