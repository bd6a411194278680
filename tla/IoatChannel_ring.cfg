SPECIFICATION Spec
CONSTANTS
  RingSize = 4
  DmaMod = 8
  CountMod = 16
  Req = {a, b, c}
  NoReq = NoReq
  NoSlot = NoSlot
  CopyParts = {1, 2}
  FillParts = {0}
SYMMETRY ReqSymmetry
INVARIANTS
  TypeOK
  CompletionExact
  WalkBehindEngine
PROPERTIES
  DescriptorStable
