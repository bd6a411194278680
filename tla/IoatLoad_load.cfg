SPECIFICATION FairSpec
CONSTANTS
  Device <- MCDevice
  GroupOf <- MCGroupOf
  DriverOf <- MCDriverOf
  IdOf <- MCIdOf
  Listings <- MCListings
  NoDevice = NoDevice
  RingSize = 4
  CountMod = 16
  DmaMod = 8
  NoReq = NoReq
  NoSlot = NoSlot
  NullAddr = NullAddr
  Junk = Junk
  Tries = 2
  Limits = {0, 1}
  MaxLoads = 2
INVARIANTS
  TypeOK
  FailureReleases
  StartsChannel
  LoadExact
PROPERTIES
  LoadReturns
