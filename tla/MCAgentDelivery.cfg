SPECIFICATION FairSpec
CONSTANTS
  Workers = {w1, w2}
  Requests = {r1, r2}
  Buffer = 1
  JobCapacity = 1
  Skew = 1
  MaxClock = 2
  MaxFrames = 2
  MaxFaults = 2
  None = None
INVARIANT
  DeliverySound
PROPERTIES
  RegistryNeverRegresses
  FreshDeliveryCompletes
CHECK_DEADLOCK FALSE
