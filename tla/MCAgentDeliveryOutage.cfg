SPECIFICATION FairSpec
CONSTANTS
  Workers = {w1}
  Requests = {r1}
  Buffer = 1
  JobCapacity = 1
  Skew = 1
  MaxClock = 2
  MaxFrames = 1
  MaxFaults = 0
  None = None
PROPERTY
  SignedDeliveryCompletes
CHECK_DEADLOCK FALSE
