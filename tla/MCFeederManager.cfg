SPECIFICATION FairSpec
CONSTANTS
  Feeders = {local, agent}
  MaxPublish = 1
  MaxAdmin = 3
INVARIANT
  ViewSound
PROPERTY
  AggregateCatchesUp
CHECK_DEADLOCK FALSE
