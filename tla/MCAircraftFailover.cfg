SPECIFICATION FairFailoverSpec
CONSTANTS
  N = 3
  RecoverySuccesses = 2
PROPERTIES
  FailoverSound
  SettlesOnFirst
CHECK_DEADLOCK FALSE
