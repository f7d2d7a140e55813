SPECIFICATION Spec
CONSTANTS
  Configurations <- MCConfigurations
  MaxCrashes = 1
  Cards = {"dashboard", "leaders"}
  NonceWindow = 1
  NoMessage = NoMessage
  AlertKeys = {k1, k2}
  EmergencyKeys = {e1}
  Schedules = {"daily"}
  Capacity <- MCCapacity
  MaxAttempts = 2
  Cooldown = 2
  DeliveredMax = 1
  DeliveredAge = 2
  PeriodLength = 2
  NoJob = NoJob
  MaxAlerts = 2
  MaxChanges = 2
  Users = {u1, u2}
  MaxGlobal = 2
  MaxPerUser = 1
  ViewTTL = 2
  ConfirmTTL = 1
  HandlerBudget = 2
  OutboxMax = 1
  LogBackoff = 1
  Retention = 1
  NoSession = NoSession
  MaxCases = 2
  MaxGrants = 1
SYMMETRY Symmetric
INVARIANTS
  PendingKeysMatchJobs
  AlertCooldownKept
  PostedOnce
  MarkedMeansPosted
  SessionsCounted
  ConfirmedOnce
PROPERTIES
  ActionWasPermitted
  CasesFollowLifecycle
CHECK_DEADLOCK FALSE
