SPECIFICATION Spec
CONSTANTS
  f1 = f1  f2 = f2  p1 = p1  p2 = p2  p3 = p3  a1 = a1  a2 = a2  a3 = a3  c1 = c1  c2 = c2
  Feeders = {f1, f2}
  Local = f1
  Sources = {"aircraft"}
  Pollers = {p1, p2, p3}
  FeederOf <- MCFeederOf
  Polls <- MCPolls
  Aircraft = {a1, a2, a3}
  Deployments <- MCDeployments
  Listed <- MCListed
  Centers = {c1, c2}
  NoCenter = NoCenter
  CustomURL = FALSE
  Cooldown = 5
  StaleAfter = 5
  Retention = 5
  MaxTracks = 2
  MaxTracksGlobal = 2
  EventLimit = 2
  MaxPublished = 2
  MaxChanges = 1
  NotSeen = NotSeen
  NoTrack = NoTrack
INVARIANTS
  InterestingAnnouncedOnce
  OutdatedReferenceFetched
  TracksBounded
  ActivityIsNearby
PROPERTIES
  RecoveryIsStable
  MovementCooldownKept
  ThreeConsecutiveObservations
CHECK_DEADLOCK FALSE
