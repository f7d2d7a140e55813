SPECIFICATION Spec
CONSTANTS
  Providers = {readsb, fallback}
  Positions = {here, there}
  NoPosition = NoPosition
  NoProvider = NoProvider
  MaxFrames = 3
  MaxPolls = 2
INVARIANT
  SnapshotsSound
PROPERTY
  CurrentRegressesOnlyWhenOvertaken
CHECK_DEADLOCK FALSE
