SPECIFICATION Spec
CONSTANTS
  a1 = a1  exact = exact  radius = radius  owner = owner  first = first
  local = local  remote = remote  t1 = t1  t2 = t2  w1 = w1
  Aircraft = {a1}
  Scopes = {local, remote}
  Authority = {local}
  Rules = {exact, radius, owner, first}
  InitialRules <- MCInitialRules
  MaxChanges = 2
  ScopeOf <- MCScopeOf
  Kind <- MCKind
  Minimum <- MCMinimum
  Cooldown <- MCCooldown
  Threads = {t1, t2}
  ThreadScope <- MCThreadScope
  Workers = {w1}
  Snapshots <- MCSnapshots
  MinimumSeenRetention = 1
  StateRetention = 1
  SeenCap = 1
  StateCap = 1
  MaxClock = 3
  MaxQueue = 1
  NoRecord = NoRecord
  NotSeen = NotSeen
INVARIANTS
  EmergencyAnnouncedOnce
  ReloadNotLost
  StaleRuleStateCleared
  RowsCurrent
PROPERTY
  CooldownKept
CHECK_DEADLOCK FALSE
