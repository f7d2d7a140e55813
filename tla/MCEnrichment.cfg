SPECIFICATION EnrichmentSpec
CONSTANTS
  a1 = a1  a2 = a2  c1 = c1  c2 = c2  p1 = p1  k1 = k1  k2 = k2
  Configurations <- MCConfigurations
  AircraftKeys <- MCAircraftKeys
  Snapshots <- MCSnapshots
  Workers = {"w1"}
  Callers = {"user"}
  QueueSize = 1
  MaxEntries = 1
  DiscoveryEntries = 1
  DiscoveryTTL = 1
  FoundTTLs = {1}
  NotFoundTTL = 1
  ErrorTTL = 1
  StaleTTL = 1
  RequestBudget = 1
  CircuitFailures = 2
  OpenFor = 2
  MaxAttempts = 2
  NoKey = NoKey
  RouteCallsigns = {c1, c2}
  Airports = {p1}
  AirportsOf <- MCAirportsOf
  RouteSnapshots <- MCRouteSnapshots
  RouteCallers = {"user"}
  RouteWorker = "run"
  RouteQueueSize = 1
  AirportQueueSize = 1
  BatchSize = 2
  PrefetchLimit = 1
  PrefetchScanLimit = 2
  RouteTTL = 1
  AirportTTL = 1
  RouteNotFoundTTL = 1
  RouteErrorTTL = 1
  RouteStaleTTL = 1
  MaxRouteEntries = 1
  MaxAirportEntries = 1
  RouteBudget = 1
  MaxConcurrent = 1
  MaxRouteAttempts = 2
  RouteFailures = 1
  RouteOpenFor = 1
  NoCallsign = NoCallsign
  WeatherKeys = {k1, k2}
  Overrides = {k2}
  WeatherTTL = 1
  NegativeTTL = 1
  WeatherErrorTTL = 1
  WeatherStaleTTL = 2
  StationTTL = 3
  WeatherMax = 2
  WeatherBudget = 1
INVARIANTS
  PendingIsWorkedOn
  ProbeIsInFlight
  AdmissionsAccounted
PROPERTIES
  FreshAircraftKept
  WeatherOutageBridged
CHECK_DEADLOCK FALSE
