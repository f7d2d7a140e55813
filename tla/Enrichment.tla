---------------------------- MODULE Enrichment -----------------------------
(***************************************************************************)
(* The lookup services of the bot together, as the configuration switches  *)
(* them on: aircraft from ADSBDB, routes and airports from adsb.lol,       *)
(* weather from aviationweather.gov.  They share the clock.                *)
(***************************************************************************)
EXTENDS AircraftLookup, RouteLookup, WeatherLookup

CONSTANT Configurations   \* the services switched on, and how long to look

VARIABLE config

enrichmentVars == <<clock, config, aircraftVars, routeVars, weatherVars>>

EnrichmentInit ==
  /\ clock = 1
  /\ config \in Configurations
  /\ AircraftInit /\ RouteInit /\ WeatherInit

(* Time passes, and no request outlives its budget.                        *)
Tick ==
  /\ clock < config.until
  /\ AircraftInTime /\ RoutesInTime /\ WeatherInTime
  /\ clock' = clock + 1
  /\ UNCHANGED <<config, aircraftVars, routeVars, weatherVars>>

(* A step of one service leaves the others alone.                          *)
InAircraft(A) == A /\ UNCHANGED <<clock, config, routeVars, weatherVars>>
InRoutes(A) == A /\ UNCHANGED <<clock, config, aircraftVars, weatherVars>>
InWeather(A) == A /\ UNCHANGED <<clock, config, aircraftVars, routeVars>>

EnrichmentNext ==
  \/ Tick
  \/ "adsbdb" \in config.enabled /\ InAircraft(AircraftNext)
  \/ "adsblol" \in config.enabled /\ InRoutes(RouteNext)
  \/ "weather" \in config.enabled /\ InWeather(WeatherNext)

EnrichmentSpec == EnrichmentInit /\ [][EnrichmentNext]_enrichmentVars

-----------------------------------------------------------------------------
WorkedOn == {proc[w].key : w \in {v \in Workers : proc[v].phase # "idle"}}
WorkerKeys(kind) ==
  IF calls[RouteWorker].kind = kind THEN ToSet(calls[RouteWorker].keys) ELSE {}

OnlyThese(q, busy) ==
  /\ q.pending = ToSet(q.queue) \cup busy
  /\ Cardinality(q.pending) = Len(q.queue) + Cardinality(busy)

(***************************************************************************)
(* The pending keys that suppress a second request are exactly the keys    *)
(* that are queued or that a worker has, each once: a key that is dropped  *)
(* from a full queue, rejected by the circuit, failed or answered can be   *)
(* asked for again (service.go Enqueue, worker; routes.go EnqueueRoute,    *)
(* EnqueueAirport, clearPending...).                                       *)
(***************************************************************************)
PendingIsWorkedOn ==
  /\ OnlyThese(admitted, WorkedOn)
  /\ \A v, w \in Workers : v # w /\ proc[v].phase # "idle" => proc[v].key # proc[w].key
  /\ OnlyThese(routeQ, WorkerKeys("route"))
  /\ OnlyThese(airportQ, WorkerKeys("airport"))

(***************************************************************************)
(* A half-open circuit that turns requests away waits for one that is      *)
(* under way: whatever way a probe ends, it never leaves the circuit       *)
(* rejecting forever (circuitBreaker.allow, routeCircuit.allow).           *)
(***************************************************************************)
ProbeIsInFlight ==
  /\ circuit.probing => \E k \in DOMAIN flights : flights[k].probe
  /\ routeCircuit.probing =>
       \E p \in DOMAIN calls : calls[p].phase \in {"wait", "request"} /\ calls[p].probe

(***************************************************************************)
(* The tracker admits an aircraft once per callsign, so what it admitted   *)
(* must not get lost: as long as the aircraft is tracked, its key is       *)
(* pending, was answered, or its loss was counted (dropped, rejected or    *)
(* failed) since it was admitted (discovery.go Observe).                   *)
(***************************************************************************)
AdmissionsAccounted ==
  \A i \in DOMAIN tracker :
    tracker[i].settled \/ <<tracker[i].icao, tracker[i].callsign>> \in admitted.pending

(***************************************************************************)
(* One goroutine at a time fetches a key of ADSBDB and asks the cache      *)
(* again once it may: an error never takes the place of aircraft data that *)
(* has not expired (service.go lookup).                                    *)
(***************************************************************************)
FreshAircraftKept ==
  [][ \A k \in AircraftKeys :
        Fresh(cache, k, clock) /\ EntryOf(cache, k).value = "found" /\ k \in CachedKeys(cache')
          => EntryOf(cache', k).value = "found" ]_enrichmentVars

(***************************************************************************)
(* A METAR bridges an outage of the weather service: no answer is an error *)
(* while the last METAR of the key is young enough to be shown, unless it  *)
(* left the full cache (client.go lookup, stale, store).                   *)
(***************************************************************************)
WeatherOutageBridged ==
  [][ reply' # reply /\ reply'.value = "error" => clock >= usable[reply'.key] ]_enrichmentVars

(***************************************************************************)
(* docs/operations.md:33 says that failures of route and airport lookups   *)
(* serve cached values when available: a route or an airport that may      *)
(* still be shown is not replaced by an error.                             *)
(***************************************************************************)
FailureKeepsCached ==
  [][ /\ \A k \in RouteCallsigns :
           Found(routes, k, clock) /\ EntryOf(routes, k).value = "found" /\ k \in CachedKeys(routes')
             => EntryOf(routes', k).value # "error"
      /\ \A k \in Airports :
           Found(airports, k, clock) /\ EntryOf(airports, k).value = "found" /\ k \in CachedKeys(airports')
             => EntryOf(airports', k).value # "error" ]_enrichmentVars
=============================================================================
