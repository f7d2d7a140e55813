---------------------------- MODULE RouteLookup ----------------------------
(***************************************************************************)
(* Routes and airports from adsb.lol (enrichment/routes.go).  One worker   *)
(* takes a batch of callsigns or one airport from two bounded queues;      *)
(* Discord handlers look up what is not cached themselves.  Handlers share *)
(* one request per key, the worker does not share: it and a handler may    *)
(* ask for one key at the same time.  A caller stands for the handler that *)
(* leads.  A call is a route or an airport key with its kind.              *)
(***************************************************************************)
EXTENDS LookupCache, Folds

CONSTANTS
  RouteCallsigns, Airports,   \* normalised callsigns, ICAO airport codes
  AirportsOf,                 \* the airports on the route of a callsign
  RouteSnapshots,             \* sequences of aircraft that are published
  RouteCallers, RouteWorker,
  RouteQueueSize, AirportQueueSize, BatchSize,
  PrefetchLimit, PrefetchScanLimit,
  RouteTTL, AirportTTL, RouteNotFoundTTL, RouteErrorTTL, RouteStaleTTL,
  MaxRouteEntries, MaxAirportEntries,
  RouteBudget, MaxConcurrent, MaxRouteAttempts, RouteFailures, RouteOpenFor,
  NoCallsign                  \* a callsign that does not normalise

ASSUME RouteAssumption ==
  /\ {RouteQueueSize, AirportQueueSize, BatchSize, PrefetchLimit, RouteTTL, AirportTTL,
      RouteNotFoundTTL, RouteErrorTTL, MaxRouteEntries, MaxAirportEntries, RouteBudget,
      MaxConcurrent, MaxRouteAttempts, RouteFailures, RouteOpenFor} \subseteq Nat \ {0}
  /\ PrefetchScanLimit >= PrefetchLimit
  /\ RouteWorker \notin RouteCallers
  /\ \A snapshot \in RouteSnapshots :
       /\ snapshot \in Seq(ToSet(snapshot))
       /\ \A i \in DOMAIN snapshot : snapshot[i].callsign \in RouteCallsigns \cup {NoCallsign}

VARIABLES
  routes, airports,          \* the two caches
  routeQ, airportQ,          \* the queues with their pending keys
  routeCircuit,
  calls,                     \* what the worker and every caller are at
  cursor,                    \* prefetchCursor
  walk                       \* the snapshot Prefetch walks, and how far it is

routeVars == <<routes, airports, routeQ, airportQ, routeCircuit, calls, cursor, walk>>

NoWalk == [over |-> <<>>, examined |-> 0, queued |-> 0]

(* A call: its kind, the keys it was given, those it asks for, and the     *)
(* state of its request.                                                   *)
NoCall == [phase |-> "idle", kind |-> "route", keys |-> <<>>, missing |-> {},
           probe |-> FALSE, attempt |-> 0, deadline |-> 0]

RouteInit ==
  /\ routes = <<>> /\ airports = <<>>
  /\ routeQ = [queue |-> <<>>, pending |-> {}]
  /\ airportQ = [queue |-> <<>>, pending |-> {}]
  /\ routeCircuit = Closed
  /\ calls = [p \in RouteCallers \cup {RouteWorker} |-> NoCall]
  /\ cursor = 0 /\ walk = NoWalk

-----------------------------------------------------------------------------
(* EnqueueRoute and EnqueueAirport, on a cache and its queue.              *)
Asked(s, k, size) ==
  [cache |-> AfterGet(s.cache, k, clock),
   q     |-> IF Fresh(s.cache, k, clock) THEN s.q
             ELSE Queued(s.q, k, size)]

(* Prefetch walks the snapshot from the cursor, round the end, until it    *)
(* has queued its share or seen its share; the worker goes on meanwhile.   *)
HasShare(w) ==
  w.queued >= PrefetchLimit \/ w.examined >= PrefetchScanLimit \/ w.examined >= Len(w.over)

Examined(w) ==
  LET aircraft == w.over[((cursor + w.examined) % Len(w.over)) + 1]
      skipped == ~aircraft.position \/ aircraft.callsign = NoCallsign
      s == Asked([cache |-> routes, q |-> routeQ], aircraft.callsign, RouteQueueSize)
      next == [w EXCEPT !.examined = @ + 1,
                        !.queued = @ + IF skipped \/ s.q = routeQ THEN 0 ELSE 1]
  IN  /\ IF skipped THEN UNCHANGED <<routes, routeQ>>
         ELSE routes' = s.cache /\ routeQ' = s.q
      /\ IF HasShare(next)
         THEN walk' = NoWalk /\ cursor' = (cursor + next.examined) % Len(w.over)
         ELSE walk' = next /\ UNCHANGED cursor
      /\ UNCHANGED <<airports, airportQ, routeCircuit, calls>>

Prefetch(snapshot) ==
  walk = NoWalk /\ snapshot # <<>> /\ Examined([NoWalk EXCEPT !.over = snapshot])
PrefetchNext == walk # NoWalk /\ Examined(walk)

(* A handler: CachedRoute; what is not found is enqueued and looked up.    *)
RouteCommand(c, k) ==
  /\ calls[c].phase = "idle"
  /\ IF Found(routes, k, clock)
     THEN routes' = AfterGet(routes, k, clock) /\ UNCHANGED <<routeQ, calls>>
     ELSE LET s == Asked([cache |-> routes, q |-> routeQ], k, RouteQueueSize) IN
          /\ routes' = s.cache /\ routeQ' = s.q
          /\ calls' = [calls EXCEPT ![c] = [NoCall EXCEPT !.phase = "lookup", !.keys = <<k>>]]
  /\ UNCHANGED <<airports, airportQ, routeCircuit, cursor, walk>>

(* CachedAirport: a stale airport is shown, and queued again.              *)
AirportCommand(c, k) ==
  /\ calls[c].phase = "idle"
  /\ IF Found(airports, k, clock) /\ ~Stale(airports, k, clock)
     THEN airports' = AfterGet(airports, k, clock) /\ UNCHANGED <<airportQ, calls>>
     ELSE LET s == Asked([cache |-> airports, q |-> airportQ], k, AirportQueueSize) IN
          /\ airports' = s.cache /\ airportQ' = s.q
          /\ calls' = IF Found(airports, k, clock) THEN calls
                      ELSE [calls EXCEPT ![c] = [NoCall EXCEPT !.phase = "lookup", !.kind = "airport", !.keys = <<k>>]]
  /\ UNCHANGED <<routes, routeQ, routeCircuit, cursor, walk>>

(* LookupRoute and LookupAirport: cache first, a stale value is returned   *)
(* and queued; a key that another handler fetches is left to it.           *)
LookupRoute(c) ==
  LET k == calls[c].keys[1]
      isRoute == calls[c].kind = "route"
      cache == IF isRoute THEN routes ELSE airports
      q == IF isRoute THEN routeQ ELSE airportQ
      asked == Asked([cache |-> cache, q |-> q], k, IF isRoute THEN RouteQueueSize ELSE AirportQueueSize)
      hit == Found(cache, k, clock)
      led == \E d \in RouteCallers \ {c} :
               calls[d].phase # "lookup" /\ calls[d].kind = calls[c].kind /\ calls[d].keys = <<k>>
  IN  /\ calls[c].phase = "lookup"
      /\ calls' = [calls EXCEPT ![c] = IF hit \/ led THEN NoCall ELSE [@ EXCEPT !.phase = "fetch"]]
      /\ IF isRoute
         THEN /\ routes' = asked.cache
              /\ routeQ' = IF hit THEN asked.q ELSE routeQ
              /\ UNCHANGED <<airports, airportQ>>
         ELSE /\ airports' = asked.cache
              /\ airportQ' = IF hit THEN asked.q ELSE airportQ
              /\ UNCHANGED <<routes, routeQ>>
      /\ UNCHANGED <<routeCircuit, cursor, walk>>

-----------------------------------------------------------------------------
(* Run: the worker takes an airport, or the first callsign of a batch.     *)
TakeAirport ==
  /\ calls[RouteWorker].phase = "idle"
  /\ airportQ.queue # <<>>
  /\ calls' = [calls EXCEPT ![RouteWorker] =
                 [NoCall EXCEPT !.phase = "fetch", !.kind = "airport", !.keys = <<Head(airportQ.queue)>>]]
  /\ airportQ' = [airportQ EXCEPT !.queue = Tail(@)]
  /\ UNCHANGED <<routes, airports, routeQ, routeCircuit, cursor, walk>>

(* collectRouteBatch: until the batch is full or BatchWait is over.        *)
TakeRoute ==
  /\ calls[RouteWorker].phase \in {"idle", "collect"}
  /\ Len(calls[RouteWorker].keys) < BatchSize
  /\ routeQ.queue # <<>>
  /\ calls' = [calls EXCEPT ![RouteWorker] =
                 [NoCall EXCEPT !.phase = "collect", !.keys = Append(calls[RouteWorker].keys, Head(routeQ.queue))]]
  /\ routeQ' = [routeQ EXCEPT !.queue = Tail(@)]
  /\ UNCHANGED <<routes, airports, airportQ, routeCircuit, cursor, walk>>

BatchCollected ==
  /\ calls[RouteWorker].phase = "collect"
  /\ calls' = [calls EXCEPT ![RouteWorker].phase = "fetch"]
  /\ UNCHANGED <<routes, airports, routeQ, airportQ, routeCircuit, cursor, walk>>

(* The end of a fetch: the worker has its keys to clear, a caller returns. *)
CallOver(p) ==
  IF p # RouteWorker THEN NoCall
  ELSE [NoCall EXCEPT !.phase = "clear", !.kind = calls[p].kind, !.keys = calls[p].keys]

ClearRoutes ==
  /\ calls[RouteWorker].phase = "clear"
  /\ LET done == ToSet(calls[RouteWorker].keys) IN
     IF calls[RouteWorker].kind = "route"
     THEN routeQ' = [routeQ EXCEPT !.pending = @ \ done] /\ UNCHANGED airportQ
     ELSE airportQ' = [airportQ EXCEPT !.pending = @ \ done] /\ UNCHANGED routeQ
  /\ calls' = [calls EXCEPT ![RouteWorker] = NoCall]
  /\ UNCHANGED <<routes, airports, routeCircuit, cursor, walk>>

-----------------------------------------------------------------------------
(* fetchRoutes and fetchAirport: what is fresh is left out; the rest needs *)
(* the circuit.                                                            *)
Fetch(p) ==
  LET cache == IF calls[p].kind = "route" THEN routes ELSE airports
      missing == {k \in ToSet(calls[p].keys) : ~Fresh(cache, k, clock)}
      read == FoldLeft(LAMBDA c, k : AfterGet(c, k, clock), cache, calls[p].keys)
  IN  /\ calls[p].phase = "fetch"
      /\ IF calls[p].kind = "route" THEN routes' = read /\ UNCHANGED airports
         ELSE airports' = read /\ UNCHANGED routes
      /\ IF missing # {} /\ Allows(routeCircuit, clock)
         THEN /\ routeCircuit' = AfterAllow(routeCircuit)
              /\ calls' = [calls EXCEPT ![p] =
                   [@ EXCEPT !.phase = "wait", !.missing = missing, !.attempt = 1,
                             !.deadline = clock + RouteBudget, !.probe = routeCircuit.openUntil # 0]]
         ELSE calls' = [calls EXCEPT ![p] = CallOver(p)] /\ UNCHANGED routeCircuit
      /\ UNCHANGED <<routeQ, airportQ, cursor, walk>>

InRequest == {p \in DOMAIN calls : calls[p].phase = "request"}

(* waitForRequest: the rate limit, then one of the outbound slots.         *)
WaitForRequest(p) ==
  /\ calls[p].phase = "wait"
  /\ Cardinality(InRequest) < MaxConcurrent
  /\ calls' = [calls EXCEPT ![p].phase = "request"]
  /\ UNCHANGED <<routes, airports, routeQ, airportQ, routeCircuit, cursor, walk>>

(* A transient failure frees the slot and tries again.                     *)
Retry(p) ==
  /\ calls[p].phase = "request"
  /\ calls[p].attempt < MaxRouteAttempts
  /\ calls' = [calls EXCEPT ![p].phase = "wait", ![p].attempt = @ + 1]
  /\ UNCHANGED <<routes, airports, routeQ, airportQ, routeCircuit, cursor, walk>>

AfterSets(cache, entries, max) == FoldLeft(LAMBDA c, e : AfterSet(c, e, max), cache, entries)

(* What adsb.lol may answer: the routes of some of the callsigns, and of   *)
(* no others; an airport, or that it does not know it.                     *)
NamedRoutes(p) == SUBSET calls[p].missing
AirportReplies(k) ==
  {Entry(k, "found", AirportTTL, RouteStaleTTL, clock), Entry(k, "none", RouteNotFoundTTL, 0, clock)}

(* The routes are cached, and the airports on them too.                    *)
RoutesAnswered(p) ==
  /\ calls[p].phase = "request" /\ calls[p].kind = "route"
  /\ \E found \in NamedRoutes(p) :
       LET asked == SelectSeq(calls[p].keys, LAMBDA k : k \in calls[p].missing)
           named == SelectSeq(asked, LAMBDA k : k \in found)
           route(k) == IF k \in found THEN Entry(k, "found", RouteTTL, RouteStaleTTL, clock)
                       ELSE Entry(k, "none", RouteNotFoundTTL, 0, clock)
           ports(k) == [i \in DOMAIN AirportsOf[k] |->
                          Entry(AirportsOf[k][i], "found", AirportTTL, RouteStaleTTL, clock)]
       IN  /\ routes' = AfterSets(routes, [i \in DOMAIN asked |-> route(asked[i])], MaxRouteEntries)
           /\ airports' = FoldLeft(LAMBDA c, k : AfterSets(c, ports(k), MaxAirportEntries), airports, named)
  /\ routeCircuit' = Closed
  /\ calls' = [calls EXCEPT ![p] = CallOver(p)]
  /\ UNCHANGED <<routeQ, airportQ, cursor, walk>>

AirportAnswered(p) ==
  LET k == calls[p].keys[1] IN
  /\ calls[p].phase = "request" /\ calls[p].kind = "airport"
  /\ \E entry \in AirportReplies(k) : airports' = AfterSet(airports, entry, MaxAirportEntries)
  /\ routeCircuit' = Closed
  /\ calls' = [calls EXCEPT ![p] = CallOver(p)]
  /\ UNCHANGED <<routes, routeQ, airportQ, cursor, walk>>

(* The request fails, or its budget is over before it has a slot: the      *)
(* error is cached in the place of what was there.  (A cancelled request   *)
(* records nothing, but only the shutdown cancels one.)                    *)
FetchFailed(p) ==
  LET failed == [i \in DOMAIN calls[p].keys |-> Entry(calls[p].keys[i], "error", RouteErrorTTL, 0, clock)]
      entries == SelectSeq(failed, LAMBDA e : e.key \in calls[p].missing)
  IN  /\ \/ calls[p].phase = "request"
         \/ calls[p].phase = "wait" /\ clock >= calls[p].deadline
      /\ IF calls[p].kind = "route"
         THEN routes' = AfterSets(routes, entries, MaxRouteEntries) /\ UNCHANGED airports
         ELSE airports' = AfterSets(airports, entries, MaxAirportEntries) /\ UNCHANGED routes
      /\ routeCircuit' = AfterFailure(routeCircuit, clock, RouteFailures, RouteOpenFor)
      /\ calls' = [calls EXCEPT ![p] = CallOver(p)]
      /\ UNCHANGED <<routeQ, airportQ, cursor, walk>>

-----------------------------------------------------------------------------
RoutesInTime == \A p \in DOMAIN calls : calls[p].phase \in {"wait", "request"} => clock < calls[p].deadline

RouteWorkerStep == TakeAirport \/ TakeRoute \/ BatchCollected \/ ClearRoutes

RequestEnds(p) == RoutesAnswered(p) \/ AirportAnswered(p) \/ FetchFailed(p)

RouteNext ==
  \/ \E snapshot \in RouteSnapshots : Prefetch(snapshot)
  \/ PrefetchNext
  \/ \E c \in RouteCallers, k \in RouteCallsigns : RouteCommand(c, k)
  \/ \E c \in RouteCallers, k \in Airports : AirportCommand(c, k)
  \/ \E c \in RouteCallers : LookupRoute(c)
  \/ RouteWorkerStep
  \/ \E p \in DOMAIN calls : Fetch(p) \/ WaitForRequest(p) \/ Retry(p) \/ RequestEnds(p)
=============================================================================
