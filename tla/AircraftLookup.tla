--------------------------- MODULE AircraftLookup ---------------------------
(***************************************************************************)
(* Aircraft metadata from ADSBDB (enrichment/service.go, discovery.go):    *)
(* the aggregate observer shows every snapshot to the discovery tracker,   *)
(* which admits new aircraft and new callsigns to a bounded queue;         *)
(* workers and Discord handlers look keys up, one request per key at a     *)
(* time, behind a cache, a rate limit and a circuit breaker.               *)
(*                                                                         *)
(* A key is an ICAO address and a callsign.  A caller that joins the       *)
(* request of another goroutine only shares its answer, so a caller stands *)
(* for the one that leads.                                                 *)
(***************************************************************************)
EXTENDS LookupCache

CONSTANTS
  AircraftKeys,             \* pairs of an ICAO address and a callsign
  Snapshots,                \* sequences of aircraft that are published
  Workers, Callers,         \* goroutines of the service, and handlers
  QueueSize, MaxEntries, DiscoveryEntries,  \* 256, 10000 and 50000
  DiscoveryTTL,             \* 30 minutes
  FoundTTLs,                \* the TTL without a route, and with one
  NotFoundTTL, ErrorTTL, StaleTTL,
  RequestBudget, CircuitFailures, OpenFor, MaxAttempts,
  NoKey

ASSUME AircraftAssumption ==
  /\ FoundTTLs \subseteq Nat \ {0}
  /\ {NotFoundTTL, ErrorTTL, RequestBudget, CircuitFailures, OpenFor, MaxAttempts,
      QueueSize, MaxEntries, DiscoveryEntries} \subseteq Nat \ {0}
  /\ {StaleTTL, DiscoveryTTL} \subseteq Nat
  /\ \A snapshot \in Snapshots :
       /\ snapshot \in Seq(ToSet(snapshot))
       /\ \A i \in DOMAIN snapshot : <<snapshot[i].icao, snapshot[i].callsign>> \in AircraftKeys
  /\ IsFiniteSet(Workers) /\ Workers \cap Callers = {} /\ NoKey \notin AircraftKeys

VARIABLES
  cache, circuit,
  admitted,   \* the queue, with its pending keys
  proc,       \* workers and callers: what each is at, for which key
  flights,    \* the request of each key being looked up
  tracker,    \* the discovery tracker, the latest seen first; an entry
              \* remembers that its admission was answered, dropped,
              \* rejected or failed
  observing   \* the snapshot the tracker is being shown: what is left of it

aircraftVars == <<cache, circuit, admitted, proc, flights, tracker, observing>>

Idle == [phase |-> "idle", key |-> NoKey]
NoSnapshot == [left |-> <<>>, at |-> 0]

AircraftInit ==
  /\ cache = <<>> /\ circuit = Closed
  /\ admitted = [queue |-> <<>>, pending |-> {}]
  /\ proc = [p \in Workers \cup Callers |-> Idle]
  /\ flights = <<>>
  /\ tracker = <<>>
  /\ observing = NoSnapshot

-----------------------------------------------------------------------------
Settled(entries, keys) ==
  [i \in DOMAIN entries |->
     IF <<entries[i].icao, entries[i].callsign>> \in keys
     THEN [entries[i] EXCEPT !.settled = TRUE] ELSE entries[i]]

(* Enqueue, on the state of the service.  A key that a worker has looked   *)
(* up and not yet cleared coalesces with that lookup, although it is over. *)
Enqueued(s, k) ==
  LET fresh == Fresh(s.cache, k, clock)
      over == {proc[w].key : w \in {v \in Workers : proc[v].phase = "done"}}
  IN
  [cache    |-> AfterGet(s.cache, k, clock),
   admitted |-> IF fresh THEN s.admitted ELSE Queued(s.admitted, k, QueueSize),
   tracker  |-> Settled(s.tracker, IF fresh THEN {k}
                                  ELSE Displaced(s.admitted, k, QueueSize) \cup (over \cap {k}))]

(* The tracker with an aircraft moved to the front.                        *)
InFront(entries, aircraft, at, settled) ==
  LET known == {i \in DOMAIN entries : entries[i].icao = aircraft.icao}
  IN  <<[icao |-> aircraft.icao, callsign |-> aircraft.callsign, seenAt |-> at, settled |-> settled]>>
      \o (IF known = {} THEN entries ELSE RemoveAt(entries, CHOOSE i \in known : TRUE))

(* As if the tracker only remembered a new callsign.                       *)
TrackedOnce(s, aircraft, at) ==
  LET known == {i \in DOMAIN s.tracker : s.tracker[i].icao = aircraft.icao}
      seen == [s EXCEPT !.tracker = InFront(@, aircraft, at,
        \E i \in known : s.tracker[i].settled /\ s.tracker[i].callsign = aircraft.callsign)]
  IN  IF known # {} THEN seen ELSE Enqueued(seen, <<aircraft.icao, aircraft.callsign>>)

(* An aircraft of a snapshot: a new one, or one with a new callsign, is    *)
(* admitted.                                                               *)
Tracked(s, aircraft, at) ==
  LET same == {i \in DOMAIN s.tracker : /\ s.tracker[i].icao = aircraft.icao
                                        /\ s.tracker[i].callsign = aircraft.callsign}
  IN  IF same # {}
      THEN [s EXCEPT !.tracker = InFront(@, aircraft, at, \E i \in same : s.tracker[i].settled)]
      ELSE Enqueued([s EXCEPT !.tracker = InFront(@, aircraft, at, FALSE)],
                    <<aircraft.icao, aircraft.callsign>>)

(* Entries leave from the back: too many, or not seen for the TTL.         *)
Kept(entries, at) ==
  LET staying == {i \in DOMAIN entries :
                    i <= DiscoveryEntries /\ entries[i].seenAt >= at - DiscoveryTTL}
  IN  SubSeq(entries, 1, IF staying = {} THEN 0
                         ELSE CHOOSE i \in staying : \A o \in staying : o <= i)

Service == [cache |-> cache, admitted |-> admitted, tracker |-> tracker]

Becomes(s) == cache' = s.cache /\ admitted' = s.admitted /\ tracker' = s.tracker

(* Observe, one aircraft: the tracker is locked for the whole snapshot but *)
(* between two admissions the workers go on.                               *)
Observed(left, at) ==
  LET s == IF left = <<>> THEN Service ELSE Tracked(Service, Head(left), at)
      more == Len(left) > 1
  IN  /\ Becomes(IF more THEN s ELSE [s EXCEPT !.tracker = Kept(@, at)])
      /\ observing' = IF more THEN [left |-> Tail(left), at |-> at] ELSE NoSnapshot
      /\ UNCHANGED <<circuit, proc, flights>>

ObserveAircraft(snapshot) == observing = NoSnapshot /\ Observed(snapshot, clock)
ObserveNext == observing # NoSnapshot /\ Observed(observing.left, observing.at)

(* Cached: a stale entry is shown and asked for again.                     *)
CachedAircraft(k) ==
  /\ Found(cache, k, clock)
  /\ Becomes(IF Stale(cache, k, clock) THEN Enqueued(Service, k)
             ELSE [Service EXCEPT !.cache = AfterGet(@, k, clock)])
  /\ UNCHANGED <<circuit, proc, flights, observing>>

(* followUpAircraft: the key is enqueued, and looked up if it is not       *)
(* cached.                                                                 *)
FollowUpAircraft(c, k) ==
  /\ proc[c].phase = "idle"
  /\ Becomes(Enqueued(Service, k))
  /\ proc' = IF Found(cache, k, clock) THEN proc
             ELSE [proc EXCEPT ![c] = [phase |-> "lookup", key |-> k]]
  /\ UNCHANGED <<circuit, flights, observing>>

(* An aircraft that is not in view is looked up without being enqueued.    *)
LookupUnseen(c, k) ==
  /\ proc[c].phase = "idle"
  /\ proc' = [proc EXCEPT ![c] = [phase |-> "lookup", key |-> k]]
  /\ UNCHANGED <<cache, circuit, admitted, flights, tracker, observing>>

-----------------------------------------------------------------------------
(* worker: one key at a time; it stays pending until it is answered.       *)
TakeAircraft(w) ==
  /\ proc[w].phase = "idle"
  /\ admitted.queue # <<>>
  /\ proc' = [proc EXCEPT ![w] = [phase |-> "lookup", key |-> Head(admitted.queue)]]
  /\ admitted' = [admitted EXCEPT !.queue = Tail(@)]
  /\ UNCHANGED <<cache, circuit, flights, tracker, observing>>

ClearAircraft(w) ==
  /\ w \in Workers /\ proc[w].phase = "done"
  /\ admitted' = [admitted EXCEPT !.pending = @ \ {proc[w].key}]
  /\ proc' = [proc EXCEPT ![w] = Idle]
  /\ UNCHANGED <<cache, circuit, flights, tracker, observing>>

(* The end of a lookup: a worker has its key to clear, a caller returns.   *)
Over(p) == IF p \in Workers THEN [proc[p] EXCEPT !.phase = "done"] ELSE Idle

(* lookup asks the cache again once it leads.                              *)
MustFetchAlways(k) == TRUE
MustFetch(k) == ~Fresh(cache, k, clock)

(* lookup, up to the request: joined, answered from the cache, rejected    *)
(* by the circuit, or on its way.                                          *)
LookupAircraft(p) ==
  LET k == proc[p].key IN
  /\ proc[p].phase = "lookup"
  /\ cache' = IF k \in DOMAIN flights THEN cache ELSE AfterGet(cache, k, clock)
  /\ \/ /\ k \in DOMAIN flights
        /\ proc' = [proc EXCEPT ![p] = IF p \in Workers THEN [@ EXCEPT !.phase = "flying"] ELSE Idle]
        /\ UNCHANGED <<circuit, flights, tracker>>
     \/ /\ k \notin DOMAIN flights /\ ~MustFetch(k)
        /\ proc' = [proc EXCEPT ![p] = Over(p)]
        /\ tracker' = Settled(tracker, {k})
        /\ UNCHANGED <<circuit, flights>>
     \/ /\ k \notin DOMAIN flights /\ MustFetch(k) /\ ~Allows(circuit, clock)
        /\ proc' = [proc EXCEPT ![p] = Over(p)]
        /\ tracker' = Settled(tracker, {k})
        /\ UNCHANGED <<circuit, flights>>
     \/ /\ k \notin DOMAIN flights /\ MustFetch(k) /\ Allows(circuit, clock)
        /\ flights' = Put(flights, k, [probe |-> circuit.openUntil # 0, attempt |-> 1,
                                       deadline |-> clock + RequestBudget])
        /\ circuit' = AfterAllow(circuit)
        /\ proc' = [proc EXCEPT ![p].phase = "flying"]
        /\ UNCHANGED tracker
  /\ UNCHANGED <<admitted, observing>>

(* A request that may be repeated failed: another attempt, in the budget.  *)
RetryAircraft(k) ==
  /\ k \in DOMAIN flights
  /\ flights[k].attempt < MaxAttempts
  /\ flights' = [flights EXCEPT ![k].attempt = @ + 1]
  /\ UNCHANGED <<cache, circuit, admitted, proc, tracker, observing>>

(* The answer ends the request of everyone who waits for the key.          *)
Land(k) ==
  /\ flights' = Without(flights, k)
  /\ proc' = [p \in DOMAIN proc |->
                IF proc[p] = [phase |-> "flying", key |-> k] THEN Over(p) ELSE proc[p]]
  /\ tracker' = Settled(tracker, {k})
  /\ UNCHANGED <<admitted, observing>>

(* What ADSBDB may answer: the aircraft, with or without a route, or that  *)
(* it does not know it.                                                    *)
Replies(k) ==
  {Entry(k, "found", ttl, StaleTTL, clock) : ttl \in FoundTTLs}
    \cup {Entry(k, "none", NotFoundTTL, 0, clock)}

AircraftAnswered(k) ==
  /\ k \in DOMAIN flights
  /\ circuit' = Closed
  /\ \E entry \in Replies(k) : cache' = AfterSet(cache, entry, MaxEntries)
  /\ Land(k)

AircraftFailed(k) ==
  /\ k \in DOMAIN flights
  /\ circuit' = AfterFailure(circuit, clock, CircuitFailures, OpenFor)
  /\ cache' = AfterSet(cache, Entry(k, "error", ErrorTTL, 0, clock), MaxEntries)
  /\ Land(k)

-----------------------------------------------------------------------------
AircraftInTime == \A k \in DOMAIN flights : clock < flights[k].deadline

WorkerStep(w) == TakeAircraft(w) \/ LookupAircraft(w) \/ ClearAircraft(w)

AircraftNext ==
  \/ \E snapshot \in Snapshots : ObserveAircraft(snapshot)
  \/ ObserveNext
  \/ \E k \in AircraftKeys : CachedAircraft(k)
  \/ \E c \in Callers, k \in AircraftKeys : FollowUpAircraft(c, k) \/ LookupUnseen(c, k)
  \/ \E c \in Callers : LookupAircraft(c)
  \/ \E w \in Workers : WorkerStep(w)
  \/ \E k \in AircraftKeys : RetryAircraft(k) \/ AircraftAnswered(k) \/ AircraftFailed(k)
=============================================================================
