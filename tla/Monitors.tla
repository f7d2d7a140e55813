------------------------------ MODULE Monitors ------------------------------
(***************************************************************************)
(* What the publish observer of the application asks of a feeder's         *)
(* snapshot besides the watch rules: the feeder-health monitor             *)
(* (rules/feeder.go), the interesting-aircraft monitor                     *)
(* (rules/interesting.go) with the plane-alert-db index it looks aircraft  *)
(* up in (planealert/index.go, loader.go), and the airport movement        *)
(* monitors with their registry (rules/movement.go, movement_registry.go). *)
(*                                                                         *)
(* The local feeder has two pollers, one for the aircraft and one for the  *)
(* receiver and the statistics, which publish independently of each other; *)
(* the snapshots of an agent are published one after another, by the       *)
(* ingress under the feeder's lock.  Every snapshot carries the health of  *)
(* all sources, so that what one poll found is published again with the    *)
(* next poll of another source.  An observer call is asynchronous to those *)
(* of other pollers: it looks at the health, then at the aircraft, then    *)
(* enforces the registry's bound.                                          *)
(*                                                                         *)
(* What a position report tells is given by the distance from the airport  *)
(* in nautical miles, whether the aircraft is on the ground or low, and    *)
(* whether its altitude, rates, heading and speed are those of a departure *)
(* or of an approach.  The clock counts ticks of minutes, from 1, and 0 is *)
(* Go's zero time; what a call does with its snapshot takes no tick.       *)
(***************************************************************************)
EXTENDS Naturals, Sequences, FiniteSets, FiniteSetsExt, SequencesExt

CONSTANTS
  Feeders, Local,          \* feeders, and the one with a restored monitor
  Sources,                 \* aircraft, receiver, stats
  Pollers, FeederOf,       \* who publishes snapshots, and of which feeder
  Polls,                   \* the sources each poller asks
  Aircraft,                \* ICAO addresses
  Deployments,             \* configurations, with what their pollers find,
                           \* the ticks between two snapshots and until when
  Listed,                  \* the ICAOs of each version of plane-alert-db
  Centers, NoCenter,       \* airport positions a feeder may be given
  CustomURL,               \* the reference is not the one of GitHub
  Cooldown, StaleAfter, Retention,  \* 10, 30 and 10 minutes
  MaxTracks, MaxTracksGlobal,       \* 1000 and 25000
  EventLimit,              \* feeder events read at the start, 20
  MaxPublished,            \* bound on the snapshots published in one tick
  MaxChanges, NotSeen, NoTrack

GroundRadius == 3
DepartureRadius == 8
ApproachRadius == 10
ActivityRadius == 12
Consecutive == 3
Versions == DOMAIN Listed
Unknown == 0   \* the commit hash when GitHub did not tell

ASSUME MonitorAssumption ==
  /\ Local \in Feeders
  /\ Listed \in [1..Len(Listed) -> SUBSET Aircraft]
  /\ {Cooldown, StaleAfter, Retention, MaxTracks, MaxTracksGlobal} \subseteq Nat
  /\ Cooldown <= StaleAfter
\* A source has one poller, and one other repeats what it found.
ASSUME PollerAssumption ==
  /\ FeederOf \in [Pollers -> Feeders] /\ Polls \in [Pollers -> SUBSET Sources]
  /\ \A p, q \in Pollers, s \in Sources :
       FeederOf[p] = FeederOf[q] /\ (s \in Polls[p] <=> s \in Polls[q]) => p = q
ASSUME MonitorBounds == IsFiniteSet(Feeders) /\ MaxChanges \in Nat

\* What a snapshot says of an aircraft, and what a movement monitor keeps of it.
Kinds == {"takeoff", "landing", "approach"}
Observations ==
  [readsb : BOOLEAN, position : BOOLEAN, ground : BOOLEAN, nm : Nat, low : BOOLEAN,
   departing : BOOLEAN, approaching : BOOLEAN]
Tracks ==
  [approaching : BOOLEAN, groundNear : BOOLEAN, airborneNear : BOOLEAN,
   takeoffs : 0..Consecutive, landings : 0..Consecutive, approaches : 0..Consecutive,
   last : [Kinds -> Nat], lastSeen : Nat, phase : Kinds \cup {""}, phaseAt : Nat]
ASSUME DeploymentAssumption ==
  \A d \in Deployments :
    /\ d.gaps \subseteq Nat
    /\ \A p \in Pollers : \A snap \in d.snapshots[p] :
         /\ DOMAIN snap.health \subseteq Polls[p]
         /\ snap.fetched => snap.aircraft \in [Aircraft -> Observations \cup {NotSeen}]
ASSUME NoTrackAssumption == NoTrack \notin Tracks

VARIABLES
  clock,      \* the time of the latest snapshot
  deployment, \* the configuration, and what its pollers find
  health,     \* Engine.health of each feeder
  sources,    \* FeederMonitor.states of each feeder
  seen,       \* InterestingMonitor.seen
  latest,     \* the version of plane-alert-db that is published
  reference,  \* the stored reference: its commit hash and its version
  records,    \* the version the index holds, 0 for none
  refresh,    \* the index's goroutine: idle, or fetching with a hash
  registry,   \* the movement monitor of each feeder
  heap,       \* movement monitors, the replaced ones too
  published,  \* how many snapshots were published since the clock moved
  job,        \* what is left of each poller's observer call
  queue,      \* writes on their way: feeder events and sightings
  events,     \* table feeder_events, its last rows
  seenRows,   \* table interesting_aircraft_seen
  changes,    \* how often Register, Release and Restart have happened
  outage,     \* history: what was last announced of each source, and whether
              \* that event was lost
  healthy,    \* history: healthy samples in a row of each source
  answers,    \* history: polls that found it healthy during the outage
  sighted,    \* history: how often each aircraft was announced
  forgotten,  \* history: sightings that were not saved before a restart
  moved,      \* history: the last alert of each kind while nothing but age
              \* removed the track
  recent      \* history: the last observations of each track

healthVars == <<health, sources, outage, healthy, answers>>
interestingVars == <<seen, sighted>>
planeAlertVars == <<latest, reference, records, refresh>>
movementVars == <<registry, heap, moved, recent>>
storeVars == <<queue, events, seenRows>>
vars == <<clock, deployment, healthVars, interestingVars, planeAlertVars,
          movementVars, storeVars, published, job, changes, forgotten>>

Known == [offline |-> FALSE, samples |-> 0]
Idle == [stage |-> "idle"]
Unpolled == [f \in Feeders |-> [s \in Sources |-> "unknown"]]
Ids == 1..(Cardinality(Feeders) + MaxChanges)
NewMovementMonitor(config) == [config |-> config, lastAt |-> 0, tracks |-> [a \in Aircraft |-> NoTrack]]
NoAlerts == [k \in Kinds |-> 0]

Init ==
  /\ clock = 0
  /\ deployment \in Deployments
  /\ health = Unpolled
  /\ sources = [f \in Feeders |-> [s \in Sources |-> Known]]
  /\ seen = {} /\ seenRows = {}
  /\ latest = 1
  /\ reference = [hash |-> Unknown, version |-> 0] /\ records = 0
  /\ refresh = [stage |-> "start"]
  /\ registry = CHOOSE pos \in [Feeders -> 1..Cardinality(Feeders)] :
                   \A f, g \in Feeders : pos[f] = pos[g] => f = g
  /\ heap = [i \in Ids |-> NewMovementMonitor(deployment.center)]
  /\ published = 0
  /\ job = [p \in Pollers |-> Idle]
  /\ queue = <<>> /\ events = <<>>
  /\ changes = 0
  /\ outage = [f \in Feeders |-> [s \in Sources |-> "none"]]
  /\ healthy = [f \in Feeders |-> [s \in Sources |-> 0]]
  /\ answers = healthy
  /\ sighted = [a \in Aircraft |-> 0]
  /\ forgotten = [a \in Aircraft |-> 0]
  /\ moved = [i \in Ids |-> [a \in Aircraft |-> NoAlerts]]
  /\ recent = [i \in Ids |-> [a \in Aircraft |-> <<>>]]

-----------------------------------------------------------------------------
(* FeederMonitor.                                                          *)

\* Mutant: a degraded source keeps its healthy samples.
SampledLoosely(state, status) ==
  CASE status = "disabled" -> Known
    [] status = "offline" -> [offline |-> TRUE, samples |-> 0]
    [] status = "healthy" /\ state.offline ->
         IF state.samples + 1 >= 2 THEN Known
         ELSE [state EXCEPT !.samples = @ + 1]
    [] OTHER -> state

\* One source of a snapshot.  A source without a state has the zero state.
Sampled(state, status) ==
  CASE status = "disabled" -> Known
    [] status = "offline" -> [offline |-> TRUE, samples |-> 0]
    [] status = "healthy" /\ state.offline ->
         IF state.samples + 1 >= 2 THEN Known
         ELSE [state EXCEPT !.samples = @ + 1]
    [] status = "healthy" /\ ~state.offline -> state
    [] OTHER -> [state EXCEPT !.samples = 0]

\* What Evaluate announces of it.
HealthAlert(before, after, status) ==
  IF ~before.offline /\ after.offline THEN "offline"
  ELSE IF before.offline /\ ~after.offline /\ status = "healthy" THEN "recovered"
  ELSE "none"

EvaluateHealth(f, sample) ==
  LET after == [s \in Sources |-> Sampled(sources[f][s], sample[s])]
      alert == [s \in Sources |-> HealthAlert(sources[f][s], after[s], sample[s])]
  IN
  /\ sources' = [sources EXCEPT ![f] = after]
  /\ outage' = [outage EXCEPT ![f] = [s \in Sources |->
       IF sample[s] = "disabled" THEN "none"
       ELSE IF alert[s] # "none" THEN alert[s] ELSE @[s]]]
  /\ healthy' = [healthy EXCEPT ![f] = [s \in Sources |->
       IF sample[s] = "healthy" THEN (IF @[s] = 2 THEN 2 ELSE @[s] + 1) ELSE 0]]
  /\ answers' = [answers EXCEPT ![f] = [s \in Sources |->
       CASE alert[s] = "offline" -> (IF health[f][s] = "healthy" THEN 1 ELSE 0)
         [] alert[s] # "offline" /\ ~after[s].offline -> 0
         [] OTHER -> @[s]]]

FeederEvents(f, sample) ==
  LET alert(s) == HealthAlert(sources[f][s], Sampled(sources[f][s], sample[s]), sample[s])
  IN SetToSeq({<<"feeder", f, s, alert(s)>> : s \in {x \in Sources : alert(x) # "none"}})

-----------------------------------------------------------------------------
(* InterestingMonitor and the plane-alert-db index.                        *)

\* Nothing is looked up when the plane-alert-db is not enabled.
Lookup(a) == records # 0 /\ a \in Listed[records]

\* Mutant: what is announced is not marked.
Unmarked(fresh) == seen

\* The aircraft this snapshot announces, which are marked at once.
Interesting(aircraft) ==
  {a \in Aircraft : aircraft[a] # NotSeen /\ aircraft[a].readsb /\ a \notin seen /\ Lookup(a)}
Marked(fresh) == seen \cup fresh

EvaluateInteresting(aircraft) ==
  /\ seen' = Marked(Interesting(aircraft))
  /\ sighted' = [a \in Aircraft |->
                   IF a \in Interesting(aircraft) THEN sighted[a] + 1 ELSE sighted[a]]

Sightings(aircraft) == SetToSeq({<<"seen", a>> : a \in Interesting(aircraft)})

\* A new version of plane-alert-db is published (external).
Release ==
  /\ deployment.planeAlert /\ changes < MaxChanges /\ latest < Len(Listed)
  /\ latest' = latest + 1 /\ changes' = changes + 1
  /\ UNCHANGED <<clock, published, deployment, healthVars, interestingVars,
                 reference, records, refresh, movementVars, storeVars, job,
                 forgotten>>

\* Mutant: the hash is one that was asked for after the records were fetched.
HashAfter(told) ==
  IF ~told THEN Unknown ELSE IF latest < Len(Listed) THEN latest + 1 ELSE latest

\* LatestCommitHash, when GitHub answers.
HashOf(told) == IF told THEN latest ELSE Unknown

\* refresh up to the download: at the start it is forced, later it is not
\* needed when the stored hash is the latest one, and not done for a custom
\* URL.  FetchRecords asks for the hash before it fetches.
RefreshBegin(told, again) ==
  LET forced == refresh.stage = "start" \/ reference.version = 0
      current == ~forced /\ (CustomURL \/ (told /\ reference.hash = latest))
  IN
  /\ deployment.planeAlert
  /\ refresh.stage \in {"start", "idle"}
  /\ refresh' = IF current THEN [stage |-> "idle"]
                ELSE [stage |-> "fetching", hash |-> HashOf(again), forced |-> forced]
  /\ records' = IF current THEN reference.version ELSE records
  /\ UNCHANGED <<clock, published, deployment, healthVars, interestingVars,
                 latest, reference, movementVars, storeVars, job, changes,
                 forgotten>>

\* The download: it is stored and indexed; when it fails, what is stored is
\* indexed, unless the refresh was forced.
RefreshEnd(fetched, stores) ==
  /\ refresh.stage = "fetching"
  /\ refresh' = [stage |-> "idle"]
  /\ reference' = IF fetched /\ stores THEN [hash |-> refresh.hash, version |-> latest]
                  ELSE reference
  /\ records' = CASE fetched /\ stores -> latest
                  [] ~fetched /\ ~refresh.forced /\ stores -> reference.version
                  [] OTHER -> records
  /\ UNCHANGED <<clock, published, deployment, healthVars, interestingVars,
                 latest, movementVars, storeVars, job, changes, forgotten>>

-----------------------------------------------------------------------------
(* MovementMonitor.                                                        *)

NewTrack ==
  [approaching |-> FALSE, groundNear |-> FALSE, airborneNear |-> FALSE,
   takeoffs |-> 0, landings |-> 0, approaches |-> 0,
   last |-> NoAlerts, lastSeen |-> 0, phase |-> "", phaseAt |-> 0]

\* Mutant: the cooldown is not asked.
CooledAlways(t, kind, now) == TRUE
Cooled(t, kind, now) == t.last[kind] = 0 \/ now - t.last[kind] >= Cooldown

Announce(t, kind, now) ==
  [t EXCEPT !.last[kind] = now, !.phase = kind, !.phaseAt = now, !.approaching = (kind = "approach")]

\* evaluateDeparture
Departure(t, o, now) ==
  IF o.ground \/ o.nm > DepartureRadius \/ (~t.groundNear /\ t.takeoffs = 0) \/ ~o.departing
  THEN [t EXCEPT !.takeoffs = 0]
  ELSE IF t.takeoffs + 1 < Consecutive \/ ~Cooled(t, "takeoff", now)
  THEN [t EXCEPT !.takeoffs = IF @ = Consecutive THEN @ ELSE @ + 1]
  ELSE [Announce(t, "takeoff", now) EXCEPT !.takeoffs = 0, !.groundNear = FALSE]

\* evaluateLanding
Landing(t, o, now) ==
  IF ~o.ground \/ o.nm > GroundRadius \/ (~t.approaching /\ ~t.airborneNear /\ t.landings = 0)
  THEN [t EXCEPT !.landings = 0]
  ELSE IF t.landings + 1 < Consecutive \/ ~Cooled(t, "landing", now)
  THEN [t EXCEPT !.landings = IF @ = Consecutive THEN @ ELSE @ + 1]
  ELSE [Announce(t, "landing", now) EXCEPT !.landings = 0, !.airborneNear = FALSE]

\* Mutant: what is not an approach does not start the count again.
ApproachOf(t, o, now, reset) ==
  IF o.ground THEN [t EXCEPT !.approaches = 0]
  ELSE IF o.nm > ActivityRadius
  THEN [t EXCEPT !.approaching = FALSE, !.approaches = 0,
                 !.phase = IF @ = "approach" THEN "" ELSE @]
  ELSE IF t.approaching \/ ~Cooled(t, "approach", now) THEN t
  ELSE IF o.nm > ApproachRadius \/ ~o.approaching
  THEN [t EXCEPT !.approaches = IF reset THEN 0 ELSE @]
  ELSE IF t.approaches + 1 < Consecutive THEN [t EXCEPT !.approaches = @ + 1]
  ELSE [Announce(t, "approach", now) EXCEPT !.approaches = 0]
ApproachCounted(t, o, now) == ApproachOf(t, o, now, FALSE)

\* evaluateApproach
Approach(t, o, now) == ApproachOf(t, o, now, TRUE)

\* Mutant: a departure stays listed wherever the aircraft is.
PhaseKept(phase, o) == phase

\* A departure is over beyond the activity radius.
PhaseAt(phase, o) == IF o.nm > ActivityRadius /\ phase = "takeoff" THEN "" ELSE phase

\* One aircraft of a snapshot.
Tracked(old, o, now) ==
  LET t == [(IF old = NoTrack THEN NewTrack ELSE old) EXCEPT !.lastSeen = now]
      placed == [t EXCEPT
        !.phase = PhaseAt(@, o),
        !.groundNear = @ \/ (o.ground /\ o.nm <= GroundRadius),
        !.airborneNear = @ \/ (~o.ground /\ o.nm <= 5 /\ o.low)]
  IN IF ~o.position THEN [t EXCEPT !.approaches = 0, !.takeoffs = 0, !.landings = 0]
     ELSE Approach(Landing(Departure(placed, o, now), o, now), o, now)

Held(m) == {a \in Aircraft : m.tracks[a] # NoTrack}
Observed(aircraft) == {a \in Aircraft : aircraft[a] # NotSeen /\ aircraft[a].readsb}

\* The monitor after a snapshot.
Advanced(m, now, tracks) == [m EXCEPT !.lastAt = now, !.tracks = tracks]

\* Evaluate: the aircraft in turn, new ones while there is room, then the
\* tracks that have not been seen for too long are removed.
EvaluateMovement(f, aircraft, now) ==
  LET i == registry[f]
      m == heap[i]
      room == IF Cardinality(Held(m)) >= MaxTracks THEN 0 ELSE MaxTracks - Cardinality(Held(m))
      new == Observed(aircraft) \ Held(m)
  IN
  IF m.config = NoCenter THEN UNCHANGED movementVars
  ELSE \E admitted \in kSubset(IF room < Cardinality(new) THEN room ELSE Cardinality(new), new) :
    LET updated == (Observed(aircraft) \cap Held(m)) \cup admitted
        stale == {a \in Held(m) \ updated : now - m.tracks[a].lastSeen > StaleAfter}
        after == [a \in Aircraft |->
          IF a \in updated THEN Tracked(m.tracks[a], aircraft[a], now)
          ELSE IF a \in stale THEN NoTrack ELSE m.tracks[a]]
    IN
    /\ heap' = [heap EXCEPT ![i] = Advanced(m, now, after)]
    /\ moved' = [moved EXCEPT ![i] = [a \in Aircraft |->
         IF a \in updated THEN [k \in Kinds |-> IF after[a].last[k] = now THEN now ELSE @[a][k]]
         ELSE @[a]]]
    /\ recent' = [recent EXCEPT ![i] = [a \in Aircraft |->
         IF a \in updated
         THEN (IF Len(@[a]) = Consecutive THEN Tail(@[a]) ELSE @[a]) \o <<aircraft[a]>>
         ELSE IF a \in stale THEN <<>> ELSE @[a]]]
    /\ UNCHANGED registry

\* A feeder's position or airport changed; the same configuration is ignored.
Register(f, center) ==
  /\ changes < MaxChanges
  /\ heap[registry[f]].config # center
  /\ registry' = [registry EXCEPT ![f] = Cardinality(Feeders) + changes + 1]
  /\ heap' = [heap EXCEPT ![Cardinality(Feeders) + changes + 1] = NewMovementMonitor(center)]
  /\ changes' = changes + 1
  /\ UNCHANGED <<clock, published, deployment, healthVars, interestingVars,
                 planeAlertVars, moved, recent, storeVars, job, forgotten>>

\* Activity: the movements listed, at the time of the last snapshot.
Activity(m) ==
  {a \in Held(m) : m.tracks[a].phase # "" /\ m.lastAt - m.tracks[a].phaseAt <= Retention}

-----------------------------------------------------------------------------
(* The registry's global bound.                                            *)

Monitored == {registry[f] : f \in Feeders}

\* StateLen: the monitors' tracks are counted one monitor after another.
StateLen(p, i) ==
  LET j == job[p]
      total == j.total + Cardinality(Held(heap[i]))
  IN
  /\ j.stage = "count" /\ i \in j.left
  /\ job' = [job EXCEPT ![p] =
       IF j.left # {i} THEN [j EXCEPT !.left = @ \ {i}, !.total = total]
       ELSE IF total <= MaxTracksGlobal THEN Idle
       ELSE [stage |-> "prune", over |-> total - MaxTracksGlobal, all |-> Monitored,
             left |-> Monitored, progress |-> FALSE]]
  /\ UNCHANGED <<clock, published, deployment, healthVars, interestingVars,
                 planeAlertVars, movementVars, storeVars, changes, forgotten>>

\* Mutant: one track is removed, however many there are too many.
OverOne(j) == 0

\* enforceGlobalBound: the least recently seen track of each monitor in turn,
\* until enough are gone or none is left.
Remaining(j) == j.over - 1

PruneOldest(p, i) ==
  LET j == job[p]
      held == Held(heap[i])
      next(over, progress) ==
        IF over = 0 THEN Idle
        ELSE IF j.left # {i} THEN [j EXCEPT !.over = over, !.left = @ \ {i}, !.progress = progress]
        ELSE IF progress THEN [j EXCEPT !.over = over, !.left = j.all, !.progress = FALSE]
        ELSE Idle
  IN
  /\ j.stage = "prune" /\ i \in j.left
  /\ IF held = {} THEN
       /\ job' = [job EXCEPT ![p] = next(j.over, j.progress)]
       /\ UNCHANGED movementVars
     ELSE \E a \in held :
       /\ \A b \in held : heap[i].tracks[a].lastSeen <= heap[i].tracks[b].lastSeen
       /\ heap' = [heap EXCEPT ![i].tracks[a] = NoTrack]
       /\ moved' = [moved EXCEPT ![i][a] = NoAlerts]
       /\ recent' = [recent EXCEPT ![i][a] = <<>>]
       /\ job' = [job EXCEPT ![p] = next(Remaining(j), TRUE)]
       /\ UNCHANGED registry
  /\ UNCHANGED <<clock, published, deployment, healthVars, interestingVars,
                 planeAlertVars, storeVars, changes, forgotten>>

-----------------------------------------------------------------------------
(* The publish observer, the writer and the start.                         *)

Observing == {p \in Pollers : job[p].stage \in {"health", "frame"}}

\* What the engine knows after a poll.
Learned(f, found) ==
  [health EXCEPT ![f] = [s \in Sources |-> IF s \in DOMAIN found THEN found[s] ELSE @[s]]]

\* A poller publishes a snapshot, with what it found and what is known of the
\* other sources.  Whether the aircraft in it are of another fetch than those
\* the last call has looked at is part of what is published (StateEngine).
Publish(p, snap, gap) ==
  LET f == FeederOf[p]
      known == Learned(f, snap.health)
  IN
  /\ job[p] = Idle
  /\ IF Observing = {} THEN gap # 0 ELSE gap = 0 /\ published < MaxPublished
  /\ published' = IF gap = 0 THEN published + 1 ELSE 1
  /\ clock + gap <= deployment.until
  /\ clock' = clock + gap
  /\ health' = known
  /\ answers' = [answers EXCEPT ![f] = [s \in Sources |->
       IF sources[f][s].offline /\ s \in DOMAIN snap.health /\ known[f][s] = "healthy"
       THEN (IF @[s] = 2 THEN 2 ELSE @[s] + 1) ELSE @[s]]]
  /\ job' = [job EXCEPT ![p] = [stage |-> "health", sample |-> known[f], snap |-> snap]]
  /\ UNCHANGED <<deployment, sources, outage, healthy, interestingVars,
                 planeAlertVars, movementVars, storeVars, changes, forgotten>>

\* The observer looks at the health, under the mutex of the feeder's monitor.
ObserveHealth(p) ==
  LET j == job[p]
      f == FeederOf[p]
      alerts == FeederEvents(f, j.sample)
  IN
  /\ j.stage = "health"
  /\ EvaluateHealth(f, j.sample)
  /\ job' = [job EXCEPT ![p] =
       IF alerts = <<>> /\ ~j.snap.fetched THEN Idle
       ELSE [stage |-> "frame", alerts |-> alerts, snap |-> j.snap]]
  /\ UNCHANGED <<clock, published, deployment, health, interestingVars,
                 planeAlertVars, movementVars, storeVars, changes, forgotten>>

\* The events among some writes are not saved: what they announced is unknown
\* to the next start.
Unsaved(writes) ==
  [f \in Feeders |-> [s \in Sources |->
     IF \E e \in writes : e[1] = "feeder" /\ e[2] = f /\ e[3] = s
     THEN "unsaved" ELSE outage[f][s]]]

\* It hands the events to the writer and, when the aircraft were fetched anew,
\* looks at them.  A writer with a full queue refuses a write, which is lost.
ObserveFrame(p) ==
  LET j == job[p]
      f == FeederOf[p]
      writes == j.alerts \o (IF j.snap.fetched THEN Sightings(j.snap.aircraft) ELSE <<>>)
  IN
  /\ j.stage = "frame"
  /\ \E refused \in SUBSET Range(writes) :
       /\ queue' = queue \o SelectSeq(writes, LAMBDA w : w \notin refused)
       /\ outage' = Unsaved(refused)
  /\ IF j.snap.fetched THEN
       /\ EvaluateInteresting(j.snap.aircraft)
       /\ EvaluateMovement(f, j.snap.aircraft, clock)
       /\ job' = [job EXCEPT ![p] = [stage |-> "count", left |-> Monitored, total |-> 0]]
     ELSE
       /\ job' = [job EXCEPT ![p] = Idle]
       /\ UNCHANGED <<interestingVars, movementVars>>
  /\ UNCHANGED <<clock, published, deployment, health, sources, healthy, answers,
                 planeAlertVars, events, seenRows, changes, forgotten>>

\* Only the last rows are ever read.
RecentFeederEvents(rows) ==
  SubSeq(rows, IF Len(rows) > EventLimit THEN Len(rows) - EventLimit + 1 ELSE 1, Len(rows))

\* The writer (PersistenceWriter) applies what is queued.
Write ==
  /\ queue # <<>>
  /\ events' = RecentFeederEvents(events \o SelectSeq(queue, LAMBDA w : w[1] = "feeder"))
  /\ seenRows' = seenRows \cup {a \in Aircraft : <<"seen", a>> \in Range(queue)}
  /\ queue' = <<>>
  /\ UNCHANGED <<clock, published, deployment, healthVars, interestingVars,
                 planeAlertVars, movementVars, job, changes, forgotten>>

\* FeederMonitor.Restore on the last events: the newest event of each source
\* decides, whichever feeder it is of.
Restore(s) ==
  LET newest == {n \in 1..Len(events) : events[n][3] = s}
  IN IF newest = {} THEN Known
     ELSE [Known EXCEPT !.offline = (events[Max(newest)][4] = "offline")]

\* The process dies and starts again: the local feeder's monitor and the
\* sightings are restored, the other monitors start anew.
Restart ==
  /\ changes < MaxChanges
  /\ changes' = changes + 1
  /\ health' = Unpolled
  /\ sources' = [f \in Feeders |-> [s \in Sources |-> IF f = Local THEN Restore(s) ELSE Known]]
  /\ healthy' = [f \in Feeders |-> [s \in Sources |-> 0]] /\ answers' = healthy'
  /\ seen' = seenRows
  /\ forgotten' = [a \in Aircraft |->
       IF a \in seen \ seenRows THEN forgotten[a] + 1 ELSE forgotten[a]]
  /\ records' = 0 /\ refresh' = [stage |-> "start"]
  /\ heap' = [i \in Ids |-> NewMovementMonitor(heap[i].config)]
  /\ moved' = [i \in Ids |-> [a \in Aircraft |-> NoAlerts]]
  /\ recent' = [i \in Ids |-> [a \in Aircraft |-> <<>>]]
  /\ job' = [p \in Pollers |-> Idle]
  /\ queue' = <<>>
  /\ outage' = Unsaved(Range(queue) \cup UNION {Range(job[p].alerts) :
                         p \in {q \in Pollers : job[q].stage = "frame"}})
  /\ UNCHANGED <<clock, published, deployment, sighted, latest, reference,
                 registry, events, seenRows>>

Next ==
  \/ \E p \in Pollers, gap \in deployment.gaps \cup {0} :
       \E snap \in deployment.snapshots[p] : Publish(p, snap, gap)
  \/ \E p \in Pollers : ObserveHealth(p) \/ ObserveFrame(p)
  \/ \E p \in Pollers, i \in Ids : StateLen(p, i) \/ PruneOldest(p, i)
  \/ \E f \in Feeders, c \in Centers : Register(f, c)
  \/ Release
  \/ \E told, again \in BOOLEAN : RefreshBegin(told, again)
  \/ \E fetched, stores \in BOOLEAN : RefreshEnd(fetched, stores)
  \/ Write
  \/ Restart

Spec == Init /\ [][Next]_vars

-----------------------------------------------------------------------------
(* Properties.                                                             *)

\* A recovery is announced only after two snapshots in a row that say the
\* source is healthy, and after a poll has found it so during the outage: a
\* snapshot that the other poller made before it does not count twice
\* (FeederMonitor.Evaluate, buildLocked, the two pollers of Run).
RecoveryIsStable ==
  [][\A f \in Feeders, s \in Sources :
       outage'[f][s] = "recovered" /\ outage[f][s] # "recovered"
         => healthy'[f][s] = 2 /\ answers[f][s] > 0]_vars

\* docs/operations.md: a recovery requires two healthy observations.
TwoHealthyObservations ==
  [][\A f \in Feeders, s \in Sources :
       outage'[f][s] = "recovered" /\ outage[f][s] # "recovered" => answers[f][s] = 2]_vars

\* An aircraft of the reference list is announced once, by whichever feeder
\* sees it first, and again only after a restart when the sighting was not
\* saved (InterestingMonitor.Evaluate, Restore).
InterestingAnnouncedOnce ==
  \A a \in Aircraft : sighted[a] <= 1 + forgotten[a]

\* The hash stored with the reference never names a version newer than the
\* reference, so that a stored version that is out of date is fetched again
\* (Index.refresh, Loader.FetchRecords).
OutdatedReferenceFetched == reference.hash <= reference.version

\* Two alerts of one kind for one aircraft are a cooldown apart, also when the
\* track was removed for its age in between and made anew (Evaluate).
MovementCooldownKept ==
  [][\A i \in Ids, a \in Aircraft, k \in Kinds :
       moved[i][a][k] # 0 /\ moved'[i][a][k] \notin {0, moved[i][a][k]}
         => moved'[i][a][k] - moved[i][a][k] >= Cooldown]_vars

\* A movement is announced after three observations in a row that fit it, with
\* none in between that does not (evaluateDeparture, Landing, Approach).
Fits(o, kind) ==
  /\ o.position
  /\ CASE kind = "takeoff" -> ~o.ground /\ o.nm <= DepartureRadius /\ o.departing
       [] kind = "landing" -> o.ground /\ o.nm <= GroundRadius
       [] kind = "approach" -> ~o.ground /\ o.nm <= ApproachRadius /\ o.approaching
ThreeConsecutiveObservations ==
  [][\A i \in Ids, a \in Aircraft, k \in Kinds :
       moved'[i][a][k] \notin {0, moved[i][a][k]}
         => /\ Len(recent'[i][a]) = Consecutive
            /\ \A o \in Range(recent'[i][a]) : Fits(o, k)]_vars

\* When no observer is at work, the registered monitors hold no more tracks
\* than the global bound, however their evaluations overlapped
\* (enforceGlobalBound).
TracksBounded ==
  (\A p \in Pollers : job[p] = Idle)
    => MapThenSumSet(LAMBDA i : Cardinality(Held(heap[i])), Monitored) <= MaxTracksGlobal

\* An aircraft that was last observed in the air beyond the activity radius is
\* not listed as departing or approaching any more (Evaluate, Activity).
ActivityIsNearby ==
  \A i \in Monitored : \A a \in Activity(heap[i]) :
    LET o == Last(recent[i][a])
    IN o.position /\ ~o.ground /\ o.nm > ActivityRadius
         => heap[i].tracks[a].phase = "landing"

\* An outage of a feeder's source is announced once, and the recovery of what
\* was announced, also across a restart that lost no event (Restore).
OneAlertPerOutage ==
  [][\A p \in Pollers : job[p].stage = "health" /\ job'[p].stage = "frame" =>
       \A e \in Range(job'[p].alerts) : outage[e[2]][e[3]] # "unsaved" =>
         e[4] = IF outage[e[2]][e[3]] = "offline" THEN "recovered" ELSE "offline"]_vars
=============================================================================
