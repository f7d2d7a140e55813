----------------------------- MODULE StateEngine -----------------------------
(***************************************************************************)
(* The live state engine of one feeder (internal/state/engine.go) and the  *)
(* publish observer that decides which publications reach the rules        *)
(* (internal/app/app.go).                                                  *)
(*                                                                         *)
(* Two goroutines poll the sources: one fetches aircraft, one receiver and *)
(* statistics metadata.  Each outcome is applied to the engine and built   *)
(* into a snapshot while the mutex is held; the snapshot is stored in the  *)
(* atomic pointer, stored in the feeder's registry entry and observed      *)
(* after the mutex is released, so these steps of the two goroutines       *)
(* interleave.                                                             *)
(*                                                                         *)
(* Aircraft frames are numbered in the order they are fetched; the number  *)
(* stands for the frame's aircraft list and for its fetch time, 0 for the  *)
(* zero time.  A receiver position stands for the distances derived from   *)
(* it.                                                                     *)
(***************************************************************************)
EXTENDS Integers, Sequences, FiniteSets, Functions

CONSTANTS
  Providers,   \* aircraft providers a frame may come from
  Positions,   \* receiver positions
  NoPosition,  \* the receiver has no position
  NoProvider,  \* domain.ProviderUnknown
  MaxFrames,   \* bound on aircraft frames
  MaxPolls     \* bound on the other outcomes of a poll

ASSUME ProviderAssumption == NoProvider \notin Providers
ASSUME PositionAssumption == NoPosition \notin Positions
ASSUME BoundAssumption == MaxFrames \in Nat /\ MaxPolls \in Nat

MetadataSources == {"receiver", "stats"}
Sources == {"aircraft"} \cup MetadataSources
Pollers == {"aircraft", "metadata"}
Statuses == {"unknown", "ok", "failing"}

VARIABLES
  running,    \* the pollers have been started
  engine,     \* the state the mutex protects
  current,    \* the atomic pointer to the last snapshot stored
  entry,      \* the snapshot in the feeder's registry entry
  pc,         \* what each poller does next
  stage,      \* the source the metadata poller fetches next
  built,      \* the snapshot each poller has built and not yet observed
  lastFetch,  \* lastAircraftFetch of this feeder, in Unix nanoseconds
  polls,      \* outcomes other than aircraft frames, counted for the bound
  providers,  \* history: provider of each aircraft frame
  evaluated,  \* history: snapshots given to the rule engine, in order
  overtaken   \* history: the other poller has stored a snapshot since this
              \* poller built its own

vars == <<running, engine, current, entry, pc, stage, built, lastFetch, polls,
          providers, evaluated, overtaken>>

Snapshots ==
  [sequence : Nat, fetched : Nat, provider : Providers \cup {NoProvider},
   changedAt : Nat, receiver : Positions \cup {NoPosition},
   health : [Sources -> Statuses], aircraft : Nat,
   distances : Positions \cup {NoPosition}]

EmptySnapshot ==
  [sequence |-> 0, fetched |-> 0, provider |-> NoProvider, changedAt |-> 0,
   receiver |-> NoPosition, health |-> [s \in Sources |-> "unknown"],
   aircraft |-> 0, distances |-> NoPosition]

Init ==
  /\ running = FALSE
  /\ engine = [sequence |-> 0, fetched |-> 0, provider |-> NoProvider,
               changedAt |-> 0, receiver |-> NoPosition,
               health |-> [s \in Sources |-> "unknown"]]
  /\ current = EmptySnapshot
  /\ entry = EmptySnapshot
  /\ pc = [t \in Pollers |-> "poll"]
  /\ stage = "receiver"
  /\ built = [t \in Pollers |-> EmptySnapshot]
  /\ lastFetch = 0
  /\ polls = 0
  /\ providers = <<>>
  /\ evaluated = <<>>
  /\ overtaken = [t \in Pollers |-> FALSE]

-----------------------------------------------------------------------------
(* Building a snapshot from the engine state e.                            *)

snapshotLocked(e, aircraft, distances) ==
  [sequence |-> e.sequence, fetched |-> e.fetched, provider |-> e.provider,
   changedAt |-> e.changedAt, receiver |-> e.receiver, health |-> e.health,
   aircraft |-> aircraft, distances |-> distances]

\* A frame's aircraft, with distances from the receiver position known now.
buildNewAircraftLocked(e, frame) == snapshotLocked(e, frame, e.receiver)

\* Mutant of buildLocked: a poll without aircraft publishes an empty list.
buildLockedEmpty(e, rebuildAircraft) == snapshotLocked(e, 0, e.receiver)

\* Reuses the aircraft of the snapshot last stored, which need not be the
\* last one built.
buildLocked(e, rebuildAircraft) ==
  snapshotLocked(e, current.aircraft,
                 IF rebuildAircraft THEN e.receiver ELSE current.distances)

\* time.Time.UnixNano: the zero time is outside the range of an int64 of
\* nanoseconds, and the wrapped result is not 0.
ZeroTimeNano == -1

UnixNano(fetched) == IF fetched = 0 THEN ZeroTimeNano ELSE fetched

\* The observer's test for a fetch it has already evaluated.
Skips(snapshot) ==
  \/ UnixNano(snapshot.fetched) = 0
  \/ lastFetch = UnixNano(snapshot.fetched)

-----------------------------------------------------------------------------
\* configureSources runs to the end, observer included, before the pollers
\* start.  The programs always give it the three sources, so every health is
\* unknown, as it was, and both pollers run.
ConfigureSources ==
  /\ ~running
  /\ running' = TRUE
  /\ LET e == [engine EXCEPT !.sequence = @ + 1]
         snapshot == buildLocked(e, FALSE)
     IN /\ engine' = e
        /\ current' = snapshot
        /\ entry' = snapshot
        /\ lastFetch' = UnixNano(snapshot.fetched)
        /\ evaluated' = IF Skips(snapshot) THEN evaluated
                                           ELSE Append(evaluated, snapshot)
  /\ UNCHANGED <<pc, stage, built, polls, providers, overtaken>>

\* The poller that fetches a source.
PollerOf(s) == IF s = "aircraft" THEN "aircraft" ELSE "metadata"

\* The poller of s is between polls and s is the source it fetches next.
Fetches(s) ==
  /\ running
  /\ pc[PollerOf(s)] = "poll"
  /\ s # "aircraft" => stage = s

\* One metadata poll fetches the receiver and then the statistics.
After(s) ==
  CASE s = "aircraft" -> stage
    [] s = "receiver" -> "stats"
    [] s = "stats"    -> "receiver"

\* The poller of s changes the engine to e, builds a snapshot from it and
\* releases the mutex.
Apply(s, e, snapshot) ==
  /\ engine' = e
  /\ built' = [built EXCEPT ![PollerOf(s)] = snapshot]
  /\ pc' = [pc EXCEPT ![PollerOf(s)] = "store"]
  /\ stage' = After(s)
  /\ overtaken' = [overtaken EXCEPT ![PollerOf(s)] = FALSE]
  /\ UNCHANGED <<running, current, entry, lastFetch, evaluated>>

\* Mutant of applyAircraft: only the first provider counts as a change.
applyAircraftFirstProvider(provider) ==
  /\ Fetches("aircraft")
  /\ Len(providers) < MaxFrames
  /\ LET frame == Len(providers) + 1
         e == [engine EXCEPT
                 !.sequence = @ + 1,
                 !.provider = provider,
                 !.changedAt = IF engine.provider = NoProvider THEN frame ELSE @,
                 !.fetched = frame,
                 !.health["aircraft"] = "ok"]
     IN Apply("aircraft", e, buildNewAircraftLocked(e, frame))
  /\ providers' = Append(providers, provider)
  /\ UNCHANGED polls

applyAircraft(provider) ==
  /\ Fetches("aircraft")
  /\ Len(providers) < MaxFrames
  /\ LET frame == Len(providers) + 1
         e == [engine EXCEPT
                 !.sequence = @ + 1,
                 !.provider = provider,
                 !.changedAt = IF engine.provider # provider THEN frame ELSE @,
                 !.fetched = frame,
                 !.health["aircraft"] = "ok"]
     IN Apply("aircraft", e, buildNewAircraftLocked(e, frame))
  /\ providers' = Append(providers, provider)
  /\ UNCHANGED polls

applyReceiver(position) ==
  /\ Fetches("receiver")
  /\ polls < MaxPolls
  /\ LET positionChanged == engine.receiver # position
         e == [engine EXCEPT !.sequence = @ + 1, !.receiver = position,
                             !.health["receiver"] = "ok"]
     IN Apply("receiver", e, buildLocked(e, positionChanged))
  /\ polls' = polls + 1
  /\ UNCHANGED providers

applyStats ==
  /\ Fetches("stats")
  /\ polls < MaxPolls
  /\ LET e == [engine EXCEPT !.sequence = @ + 1, !.health["stats"] = "ok"]
     IN Apply("stats", e, buildLocked(e, FALSE))
  /\ polls' = polls + 1
  /\ UNCHANGED providers

\* aircraftFailure, receiverFailure and statsFailure.
failure(s) ==
  /\ Fetches(s)
  /\ polls < MaxPolls
  /\ LET e == [engine EXCEPT !.sequence = @ + 1, !.health[s] = "failing"]
     IN Apply(s, e, buildLocked(e, FALSE))
  /\ polls' = polls + 1
  /\ UNCHANGED providers

-----------------------------------------------------------------------------
(* store, FeederManager.Publish and the publish observer.                  *)

Store(t) ==
  /\ pc[t] = "store"
  /\ current' = built[t]
  /\ pc' = [pc EXCEPT ![t] = "publish"]
  /\ overtaken' = [p \in Pollers |-> p # t \/ overtaken[p]]
  /\ UNCHANGED <<running, engine, entry, stage, built, lastFetch, polls, providers,
                 evaluated>>

Publish(t) ==
  /\ pc[t] = "publish"
  /\ entry' = built[t]
  /\ pc' = [pc EXCEPT ![t] = "observe"]
  /\ UNCHANGED <<running, engine, current, stage, built, lastFetch, polls,
                 providers, evaluated, overtaken>>

\* Swap the last fetch under its own mutex, and stop if it is unchanged.
Observe(t) ==
  /\ pc[t] = "observe"
  /\ lastFetch' = UnixNano(built[t].fetched)
  /\ pc' = [pc EXCEPT ![t] = IF Skips(built[t]) THEN "poll" ELSE "evaluate"]
  /\ UNCHANGED <<running, engine, current, entry, stage, built, polls, providers,
                 evaluated, overtaken>>

Evaluate(t) ==
  /\ pc[t] = "evaluate"
  /\ evaluated' = Append(evaluated, built[t])
  /\ pc' = [pc EXCEPT ![t] = "poll"]
  /\ UNCHANGED <<running, engine, current, entry, stage, built, lastFetch, polls,
                 providers, overtaken>>

-----------------------------------------------------------------------------
Step(t) == Store(t) \/ Publish(t) \/ Observe(t) \/ Evaluate(t)

Next ==
  \/ ConfigureSources
  \/ \E p \in Providers : applyAircraft(p)
  \/ \E r \in Positions : applyReceiver(r)
  \/ applyStats
  \/ \E s \in Sources : failure(s)
  \/ \E t \in Pollers : Step(t)

Spec == Init /\ [][Next]_vars

-----------------------------------------------------------------------------
(* Properties.                                                             *)

\* Type correctness; at most one snapshot is built per applied outcome.
TypeOK ==
  /\ running \in BOOLEAN
  /\ engine \in [sequence : Nat, fetched : Nat,
                 provider : Providers \cup {NoProvider}, changedAt : Nat,
                 receiver : Positions \cup {NoPosition},
                 health : [Sources -> Statuses]]
  /\ current \in Snapshots
  /\ entry \in Snapshots
  /\ pc \in [Pollers -> {"poll", "store", "publish", "observe", "evaluate"}]
  /\ stage \in {"receiver", "stats"}
  /\ built \in [Pollers -> Snapshots]
  /\ lastFetch \in Nat \cup {ZeroTimeNano}
  /\ polls \in 0..MaxPolls
  /\ providers \in Seq(Providers) /\ Len(providers) <= MaxFrames
  /\ evaluated \in Seq(Snapshots)
  /\ overtaken \in [Pollers -> BOOLEAN]

Visible == {current, entry} \cup Range(built) \cup Range(evaluated)

\* No snapshot, however the pollers interleave, shows aircraft that are newer
\* than the fetch time it carries, and its sequence is one the engine issued.
AircraftNotNewerThanFetch ==
  \A s \in Visible : s.aircraft <= s.fetched /\ s.sequence <= engine.sequence

\* ProviderChangedAt is the fetch of the first frame of the unbroken run of
\* frames the active provider has delivered, in every snapshot, stale or not.
ProviderRunStart ==
  \A s \in Visible :
    s.fetched > 0 =>
      /\ s.changedAt \in 1..s.fetched
      /\ \A f \in s.changedAt..s.fetched : providers[f] = s.provider
      /\ s.changedAt > 1 => providers[s.changedAt - 1] # s.provider

\* A poll without a frame reuses the aircraft stored last and names the
\* provider of the last frame, so a snapshot may name a provider that did not
\* deliver its aircraft; its ProviderChangedAt is then later than they are.
AircraftOfProvider ==
  \A s \in Visible :
    s.aircraft > 0 /\ s.changedAt <= s.aircraft => providers[s.aircraft] = s.provider

EvaluatedFetches == {evaluated[i].fetched : i \in DOMAIN evaluated}

\* Once the aircraft poller has finished a frame, the rules have been given a
\* snapshot of that fetch, or the metadata poller, which came first to the
\* observer with one, is about to give them its own: two pollers that skip
\* each other's fetches lose none.
FetchesEvaluated ==
  pc["aircraft"] = "poll" =>
    \A f \in 1..Len(providers) :
      \/ f \in EvaluatedFetches
      \/ pc["metadata"] = "evaluate" /\ built["metadata"].fetched = f

\* Whatever two pollers interleave between building, storing, publishing and
\* observing a snapshot, none claims a fetch older than its aircraft, each
\* names the start of its provider's run, and every fetch reaches the rules.
SnapshotsSound ==
  TypeOK /\ AircraftNotNewerThanFetch /\ ProviderRunStart /\ AircraftOfProvider
    /\ FetchesEvaluated

\* The pointer goes back to a snapshot built earlier, or to an earlier frame,
\* only in the race of the two pollers: the other one has stored a snapshot
\* between the building and the storing of this one.  A failed poll, and every
\* poll that is not overtaken, keeps the last good frame.
CurrentRegressesOnlyWhenOvertaken ==
  [][current' # current =>
       \/ /\ current'.sequence > current.sequence
          /\ current'.aircraft >= current.aircraft
       \/ \E t \in Pollers : overtaken[t] /\ pc[t] = "store" /\ current' = built[t]]_vars

=============================================================================
