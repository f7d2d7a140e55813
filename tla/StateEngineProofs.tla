-------------------------- MODULE StateEngineProofs --------------------------
(***************************************************************************)
(* Proofs about StateEngine, for any providers, positions and numbers of   *)
(* polls: SnapshotsSound and CurrentRegressesOnlyWhenOvertaken.            *)
(*                                                                         *)
(* What holds of a snapshot is shown of each by itself: it was good when   *)
(* it was built, and stays so because frames are only added (Good).  It is *)
(* good when it is built because the engine is up to date (EngineOK) and   *)
(* because the aircraft it may reuse come from a good snapshot.  That no   *)
(* fetch is lost needs a place for each: with the rules, with a poller     *)
(* about to give it to them, or on the aircraft poller's way to the        *)
(* observer; and lastFetch is never a fetch without such a place           *)
(* (FetchOK).  A poller that was not overtaken holds a snapshot newer than *)
(* the one in the pointer (RaceOK).                                        *)
(***************************************************************************)
EXTENDS StateEngine, TLAPS

USE ProviderAssumption, PositionAssumption, BoundAssumption
    DEF ProviderAssumption, PositionAssumption, BoundAssumption

\* x, an engine state or a snapshot, names the start of its provider's run.
RunStart(x) ==
  x.fetched > 0 =>
    /\ x.changedAt \in 1..x.fetched
    /\ \A f \in x.changedAt..x.fetched : providers[f] = x.provider
    /\ x.changedAt > 1 => providers[x.changedAt - 1] # x.provider

\* The engine has applied every frame.
EngineOK ==
  /\ engine.fetched = Len(providers)
  /\ engine.fetched = 0 => engine.provider = NoProvider
  /\ RunStart(engine)

Good(s) ==
  /\ s.aircraft <= s.fetched
  /\ s.fetched <= Len(providers)
  /\ s.sequence <= engine.sequence
  /\ RunStart(s)

AllGood == \A s \in Visible : Good(s)

\* Nothing happens before the sources are configured.
StartOK == ~running => providers = <<>> /\ \A t \in Pollers : pc[t] = "poll"

\* The rules have been given a snapshot of fetch f, or a poller is about to.
Covered(f) ==
  \/ f \in EvaluatedFetches
  \/ \E t \in Pollers : pc[t] = "evaluate" /\ built[t].fetched = f

\* The aircraft poller has yet to show the observer fetch f.
OnItsWay(f) ==
  /\ f = Len(providers)
  /\ pc["aircraft"] \in {"store", "publish", "observe"}
  /\ built["aircraft"].fetched = f

FetchOK ==
  /\ lastFetch > 0 => Covered(lastFetch)
  /\ \A f \in 1..Len(providers) : Covered(f) \/ OnItsWay(f)

Ahead(t) ==
  built[t].sequence > current.sequence /\ built[t].aircraft >= current.aircraft

RaceOK == \A t \in Pollers : pc[t] = "store" /\ ~overtaken[t] => Ahead(t)

IInv ==
  /\ TypeOK
  /\ EngineOK
  /\ AllGood
  /\ StartOK
  /\ FetchOK
  /\ RaceOK

-----------------------------------------------------------------------------
Engines ==
  [sequence : Nat, fetched : Nat, provider : Providers \cup {NoProvider}, changedAt : Nat,
   receiver : Positions \cup {NoPosition}, health : [Sources -> Statuses]]

LEMMA EmptyType == EmptySnapshot \in Snapshots
<1>1. [s \in Sources |-> "unknown"] \in [Sources -> Statuses]
  BY DEF Statuses
<1> QED
  BY <1>1 DEF EmptySnapshot, Snapshots

LEMMA InitInv == Init => IInv
<1> SUFFICES ASSUME Init PROVE IInv
  OBVIOUS
<1>1. engine \in Engines
  <2>1. [s \in Sources |-> "unknown"] \in [Sources -> Statuses]
    BY DEF Statuses
  <2> QED
    BY <2>1 DEF Init, Engines
<1>2. /\ built \in [Pollers -> Snapshots] /\ current \in Snapshots /\ entry \in Snapshots
  BY EmptyType DEF Init
<1>3. TypeOK
  <2>1. /\ pc \in [Pollers -> {"poll", "store", "publish", "observe", "evaluate"}]
        /\ stage \in {"receiver", "stats"} /\ overtaken \in [Pollers -> BOOLEAN]
    BY DEF Init
  <2>2. /\ providers \in Seq(Providers) /\ Len(providers) <= MaxFrames
        /\ evaluated \in Seq(Snapshots)
    BY DEF Init
  <2>3. lastFetch \in Nat \cup {ZeroTimeNano} /\ polls \in 0..MaxPolls
    BY DEF Init
  <2>4. running \in BOOLEAN
    BY DEF Init
  <2> QED
    BY <1>1, <1>2, <2>1, <2>2, <2>3, <2>4 DEF TypeOK, Engines
<1>4. \A s \in Visible : s = EmptySnapshot
  BY DEF Init, Visible, Range
<1>5. engine.fetched = 0 /\ engine.provider = NoProvider /\ engine.sequence = 0
      /\ engine.receiver = NoPosition /\ Len(providers) = 0
  BY DEF Init
<1>6. EngineOK
  BY <1>5 DEF EngineOK, RunStart
<1>7. EmptySnapshot.aircraft = 0 /\ EmptySnapshot.fetched = 0 /\ EmptySnapshot.sequence = 0
  BY DEF EmptySnapshot
<1>8. AllGood
  BY <1>4, <1>5, <1>7 DEF AllGood, Good, RunStart
<1>9. StartOK /\ FetchOK /\ RaceOK
  BY <1>5 DEF Init, StartOK, FetchOK, RaceOK
<1> QED
  BY <1>3, <1>6, <1>8, <1>9 DEF IInv

\* An outcome of a poll that is not a frame: the engine becomes e and the
\* snapshot reuses the aircraft of the one stored last.
Polled(s, e, rebuild) ==
  /\ Fetches(s) /\ polls < MaxPolls /\ polls' = polls + 1 /\ UNCHANGED providers
  /\ e.sequence = engine.sequence + 1 /\ e.fetched = engine.fetched
  /\ e.provider = engine.provider /\ e.changedAt = engine.changedAt
  /\ Apply(s, e, buildLocked(e, rebuild))

LEMMA HealthType ==
  ASSUME TypeOK, NEW s \in Sources, NEW status \in Statuses
  PROVE  [engine.health EXCEPT ![s] = status] \in [Sources -> Statuses]
<1>1. engine.health \in [Sources -> Statuses]
  BY DEF TypeOK
<1> QED
  BY <1>1

LEMMA PolledCases ==
  ASSUME TypeOK,
         \/ \E r \in Positions : applyReceiver(r)
         \/ applyStats
         \/ \E s \in Sources : failure(s)
  PROVE  \E s \in Sources : \E e \in Engines : \E rebuild \in BOOLEAN : Polled(s, e, rebuild)
<1>1. engine \in Engines
  BY DEF TypeOK, Engines
<1>2. "ok" \in Statuses /\ "failing" \in Statuses /\ "stats" \in Sources
      /\ "receiver" \in Sources
  BY DEF Statuses, Sources, MetadataSources
<1>3. ASSUME NEW r \in Positions, applyReceiver(r)
      PROVE  \E e \in Engines : \E rebuild \in BOOLEAN : Polled("receiver", e, rebuild)
  <2> DEFINE health == [engine.health EXCEPT !["receiver"] = "ok"]
             e == [engine EXCEPT !.sequence = @ + 1, !.receiver = r, !.health = health]
             changed == engine.receiver # r
  <2>1. health \in [Sources -> Statuses]
    BY <1>2, HealthType
  <2>2. /\ Fetches("receiver") /\ polls < MaxPolls /\ polls' = polls + 1 /\ UNCHANGED providers
        /\ Apply("receiver", e, buildLocked(e, changed))
    <3> DEFINE base == [engine EXCEPT !.sequence = @ + 1, !.receiver = r]
    <3>1. base \in Engines /\ base.health = engine.health
      <4>1. engine.sequence + 1 \in Nat /\ r \in Positions \cup {NoPosition}
        BY <1>1 DEF Engines
      <4> QED
        BY <1>1, <4>1 DEF Engines
    <3>2. e = [base EXCEPT !.health = health]
      OBVIOUS
    <3>3. [engine EXCEPT !.sequence = @ + 1, !.receiver = r, !.health["receiver"] = "ok"]
            = [base EXCEPT !.health["receiver"] = "ok"]
      OBVIOUS
    <3> HIDE DEF base
    <3>4. [base EXCEPT !.health["receiver"] = "ok"] = [base EXCEPT !.health = health]
      BY <3>1 DEF Engines
    <3> QED
      BY <1>3, <3>2, <3>3, <3>4 DEF applyReceiver
  <2> HIDE DEF health
  <2>3. /\ e \in Engines
        /\ e.sequence = engine.sequence + 1 /\ e.fetched = engine.fetched
        /\ e.provider = engine.provider /\ e.changedAt = engine.changedAt
    <3>1. engine.sequence + 1 \in Nat /\ r \in Positions \cup {NoPosition}
      BY <1>1 DEF Engines
    <3>2. e \in Engines
      BY <1>1, <2>1, <3>1 DEF Engines
    <3>3. /\ e.sequence = engine.sequence + 1 /\ e.fetched = engine.fetched
          /\ e.provider = engine.provider /\ e.changedAt = engine.changedAt
      BY <1>1 DEF Engines
    <3> QED
      BY <3>2, <3>3
  <2> HIDE DEF e
  <2>4. changed \in BOOLEAN
    OBVIOUS
  <2> HIDE DEF changed
  <2> QED
    BY <2>2, <2>3, <2>4 DEF Polled
<1>4. ASSUME NEW s \in Sources, NEW status \in Statuses,
             Fetches(s), polls < MaxPolls, polls' = polls + 1, UNCHANGED providers,
             LET e == [engine EXCEPT !.sequence = @ + 1, !.health[s] = status]
             IN  Apply(s, e, buildLocked(e, FALSE))
      PROVE  \E e \in Engines : \E rebuild \in BOOLEAN : Polled(s, e, rebuild)
  <2> DEFINE health == [engine.health EXCEPT ![s] = status]
             e == [engine EXCEPT !.sequence = @ + 1, !.health = health]
  <2>1. health \in [Sources -> Statuses]
    BY HealthType
  <2>2. Apply(s, e, buildLocked(e, FALSE))
    <3> DEFINE base == [engine EXCEPT !.sequence = @ + 1]
    <3>1. base \in Engines /\ base.health = engine.health
      BY <1>1 DEF Engines
    <3>2. e = [base EXCEPT !.health = health]
      OBVIOUS
    <3>3. [engine EXCEPT !.sequence = @ + 1, !.health[s] = status]
            = [base EXCEPT !.health[s] = status]
      OBVIOUS
    <3> HIDE DEF base
    <3>4. [base EXCEPT !.health[s] = status] = [base EXCEPT !.health = health]
      BY <3>1 DEF Engines
    <3> QED
      BY <1>4, <3>2, <3>3, <3>4
  <2> HIDE DEF health
  <2>3. /\ e \in Engines
        /\ e.sequence = engine.sequence + 1 /\ e.fetched = engine.fetched
        /\ e.provider = engine.provider /\ e.changedAt = engine.changedAt
        /\ e.receiver = engine.receiver
    <3>1. engine.sequence + 1 \in Nat
      BY <1>1 DEF Engines
    <3>2. e \in Engines
      BY <1>1, <2>1, <3>1 DEF Engines
    <3>3. /\ e.sequence = engine.sequence + 1 /\ e.fetched = engine.fetched
          /\ e.provider = engine.provider /\ e.changedAt = engine.changedAt
          /\ e.receiver = engine.receiver
      BY <1>1 DEF Engines
    <3> QED
      BY <3>2, <3>3
  <2> HIDE DEF e
  <2> QED
    BY <1>4, <2>2, <2>3 DEF Polled
<1>5. ASSUME applyStats
      PROVE  \E e \in Engines : \E rebuild \in BOOLEAN : Polled("stats", e, rebuild)
  BY <1>2, <1>4, <1>5 DEF applyStats
<1>6. ASSUME NEW s \in Sources, failure(s)
      PROVE  \E e \in Engines : \E rebuild \in BOOLEAN : Polled(s, e, rebuild)
  BY <1>2, <1>4, <1>6 DEF failure
<1> QED
  BY <1>2, <1>3, <1>5, <1>6

LEMMA NextCases ==
  ASSUME TypeOK, [Next]_vars
  PROVE  \/ ConfigureSources
         \/ \E p \in Providers : applyAircraft(p)
         \/ \E s \in Sources : \E e \in Engines : \E rebuild \in BOOLEAN : Polled(s, e, rebuild)
         \/ \E t \in Pollers : Store(t)
         \/ \E t \in Pollers : Publish(t)
         \/ \E t \in Pollers : Observe(t)
         \/ \E t \in Pollers : Evaluate(t)
         \/ UNCHANGED vars
  BY PolledCases DEF Next, Step

\* A frame: the engine becomes e and the snapshot shows the frame's aircraft.
Framed(p, e) ==
  LET frame == Len(providers) + 1
  IN  /\ Fetches("aircraft") /\ Len(providers) < MaxFrames
      /\ providers' = Append(providers, p) /\ UNCHANGED polls
      /\ e.sequence = engine.sequence + 1 /\ e.fetched = frame /\ e.provider = p
      /\ e.changedAt = IF engine.provider # p THEN frame ELSE engine.changedAt
      /\ e.receiver = engine.receiver
      /\ Apply("aircraft", e, snapshotLocked(e, frame, e.receiver))

LEMMA FrameCases ==
  ASSUME TypeOK, NEW p \in Providers, applyAircraft(p)
  PROVE  \E e \in Engines : Framed(p, e)
<1> DEFINE frame == Len(providers) + 1
           since == IF engine.provider # p THEN frame ELSE engine.changedAt
           health == [engine.health EXCEPT !["aircraft"] = "ok"]
           base == [engine EXCEPT !.sequence = @ + 1, !.provider = p, !.changedAt = since,
                                  !.fetched = frame]
           e == [base EXCEPT !.health = health]
<1>1. engine \in Engines /\ Len(providers) \in Nat
  BY DEF TypeOK, Engines
<1>2. frame \in Nat /\ since \in Nat /\ engine.sequence + 1 \in Nat
  BY <1>1 DEF Engines
<1>3. health \in [Sources -> Statuses]
  <2>1. "ok" \in Statuses /\ "aircraft" \in Sources
    BY DEF Statuses, Sources
  <2> QED
    BY <2>1, HealthType
<1>4. /\ Fetches("aircraft") /\ Len(providers) < MaxFrames
      /\ providers' = Append(providers, p) /\ UNCHANGED polls
  BY DEF applyAircraft
<1>5. LET x == [base EXCEPT !.health["aircraft"] = "ok"]
      IN  Apply("aircraft", x, snapshotLocked(x, frame, x.receiver))
  <2>1. [engine EXCEPT !.sequence = @ + 1, !.provider = p,
                       !.changedAt = IF engine.provider # p THEN frame ELSE @,
                       !.fetched = frame, !.health["aircraft"] = "ok"]
          = [base EXCEPT !.health["aircraft"] = "ok"]
    BY <1>1 DEF Engines
  <2> QED
    BY <2>1 DEF applyAircraft, buildNewAircraftLocked
<1> HIDE DEF since, frame
<1>6. base \in Engines /\ base.health = engine.health
  <2>1. base \in Engines
    BY <1>1, <1>2 DEF Engines
  <2>2. base.health = engine.health
    BY <1>1 DEF Engines
  <2> QED
    BY <2>1, <2>2
<1>7. /\ base.sequence = engine.sequence + 1 /\ base.fetched = frame /\ base.provider = p
      /\ base.changedAt = since /\ base.receiver = engine.receiver
  BY <1>1 DEF Engines
<1> HIDE DEF base
<1>8. [base EXCEPT !.health["aircraft"] = "ok"] = e
  BY <1>6 DEF Engines
<1> HIDE DEF health
<1>9. /\ e \in Engines
      /\ e.sequence = base.sequence /\ e.fetched = base.fetched /\ e.provider = base.provider
      /\ e.changedAt = base.changedAt /\ e.receiver = base.receiver
  <2>1. e \in Engines
    BY <1>3, <1>6 DEF Engines
  <2>2. /\ e.sequence = base.sequence /\ e.fetched = base.fetched /\ e.provider = base.provider
        /\ e.changedAt = base.changedAt /\ e.receiver = base.receiver
    BY <1>6 DEF Engines
  <2> QED
    BY <2>1, <2>2
<1>10. Apply("aircraft", e, snapshotLocked(e, frame, e.receiver))
  BY <1>5, <1>8
<1> HIDE DEF e
<1> QED
  BY <1>4, <1>7, <1>9, <1>10 DEF Framed, frame, since

LEMMA SnapshotType ==
  ASSUME NEW e \in Engines, NEW aircraft \in Nat,
         NEW distances \in Positions \cup {NoPosition}
  PROVE  snapshotLocked(e, aircraft, distances) \in Snapshots
BY DEF snapshotLocked, Snapshots, Engines

LEMMA ReuseType ==
  ASSUME TypeOK, NEW e \in Engines, NEW rebuild \in BOOLEAN
  PROVE  buildLocked(e, rebuild) \in Snapshots
<1>1. /\ current.aircraft \in Nat
      /\ current.distances \in Positions \cup {NoPosition}
      /\ e.receiver \in Positions \cup {NoPosition}
  BY DEF TypeOK, Snapshots, Engines
<1> QED
  BY <1>1, SnapshotType DEF buildLocked

LEMMA ApplyType ==
  ASSUME TypeOK, NEW s \in Sources, NEW e \in Engines, NEW snapshot \in Snapshots,
         Apply(s, e, snapshot), polls' \in 0..MaxPolls,
         providers' \in Seq(Providers), Len(providers') <= MaxFrames
  PROVE  TypeOK'
<1>1. stage' \in {"receiver", "stats"}
  <2>1. After(s) \in {"receiver", "stats"}
    BY DEF After, TypeOK, Sources, MetadataSources
  <2> QED
    BY <2>1 DEF Apply
<1>2. built' \in [Pollers -> Snapshots]
  BY DEF Apply, TypeOK, PollerOf, Pollers
<1>3. pc' \in [Pollers -> {"poll", "store", "publish", "observe", "evaluate"}]
  BY DEF Apply, TypeOK, PollerOf, Pollers
<1>4. overtaken' \in [Pollers -> BOOLEAN]
  BY DEF Apply, TypeOK, PollerOf, Pollers
<1> QED
  BY <1>1, <1>2, <1>3, <1>4 DEF Apply, TypeOK, Engines

\* configureSources, by its engine state and snapshot.
Configured(e) ==
  LET snapshot == buildLocked(e, FALSE)
  IN  /\ ~running /\ running' = TRUE
      /\ e.sequence = engine.sequence + 1 /\ e.fetched = engine.fetched
      /\ e.provider = engine.provider /\ e.changedAt = engine.changedAt
      /\ engine' = e /\ current' = snapshot /\ entry' = snapshot
      /\ lastFetch' = UnixNano(snapshot.fetched)
      /\ evaluated' = IF Skips(snapshot) THEN evaluated ELSE Append(evaluated, snapshot)
      /\ UNCHANGED <<pc, stage, built, polls, providers, overtaken>>

LEMMA ConfiguredCases ==
  ASSUME TypeOK, ConfigureSources
  PROVE  \E e \in Engines : Configured(e)
<1> DEFINE e == [engine EXCEPT !.sequence = @ + 1]
<1>1. engine \in Engines /\ engine.sequence + 1 \in Nat
  BY DEF TypeOK, Engines
<1>2. LET snapshot == buildLocked(e, FALSE)
      IN  /\ ~running /\ running' = TRUE
          /\ engine' = e /\ current' = snapshot /\ entry' = snapshot
          /\ lastFetch' = UnixNano(snapshot.fetched)
          /\ evaluated' = IF Skips(snapshot) THEN evaluated ELSE Append(evaluated, snapshot)
          /\ UNCHANGED <<pc, stage, built, polls, providers, overtaken>>
  BY DEF ConfigureSources
<1>3. e \in Engines
  BY <1>1 DEF Engines
<1>4. /\ e.sequence = engine.sequence + 1 /\ e.fetched = engine.fetched
      /\ e.provider = engine.provider /\ e.changedAt = engine.changedAt
  BY <1>1 DEF Engines
<1> HIDE DEF e
<1> QED
  BY <1>2, <1>3, <1>4 DEF Configured

LEMMA UnixNanoType == ASSUME NEW n \in Nat PROVE UnixNano(n) \in Nat \cup {ZeroTimeNano}
BY DEF UnixNano

LEMMA TypeStep == ASSUME TypeOK, [Next]_vars PROVE TypeOK'
<1>1. ASSUME ConfigureSources PROVE TypeOK'
  <2>1. PICK e \in Engines : Configured(e)
    BY <1>1, ConfiguredCases
  <2> DEFINE snapshot == buildLocked(e, FALSE)
  <2>2. snapshot \in Snapshots
    BY ReuseType
  <2>3. /\ running' = TRUE /\ engine' = e
        /\ current' = snapshot /\ entry' = snapshot
        /\ lastFetch' = UnixNano(snapshot.fetched)
        /\ evaluated' = evaluated \/ evaluated' = Append(evaluated, snapshot)
        /\ UNCHANGED <<pc, stage, built, polls, providers, overtaken>>
    BY <2>1 DEF Configured
  <2> HIDE DEF snapshot
  <2>4. snapshot.fetched \in Nat
    BY <2>2 DEF Snapshots
  <2>5. lastFetch' \in Nat \cup {ZeroTimeNano}
    BY <2>3, <2>4, UnixNanoType
  <2>6. evaluated' \in Seq(Snapshots)
    <3>1. evaluated \in Seq(Snapshots)
      BY DEF TypeOK
    <3>2. Append(evaluated, snapshot) \in Seq(Snapshots)
      BY <2>2, <3>1
    <3> QED
      BY <2>3, <3>1, <3>2
  <2> QED
    BY <2>2, <2>3, <2>5, <2>6 DEF TypeOK, Engines
<1>2. ASSUME NEW p \in Providers, applyAircraft(p) PROVE TypeOK'
  <2>1. PICK e \in Engines : Framed(p, e)
    BY <1>2, FrameCases
  <2>2. providers \in Seq(Providers) /\ Len(providers) \in Nat
        /\ e.receiver \in Positions \cup {NoPosition}
    BY DEF TypeOK, Engines
  <2>3. providers' \in Seq(Providers) /\ Len(providers') <= MaxFrames
        /\ polls' \in 0..MaxPolls
    BY <2>1, <2>2 DEF Framed, TypeOK
  <2>4. snapshotLocked(e, Len(providers) + 1, e.receiver) \in Snapshots
    <3>1. Len(providers) + 1 \in Nat
      BY <2>2
    <3> QED
      BY <2>2, <3>1, SnapshotType
  <2> QED
    BY <2>1, <2>3, <2>4, ApplyType DEF Framed, Sources
<1>3. ASSUME NEW s \in Sources, NEW e \in Engines, NEW rebuild \in BOOLEAN,
             Polled(s, e, rebuild)
      PROVE  TypeOK'
  <2>1. buildLocked(e, rebuild) \in Snapshots
    BY ReuseType
  <2>2. polls' \in 0..MaxPolls
    BY <1>3 DEF Polled, TypeOK
  <2> QED
    BY <1>3, <2>1, <2>2, ApplyType DEF Polled, TypeOK
<1>4. ASSUME NEW t \in Pollers, Store(t) \/ Publish(t) PROVE TypeOK'
  <2>1. built[t] \in Snapshots
    BY DEF TypeOK
  <2> QED
    BY <1>4, <2>1 DEF Store, Publish, TypeOK
<1>5. ASSUME NEW t \in Pollers, Observe(t) PROVE TypeOK'
  <2>1. built[t].fetched \in Nat
    BY DEF TypeOK, Snapshots
  <2>2. lastFetch' \in Nat \cup {ZeroTimeNano}
    BY <1>5, <2>1, UnixNanoType DEF Observe
  <2> QED
    BY <1>5, <2>2 DEF Observe, TypeOK
<1>6. ASSUME NEW t \in Pollers, Evaluate(t) PROVE TypeOK'
  <2>1. built[t] \in Snapshots
    BY DEF TypeOK
  <2>2. evaluated' \in Seq(Snapshots)
    BY <1>6, <2>1 DEF Evaluate, TypeOK
  <2> QED
    BY <1>6, <2>2 DEF Evaluate, TypeOK
<1>7. CASE UNCHANGED vars
  BY <1>7 DEF vars, TypeOK
<1> QED
  BY <1>1, <1>2, <1>3, <1>4, <1>5, <1>6, <1>7, NextCases

-----------------------------------------------------------------------------
(* The snapshots a reader can see.                                         *)

LEMMA VisibleType == ASSUME TypeOK PROVE Visible \subseteq Snapshots
<1>1. Range(built) \subseteq Snapshots /\ Range(evaluated) \subseteq Snapshots
  BY DEF TypeOK, Range
<1> QED
  BY <1>1 DEF Visible, TypeOK

LEMMA VisibleMembers ==
  ASSUME TypeOK
  PROVE  /\ current \in Visible
         /\ \A t \in Pollers : built[t] \in Visible
         /\ \A i \in DOMAIN evaluated : evaluated[i] \in Visible
BY DEF Visible, Range, TypeOK

LEMMA ApplyVisible ==
  ASSUME TypeOK, NEW s \in Sources, NEW e, NEW snapshot, Apply(s, e, snapshot)
  PROVE  Visible' \subseteq Visible \cup {snapshot}
<1>1. Range(built') \subseteq Range(built) \cup {snapshot}
  <2>1. built' = [built EXCEPT ![PollerOf(s)] = snapshot] /\ DOMAIN built = Pollers
    BY DEF Apply, TypeOK
  <2> QED
    BY <2>1 DEF Range
<1>2. UNCHANGED <<current, entry, evaluated>>
  BY DEF Apply
<1> QED
  BY <1>1, <1>2 DEF Visible

LEMMA AppendRange ==
  ASSUME NEW S, NEW q \in Seq(S), NEW x \in S
  PROVE  Range(Append(q, x)) \subseteq Range(q) \cup {x}
BY DEF Range

LEMMA ConfiguredVisible ==
  ASSUME TypeOK, NEW e \in Engines, Configured(e)
  PROVE  Visible' \subseteq Visible \cup {buildLocked(e, FALSE)}
<1> DEFINE snapshot == buildLocked(e, FALSE)
<1>1. current' = snapshot /\ entry' = snapshot /\ built' = built
      /\ (evaluated' = evaluated \/ evaluated' = Append(evaluated, snapshot))
  BY DEF Configured
<1>2. snapshot \in Snapshots
  BY ReuseType
<1> HIDE DEF snapshot
<1>3. Range(evaluated') \subseteq Range(evaluated) \cup {snapshot}
  BY <1>1, <1>2, AppendRange DEF TypeOK
<1>4. Visible' \subseteq Visible \cup {snapshot}
  BY <1>1, <1>3 DEF Visible
<1> QED
  BY <1>4 DEF snapshot

LEMMA PublishVisible ==
  ASSUME TypeOK, NEW t \in Pollers,
         Store(t) \/ Publish(t) \/ Observe(t) \/ Evaluate(t)
  PROVE  Visible' \subseteq Visible
<1>1. built[t] \in Range(built) /\ built[t] \in Snapshots
  BY DEF TypeOK, Range
<1>2. built' = built
  BY DEF Store, Publish, Observe, Evaluate
<1>3. current' \in {current, built[t]} /\ entry' \in {entry, built[t]}
  BY DEF Store, Publish, Observe, Evaluate
<1>4. Range(evaluated') \subseteq Range(evaluated) \cup {built[t]}
  <2>1. evaluated' = evaluated \/ evaluated' = Append(evaluated, built[t])
    BY DEF Store, Publish, Observe, Evaluate
  <2>2. evaluated \in Seq(Snapshots)
    BY DEF TypeOK
  <2>3. Range(Append(evaluated, built[t])) \subseteq Range(evaluated) \cup {built[t]}
    BY <1>1, <2>2, AppendRange
  <2> QED
    BY <2>1, <2>3
<1> QED
  BY <1>1, <1>2, <1>3, <1>4 DEF Visible

-----------------------------------------------------------------------------
(* What holds of every snapshot, however the pollers interleave.           *)

\* A later frame does not change what a good snapshot says.
LEMMA KeepGood ==
  ASSUME TypeOK, NEW x \in Snapshots, Good(x),
         providers' = providers \/ \E p \in Providers : providers' = Append(providers, p),
         engine'.sequence \in Nat, engine'.sequence >= engine.sequence
  PROVE  Good(x)'
<1>1. providers \in Seq(Providers) /\ Len(providers) \in Nat /\ engine.sequence \in Nat
      /\ x.fetched \in Nat /\ x.changedAt \in Nat /\ x.sequence \in Nat
  BY DEF TypeOK, Snapshots
<1>2. Len(providers) <= Len(providers')
      /\ \A f \in 1..Len(providers) : providers'[f] = providers[f]
  BY <1>1
<1>3. x.fetched <= Len(providers) /\ x.sequence <= engine.sequence /\ x.aircraft <= x.fetched
      /\ RunStart(x)
  BY DEF Good
<1>4. x.fetched <= Len(providers')
  <2>1. Len(providers') \in Nat
    BY <1>1
  <2> QED
    BY <1>1, <1>2, <1>3, <2>1
<1>5. RunStart(x)'
  <2> SUFFICES ASSUME x.fetched > 0
               PROVE  /\ x.changedAt \in 1..x.fetched
                      /\ \A f \in x.changedAt..x.fetched : providers'[f] = x.provider
                      /\ x.changedAt > 1 => providers'[x.changedAt - 1] # x.provider
    BY DEF RunStart
  <2>1. /\ x.changedAt \in 1..x.fetched
        /\ \A f \in x.changedAt..x.fetched : providers[f] = x.provider
        /\ x.changedAt > 1 => providers[x.changedAt - 1] # x.provider
    BY <1>3 DEF RunStart
  <2>2. \A f \in 1..x.fetched : providers'[f] = providers[f]
    BY <1>1, <1>2, <1>3
  <2>3. ASSUME x.changedAt > 1 PROVE x.changedAt - 1 \in 1..x.fetched
    BY <1>1, <2>1, <2>3
  <2>4. x.changedAt..x.fetched \subseteq 1..x.fetched
    BY <1>1, <2>1
  <2> QED
    BY <2>1, <2>2, <2>3, <2>4
<1>6. x.sequence <= engine'.sequence
  BY <1>1, <1>3
<1> QED
  BY <1>3, <1>4, <1>5, <1>6 DEF Good

\* The frame p delivers extends its run or starts one.
LEMMA FrameRun ==
  ASSUME TypeOK, EngineOK, NEW p \in Providers, NEW e \in Engines, Framed(p, e),
         NEW s, s = snapshotLocked(e, Len(providers) + 1, e.receiver)
  PROVE  EngineOK' /\ Good(s)'
<1> DEFINE n == Len(providers)
           frame == n + 1
<1>1. providers \in Seq(Providers) /\ n \in Nat /\ engine.changedAt \in Nat
      /\ engine.sequence \in Nat
  BY DEF TypeOK
<1>2. engine.fetched = n /\ (n = 0 => engine.provider = NoProvider) /\ RunStart(engine)
  BY DEF EngineOK
<1>3. /\ engine' = e /\ providers' = Append(providers, p)
      /\ e.fetched = frame /\ e.provider = p /\ e.sequence = engine.sequence + 1
      /\ e.changedAt = IF engine.provider # p THEN frame ELSE engine.changedAt
  BY DEF Framed, Apply
<1>4. Len(providers') = frame /\ providers'[frame] = p
      /\ \A f \in 1..n : providers'[f] = providers[f]
  BY <1>1, <1>3
<1>5. /\ e.changedAt \in 1..frame
      /\ \A f \in e.changedAt..frame : providers'[f] = p
      /\ e.changedAt > 1 => providers'[e.changedAt - 1] # p
  <2>1. CASE engine.provider # p
    <3>1. e.changedAt = frame
      BY <1>3, <2>1
    <3>2. frame > 1 => providers[n] # p
      BY <1>1, <1>2, <2>1 DEF RunStart
    <3> QED
      BY <1>1, <1>4, <3>1, <3>2
  <2>2. CASE engine.provider = p
    <3>1. e.changedAt = engine.changedAt /\ n > 0
      BY <1>1, <1>2, <1>3, <2>2
    <3>2. /\ engine.changedAt \in 1..n
          /\ \A f \in engine.changedAt..n : providers[f] = p
          /\ engine.changedAt > 1 => providers[engine.changedAt - 1] # p
      BY <1>2, <2>2, <3>1 DEF RunStart
    <3> QED
      BY <1>1, <1>4, <3>1, <3>2
  <2> QED
    BY <2>1, <2>2
<1>6. /\ s.fetched = frame /\ s.changedAt = e.changedAt /\ s.provider = p
      /\ s.aircraft = frame /\ s.sequence = e.sequence
  BY <1>3 DEF snapshotLocked
<1>7. RunStart(e)' /\ RunStart(s)'
  BY <1>3, <1>5, <1>6 DEF RunStart
<1>8. EngineOK'
  BY <1>1, <1>3, <1>4, <1>7 DEF EngineOK
<1>9. Good(s)'
  <2>1. s.aircraft <= s.fetched /\ s.fetched <= Len(providers')
    BY <1>1, <1>4, <1>6
  <2>2. s.sequence <= engine'.sequence
    BY <1>1, <1>3, <1>6
  <2> QED
    BY <1>7, <2>1, <2>2 DEF Good
<1> QED
  BY <1>8, <1>9

\* The aircraft a poll without a frame reuses are no newer than the engine.
LEMMA ReuseGood ==
  ASSUME TypeOK, EngineOK, AllGood, NEW e \in Engines, NEW rebuild \in BOOLEAN,
         engine' = e, providers' = providers,
         e.sequence = engine.sequence + 1, e.fetched = engine.fetched,
         e.provider = engine.provider, e.changedAt = engine.changedAt,
         NEW s, s = buildLocked(e, rebuild)
  PROVE  EngineOK' /\ Good(s)'
<1>1. current.aircraft <= current.fetched /\ current.fetched <= Len(providers)
  BY VisibleMembers DEF AllGood, Good
<1>2. current.aircraft \in Nat /\ current.fetched \in Nat /\ Len(providers) \in Nat
      /\ engine.sequence \in Nat
  BY DEF TypeOK, Snapshots
<1>3. engine.fetched = Len(providers) /\ RunStart(engine)
      /\ (engine.fetched = 0 => engine.provider = NoProvider)
  BY DEF EngineOK
<1>4. /\ s.fetched = e.fetched /\ s.changedAt = e.changedAt /\ s.provider = e.provider
      /\ s.aircraft = current.aircraft /\ s.sequence = e.sequence
  BY DEF buildLocked, snapshotLocked
<1>5. RunStart(e)' /\ RunStart(s)'
  BY <1>3, <1>4 DEF RunStart
<1>6. EngineOK'
  BY <1>3, <1>5 DEF EngineOK
<1>7. Good(s)'
  BY <1>1, <1>2, <1>3, <1>4, <1>5 DEF Good
<1> QED
  BY <1>6, <1>7

LEMMA GoodStep ==
  ASSUME TypeOK, TypeOK', EngineOK, AllGood, [Next]_vars
  PROVE  EngineOK' /\ AllGood'
<1>1. Visible \subseteq Snapshots /\ (\A x \in Visible : Good(x))
      /\ engine.sequence \in Nat /\ engine'.sequence \in Nat
  BY VisibleType DEF AllGood, TypeOK
<1>2. ASSUME NEW s \in Snapshots, Good(s)', Visible' \subseteq Visible \cup {s},
             providers' = providers \/ \E p \in Providers : providers' = Append(providers, p),
             engine'.sequence >= engine.sequence
      PROVE  AllGood'
  <2> SUFFICES ASSUME NEW x \in Visible' PROVE Good(x)'
    BY DEF AllGood
  <2>1. CASE x = s
    BY <1>2, <2>1
  <2>2. CASE x \in Visible
    BY <1>1, <1>2, <2>2, KeepGood
  <2> QED
    BY <1>2, <2>1, <2>2
<1>3. ASSUME ConfigureSources
      PROVE  EngineOK' /\ AllGood'
  <2>1. PICK e \in Engines : Configured(e)
    BY <1>3, ConfiguredCases
  <2>2. PICK s \in Snapshots : s = buildLocked(e, FALSE)
    BY ReuseType
  <2>3. /\ engine' = e /\ providers' = providers
        /\ e.sequence = engine.sequence + 1 /\ e.fetched = engine.fetched
        /\ e.provider = engine.provider /\ e.changedAt = engine.changedAt
    BY <2>1 DEF Configured
  <2>4. EngineOK' /\ Good(s)'
    BY <2>2, <2>3, ReuseGood
  <2>5. Visible' \subseteq Visible \cup {s}
    BY <2>1, <2>2, ConfiguredVisible
  <2>6. engine'.sequence >= engine.sequence
    BY <1>1, <2>3
  <2> QED
    BY <1>2, <2>3, <2>4, <2>5, <2>6
<1>4. ASSUME NEW p \in Providers, applyAircraft(p) PROVE EngineOK' /\ AllGood'
  <2>1. PICK e \in Engines : Framed(p, e)
    BY <1>4, FrameCases
  <2>2. Len(providers) + 1 \in Nat /\ e.receiver \in Positions \cup {NoPosition}
    BY DEF TypeOK, Engines
  <2>3. PICK s \in Snapshots : s = snapshotLocked(e, Len(providers) + 1, e.receiver)
    BY <2>2, SnapshotType
  <2>4. /\ engine' = e /\ providers' = Append(providers, p)
        /\ e.sequence = engine.sequence + 1 /\ Apply("aircraft", e, s)
    BY <2>1, <2>3 DEF Framed, Apply
  <2>5. EngineOK' /\ Good(s)'
    BY <2>1, <2>3, FrameRun
  <2>6. Visible' \subseteq Visible \cup {s}
    BY <2>4, ApplyVisible DEF Sources
  <2>7. engine'.sequence >= engine.sequence
    BY <1>1, <2>4
  <2> QED
    BY <1>2, <2>4, <2>5, <2>6, <2>7
<1>5. ASSUME NEW src \in Sources, NEW e \in Engines, NEW rebuild \in BOOLEAN,
             Polled(src, e, rebuild)
      PROVE  EngineOK' /\ AllGood'
  <2>1. PICK s \in Snapshots : s = buildLocked(e, rebuild)
    BY ReuseType
  <2>2. /\ engine' = e /\ providers' = providers /\ Apply(src, e, s)
        /\ e.sequence = engine.sequence + 1 /\ e.fetched = engine.fetched
        /\ e.provider = engine.provider /\ e.changedAt = engine.changedAt
    BY <1>5, <2>1 DEF Polled, Apply
  <2>3. EngineOK' /\ Good(s)'
    BY <2>1, <2>2, ReuseGood
  <2>4. Visible' \subseteq Visible \cup {s}
    BY <2>2, ApplyVisible
  <2>5. engine'.sequence >= engine.sequence
    BY <1>1, <2>2
  <2> QED
    BY <1>2, <2>2, <2>3, <2>4, <2>5
<1>6. ASSUME UNCHANGED <<engine, providers>>, Visible' \subseteq Visible
      PROVE  EngineOK' /\ AllGood'
  <2>1. EngineOK'
    BY <1>6 DEF EngineOK, RunStart
  <2>2. ASSUME NEW x \in Visible PROVE Good(x)'
    BY <1>1, <1>6, <2>2 DEF Good, RunStart
  <2> QED
    BY <1>6, <2>1, <2>2 DEF AllGood
<1>7. ASSUME NEW t \in Pollers, Store(t) \/ Publish(t) \/ Observe(t) \/ Evaluate(t)
      PROVE  EngineOK' /\ AllGood'
  <2>1. UNCHANGED <<engine, providers>>
    BY <1>7 DEF Store, Publish, Observe, Evaluate
  <2> QED
    BY <1>6, <1>7, <2>1, PublishVisible
<1>8. CASE UNCHANGED vars
  <2>1. Visible' = Visible
    BY <1>8 DEF vars, Visible
  <2> QED
    BY <1>6, <1>8, <2>1 DEF vars
<1> QED
  BY <1>3, <1>4, <1>5, <1>7, <1>8, NextCases

-----------------------------------------------------------------------------
(* Fetches and races.                                                      *)

LEMMA StartStep == ASSUME TypeOK, StartOK, [Next]_vars PROVE StartOK'
<1>1. ASSUME NEW s \in Sources, Fetches(s), NEW e, NEW snapshot, Apply(s, e, snapshot)
      PROVE  running'
  BY <1>1 DEF Fetches, Apply
<1>2. ASSUME NEW t \in Pollers, Step(t) PROVE running'
  <2>1. pc[t] # "poll" /\ UNCHANGED running
    BY <1>2 DEF Step, Store, Publish, Observe, Evaluate
  <2>2. running
    BY <2>1 DEF StartOK
  <2> QED
    BY <2>1, <2>2
<1>3. CASE UNCHANGED vars
  BY <1>3 DEF vars, StartOK
<1>4. ASSUME ConfigureSources PROVE running'
  BY <1>4 DEF ConfigureSources
<1>5. ASSUME NEW p \in Providers, applyAircraft(p) PROVE running'
  BY <1>1, <1>5 DEF applyAircraft, Sources
<1>6. ASSUME NEW s \in Sources, NEW e \in Engines, NEW rebuild \in BOOLEAN,
             Polled(s, e, rebuild)
      PROVE  running'
  BY <1>1, <1>6 DEF Polled
<1>7. running' => StartOK'
  BY DEF StartOK
<1> QED
  BY <1>2, <1>3, <1>4, <1>5, <1>6, <1>7, NextCases DEF Step

\* What the rules have been given stays given.
LEMMA EvaluatedGrows ==
  ASSUME TypeOK, NEW x \in Snapshots,
         evaluated' = evaluated \/ evaluated' = Append(evaluated, x)
  PROVE  /\ EvaluatedFetches \subseteq EvaluatedFetches'
         /\ evaluated' = Append(evaluated, x) => x.fetched \in EvaluatedFetches'
<1>1. evaluated \in Seq(Snapshots)
  BY DEF TypeOK
<1>2. CASE evaluated' = evaluated /\ evaluated' # Append(evaluated, x)
  BY <1>2 DEF EvaluatedFetches
<1>3. CASE evaluated' = Append(evaluated, x)
  <2>1. /\ DOMAIN evaluated \subseteq DOMAIN evaluated'
        /\ \A i \in DOMAIN evaluated : evaluated'[i] = evaluated[i]
        /\ Len(evaluated) + 1 \in DOMAIN evaluated'
        /\ evaluated'[Len(evaluated) + 1] = x
    BY <1>1, <1>3
  <2> QED
    BY <2>1 DEF EvaluatedFetches
<1> QED
  BY <1>2, <1>3

LEMMA CoveredKept ==
  ASSUME EvaluatedFetches \subseteq EvaluatedFetches',
         \A t \in Pollers :
           pc[t] = "evaluate" =>
             \/ pc'[t] = "evaluate" /\ built'[t] = built[t]
             \/ built[t].fetched \in EvaluatedFetches',
         NEW f, Covered(f)
  PROVE  Covered(f)'
BY DEF Covered

\* A poller between polls has nothing to give to the rules.
LEMMA ApplyCovered ==
  ASSUME TypeOK, NEW s \in Sources, NEW e, NEW snapshot, Fetches(s), Apply(s, e, snapshot),
         NEW f, Covered(f)
  PROVE  Covered(f)'
<1>1. EvaluatedFetches' = EvaluatedFetches
  BY DEF Apply, EvaluatedFetches
<1>2. ASSUME NEW t \in Pollers, pc[t] = "evaluate"
      PROVE  pc'[t] = "evaluate" /\ built'[t] = built[t]
  <2>1. t # PollerOf(s)
    BY <1>2 DEF Fetches
  <2> QED
    BY <1>2, <2>1 DEF Apply, TypeOK
<1> QED
  BY <1>1, <1>2, CoveredKept

LEMMA FetchStep ==
  ASSUME TypeOK, EngineOK, StartOK, FetchOK, [Next]_vars
  PROVE  FetchOK'
<1>1. Len(providers) \in Nat /\ engine.fetched = Len(providers) /\ "aircraft" \in Pollers
  BY DEF TypeOK, EngineOK, Pollers
<1>2. /\ lastFetch > 0 => Covered(lastFetch)
      /\ \A f \in 1..Len(providers) : Covered(f) \/ OnItsWay(f)
  BY DEF FetchOK
<1>3. ASSUME ConfigureSources PROVE FetchOK'
  <2>1. PICK e \in Engines : Configured(e)
    BY <1>3, ConfiguredCases
  <2>2. Len(providers) = 0 /\ providers' = providers
    BY <2>1 DEF Configured, StartOK
  <2>3. buildLocked(e, FALSE).fetched = 0
    BY <1>1, <2>1, <2>2 DEF Configured, buildLocked, snapshotLocked
  <2>4. lastFetch' = ZeroTimeNano
    BY <2>1, <2>3 DEF Configured, UnixNano
  <2> QED
    BY <2>2, <2>4 DEF FetchOK, ZeroTimeNano
<1>4. ASSUME NEW s \in Sources, NEW e, NEW snapshot, Fetches(s), Apply(s, e, snapshot),
             snapshot.fetched = Len(providers'),
             \/ providers' = providers
             \/ s = "aircraft" /\ Len(providers') = Len(providers) + 1
      PROVE  FetchOK'
  <2>1. lastFetch' > 0 => Covered(lastFetch)'
    <3>1. lastFetch' = lastFetch
      BY <1>4 DEF Apply
    <3>2. ASSUME lastFetch > 0 PROVE Covered(lastFetch)'
      <4>1. PICK f : f = lastFetch
        OBVIOUS
      <4>2. Covered(f)
        BY <1>2, <3>2, <4>1
      <4>3. Covered(f)'
        BY <1>4, <4>2, ApplyCovered
      <4> QED
        BY <3>1, <4>1, <4>3 DEF Covered
    <3> QED
      BY <3>1, <3>2
  <2>2. CASE s = "aircraft"
    <3>1. pc["aircraft"] = "poll"
      BY <1>4, <2>2 DEF Fetches, PollerOf
    <3>2. \A f \in 1..Len(providers) : Covered(f)'
      BY <1>2, <1>4, <3>1, ApplyCovered DEF OnItsWay
    <3>3. pc'["aircraft"] = "store" /\ built'["aircraft"] = snapshot
      BY <1>1, <1>4, <2>2 DEF Apply, PollerOf, TypeOK
    <3>4. Len(providers') > 0 => OnItsWay(Len(providers))'
      BY <1>4, <3>3 DEF OnItsWay
    <3>5. ASSUME NEW f \in 1..Len(providers') PROVE Covered(f)' \/ OnItsWay(f)'
      <4>1. f \in 1..Len(providers) \/ f = Len(providers')
        BY <1>1, <1>4
      <4> QED
        BY <1>4, <3>2, <3>3, <4>1 DEF OnItsWay
    <3> QED
      BY <2>1, <3>5 DEF FetchOK
  <2>3. CASE s # "aircraft"
    <3>1. PollerOf(s) = "metadata" /\ providers' = providers
      BY <1>4, <2>3 DEF PollerOf
    <3>2. pc'["aircraft"] = pc["aircraft"] /\ built'["aircraft"] = built["aircraft"]
      BY <1>1, <1>4, <3>1 DEF Apply, TypeOK
    <3>3. ASSUME NEW f \in 1..Len(providers) PROVE Covered(f)' \/ OnItsWay(f)'
      BY <1>2, <1>4, <3>1, <3>2, ApplyCovered DEF OnItsWay
    <3> QED
      BY <2>1, <3>1, <3>3 DEF FetchOK
  <2> QED
    BY <2>2, <2>3
<1>5. ASSUME NEW p \in Providers, applyAircraft(p) PROVE FetchOK'
  <2>1. PICK e \in Engines : Framed(p, e)
    BY <1>5, FrameCases
  <2> DEFINE snapshot == snapshotLocked(e, Len(providers) + 1, e.receiver)
  <2>2. /\ Fetches("aircraft") /\ Apply("aircraft", e, snapshot)
        /\ providers' = Append(providers, p) /\ e.fetched = Len(providers) + 1
    BY <2>1 DEF Framed
  <2>3. Len(providers') = Len(providers) + 1
    BY <2>2 DEF TypeOK
  <2>4. snapshot.fetched = Len(providers')
    BY <2>2, <2>3 DEF snapshotLocked
  <2> HIDE DEF snapshot
  <2> QED
    BY <1>4, <2>2, <2>3, <2>4 DEF Sources
<1>6. ASSUME NEW s \in Sources, NEW e \in Engines, NEW rebuild \in BOOLEAN,
             Polled(s, e, rebuild)
      PROVE  FetchOK'
  <2>1. /\ Fetches(s) /\ Apply(s, e, buildLocked(e, rebuild)) /\ providers' = providers
        /\ e.fetched = engine.fetched
    BY <1>6 DEF Polled
  <2>2. buildLocked(e, rebuild).fetched = Len(providers')
    BY <1>1, <2>1 DEF buildLocked, snapshotLocked
  <2> QED
    BY <1>4, <2>1, <2>2
<1>7. ASSUME NEW t \in Pollers, Store(t) \/ Publish(t) PROVE FetchOK'
  <2>1. /\ pc[t] \in {"store", "publish"} /\ pc'[t] \in {"publish", "observe"}
        /\ \A u \in Pollers : u # t => pc'[u] = pc[u]
        /\ UNCHANGED <<built, providers, evaluated, lastFetch>>
    BY <1>7 DEF Store, Publish, TypeOK
  <2>2. EvaluatedFetches' = EvaluatedFetches
    BY <2>1 DEF EvaluatedFetches
  <2>3. ASSUME NEW f, Covered(f) PROVE Covered(f)'
    BY <2>1, <2>2, <2>3 DEF Covered
  <2>4. ASSUME NEW f, OnItsWay(f) PROVE OnItsWay(f)'
    BY <1>1, <2>1, <2>4 DEF OnItsWay
  <2> QED
    BY <1>2, <2>1, <2>3, <2>4 DEF FetchOK, Covered
<1>8. ASSUME NEW t \in Pollers, Observe(t) PROVE FetchOK'
  <2>0. PICK f0 : f0 = built[t].fetched
    OBVIOUS
  <2>1. /\ pc[t] = "observe" /\ pc'[t] = (IF Skips(built[t]) THEN "poll" ELSE "evaluate")
        /\ \A u \in Pollers : u # t => pc'[u] = pc[u]
        /\ UNCHANGED <<built, providers, evaluated>> /\ lastFetch' = UnixNano(f0)
    BY <1>8, <2>0 DEF Observe, TypeOK
  <2>2. f0 \in Nat
    BY <2>0 DEF TypeOK, Snapshots
  <2>3. EvaluatedFetches' = EvaluatedFetches
    BY <2>1 DEF EvaluatedFetches
  <2>4. ASSUME NEW f, Covered(f) PROVE Covered(f)'
    BY <2>1, <2>3, <2>4 DEF Covered
  <2>5. ASSUME f0 > 0 PROVE Covered(f0)' /\ lastFetch' = f0
    <3>1. UnixNano(f0) = f0
      BY <2>5 DEF UnixNano
    <3>2. CASE Skips(built[t])
      <4>1. lastFetch = f0
        BY <2>0, <2>2, <2>5, <3>1, <3>2 DEF Skips
      <4> QED
        BY <1>2, <2>1, <2>4, <2>5, <3>1, <4>1
    <3>3. CASE ~Skips(built[t])
      BY <2>0, <2>1, <3>1, <3>3 DEF Covered
    <3> QED
      BY <3>2, <3>3
  <2>6. lastFetch' > 0 => Covered(lastFetch)'
    <3>1. CASE f0 > 0
      BY <2>5, <3>1 DEF Covered
    <3>2. CASE ~(f0 > 0)
      BY <2>1, <2>2, <3>2 DEF UnixNano, ZeroTimeNano
    <3> QED
      BY <3>1, <3>2
  <2>7. ASSUME NEW f \in 1..Len(providers), OnItsWay(f) PROVE Covered(f)' \/ OnItsWay(f)'
    <3>1. CASE t = "aircraft"
      <4>1. f = f0 /\ f0 > 0
        BY <1>1, <2>0, <2>7, <3>1 DEF OnItsWay
      <4> QED
        BY <2>5, <4>1
    <3>2. CASE t # "aircraft"
      BY <1>1, <2>1, <2>7, <3>2 DEF OnItsWay
    <3> QED
      BY <3>1, <3>2
  <2> QED
    BY <1>2, <2>1, <2>4, <2>6, <2>7 DEF FetchOK
<1>9. ASSUME NEW t \in Pollers, Evaluate(t) PROVE FetchOK'
  <2>1. /\ pc[t] = "evaluate" /\ pc'[t] = "poll" /\ evaluated' = Append(evaluated, built[t])
        /\ \A u \in Pollers : u # t => pc'[u] = pc[u]
        /\ UNCHANGED <<built, providers, lastFetch>>
    BY <1>9 DEF Evaluate, TypeOK
  <2>2. built[t] \in Snapshots
    BY DEF TypeOK
  <2>3. EvaluatedFetches \subseteq EvaluatedFetches' /\ built[t].fetched \in EvaluatedFetches'
    BY <2>1, <2>2, EvaluatedGrows
  <2>4. ASSUME NEW f, Covered(f) PROVE Covered(f)'
    BY <2>1, <2>3, <2>4, CoveredKept
  <2>5. ASSUME NEW f, OnItsWay(f) PROVE OnItsWay(f)'
    BY <1>1, <2>1, <2>5 DEF OnItsWay
  <2>6. lastFetch > 0 => Covered(lastFetch)'
    BY <1>2, <2>1, <2>4 DEF Covered
  <2> QED
    BY <1>2, <2>1, <2>4, <2>5, <2>6 DEF FetchOK, Covered
<1>10. CASE UNCHANGED vars
  BY <1>2, <1>10 DEF vars, FetchOK, Covered, OnItsWay, EvaluatedFetches
<1> QED
  BY <1>3, <1>5, <1>6, <1>7, <1>8, <1>9, <1>10, NextCases

\* A snapshot is ahead of the pointer when it is built, and only the store of
\* the other poller can change that.
LEMMA RaceStep ==
  ASSUME TypeOK, EngineOK, AllGood, StartOK, RaceOK, [Next]_vars
  PROVE  RaceOK'
<1>1. /\ current.aircraft \in Nat /\ current.fetched \in Nat /\ current.sequence \in Nat
      /\ engine.sequence \in Nat /\ Len(providers) \in Nat
  BY DEF TypeOK, Snapshots
<1>2. /\ current.sequence <= engine.sequence /\ current.aircraft <= Len(providers)
  <2>1. /\ current.aircraft <= current.fetched /\ current.fetched <= Len(providers)
        /\ current.sequence <= engine.sequence
    BY VisibleMembers DEF AllGood, Good
  <2> QED
    BY <1>1, <2>1
<1>3. ASSUME NEW s \in Sources, NEW e, NEW snapshot, Apply(s, e, snapshot),
             snapshot.sequence = engine.sequence + 1, snapshot.aircraft >= current.aircraft
      PROVE  RaceOK'
  <2>1. current' = current
    BY <1>3 DEF Apply
  <2>2. ASSUME NEW t \in Pollers, pc'[t] = "store", ~overtaken'[t] PROVE Ahead(t)'
    <3>1. CASE t = PollerOf(s)
      <4>1. built'[t] = snapshot
        BY <1>3, <3>1 DEF Apply, TypeOK
      <4> QED
        BY <1>1, <1>2, <1>3, <2>1, <4>1 DEF Ahead
    <3>2. CASE t # PollerOf(s)
      <4>1. pc[t] = "store" /\ ~overtaken[t] /\ built'[t] = built[t]
        BY <1>3, <2>2, <3>2 DEF Apply, TypeOK
      <4> QED
        BY <2>1, <4>1 DEF RaceOK, Ahead
    <3> QED
      BY <3>1, <3>2
  <2> QED
    BY <2>2 DEF RaceOK
<1>4. ASSUME ConfigureSources PROVE RaceOK'
  <2>1. ~running /\ pc' = pc
    BY <1>4 DEF ConfigureSources
  <2> QED
    BY <2>1 DEF StartOK, RaceOK
<1>5. ASSUME NEW p \in Providers, applyAircraft(p) PROVE RaceOK'
  <2>1. PICK e \in Engines : Framed(p, e)
    BY <1>5, FrameCases
  <2> DEFINE snapshot == snapshotLocked(e, Len(providers) + 1, e.receiver)
  <2>2. Apply("aircraft", e, snapshot) /\ e.sequence = engine.sequence + 1
    BY <2>1 DEF Framed
  <2>3. snapshot.sequence = engine.sequence + 1 /\ snapshot.aircraft = Len(providers) + 1
    BY <2>2 DEF snapshotLocked
  <2> HIDE DEF snapshot
  <2>4. snapshot.aircraft >= current.aircraft
    BY <1>1, <1>2, <2>3
  <2> QED
    BY <1>3, <2>2, <2>3, <2>4 DEF Sources
<1>6. ASSUME NEW s \in Sources, NEW e \in Engines, NEW rebuild \in BOOLEAN,
             Polled(s, e, rebuild)
      PROVE  RaceOK'
  <2>1. Apply(s, e, buildLocked(e, rebuild)) /\ e.sequence = engine.sequence + 1
    BY <1>6 DEF Polled
  <2>2. /\ buildLocked(e, rebuild).sequence = engine.sequence + 1
        /\ buildLocked(e, rebuild).aircraft = current.aircraft
    BY <2>1 DEF buildLocked, snapshotLocked
  <2>3. buildLocked(e, rebuild).aircraft >= current.aircraft
    BY <1>1, <2>2
  <2> QED
    BY <1>3, <2>1, <2>2, <2>3
<1>7. ASSUME NEW t \in Pollers, Store(t) PROVE RaceOK'
  <2>1. ASSUME NEW u \in Pollers, pc'[u] = "store" PROVE overtaken'[u]
    <3>1. u # t
      BY <1>7, <2>1 DEF Store, TypeOK
    <3> QED
      BY <1>7, <3>1 DEF Store
  <2> QED
    BY <2>1 DEF RaceOK
<1>8. ASSUME NEW t \in Pollers, Publish(t) \/ Observe(t) \/ Evaluate(t) PROVE RaceOK'
  <2>1. UNCHANGED <<current, built, overtaken>>
    BY <1>8 DEF Publish, Observe, Evaluate
  <2>2. \A u \in Pollers : pc'[u] = "store" => pc[u] = "store"
    BY <1>8 DEF Publish, Observe, Evaluate, TypeOK
  <2> QED
    BY <2>1, <2>2 DEF RaceOK, Ahead
<1>9. CASE UNCHANGED vars
  BY <1>9 DEF vars, RaceOK, Ahead
<1> QED
  BY <1>4, <1>5, <1>6, <1>7, <1>8, <1>9, NextCases

\* What CurrentRegressesOnlyWhenOvertaken says of a step.
Advances ==
  current' # current =>
    \/ /\ current'.sequence > current.sequence
       /\ current'.aircraft >= current.aircraft
    \/ \E t \in Pollers : overtaken[t] /\ pc[t] = "store" /\ current' = built[t]
-----------------------------------------------------------------------------
LEMMA InductiveStep == IInv /\ [Next]_vars => IInv'
<1> SUFFICES ASSUME IInv, [Next]_vars PROVE IInv'
  OBVIOUS
<1>1. TypeOK /\ EngineOK /\ AllGood /\ StartOK /\ FetchOK /\ RaceOK
  BY DEF IInv
<1>2. TypeOK'
  BY <1>1, TypeStep
<1>3. EngineOK' /\ AllGood'
  BY <1>1, <1>2, GoodStep
<1>4. StartOK'
  BY <1>1, StartStep
<1>5. FetchOK' /\ RaceOK'
  BY <1>1, FetchStep, RaceStep
<1> QED
  BY <1>2, <1>3, <1>4, <1>5 DEF IInv

\* The inductive invariant holds in every reachable state of the engine.
THEOREM Invariance == Spec => []IInv
  BY InitInv, InductiveStep, PTL DEF Spec

\* Type correctness of the engine, the published snapshots and the histories.
THEOREM TypeCorrect == Spec => []TypeOK
<1>1. IInv => TypeOK
  BY DEF IInv
<1> QED
  BY <1>1, Invariance, PTL

\* However the two pollers interleave between building, storing, publishing and
\* observing, every snapshot of engine.go names the fetch of its aircraft or a
\* later one and the start of its provider's run, and the observer of app.go,
\* which skips a fetch it has seen, loses none.
THEOREM SnapshotsAreSound == Spec => []SnapshotsSound
<1>1. IInv => SnapshotsSound
  <2> SUFFICES ASSUME IInv PROVE SnapshotsSound
    OBVIOUS
  <2>1. TypeOK /\ EngineOK /\ AllGood /\ FetchOK
    BY DEF IInv
  <2>2. AircraftNotNewerThanFetch
    BY <2>1 DEF AllGood, Good, AircraftNotNewerThanFetch
  <2>3. ProviderRunStart
    BY <2>1 DEF AllGood, Good, RunStart, ProviderRunStart
  <2>4. AircraftOfProvider
    <3> SUFFICES ASSUME NEW s \in Visible, s.aircraft > 0, s.changedAt <= s.aircraft
                 PROVE  providers[s.aircraft] = s.provider
      BY DEF AircraftOfProvider
    <3>1. s \in Snapshots
      BY <2>1, VisibleType
    <3>2. s.aircraft \in Nat /\ s.fetched \in Nat /\ s.changedAt \in Nat
      BY <3>1 DEF Snapshots
    <3>3. s.aircraft <= s.fetched /\ RunStart(s)
      BY <2>1 DEF AllGood, Good
    <3>4. s.fetched > 0 /\ s.aircraft \in s.changedAt..s.fetched
      BY <3>2, <3>3
    <3> QED
      BY <3>3, <3>4 DEF RunStart
  <2>5. FetchesEvaluated
    <3> SUFFICES ASSUME pc["aircraft"] = "poll", NEW f \in 1..Len(providers)
                 PROVE  \/ f \in EvaluatedFetches
                        \/ pc["metadata"] = "evaluate" /\ built["metadata"].fetched = f
      BY DEF FetchesEvaluated
    <3>1. Covered(f)
      BY <2>1 DEF FetchOK, OnItsWay
    <3> QED
      BY <3>1 DEF Covered, Pollers
  <2> QED
    BY <2>1, <2>2, <2>3, <2>4, <2>5 DEF SnapshotsSound
<1> QED
  BY <1>1, Invariance, PTL

\* The atomic pointer of engine.go goes back, to an earlier snapshot or an
\* earlier frame, only when the other poller's store fell between the unlock
\* and the store of this one.
THEOREM OnlyOvertakenRegresses == Spec => CurrentRegressesOnlyWhenOvertaken
<1>1. IInv /\ [Next]_vars => [Advances]_vars
  <2> SUFFICES ASSUME IInv, Next, current' # current PROVE Advances
    BY DEF vars, Advances
  <2>1. TypeOK /\ EngineOK /\ AllGood /\ RaceOK
    BY DEF IInv
  <2>2. ASSUME ConfigureSources PROVE Advances
    <3>1. PICK e \in Engines : Configured(e)
      BY <2>1, <2>2, ConfiguredCases
    <3>2. current' = buildLocked(e, FALSE) /\ e.sequence = engine.sequence + 1
      BY <3>1 DEF Configured
    <3>3. current'.sequence = engine.sequence + 1 /\ current'.aircraft = current.aircraft
      BY <3>2 DEF buildLocked, snapshotLocked
    <3>4. current.sequence <= engine.sequence
      BY <2>1, VisibleMembers DEF AllGood, Good
    <3>5. current.sequence \in Nat /\ engine.sequence \in Nat /\ current.aircraft \in Nat
      BY <2>1 DEF TypeOK, Snapshots
    <3> QED
      BY <3>3, <3>4, <3>5 DEF Advances
  <2>3. ASSUME NEW t \in Pollers, Store(t) PROVE Advances
    <3>1. pc[t] = "store" /\ current' = built[t]
      BY <2>3 DEF Store
    <3>2. overtaken[t] \/ Ahead(t)
      BY <2>1, <3>1 DEF RaceOK
    <3> QED
      BY <3>1, <3>2 DEF Ahead, Advances
  <2>4. ASSUME NEW p \in Providers, applyAircraft(p) PROVE current' = current
    BY <2>4 DEF applyAircraft, Apply
  <2>5. ASSUME NEW s \in Sources, NEW e \in Engines, NEW rebuild \in BOOLEAN,
               Polled(s, e, rebuild)
        PROVE  current' = current
    BY <2>5 DEF Polled, Apply
  <2>6. ASSUME NEW t \in Pollers, Publish(t) \/ Observe(t) \/ Evaluate(t)
        PROVE  current' = current
    BY <2>6 DEF Publish, Observe, Evaluate
  <2> QED
    BY <2>1, <2>2, <2>3, <2>4, <2>5, <2>6, NextCases DEF vars
<1> QED
  BY <1>1, Invariance, PTL DEF Spec, CurrentRegressesOnlyWhenOvertaken, Advances

=============================================================================
