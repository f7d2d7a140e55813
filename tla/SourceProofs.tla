---------------------------- MODULE SourceProofs ----------------------------
(***************************************************************************)
(* Proofs about the components that decide which data the rest of the      *)
(* program sees: the feeder registry with its aggregate (FeederManager),   *)
(* the failover between the aircraft providers of one feeder               *)
(* (AircraftFailover), the administration that admits a feeder's data at   *)
(* all (FeederAdmin), and the lookups of aircraft, routes and weather with *)
(* their caches (Enrichment).                                              *)
(*                                                                         *)
(* FeederManager, for any set of feeders and any bounds.  NoLostUpdate is  *)
(* not inductive: a rebuild under way may have loaded a value that a later *)
(* disable and enable make stale although the aggregate still agrees with  *)
(* the registry.  Scheduled states the obligation for the value the next   *)
(* store will write as well.                                               *)
(*                                                                         *)
(* AircraftFailover, for any number of providers and any recovery          *)
(* threshold.  The action properties speak of what earlier requests of the *)
(* same call, and earlier calls, have established.  CallOK records the     *)
(* first: how far the call has come and which providers it has found       *)
(* failing.  CountsOK records the second: a count of recoveries never      *)
(* exceeds the requests the provider has really answered in a row.         *)
(*                                                                         *)
(* FeederAdmin, for any keys, invitations, enrollment requests and bounds. *)
(* None of the parts of RowSound is inductive by itself.  That a command's *)
(* old copy never brings a key back rests on where the copy is written:    *)
(* UpsertFeeder takes it as a whole only when there is no row, and then    *)
(* the command is an invitation whose copy has no key (CopyOK).  That a    *)
(* revocation lasts rests on the invitations it closes (RevocationOK), and *)
(* that a sequence is never set back on the fact that a key is only ever   *)
(* activated once (KeysOK).                                                *)
(*                                                                         *)
(* Enrichment, for any keys, workers, handlers, queue and cache sizes, and *)
(* times.  Each service has an invariant of its own: the caches have one   *)
(* entry per key, a pending key waits or is worked on (QueueOK), a worker  *)
(* about to clear a key has settled the tracker's entry (TrackerOK), a key *)
(* is only asked for while it is not fresh (FlightsNotFresh), a half-open  *)
(* circuit has its probe (ProbeFlies, RouteProbeFlies), and a METAR that   *)
(* may be shown is cached (UsableCached).                                  *)
(***************************************************************************)
EXTENDS FeederManager, AircraftFailover, FeederAdmin, Enrichment,
        FiniteSetTheorems, SequenceTheorems, WellFoundedInduction, TLAPS

USE BoundAssumption DEF BoundAssumption

\* A mark for f has been left or is about to be.
Marked(f) == dirty \/ adminMarks > 0 \/ At(f, "mark")

\* A rebuild under way was scheduled, and its loads end before it builds.
LoopOK ==
  /\ loop \in {"read", "build"} => pending
  /\ loop = "build" => unread = {}

\* What the loop will not load again is current or marked.
Scheduled ==
  \A f \in Feeders :
    /\ loop = "wait" /\ ~pending /\ aggregate[f] # Live(f) => Marked(f)
    /\ loop \in {"read", "build"} /\ f \notin unread /\ collected[f] # Live(f)
         => Marked(f)

\* Entries are numbered by the operation that creates them, and a Publish
\* under way began after the entry it found was created.
EntriesOK ==
  \A f \in Feeders :
    /\ feeders[f] <= admins
    /\ publisher[f].entry <= admins
    /\ \A e \in EntryIds : /\ e > admins => snapshot[f][e] = 0
                           /\ since[f][e] <= publisher[f].version
    /\ At(f, "check") \/ At(f, "store") =>
         publisher[f].version > since[f][publisher[f].entry]

LoopInv == TypeOK /\ LoopOK /\ Scheduled
EntryInv == TypeOK /\ EntriesOK /\ RemovedNotResurrected

-----------------------------------------------------------------------------
LEMMA TypeInit == Init => TypeOK
<1> SUFFICES ASSUME Init PROVE TypeOK
  OBVIOUS
<1>1. 0 \in EntryIds /\ 0 \in Versions /\ 0 \in 0..MaxAdmin
  BY DEF EntryIds, Versions
<1>2. /\ feeders \in [Feeders -> EntryIds]
      /\ enabled \in [Feeders -> [EntryIds -> BOOLEAN]]
      /\ snapshot \in [Feeders -> [EntryIds -> Versions]]
      /\ since \in [Feeders -> [EntryIds -> Versions]]
  BY <1>1 DEF Init
<1>3. \A f \in Feeders : ~enabled[f][0]
  BY <1>1 DEF Init
<1> QED
  BY <1>1, <1>2, <1>3 DEF Init, TypeOK

\* PublishStep and RunStep by their actions.
LEMMA NextCases ==
  ASSUME [Next]_vars
  PROVE  \/ \E f \in Feeders : \E on \in BOOLEAN : Register(f, on)
         \/ \E f \in Feeders : RemoveFeeder(f)
         \/ AdminMark
         \/ \E f \in Feeders : PublishLookup(f)
         \/ \E f \in Feeders : PublishCheck(f)
         \/ \E f \in Feeders : PublishStore(f)
         \/ \E f \in Feeders : PublishMark(f)
         \/ RunDirty
         \/ RebuildBegin
         \/ \E f \in Feeders : RebuildLoad(f)
         \/ RebuildUnlock
         \/ RebuildStore
         \/ RunStop
         \/ Shutdown
         \/ UNCHANGED vars
  BY DEF Next, PublishStep, RunStep

LEMMA TypeStep == TypeOK /\ [Next]_vars => TypeOK'
<1> SUFFICES ASSUME TypeOK, [Next]_vars PROVE TypeOK'
  OBVIOUS
<1> USE DEF TypeOK, registry, run, At, Goto, markDirty
<1>0. 0 \in EntryIds /\ 0 \in Versions
  BY DEF EntryIds, Versions
<1>1. ASSUME NEW f \in Feeders, NEW on \in BOOLEAN, Register(f, on) PROVE TypeOK'
  <2> DEFINE e == IF feeders[f] = 0 THEN admins + 1 ELSE feeders[f]
  <2>1. e \in EntryIds /\ e # 0
    BY <1>1 DEF Register, EntryIds
  <2> HIDE DEF e
  <2>2. /\ feeders' = [feeders EXCEPT ![f] = e]
        /\ enabled' = [enabled EXCEPT ![f][e] = on]
        /\ since' = since \/ since' = [since EXCEPT ![f][e] = publisher[f].version]
    BY <1>1 DEF Register, e
  <2>3. enabled' \in [Feeders -> [EntryIds -> BOOLEAN]]
    BY <2>1, <2>2
  <2>4. since' \in [Feeders -> [EntryIds -> Versions]]
    <3>1. publisher[f].version \in Versions
      OBVIOUS
    <3>2. [since EXCEPT ![f][e] = publisher[f].version]
            \in [Feeders -> [EntryIds -> Versions]]
      BY <2>1, <3>1
    <3> QED
      BY <2>2, <3>2
  <2>5. \A g \in Feeders : ~enabled'[g][0]
    <3>1. enabled'[f] = [enabled[f] EXCEPT ![e] = on]
      BY <2>2
    <3>2. enabled'[f][0] = enabled[f][0]
      BY <1>0, <2>1, <3>1
    <3> QED
      BY <2>2, <3>2
  <2>6. admins' \in 0..MaxAdmin /\ adminMarks' \in Nat
    BY <1>1 DEF Register
  <2> QED
    BY <1>1, <2>1, <2>2, <2>3, <2>4, <2>5, <2>6 DEF Register
<1>2. ASSUME NEW f \in Feeders, RemoveFeeder(f) PROVE TypeOK'
  <2>1. feeders' \in [Feeders -> EntryIds] /\ admins' \in 0..MaxAdmin
    BY <1>0, <1>2 DEF RemoveFeeder
  <2> QED
    BY <1>2, <2>1 DEF RemoveFeeder
<1>3. CASE AdminMark
  BY <1>3 DEF AdminMark
<1>4. ASSUME NEW f \in Feeders, PublishLookup(f) PROVE TypeOK'
  <2>1. publisher[f].version + 1 \in Versions /\ feeders[f] \in EntryIds
    BY <1>4 DEF PublishLookup, Versions
  <2> QED
    BY <1>4, <2>1 DEF PublishLookup
<1>5. ASSUME NEW f \in Feeders, PublishCheck(f) PROVE TypeOK'
  <2>1. PICK s \in {"store", "idle"} : publisher' = [publisher EXCEPT ![f].pc = s]
    BY <1>5 DEF PublishCheck
  <2>2. publisher' \in [Feeders -> [pc : {"idle", "check", "store", "mark"},
                                    entry : EntryIds, version : Versions]]
    BY <2>1
  <2> QED
    BY <1>5, <2>2 DEF PublishCheck
<1>6. ASSUME NEW f \in Feeders, PublishStore(f) PROVE TypeOK'
  BY <1>6 DEF PublishStore
<1>7. ASSUME NEW f \in Feeders, PublishMark(f) PROVE TypeOK'
  BY <1>7 DEF PublishMark
<1>8. CASE RunDirty
  BY <1>8 DEF RunDirty
<1>9. CASE RebuildBegin
  BY <1>9 DEF RebuildBegin
<1>10. ASSUME NEW f \in Feeders, RebuildLoad(f) PROVE TypeOK'
  <2>1. Live(f) \in Versions
    BY <1>0 DEF Live
  <2> QED
    BY <1>10, <2>1 DEF RebuildLoad
<1>11. CASE RebuildUnlock
  BY <1>11 DEF RebuildUnlock
<1>12. CASE RebuildStore
  BY <1>12 DEF RebuildStore
<1>13. CASE RunStop
  BY <1>13 DEF RunStop
<1>14. CASE Shutdown
  BY <1>14 DEF Shutdown
<1>15. CASE UNCHANGED vars
  BY <1>15 DEF vars
<1> QED
  BY <1>1, <1>2, <1>3, <1>4, <1>5, <1>6, <1>7, <1>8, <1>9, <1>10, <1>11,
     <1>12, <1>13, <1>14, <1>15, NextCases

\* Every reachable state has the types of the code's variables, and the absent
\* entry is never enabled.
THEOREM TypeCorrect == Spec => []TypeOK
  BY TypeInit, TypeStep, PTL DEF Spec

-----------------------------------------------------------------------------
(* No lost update.                                                         *)

LEMMA LoopInit == Init => LoopInv
<1> SUFFICES ASSUME Init PROVE LoopInv
  OBVIOUS
<1>1. TypeOK
  BY TypeInit
<1>2. \A f \in Feeders : feeders[f] = 0 /\ aggregate[f] = 0
  BY DEF Init
<1>3. \A f \in Feeders : Live(f) = 0
  BY <1>1, <1>2 DEF Live, TypeOK
<1> QED
  BY <1>1, <1>2, <1>3 DEF Init, LoopInv, LoopOK, Scheduled

\* Only Register, Remove and a Publish of f change what f contributes, and
\* each of them leaves a mark to be made.
LEMMA LoopStep == LoopInv /\ [Next]_vars => LoopInv'
<1> SUFFICES ASSUME LoopInv, [Next]_vars PROVE LoopInv'
  OBVIOUS
<1>t. TypeOK /\ TypeOK'
  BY TypeStep DEF LoopInv
<1>s. LoopOK /\ Scheduled
  BY DEF LoopInv
<1> SUFFICES LoopOK' /\ Scheduled'
  BY <1>t DEF LoopInv
<1> USE DEF LoopOK, Scheduled, Marked, At, Goto, markDirty, registry, run
<1>1. ASSUME NEW f \in Feeders, NEW on \in BOOLEAN, Register(f, on)
      PROVE  LoopOK' /\ Scheduled'
  <2>1. adminMarks' > 0
    BY <1>1, <1>t DEF Register, TypeOK
  <2> QED
    BY <1>1, <1>s, <2>1 DEF Register
<1>2. ASSUME NEW f \in Feeders, RemoveFeeder(f) PROVE LoopOK' /\ Scheduled'
  <2>1. adminMarks' > 0
    BY <1>2, <1>t DEF RemoveFeeder, TypeOK
  <2> QED
    BY <1>2, <1>s, <2>1 DEF RemoveFeeder
<1>3. CASE AdminMark
  BY <1>3, <1>s DEF AdminMark
<1>4. ASSUME NEW f \in Feeders, PublishLookup(f) PROVE LoopOK' /\ Scheduled'
  <2>1. \A g \in Feeders : Marked(g) => Marked(g)'
    BY <1>4, <1>t DEF PublishLookup, TypeOK
  <2> QED
    BY <1>4, <1>s, <2>1 DEF PublishLookup, Live
<1>5. ASSUME NEW f \in Feeders, PublishCheck(f) PROVE LoopOK' /\ Scheduled'
  <2>1. \A g \in Feeders : Marked(g) => Marked(g)'
    BY <1>5, <1>t DEF PublishCheck, TypeOK
  <2> QED
    BY <1>5, <1>s, <2>1 DEF PublishCheck, Live
<1>6. ASSUME NEW f \in Feeders, PublishStore(f) PROVE LoopOK' /\ Scheduled'
  <2>1. \A g \in Feeders : Marked(g) => Marked(g)'
    BY <1>6, <1>t DEF PublishStore, TypeOK
  <2>2. Marked(f)'
    BY <1>6, <1>t DEF PublishStore, TypeOK
  <2>3. \A g \in Feeders : g # f => Live(g)' = Live(g)
    BY <1>6, <1>t DEF PublishStore, Live, TypeOK
  <2> QED
    BY <1>6, <1>s, <2>1, <2>2, <2>3 DEF PublishStore
<1>7. ASSUME NEW f \in Feeders, PublishMark(f) PROVE LoopOK' /\ Scheduled'
  BY <1>7, <1>s DEF PublishMark
<1>8. CASE RunDirty
  BY <1>8, <1>s DEF RunDirty
<1>9. CASE RebuildBegin
  BY <1>9, <1>s DEF RebuildBegin
<1>10. ASSUME NEW f \in Feeders, RebuildLoad(f) PROVE LoopOK' /\ Scheduled'
  <2>1. \A g \in Feeders : Live(g)' = Live(g) /\ (Marked(g)' <=> Marked(g))
    BY <1>10 DEF RebuildLoad, Live
  <2>2. /\ collected'[f] = Live(f)
        /\ \A g \in Feeders : g # f => collected'[g] = collected[g]
    BY <1>10, <1>t DEF RebuildLoad, TypeOK
  <2> QED
    BY <1>10, <1>s, <2>1, <2>2 DEF RebuildLoad
<1>11. CASE RebuildUnlock
  BY <1>11, <1>s DEF RebuildUnlock, Live
<1>12. CASE RebuildStore
  <2>1. \A g \in Feeders : Live(g)' = Live(g) /\ (Marked(g)' <=> Marked(g))
    BY <1>12 DEF RebuildStore, Live
  <2>2. \A g \in Feeders : collected[g] # Live(g) => Marked(g)
    BY <1>12, <1>s DEF RebuildStore
  <2> QED
    BY <1>12, <2>1, <2>2 DEF RebuildStore
<1>13. CASE RunStop
  BY <1>13, <1>s DEF RunStop
<1>14. CASE Shutdown
  BY <1>14, <1>s DEF Shutdown, Live
<1>15. CASE UNCHANGED vars
  BY <1>15, <1>s DEF vars, Live
<1> QED
  BY <1>1, <1>2, <1>3, <1>4, <1>5, <1>6, <1>7, <1>8, <1>9, <1>10, <1>11,
     <1>12, <1>13, <1>14, <1>15, NextCases

\* The one-token dirty channel and Run's pending flag never lose an update,
\* for any number of feeders, publications and registrations.
THEOREM NoUpdateIsLost == Spec => []NoLostUpdate
<1>1. LoopInv => NoLostUpdate
  BY DEF LoopInv, LoopOK, Scheduled, TypeOK, NoLostUpdate, WillLoad, HasLoaded, Marked
<1> QED
  BY LoopInit, LoopStep, <1>1, PTL DEF Spec

-----------------------------------------------------------------------------
(* Removed feeders.                                                        *)

LEMMA EntryInit == Init => EntryInv
<1> SUFFICES ASSUME Init PROVE EntryInv
  OBVIOUS
<1>1. TypeOK
  BY TypeInit
<1>2. \A f \in Feeders : \A e \in EntryIds : snapshot[f][e] = 0 /\ since[f][e] = 0
  BY DEF Init
<1>3. /\ admins = 0
      /\ \A f \in Feeders : /\ feeders[f] = 0
                            /\ publisher[f].pc = "idle"
                            /\ publisher[f].entry = 0
                            /\ publisher[f].version = 0
  BY DEF Init
<1> QED
  BY <1>1, <1>2, <1>3 DEF EntryInv, EntriesOK, RemovedNotResurrected, At

LEMMA EntryStep == EntryInv /\ [Next]_vars => EntryInv'
<1> SUFFICES ASSUME EntryInv, [Next]_vars PROVE EntryInv'
  OBVIOUS
<1>t. TypeOK /\ TypeOK'
  BY TypeStep DEF EntryInv
<1>e. EntriesOK /\ RemovedNotResurrected
  BY DEF EntryInv
<1>n. /\ admins \in Nat /\ MaxAdmin \in Nat
      /\ \A e \in EntryIds : e \in Nat
      /\ \A f \in Feeders : /\ publisher[f].version \in Nat
                            /\ publisher[f].entry \in EntryIds
                            /\ feeders[f] \in EntryIds
                            /\ \A e \in EntryIds : since[f][e] \in Nat /\ snapshot[f][e] \in Nat
  <2>1. /\ admins \in Nat /\ MaxAdmin \in Nat
        /\ \A e \in EntryIds : e \in Nat
        /\ \A v \in Versions : v \in Nat
    BY <1>t DEF TypeOK, EntryIds, Versions
  <2> QED
    BY <1>t, <2>1 DEF TypeOK
<1> SUFFICES EntriesOK' /\ RemovedNotResurrected'
  BY <1>t DEF EntryInv
<1> USE DEF At, Goto, markDirty, registry, run
<1>1. ASSUME NEW f \in Feeders, NEW on \in BOOLEAN, Register(f, on)
      PROVE  EntriesOK' /\ RemovedNotResurrected'
  <2>1. CASE feeders[f] # 0
    BY <1>1, <2>1, <1>t, <1>e, <1>n DEF Register, EntriesOK, RemovedNotResurrected, TypeOK
  <2>2. CASE feeders[f] = 0
    <3> DEFINE e == admins + 1
    <3>1. /\ e \in EntryIds /\ e > admins
          /\ feeders' = [feeders EXCEPT ![f] = e]
          /\ since' = [since EXCEPT ![f][e] = publisher[f].version]
          /\ admins' = e
          /\ UNCHANGED <<snapshot, publisher>>
      BY <1>1, <2>2, <1>n DEF Register, EntryIds
    <3> HIDE DEF e
    <3>2. /\ since'[f][e] = publisher[f].version
          /\ \A g \in Feeders : \A d \in EntryIds : g # f \/ d # e => since'[g][d] = since[g][d]
      BY <3>1, <1>t DEF TypeOK
    <3>3. snapshot[f][e] = 0
      BY <3>1, <1>e DEF EntriesOK
    <3>4. RemovedNotResurrected'
      BY <3>1, <3>2, <3>3, <1>e DEF RemovedNotResurrected
    <3>5. \A g \in Feeders : publisher[g].entry \in EntryIds /\ publisher[g].entry <= admins
      BY <1>e, <1>n DEF EntriesOK
    <3>6. EntriesOK'
      <4>1. \A g \in Feeders : feeders'[g] <= e
        <5>1. /\ feeders'[f] = e
              /\ \A g \in Feeders : g # f => feeders'[g] = feeders[g]
          BY <3>1, <1>t DEF TypeOK
        <5>2. \A g \in Feeders : feeders[g] \in Nat /\ feeders[g] <= admins
          BY <1>e, <1>n DEF EntriesOK
        <5>3. e \in Nat /\ admins \in Nat /\ e > admins
          BY <3>1, <1>n
        <5> QED
          BY <5>1, <5>2, <5>3
      <4>2. \A g \in Feeders : publisher[g].entry <= e /\ (g # f \/ publisher[g].entry # e)
        BY <3>1, <3>5, <1>n
      <4>3. \A d \in EntryIds : d > e => d > admins
        BY <3>1, <1>n
      <4>4. \A g \in Feeders : \A d \in EntryIds :
              /\ d > e => snapshot[g][d] = 0
              /\ since'[g][d] <= publisher[g].version
        BY <3>2, <4>3, <1>e, <1>n DEF EntriesOK
      <4>5. \A g \in Feeders : publisher[g].pc \in {"check", "store"} =>
              publisher[g].version > since'[g][publisher[g].entry]
        BY <3>2, <3>5, <4>2, <1>e DEF EntriesOK
      <4> QED
        BY <3>1, <4>1, <4>2, <4>4, <4>5 DEF EntriesOK
    <3> QED
      BY <3>4, <3>6
  <2> QED
    BY <2>1, <2>2
<1>2. ASSUME NEW f \in Feeders, RemoveFeeder(f) PROVE EntriesOK' /\ RemovedNotResurrected'
  BY <1>2, <1>t, <1>e, <1>n DEF RemoveFeeder, EntriesOK, RemovedNotResurrected, TypeOK
<1>3. ASSUME NEW f \in Feeders, PublishLookup(f) PROVE EntriesOK' /\ RemovedNotResurrected'
  <2>1. /\ publisher'[f].version = publisher[f].version + 1
        /\ publisher'[f].entry = feeders[f]
        /\ \A g \in Feeders : g # f => publisher'[g] = publisher[g]
        /\ UNCHANGED <<feeders, admins, since, snapshot>>
    BY <1>3, <1>t DEF PublishLookup, TypeOK
  <2> QED
    BY <2>1, <1>e, <1>n DEF EntriesOK, RemovedNotResurrected
<1>4. ASSUME NEW f \in Feeders, PublishCheck(f) \/ PublishMark(f)
      PROVE  EntriesOK' /\ RemovedNotResurrected'
  <2>1. /\ publisher'[f].version = publisher[f].version
        /\ publisher'[f].entry = publisher[f].entry
        /\ publisher'[f].pc = "store" => publisher[f].pc = "check"
        /\ publisher'[f].pc # "check"
        /\ \A g \in Feeders : g # f => publisher'[g] = publisher[g]
        /\ UNCHANGED <<feeders, admins, since, snapshot>>
    BY <1>4, <1>t DEF PublishCheck, PublishMark, TypeOK
  <2> QED
    BY <2>1, <1>e, <1>n DEF EntriesOK, RemovedNotResurrected
<1>5. ASSUME NEW f \in Feeders, PublishStore(f) PROVE EntriesOK' /\ RemovedNotResurrected'
  <2> DEFINE e == publisher[f].entry
  <2>1. /\ publisher'[f].version = publisher[f].version
        /\ publisher'[f].entry = e
        /\ publisher'[f].pc = "mark"
        /\ \A g \in Feeders : g # f => publisher'[g] = publisher[g]
        /\ UNCHANGED <<feeders, admins, since>>
    BY <1>5, <1>t DEF PublishStore, TypeOK
  <2>2. e \in EntryIds /\ e <= admins /\ publisher[f].version > since[f][e]
    BY <1>5, <1>e, <1>n DEF PublishStore, EntriesOK
  <2>3. /\ snapshot'[f][e] = publisher[f].version
        /\ \A g \in Feeders : \A d \in EntryIds :
             g # f \/ d # e => snapshot'[g][d] = snapshot[g][d]
    BY <1>5, <2>2, <1>t DEF PublishStore, TypeOK
  <2> HIDE DEF e
  <2>4. EntriesOK'
    BY <2>1, <2>2, <2>3, <1>e, <1>n DEF EntriesOK
  <2>5. RemovedNotResurrected'
    BY <2>1, <2>2, <2>3, <1>e DEF RemovedNotResurrected
  <2> QED
    BY <2>4, <2>5
<1>6. CASE UNCHANGED <<feeders, admins, since, snapshot, publisher>>
  BY <1>6, <1>e DEF EntriesOK, RemovedNotResurrected
<1> QED
  BY <1>1, <1>2, <1>3, <1>4, <1>5, <1>6, NextCases
  DEF AdminMark, RunDirty, RebuildBegin, RebuildLoad, RebuildUnlock,
      RebuildStore, RunStop, Shutdown, vars

\* Whatever was published into a removed entry stays out of the entry that
\* replaces it, for any interleaving of Publish with Register and Remove.
THEOREM RemovedStaysRemoved == Spec => []RemovedNotResurrected
<1>1. EntryInv => RemovedNotResurrected
  BY DEF EntryInv
<1> QED
  BY EntryInit, EntryStep, <1>1, PTL DEF Spec

\* The aggregate loses no update and resurrects no removed feeder, for any
\* number of feeders, publications and registrations.
THEOREM ViewIsSound == Spec => []ViewSound
<1>1. TypeOK /\ NoLostUpdate /\ RemovedNotResurrected => ViewSound
  BY DEF ViewSound
<1> QED
  BY TypeCorrect, NoUpdateIsLost, RemovedStaysRemoved, <1>1, PTL


-----------------------------------------------------------------------------
(* AircraftFailover.                                                       *)

\* CountAssumption of AircraftFailover, which its theorems are under.
\* Where the call stands.  Before the active provider is asked, every earlier
\* provider has failed unless one has answered its probe; fetchLower only
\* passes providers that fail.
CallOK ==
  /\ pc = "probe" =>
       /\ active # NoProvider
       /\ index <= active
       /\ recovered # NoProvider => recovered < index
       /\ recovered = NoProvider => \A p \in Providers : p < index => p \in failed
  /\ pc = "lower" =>
       /\ active < index
       /\ \A p \in Providers : p < index => p \in failed

\* No recovery is counted that the provider did not earn.
CountsOK == \A p \in Providers : recoveries[p] <= streak[p]

FailoverIInv == FailoverTypeOK /\ CallOK /\ CountsOK /\ ServedIsActive

-----------------------------------------------------------------------------
LEMMA FailoverInitInv == FailoverInit => FailoverIInv
<1> SUFFICES ASSUME FailoverInit PROVE FailoverIInv
  OBVIOUS
<1> USE CountAssumption DEF CountAssumption
<1>1. 0 \in 0..(RecoverySuccesses - 1) /\ 0 \in 0..RecoverySuccesses /\ 0 \in 0..N
  OBVIOUS
<1>2. recoveries \in [Providers -> 0..(RecoverySuccesses - 1)]
  BY <1>1 DEF FailoverInit
<1>3. streak \in [Providers -> 0..RecoverySuccesses]
  BY <1>1 DEF FailoverInit
<1>4. \A p \in Providers : recoveries[p] = 0 /\ streak[p] = 0
  BY DEF FailoverInit
<1>5. FailoverTypeOK
  BY <1>1, <1>2, <1>3, <1>4 DEF FailoverInit, FailoverTypeOK
<1> QED
  BY <1>1, <1>4, <1>5 DEF FailoverInit, FailoverIInv, CallOK, CountsOK, ServedIsActive

\* The actions of Next, one by one.
LEMMA FailoverNextCases ==
  ASSUME [FailoverNext]_failoverVars
  PROVE  \/ \E p \in Providers : Toggle(p)
         \/ CancelCalls
         \/ FetchAircraft
         \/ ProbeAnswers \/ ProbeFails
         \/ ActiveAnswers \/ ActiveFails
         \/ LowerAnswers \/ LowerFails \/ AllFail
         \/ CallCancelled
         \/ UNCHANGED failoverVars
  BY DEF FailoverNext, Call

\* What activate leaves of the recoveries.
LEMMA FailoverZeroCounts ==
  [q \in Providers |-> 0]
    \in [Providers -> 0..(RecoverySuccesses - 1)]
<1>1. 0 \in 0..(RecoverySuccesses - 1)
  BY CountAssumption DEF CountAssumption
<1> QED
  BY <1>1

LEMMA FailoverStepInv ==
  FailoverIInv /\ [FailoverNext]_failoverVars => FailoverIInv'
<1> SUFFICES ASSUME FailoverIInv, [FailoverNext]_failoverVars PROVE FailoverIInv'
  OBVIOUS
<1> USE CountAssumption DEF CountAssumption, FailoverIInv, FailoverTypeOK, CallOK, CountsOK,
            ServedIsActive, Providers, NoProvider
<1>1. ASSUME NEW p \in Providers, Toggle(p) PROVE FailoverIInv'
  BY <1>1 DEF Toggle
<1>2. CASE CancelCalls
  BY <1>2 DEF CancelCalls
<1>3. CASE FetchAircraft
  BY <1>3 DEF FetchAircraft
<1>4. CASE ProbeAnswers
  <2>1. CASE recoveries[index] + 1 >= RecoverySuccesses
    <3>1. index \in Providers
      BY <1>4 DEF ProbeAnswers
    <3>2. /\ active' = index /\ served' = index /\ pc' = "idle"
          /\ recoveries' = [q \in Providers |-> 0]
          /\ streak' = [streak EXCEPT ![index] = IF @ < RecoverySuccesses THEN @ + 1 ELSE @]
          /\ UNCHANGED <<up, index, recovered, cancelled, failed>>
      BY <1>4, <2>1 DEF ProbeAnswers, Answers, activate, Return
    <3>3. streak' \in [Providers -> 0..RecoverySuccesses]
      BY <3>1, <3>2
    <3>4. recoveries' \in [Providers -> 0..(RecoverySuccesses - 1)]
      BY <3>2, FailoverZeroCounts
    <3> QED
      BY <3>1, <3>2, <3>3, <3>4
  <2>2. CASE ~(recoveries[index] + 1 >= RecoverySuccesses)
    <3>1. index \in Providers /\ index + 1 <= active
      BY <1>4 DEF ProbeAnswers
    <3>2. /\ recoveries' = [recoveries EXCEPT ![index] = @ + 1]
          /\ streak' = [streak EXCEPT ![index] = IF @ < RecoverySuccesses THEN @ + 1 ELSE @]
          /\ recovered' = IF recovered = NoProvider THEN index ELSE recovered
          /\ index' = index + 1
          /\ UNCHANGED <<up, active, pc, cancelled, served, failed>>
      BY <1>4, <2>2 DEF ProbeAnswers, Answers
    <3>3. FailoverTypeOK'
      <4>1. recoveries[index] + 1 \in 0..(RecoverySuccesses - 1)
        BY <2>2, <3>1
      <4>2. recoveries' \in [Providers -> 0..(RecoverySuccesses - 1)]
        BY <3>1, <3>2, <4>1
      <4>3. streak' \in [Providers -> 0..RecoverySuccesses]
        <5> DEFINE x == IF streak[index] < RecoverySuccesses THEN streak[index] + 1 ELSE streak[index]
        <5>1. streak[index] \in 0..RecoverySuccesses
          BY <3>1
        <5>2. x \in 0..RecoverySuccesses
          BY <5>1
        <5>3. streak' = [streak EXCEPT ![index] = x]
          BY <3>2
        <5> HIDE DEF x
        <5> QED
          BY <3>1, <5>2, <5>3
      <4>4. \A p \in Providers : p >= active => recoveries'[p] = 0
        BY <3>1, <3>2
      <4>5. recovered' \in Providers \cup {NoProvider} /\ index' \in 0..N
        BY <3>1, <3>2
      <4> QED
        BY <3>2, <4>2, <4>3, <4>4, <4>5
    <3>4. CallOK'
      BY <1>4, <3>1, <3>2 DEF ProbeAnswers
    <3>5. CountsOK'
      BY <2>2, <3>1, <3>2
    <3>6. ServedIsActive'
      BY <1>4, <3>2 DEF ProbeAnswers
    <3> QED
      BY <3>3, <3>4, <3>5, <3>6
  <2> QED
    BY <2>1, <2>2
<1>5. CASE ProbeFails
  <2>1. index \in Providers /\ index + 1 <= active
    BY <1>5 DEF ProbeFails
  <2>2. /\ recoveries' = [recoveries EXCEPT ![index] = 0]
        /\ streak' = [streak EXCEPT ![index] = 0]
        /\ failed' = failed \cup {index}
        /\ index' = index + 1
        /\ UNCHANGED <<up, active, pc, recovered, cancelled, served>>
    BY <1>5 DEF ProbeFails, Refuses
  <2>3. recoveries' \in [Providers -> 0..(RecoverySuccesses - 1)]
    BY <2>1, <2>2
  <2>4. streak' \in [Providers -> 0..RecoverySuccesses]
    BY <2>1, <2>2
  <2>5. FailoverTypeOK'
    BY <2>1, <2>2, <2>3, <2>4
  <2>6. CallOK'
    BY <1>5, <2>1, <2>2 DEF ProbeFails
  <2>7. CountsOK' /\ ServedIsActive'
    BY <1>5, <2>1, <2>2 DEF ProbeFails
  <2> QED
    BY <2>5, <2>6, <2>7
<1>6. CASE ActiveAnswers
  <2>1. index \in Providers /\ active \in Providers
    BY <1>6 DEF ActiveAnswers
  <2>2. /\ streak' = [streak EXCEPT ![index] = IF @ < RecoverySuccesses THEN @ + 1 ELSE @]
        /\ pc' = "idle" /\ served' = active
        /\ UNCHANGED <<up, active, recoveries, index, recovered, cancelled, failed>>
    BY <1>6 DEF ActiveAnswers, Answers, Return
  <2>3. /\ streak' \in [Providers -> 0..RecoverySuccesses]
        /\ \A p \in Providers : streak[p] <= streak'[p]
    BY <2>1, <2>2
  <2>4. FailoverTypeOK' /\ CallOK' /\ ServedIsActive'
    BY <2>1, <2>2, <2>3
  <2>5. CountsOK'
    BY <2>2, <2>3
  <2> QED
    BY <2>4, <2>5
<1>7. CASE ActiveFails
  <2>1. /\ index \in Providers /\ index = active /\ pc = "probe"
        /\ streak' = [streak EXCEPT ![index] = 0]
        /\ failed' = failed \cup {index}
        /\ UNCHANGED <<up, cancelled>>
    BY <1>7 DEF ActiveFails, Refuses
  <2>2. streak' \in [Providers -> 0..RecoverySuccesses]
    BY <2>1
  <2>3. CASE recovered # NoProvider
    <3>1. /\ active' = recovered /\ served' = recovered /\ pc' = "idle"
          /\ recoveries' = [q \in Providers |-> 0]
          /\ UNCHANGED <<index, recovered>>
      BY <1>7, <2>3 DEF ActiveFails, activate, Return
    <3> QED
      BY <2>1, <2>2, <2>3, <3>1, FailoverZeroCounts
  <2>4. CASE recovered = NoProvider
    <3>1. /\ pc' = "lower" /\ index' = active + 1
          /\ UNCHANGED <<active, recoveries, recovered, served>>
      BY <1>7, <2>4 DEF ActiveFails
    <3>2. FailoverTypeOK' /\ CallOK' /\ ServedIsActive'
      BY <2>1, <2>2, <2>4, <3>1
    <3>3. CountsOK'
      BY <2>1, <3>1
    <3> QED
      BY <3>2, <3>3
  <2> QED
    BY <2>3, <2>4
<1>8. CASE LowerAnswers
  <2>1. /\ index \in Providers
        /\ active' = index /\ served' = index /\ pc' = "idle"
        /\ recoveries' = [q \in Providers |-> 0]
        /\ streak' = [streak EXCEPT ![index] = IF @ < RecoverySuccesses THEN @ + 1 ELSE @]
        /\ UNCHANGED <<up, index, recovered, cancelled, failed>>
    BY <1>8 DEF LowerAnswers, Answers, activate, Return
  <2>2. streak' \in [Providers -> 0..RecoverySuccesses]
    BY <2>1
  <2> QED
    BY <2>1, <2>2, FailoverZeroCounts
<1>9. CASE LowerFails
  <2>1. /\ index \in Providers /\ pc = "lower"
        /\ streak' = [streak EXCEPT ![index] = 0]
        /\ failed' = failed \cup {index}
        /\ index' = index + 1
        /\ UNCHANGED <<up, active, recoveries, pc, recovered, cancelled, served>>
    BY <1>9 DEF LowerFails, Refuses
  <2>2. streak' \in [Providers -> 0..RecoverySuccesses]
    BY <2>1
  <2>3. recoveries[index] = 0
    BY <2>1
  <2> QED
    BY <2>1, <2>2, <2>3
<1>10. CASE AllFail
  BY <1>10 DEF AllFail, Return
<1>11. CASE CallCancelled
  <2>1. CASE pc = "probe" /\ index < active
    BY <1>11, <2>1 DEF CallCancelled, Return
  <2>2. CASE ~(pc = "probe" /\ index < active)
    BY <1>11, <2>2 DEF CallCancelled, Return
  <2> QED
    BY <2>1, <2>2
<1>12. CASE UNCHANGED failoverVars
  BY <1>12 DEF failoverVars
<1> QED
  BY <1>1, <1>2, <1>3, <1>4, <1>5, <1>6, <1>7, <1>8, <1>9, <1>10, <1>11, <1>12,
     FailoverNextCases

\* The inductive invariant holds in every reachable state.
THEOREM FailoverInvariance == FailoverSpec => []FailoverIInv
<1>1. FailoverInit => FailoverIInv
  BY FailoverInitInv
<1>2. FailoverIInv /\ [FailoverNext]_failoverVars => FailoverIInv'
  BY FailoverStepInv
<1> QED
  BY <1>1, <1>2, PTL DEF FailoverSpec

\* Every reachable state has the types of the code's variables, and no count
\* of recoveries reaches the threshold.
THEOREM FailoverTypeCorrect == FailoverSpec => []FailoverTypeOK
<1>1. FailoverIInv => FailoverTypeOK
  BY DEF FailoverIInv
<1> QED
  BY FailoverInvariance, <1>1, PTL

\* FetchAircraft returns a frame of the provider it leaves active.
THEOREM FailoverFrameIsActive == FailoverSpec => []ServedIsActive
<1>1. FailoverIInv => ServedIsActive
  BY DEF FailoverIInv
<1> QED
  BY FailoverInvariance, <1>1, PTL

-----------------------------------------------------------------------------
\* The actions that change the active provider are the four below; each of
\* them satisfies both action properties.
LEMMA FailoverSwitches ==
  ASSUME FailoverIInv, [FailoverNext]_failoverVars
  PROVE  /\ active # NoProvider /\ active' < active =>
              streak'[active'] = RecoverySuccesses \/ active \in failed'
         /\ active' > active => \A p \in Providers : p < active' => p \in failed'
<1> DEFINE Goal ==
      /\ active # NoProvider /\ active' < active =>
           streak'[active'] = RecoverySuccesses \/ active \in failed'
      /\ active' > active => \A p \in Providers : p < active' => p \in failed'
<1> USE CountAssumption DEF CountAssumption, FailoverIInv, FailoverTypeOK, CallOK, CountsOK, Providers,
            NoProvider
<1>1. ASSUME active' = active PROVE Goal
  BY <1>1
<1>2. CASE ProbeAnswers
  <2>1. CASE recoveries[index] + 1 >= RecoverySuccesses
    <3>1. index \in Providers /\ active' = index /\ index < active
      BY <1>2, <2>1 DEF ProbeAnswers, activate
    <3>2. RecoverySuccesses - 1 <= streak[index] /\ streak[index] <= RecoverySuccesses
      BY <1>2, <2>1, <3>1 DEF ProbeAnswers
    <3>3. streak'[index] = RecoverySuccesses
      BY <1>2, <3>1, <3>2 DEF ProbeAnswers, Answers
    <3> QED
      BY <3>1, <3>3
  <2>2. CASE ~(recoveries[index] + 1 >= RecoverySuccesses)
    BY <1>1, <1>2, <2>2 DEF ProbeAnswers
  <2> QED
    BY <2>1, <2>2
<1>3. CASE ActiveFails
  <2>1. CASE recovered # NoProvider
    BY <1>3, <2>1 DEF ActiveFails, Refuses, activate
  <2>2. CASE recovered = NoProvider
    BY <1>1, <1>3, <2>2 DEF ActiveFails
  <2> QED
    BY <2>1, <2>2
<1>4. CASE LowerAnswers
  BY <1>4 DEF LowerAnswers, Answers, activate
<1>5. active' = active \/ ProbeAnswers \/ ActiveFails \/ LowerAnswers
  BY FailoverNextCases DEF Toggle, CancelCalls, FetchAircraft,
     ProbeFails, ActiveAnswers,
     LowerFails, AllFail, CallCancelled, failoverVars
<1> QED
  BY <1>1, <1>2, <1>3, <1>4, <1>5

\* A provider of higher priority takes over from one that works only after
\* RecoverySuccesses answers in a row.
THEOREM FailbackIsStable == FailoverSpec => StableFailback
<1>1. FailoverIInv /\ [FailoverNext]_failoverVars =>
        [active # NoProvider /\ active' < active =>
           streak'[active'] = RecoverySuccesses \/ active \in failed']_failoverVars
  BY FailoverSwitches
<1> QED
  BY FailoverInvariance, <1>1, PTL DEF FailoverSpec, StableFailback

\* A provider of lower priority takes over only when all before it have just
\* failed.
THEOREM FailoverIsOrdered == FailoverSpec => LowerOnlyIfAllFailed
<1>1. FailoverIInv /\ [FailoverNext]_failoverVars =>
        [active' > active => \A p \in Providers : p < active' => p \in failed']_failoverVars
  BY FailoverSwitches
<1> QED
  BY FailoverInvariance, <1>1, PTL DEF FailoverSpec, LowerOnlyIfAllFailed

\* Failover and failback are safe for any number of providers and any recovery
\* threshold.
THEOREM FailoverIsSound == FailoverSpec => FailoverSound
<1>1. FailoverSpec => [](FailoverTypeOK /\ ServedIsActive)
  BY FailoverTypeCorrect, FailoverFrameIsActive, PTL
<1> QED
  BY <1>1, FailbackIsStable, FailoverIsOrdered DEF FailoverSound


-----------------------------------------------------------------------------
(* FeederAdmin.                                                            *)

\* Keys that some invitation has activated.
Activated == UNION {activated[t] : t \in Tokens}

\* A command that goes on without a row is an invitation with an empty copy;
\* from the second step on every other command has a row.
CopyOK ==
  /\ admin.pc = "upsert" /\ ~row.exists =>
       admin.feeder.key = None /\ admin.feeder.sequence = 0
  /\ admin.pc \in {"revoke", "register", "invite"} => row.exists
  /\ admin.pc = "upsert" => admin.command # "revoke"
  /\ admin.pc = "invite" => admin.command \in {"invite", "rotate"}

\* Invitations need a row, and one that activated a key is consumed.
TokensOK ==
  \A t \in Tokens :
    /\ tokens[t] # "unissued" => row.exists
    /\ activated[t] # {} => tokens[t] = "consumed"

\* The feeder's key, keys that were retired, and keys in the hands of an
\* agent, an enrollment or the worker have been activated; the others have
\* accepted nothing.
KeysOK ==
  /\ row.key # None => row.key \in Activated
  /\ retired \subseteq Activated
  /\ holders \subseteq Activated
  /\ \A h \in Enrollers : enroller[h].pc # "idle" => enroller[h].key \in Activated
  /\ worker.pc # "idle" => worker.key \in Activated
  /\ \A k \in Keys : k \notin Activated => accepted[k] = 0

\* The transaction of a revocation is done, or its command is answered.
Revoked ==
  \/ admin.pc = "register" /\ admin.command = "revoke"
  \/ answered = "revoke"

\* From its transaction on a revocation leaves no key and nothing to enroll
\* with, until the next command.
RevocationOK ==
  /\ answered = "revoke" => admin.pc = "idle"
  /\ Revoked => /\ ~row.enabled /\ row.key = None
                /\ \A t \in Tokens : tokens[t] # "open"

AdminIInv ==
  /\ AdminTypeOK
  /\ EnrolledKeyKept
  /\ SequenceCoversCurrentKey
  /\ InvitationSpentOnce
  /\ CopyOK
  /\ TokensOK
  /\ KeysOK
  /\ RevocationOK

-----------------------------------------------------------------------------
Hashes == (Keys \cup {None}) \X (0..MaxSequence)

\* The instance counts a set as FiniteSets does.
LEMMA AdminCardinality ==
  ASSUME NEW S
  PROVE  Cardinality(S) = Cardinality(S)
  BY DEF Cardinality, Cardinality

LEMMA AdminRowTypes ==
  NoHash \in Hashes /\ NoRow \in Rows
<1> USE AdminAssumption, NoneAssumption DEF AdminAssumption, NoneAssumption
<1>1. NoHash \in Hashes /\ 0 \in 0..MaxSequence
  BY DEF NoHash, Hashes
<1> QED
  BY <1>1 DEF NoRow, Rows, Hashes

LEMMA AdminInitInv ==
  AdminInit => AdminIInv
<1> SUFFICES ASSUME AdminInit PROVE AdminIInv
  OBVIOUS
<1> USE AdminAssumption, NoneAssumption DEF AdminAssumption, NoneAssumption
<1>1. Activated = {}
  BY DEF AdminInit, Activated
<1>2. AdminTypeOK
  <2>1. row \in Rows /\ row.key = None /\ row.sequence = 0
    BY AdminRowTypes DEF AdminInit, NoRow
  <2>2. admin \in [pc : {"idle", "revoke", "upsert", "register", "invite"},
                   command : Commands, feeder : Rows]
    BY AdminRowTypes DEF AdminInit, Commands
  <2>3. /\ enroller \in [Enrollers -> [pc : {"idle", "read", "register"},
                                       key : Keys \cup {None}, enabled : BOOLEAN]]
        /\ worker \in [pc : {"idle", "accept", "publish"}, key : Keys \cup {None},
                       sequence : 0..MaxSequence]
        /\ worker.pc = "idle"
    BY DEF AdminInit
  <2>4. /\ tokens \in [Tokens -> {"unissued", "open", "consumed", "revoked", "expired"}]
        /\ sent \in [Keys -> 0..MaxSequence] /\ accepted \in [Keys -> 0..MaxSequence]
        /\ commands \in 0..MaxCommands
        /\ activated \in [Tokens -> SUBSET Keys]
    BY DEF AdminInit
  <2> QED
    BY <2>1, <2>2, <2>3, <2>4 DEF AdminInit, AdminTypeOK
<1>3. InvitationSpentOnce
  BY FS_EmptySet, AdminCardinality DEF AdminInit, InvitationSpentOnce
<1> QED
  BY <1>1, <1>2, <1>3 DEF AdminInit, AdminIInv, EnrolledKeyKept,
     SequenceCoversCurrentKey, CopyOK,
    TokensOK, KeysOK, RevocationOK, Revoked, NoRow

LEMMA AdminTypeStep ==
  AdminIInv /\ [AdminNext]_adminVars => AdminTypeOK'
<1> SUFFICES ASSUME AdminIInv, [AdminNext]_adminVars PROVE AdminTypeOK'
  OBVIOUS
<1> USE AdminAssumption, NoneAssumption DEF AdminAssumption, NoneAssumption
<1> USE DEF AdminIInv, AdminTypeOK, agents
<1>1. ASSUME NEW c \in Commands, CommandRead(c) PROVE AdminTypeOK'
  <2>1. Changed(c) \in Rows
    BY <1>1, AdminRowTypes DEF Changed, Commands, Rows
  <2>2. commands' \in 0..MaxCommands
    BY <1>1 DEF CommandRead
  <2> QED
    BY <1>1, <2>1, <2>2 DEF CommandRead, Commands
<1>2. CASE CommandFails
  BY <1>2 DEF CommandFails
<1>3. CASE CommandRevoke
  <2>1. row' \in Rows
    BY <1>3, AdminRowTypes DEF CommandRevoke, RevokeFeeder, Hashes, Rows
  <2> QED
    BY <1>3, <2>1 DEF CommandRevoke, RevokeFeeder, Retire, Rows
<1>4. CASE CommandUpsert
  <2>1. row' \in Rows /\ row'.exists
    BY <1>4 DEF CommandUpsert, UpsertFeeder, Rows
  <2>2. admin' \in [pc : {"idle", "revoke", "upsert", "register", "invite"},
                    command : Commands, feeder : Rows]
    BY <1>4 DEF CommandUpsert
  <2> QED
    BY <1>4, <2>1, <2>2 DEF CommandUpsert
<1>5. CASE CommandRegister
  BY <1>5 DEF CommandRegister, Rows
<1>6. ASSUME NEW t \in Tokens, createInvitation(t) PROVE AdminTypeOK'
  BY <1>6 DEF createInvitation
<1>7. ASSUME NEW t \in Tokens, Expire(t) PROVE AdminTypeOK'
  BY <1>7 DEF Expire
<1>8. ASSUME NEW h \in Enrollers, NEW t \in Tokens, NEW k \in Keys,
             ConsumeEnrollment(h, t, k)
      PROVE  AdminTypeOK'
  <2>1. row.exists
    BY <1>8 DEF ConsumeEnrollment, TokensOK
  <2> QED
    <3>1. row' \in Rows /\ row'.exists
      <4>1. row' = [row EXCEPT !.key = k, !.sequence = 0, !.hash = NoHash,
         !.enabled = TRUE]
        BY <1>8 DEF ConsumeEnrollment
      <4>2. 0 \in 0..MaxSequence
        OBVIOUS
      <4> HIDE DEF AdminTypeOK
      <4> QED
        BY <2>1, <4>1, <4>2, AdminRowTypes DEF Hashes, Rows, AdminTypeOK
    <3>2. retired' \subseteq Keys
      BY <1>8 DEF ConsumeEnrollment, Retire, Rows
    <3> QED
      BY <1>8, <3>1, <3>2 DEF ConsumeEnrollment
<1>9. ASSUME NEW h \in Enrollers, EnrollmentRead(h) PROVE AdminTypeOK'
  <2>1. row.enabled \in BOOLEAN
    BY DEF Rows
  <2>2. enroller' \in [Enrollers -> [pc : {"idle", "read", "register"},
                                     key : Keys \cup {None}, enabled : BOOLEAN]]
    <3> DEFINE moved == [enroller EXCEPT ![h].pc = "register"]
    <3>1. enroller' = [moved EXCEPT ![h].enabled = row.enabled]
      BY <1>9 DEF EnrollmentRead
    <3>2. moved \in [Enrollers -> [pc : {"idle", "read", "register"},
                                   key : Keys \cup {None}, enabled : BOOLEAN]]
      BY SMTT(20)
    <3> HIDE DEF moved
    <3> QED
      BY <2>1, <3>1, <3>2
  <2> QED
    BY <1>9, <2>2 DEF EnrollmentRead
<1>10. ASSUME NEW h \in Enrollers, EnrollmentFails(h) PROVE AdminTypeOK'
  BY <1>10 DEF EnrollmentFails
<1>11. ASSUME NEW h \in Enrollers, EnrollmentRegister(h) PROVE AdminTypeOK'
  <2>1. enroller[h].key \in Keys
    BY <1>11 DEF EnrollmentRegister, KeysOK, Activated
  <2> QED
    BY <1>11, <2>1, SMTT(20) DEF EnrollmentRegister
<1>12. ASSUME NEW k \in Keys, NEW s \in 1..MaxSequence, WorkerVerify(k,
   s) PROVE AdminTypeOK'
  BY <1>12 DEF WorkerVerify
<1>13. CASE WorkerAccept
  <2>1. /\ worker.key \in Keys
        /\ worker' \in [pc : {"idle", "accept", "publish"}, key : Keys \cup {None},
                        sequence : 0..MaxSequence]
        /\ worker'.key = worker.key
    BY <1>13 DEF WorkerAccept
  <2>2. /\ row' \in Rows
        /\ ~row'.exists => row'.key = None /\ row'.sequence = 0
    <3>1. <<worker.key, worker.sequence>> \in Hashes /\ worker.sequence \in 0..MaxSequence
      BY <2>1 DEF Hashes
    <3>2. row.key # None => row.exists
      OBVIOUS
    <3>3. \/ row' = row
          \/ /\ row.key # None
             /\ row' = [row EXCEPT !.sequence = worker.sequence,
                                   !.hash = <<worker.key, worker.sequence>>]
      BY <1>13 DEF WorkerAccept
    <3> QED
      BY <3>1, <3>2, <3>3 DEF Rows, Hashes
  <2>3. accepted' \in [Keys -> 0..MaxSequence]
    BY <1>13, <2>1 DEF WorkerAccept
  <2> QED
    BY <1>13, <2>1, <2>2, <2>3 DEF WorkerAccept
<1>14. CASE WorkerFails
  BY <1>14 DEF WorkerFails
<1>15. CASE WorkerPublish
  BY <1>15 DEF WorkerPublish
<1>16. CASE UNCHANGED adminVars
  BY <1>16 DEF adminVars
<1> QED
  BY <1>1, <1>2, <1>3, <1>4, <1>5, <1>6, <1>7, <1>8, <1>9, <1>10, <1>11, <1>12, <1>13,
     <1>14, <1>15, <1>16 DEF AdminNext

\* What is left of IInv, as one name.
AdminParts ==
  /\ EnrolledKeyKept
  /\ SequenceCoversCurrentKey
  /\ InvitationSpentOnce
  /\ CopyOK
  /\ TokensOK
  /\ KeysOK
  /\ RevocationOK

\* Steps that leave keys and invitations alone disturb only what is said of
\* the command.
LEMMA AdminKeysUntouched ==
  ASSUME AdminIInv, AdminTypeOK',
         row'.exists = row.exists, row'.key = row.key, row'.sequence = row.sequence,
         UNCHANGED <<enroller, worker, holders, accepted, activated, retired>>,
         \A t \in Tokens : tokens[t] = "unissued" => tokens'[t] = "unissued",
         \A t \in Tokens : tokens[t] = "consumed" => tokens'[t] = "consumed"
  PROVE  /\ EnrolledKeyKept' /\ SequenceCoversCurrentKey' /\ InvitationSpentOnce'
         /\ TokensOK' /\ KeysOK'
<1> USE AdminAssumption, NoneAssumption DEF AdminAssumption, NoneAssumption
<1>1. Activated' = Activated
  BY DEF Activated
<1>2. EnrolledKeyKept' /\ SequenceCoversCurrentKey' /\ InvitationSpentOnce'
  BY DEF AdminIInv, EnrolledKeyKept, SequenceCoversCurrentKey,
     InvitationSpentOnce
<1>3. TokensOK'
  BY DEF AdminIInv, TokensOK
<1>4. KeysOK'
  BY <1>1 DEF AdminIInv, KeysOK
<1> QED
  BY <1>2, <1>3, <1>4

LEMMA AdminPartsStep ==
  AdminIInv /\ AdminTypeOK' /\ [AdminNext]_adminVars => AdminParts'
<1> SUFFICES ASSUME AdminIInv, AdminTypeOK', [AdminNext]_adminVars PROVE AdminParts'
  OBVIOUS
<1> USE AdminAssumption, NoneAssumption DEF AdminAssumption, NoneAssumption
<1> USE DEF AdminParts, agents
<1>1. ASSUME NEW c \in Commands, CommandRead(c) PROVE AdminParts'
  <2>1. CopyOK'
    <3>1. c # "invite" => row.exists
      BY <1>1 DEF CommandRead, Accepts
    <3>2. ~row.exists => Changed(c).key = None /\ Changed(c).sequence = 0
      BY <3>1 DEF Changed, NoRow
    <3>3. /\ row' = row
          /\ admin'.pc = IF c \in {"rotate", "revoke"} THEN "revoke" ELSE "upsert"
          /\ admin'.command = c
          /\ admin'.feeder = Changed(c)
      BY <1>1 DEF CommandRead
    <3> QED
      BY <3>1, <3>2, <3>3 DEF CopyOK
  <2>2. RevocationOK'
    BY <1>1 DEF CommandRead, RevocationOK, Revoked
  <2> QED
    BY <1>1, <2>1, <2>2, AdminKeysUntouched DEF CommandRead
<1>2. CASE CommandFails
  <2>1. CopyOK' /\ RevocationOK'
    BY <1>2 DEF CommandFails, AdminIInv, AdminTypeOK, CopyOK, RevocationOK, Revoked
  <2> QED
    BY <1>2, <2>1, AdminKeysUntouched DEF CommandFails
<1>3. CASE CommandRevoke
  <2>1. /\ row'.exists = row.exists /\ row'.key = None /\ row'.sequence = row.sequence
        /\ ~row'.enabled
        /\ retired' = retired \cup ({row.key} \ {None})
        /\ \A t \in Tokens : /\ tokens[t] = "unissued" => tokens'[t] = "unissued"
                             /\ tokens[t] = "consumed" => tokens'[t] = "consumed"
                             /\ tokens'[t] # "open"
    BY <1>3 DEF CommandRevoke, RevokeFeeder, Retire, AdminIInv,
       AdminTypeOK, Rows
  <2>2. Activated' = Activated
    BY <1>3 DEF CommandRevoke, Activated
  <2>3. EnrolledKeyKept'
    BY <1>3, <2>1 DEF CommandRevoke, AdminIInv, AdminTypeOK, EnrolledKeyKept
  <2>4. SequenceCoversCurrentKey' /\ InvitationSpentOnce'
    BY <1>3, <2>1 DEF CommandRevoke, AdminIInv, SequenceCoversCurrentKey,
       InvitationSpentOnce
  <2>5. CopyOK'
    BY <1>3, <2>1 DEF CommandRevoke, AdminIInv, AdminTypeOK, CopyOK
  <2>6. TokensOK'
    BY <1>3, <2>1 DEF CommandRevoke, AdminIInv, TokensOK
  <2>7. KeysOK'
    BY <1>3, <2>1, <2>2 DEF CommandRevoke, AdminIInv, KeysOK
  <2>8. RevocationOK'
    BY <1>3, <2>1 DEF CommandRevoke, AdminIInv, AdminTypeOK, RevocationOK, Revoked
  <2> QED
    BY <2>3, <2>4, <2>5, <2>6, <2>7, <2>8
<1>4. CASE CommandUpsert
  <2>1. row' \in Rows /\ row'.exists
    BY <1>4 DEF CommandUpsert, UpsertFeeder, AdminIInv, AdminTypeOK, Rows
  <2>2. CopyOK' /\ RevocationOK'
    BY <1>4, <2>1 DEF CommandUpsert, AdminIInv, AdminTypeOK, CopyOK, RevocationOK,
       Revoked
  <2>3. row'.key = row.key /\ row'.sequence = row.sequence
    BY <1>4 DEF CommandUpsert, UpsertFeeder, AdminIInv, AdminTypeOK,
       Rows, CopyOK
  <2>4. Activated' = Activated
    BY <1>4 DEF CommandUpsert, Activated
  <2>5. EnrolledKeyKept' /\ SequenceCoversCurrentKey' /\ InvitationSpentOnce'
    BY <1>4, <2>3 DEF CommandUpsert, AdminIInv, EnrolledKeyKept,
       SequenceCoversCurrentKey,
      InvitationSpentOnce
  <2>6. TokensOK'
    BY <1>4, <2>1 DEF CommandUpsert, AdminIInv, TokensOK
  <2>7. KeysOK'
    BY <1>4, <2>3, <2>4 DEF CommandUpsert, AdminIInv, KeysOK
  <2> QED
    BY <2>2, <2>5, <2>6, <2>7
<1>5. CASE CommandRegister
  <2>1. CopyOK' /\ RevocationOK'
    BY <1>5 DEF CommandRegister, AdminIInv, AdminTypeOK, CopyOK, RevocationOK,
       Revoked
  <2> QED
    BY <1>5, <2>1, AdminKeysUntouched DEF CommandRegister
<1>6. ASSUME NEW t \in Tokens, createInvitation(t) PROVE AdminParts'
  <2>1. CopyOK' /\ RevocationOK'
    BY <1>6 DEF createInvitation, AdminIInv, AdminTypeOK, CopyOK, RevocationOK,
       Revoked
  <2>2. row.exists
    BY <1>6 DEF createInvitation, AdminIInv, CopyOK
  <2>3. Activated' = Activated
    BY <1>6 DEF createInvitation, Activated
  <2>4. EnrolledKeyKept' /\ SequenceCoversCurrentKey' /\ InvitationSpentOnce'
    BY <1>6 DEF createInvitation, AdminIInv, EnrolledKeyKept,
       SequenceCoversCurrentKey,
      InvitationSpentOnce
  <2>5. TokensOK'
    BY <1>6, <2>2 DEF createInvitation, AdminIInv, AdminTypeOK, TokensOK
  <2>6. KeysOK'
    BY <1>6, <2>3 DEF createInvitation, AdminIInv, KeysOK
  <2> QED
    BY <2>1, <2>4, <2>5, <2>6
<1>7. ASSUME NEW t \in Tokens, Expire(t) PROVE AdminParts'
  <2>1. CopyOK' /\ RevocationOK'
    BY <1>7 DEF Expire, AdminIInv, AdminTypeOK, CopyOK, RevocationOK, Revoked
  <2>2. \A u \in Tokens : /\ tokens[u] = "unissued" => tokens'[u] = "unissued"
                          /\ tokens[u] = "consumed" => tokens'[u] = "consumed"
    BY <1>7 DEF Expire, AdminIInv, AdminTypeOK
  <2> QED
    BY <1>7, <2>1, <2>2, AdminKeysUntouched DEF Expire
<1>8. ASSUME NEW h \in Enrollers, NEW t \in Tokens, NEW k \in Keys,
             ConsumeEnrollment(h, t, k)
      PROVE  AdminParts'
  <2>1. /\ k \notin Activated /\ k # None
        /\ row'.key = k /\ row'.sequence = 0 /\ row'.exists = row.exists
        /\ retired' = retired \cup ({row.key} \ {None})
        /\ activated[t] = {}
        /\ row.exists
    BY <1>8 DEF ConsumeEnrollment, Activated, Retire, AdminIInv,
       AdminTypeOK, Rows, TokensOK
  <2>2. /\ activated'[t] = {k}
        /\ \A u \in Tokens \ {t} : activated'[u] = activated[u]
        /\ Activated' = Activated \cup {k}
    BY <1>8, <2>1 DEF ConsumeEnrollment, Activated, AdminIInv, AdminTypeOK
  <2>3. EnrolledKeyKept'
    BY <2>1, <2>2 DEF AdminIInv, AdminTypeOK, KeysOK, EnrolledKeyKept, Activated
  <2>4. SequenceCoversCurrentKey'
    BY <1>8, <2>1 DEF ConsumeEnrollment, AdminIInv, KeysOK,
       SequenceCoversCurrentKey
  <2>5. InvitationSpentOnce'
    <3>1. Cardinality({k}) = 1
      BY FS_Singleton
    <3> QED
      BY <2>2, <3>1, AdminCardinality DEF AdminIInv, InvitationSpentOnce
  <2>6. CopyOK'
    BY <1>8, <2>1 DEF ConsumeEnrollment, AdminIInv, CopyOK
  <2>7. TokensOK'
    BY <1>8, <2>1, <2>2 DEF ConsumeEnrollment, AdminIInv, AdminTypeOK, TokensOK
  <2>8. KeysOK'
    BY <1>8, <2>1, <2>2 DEF ConsumeEnrollment, AdminIInv, AdminTypeOK, KeysOK
  <2>9. RevocationOK'
    BY <1>8 DEF ConsumeEnrollment, AdminIInv, RevocationOK, Revoked
  <2> QED
    BY <2>3, <2>4, <2>5, <2>6, <2>7, <2>8, <2>9
<1>9. ASSUME UNCHANGED <<row, tokens, admin, answered, retired, accepted, activated>>,
   KeysOK'
      PROVE  AdminParts'
  BY <1>9 DEF AdminIInv, EnrolledKeyKept, SequenceCoversCurrentKey,
     InvitationSpentOnce, CopyOK,
    TokensOK, RevocationOK, Revoked
<1>10. UNCHANGED activated => Activated' = Activated
  BY DEF Activated
<1>11. ASSUME NEW h \in Enrollers,
              EnrollmentRead(h) \/ EnrollmentFails(h) \/ EnrollmentRegister(h)
       PROVE  AdminParts'
  <2>1. \A g \in Enrollers : /\ enroller'[g].key = enroller[g].key
                             /\ enroller'[g].pc # "idle" => enroller[g].pc # "idle"
    BY <1>11 DEF EnrollmentRead, EnrollmentFails, EnrollmentRegister,
       AdminIInv, AdminTypeOK
  <2>2. KeysOK'
    BY <1>10, <1>11, <2>1 DEF EnrollmentRead, EnrollmentFails,
       EnrollmentRegister, AdminIInv,
      KeysOK
  <2> QED
    BY <1>9, <1>11, <2>2 DEF EnrollmentRead, EnrollmentFails,
       EnrollmentRegister
<1>12. ASSUME NEW k \in Keys, NEW s \in 1..MaxSequence, WorkerVerify(k,
   s) PROVE AdminParts'
  <2>1. KeysOK'
    BY <1>10, <1>12 DEF WorkerVerify, AdminIInv, KeysOK
  <2> QED
    BY <1>9, <1>12, <2>1 DEF WorkerVerify
<1>13. CASE WorkerAccept
  <2>1. /\ row'.key = row.key /\ row'.exists = row.exists /\ row'.enabled = row.enabled
        /\ worker'.key = worker.key
        /\ worker.key \in Activated /\ worker.key \in Keys
        /\ worker.sequence \in Nat /\ row.sequence \in Nat
    <3>1. \/ row' = row
          \/ row' = [row EXCEPT !.sequence = worker.sequence,
                                !.hash = <<worker.key, worker.sequence>>]
      BY <1>13 DEF WorkerAccept
    <3>2. row'.key = row.key /\ row'.exists = row.exists /\ row'.enabled = row.enabled
      <4>1. row \in Rows
        BY DEF AdminIInv, AdminTypeOK
      <4> DEFINE hash == <<worker.key, worker.sequence>>
      <4>2. \/ row' = row
            \/ row' = [row EXCEPT !.sequence = worker.sequence, !.hash = hash]
        BY <3>1
      <4> HIDE DEF hash
      <4> QED
        BY <4>1, <4>2 DEF Rows
    <3>3. worker'.key = worker.key /\ worker.key \in Activated /\ worker.key \in Keys
      BY <1>13 DEF WorkerAccept, AdminIInv, AdminTypeOK, KeysOK
    <3>4. worker.sequence \in Nat /\ row.sequence \in Nat
      BY DEF AdminIInv, AdminTypeOK, Rows
    <3> QED
      BY <3>2, <3>3, <3>4
  <2>2. \/ row'.sequence = row.sequence /\ accepted' = accepted
        \/ /\ worker.sequence > row.sequence
           /\ row'.sequence = worker.sequence
           /\ accepted' = [accepted EXCEPT ![worker.key] =
                             IF worker.sequence > @ THEN worker.sequence ELSE @]
    <3> DEFINE hash == <<worker.key, worker.sequence>>
    <3>1. \/ UNCHANGED <<row, accepted>>
          \/ /\ worker.sequence > row.sequence
             /\ row' = [row EXCEPT !.sequence = worker.sequence, !.hash = hash]
             /\ accepted' = [accepted EXCEPT ![worker.key] =
                               IF worker.sequence > @ THEN worker.sequence ELSE @]
      BY <1>13 DEF WorkerAccept
    <3> HIDE DEF hash
    <3>2. row \in Rows
      BY DEF AdminIInv, AdminTypeOK
    <3>3. [row EXCEPT !.sequence = worker.sequence,
       !.hash = hash].sequence = worker.sequence
      BY <3>2 DEF Rows
    <3> QED
      BY <3>1, <3>3
  <2>3. SequenceCoversCurrentKey'
    <3>1. accepted \in [Keys -> 0..MaxSequence] /\ row.key \in Keys \cup {None}
      BY DEF AdminIInv, AdminTypeOK, Rows
    <3>2. row.key # None => row.sequence >= accepted[row.key]
      BY DEF AdminIInv, SequenceCoversCurrentKey
    <3>3. row.key # None => row'.sequence >= accepted'[row.key]
      BY <2>1, <2>2, <3>1, <3>2
    <3> QED
      BY <2>1, <3>3 DEF SequenceCoversCurrentKey
  <2>4. KeysOK'
    BY <1>10, <1>13, <2>1, <2>2 DEF WorkerAccept, AdminIInv, AdminTypeOK, KeysOK
  <2>5. EnrolledKeyKept' /\ InvitationSpentOnce' /\ CopyOK' /\ TokensOK' /\ RevocationOK'
    BY <1>13, <2>1 DEF WorkerAccept, AdminIInv, EnrolledKeyKept,
       InvitationSpentOnce, CopyOK,
      TokensOK, RevocationOK, Revoked
  <2> QED
    BY <2>3, <2>4, <2>5
<1>14. CASE WorkerFails \/ WorkerPublish
  <2>1. worker'.pc = "idle"
    BY <1>14 DEF WorkerFails, WorkerPublish, AdminIInv, AdminTypeOK
  <2>2. KeysOK'
    BY <1>10, <1>14, <2>1 DEF WorkerFails, WorkerPublish, AdminIInv, KeysOK
  <2> QED
    BY <1>9, <1>14, <2>2 DEF WorkerFails, WorkerPublish
<1>15. CASE UNCHANGED adminVars
  BY <1>9, <1>10, <1>15 DEF adminVars, AdminIInv, KeysOK
<1> QED
  BY <1>1, <1>2, <1>3, <1>4, <1>5, <1>6, <1>7, <1>8, <1>11, <1>12, <1>13, <1>14, <1>15
  DEF AdminNext

-----------------------------------------------------------------------------
LEMMA AdminInductive ==
  AdminSpec => []AdminIInv
<1>1. AdminIInv /\ [AdminNext]_adminVars => AdminIInv'
  BY AdminTypeStep, AdminPartsStep DEF AdminIInv, AdminParts
<1>2. AdminInit => AdminIInv
  BY AdminInitInv
<1> QED
  BY <1>1, <1>2, PTL DEF AdminSpec

\* Type correctness of the row, the commands, the enrollments and the worker.
THEOREM AdminTypeCorrect == AdminSpec => []AdminTypeOK
<1>1. AdminIInv => AdminTypeOK
  BY DEF AdminIInv
<1> QED
  BY AdminInductive, <1>1, PTL

\* An administration command that read the row before an enrollment neither
\* undoes it nor brings an old key back (UpsertFeeder, RevokeFeeder and
\* ConsumeFeederEnrollment between any two steps of each other).
THEOREM EnrolledKeyIsKept == AdminSpec => []EnrolledKeyKept
<1>1. AdminIInv => EnrolledKeyKept
  BY DEF AdminIInv
<1> QED
  BY AdminInductive, <1>1, PTL

\* No command or enrollment sets the replay sequence of the current key back
\* (AcceptFeederSequence).
THEOREM SequenceIsCovered == AdminSpec => []SequenceCoversCurrentKey
<1>1. AdminIInv => SequenceCoversCurrentKey
  BY DEF AdminIInv
<1> QED
  BY AdminInductive, <1>1, PTL

\* However administration commands, enrollments and deliveries interleave,
\* the row keeps the key an invitation activated, covers what was accepted for
\* it, spends an invitation once, and stays revoked once a revocation is
\* answered.
THEOREM RowIsSound == AdminSpec => []RowSound
<1>1. AdminIInv => RowSound
  BY DEF AdminIInv, RowSound, RevokedRowStaysDisabled, RevocationOK, Revoked
<1> QED
  BY AdminInductive, <1>1, PTL

HIDE BoundAssumption DEF BoundAssumption

-----------------------------------------------------------------------------
(* Enrichment.                                                             *)

\* A cache has one entry per key.
OneEntryPerKey(c) == \A i, j \in DOMAIN c : c[i].key = c[j].key => i = j
Holds(c, e) == \E i \in DOMAIN c : c[i] = e

\* Keys wait once each, and the pending ones are those that wait or are busy.
QueueOK(q, busy) ==
  /\ \A i, j \in DOMAIN q.queue : q.queue[i] = q.queue[j] => i = j
  /\ \A i \in DOMAIN q.queue : q.queue[i] \notin busy
  /\ \A k : k \in q.pending <=> k \in busy \/ \E i \in DOMAIN q.queue : q.queue[i] = k

AircraftEntries ==
  [key : AircraftKeys, value : {"found", "none", "error"}, expires : Nat, staleAt : Nat]
Circuits == [failures : Nat, openUntil : Nat, probing : BOOLEAN]
Flights == [probe : BOOLEAN, attempt : Nat, deadline : Nat]
Processes == [phase : {"idle", "lookup", "flying", "done"}, key : AircraftKeys \cup {NoKey}]
Tracks == [icao : {k[1] : k \in AircraftKeys}, callsign : {k[2] : k \in AircraftKeys},
           seenAt : Nat, settled : BOOLEAN]
Seen == UNION {ToSet(shown) : shown \in Snapshots}

AircraftTypeOK ==
  /\ clock \in Nat
  /\ cache \in Seq(AircraftEntries) /\ OneEntryPerKey(cache)
  /\ circuit \in Circuits
  /\ admitted \in [queue : Seq(AircraftKeys), pending : SUBSET AircraftKeys]
  /\ proc \in [Workers \cup Callers -> Processes]
  /\ \A p \in Workers \cup Callers : proc[p].phase # "idle" <=> proc[p].key \in AircraftKeys
  /\ DOMAIN flights \subseteq AircraftKeys /\ flights \in [DOMAIN flights -> Flights]
  /\ tracker \in Seq(Tracks)
  /\ observing \in [left : Seq(Seen), at : Nat]

\* Every key has one worker, and what is pending is queued or has a worker.
WorkOK ==
  /\ QueueOK(admitted, WorkedOn)
  /\ \A v, w \in Workers : v # w /\ proc[v].phase # "idle" /\ proc[w].phase # "idle"
       => proc[v].key # proc[w].key

KeyOf(e) == <<e.icao, e.callsign>>

\* The loss of an entry is counted, or its key is pending, and a worker that
\* is about to clear the key has settled it.
Accounted(e, waiting) ==
  /\ e.settled \/ KeyOf(e) \in waiting
  /\ \A w \in Workers : proc[w].phase = "done" /\ proc[w].key = KeyOf(e) => e.settled

TrackerOK == \A i \in DOMAIN tracker : Accounted(tracker[i], admitted.pending)

\* A key is only asked for when it is not fresh, and until the answer it stays so.
FlightsNotFresh == \A k \in DOMAIN flights : ~Fresh(cache, k, clock)

ProbeFlies == circuit.probing => \E k \in DOMAIN flights : flights[k].probe

AircraftIInv ==
  AircraftTypeOK /\ WorkOK /\ TrackerOK /\ FlightsNotFresh /\ ProbeFlies

KeysOf(kind) == IF kind = "route" THEN RouteCallsigns ELSE Airports
RouteKeys == RouteCallsigns \cup Airports
Calls == [phase : {"idle", "lookup", "collect", "fetch", "wait", "request", "clear"},
          kind : {"route", "airport"}, keys : Seq(RouteKeys), missing : SUBSET RouteKeys,
          probe : BOOLEAN, attempt : Nat, deadline : Nat]

RouteTypeOK ==
  /\ calls \in [RouteCallers \cup {RouteWorker} -> Calls]
  /\ routeQ \in [queue : Seq(RouteCallsigns), pending : SUBSET RouteCallsigns]
  /\ airportQ \in [queue : Seq(Airports), pending : SUBSET Airports]
  /\ routeCircuit \in Circuits
  /\ walk \in [over : {<<>>} \cup RouteSnapshots, examined : Nat, queued : Nat]
  /\ walk # NoWalk => walk.over # <<>>
  /\ cursor \in Nat /\ clock \in Nat

\* A handler looks up one key; the worker holds no keys between two batches,
\* and collects callsigns.
CallsOK ==
  /\ \A c \in RouteCallers : calls[c].phase = "lookup" => calls[c].keys[1] \in KeysOf(calls[c].kind)
  /\ calls[RouteWorker].phase = "idle" => calls[RouteWorker].keys = <<>>
  /\ calls[RouteWorker].phase = "collect" => calls[RouteWorker].kind = "route"

RouteProbeFlies ==
  routeCircuit.probing =>
    \E p \in DOMAIN calls : calls[p].phase \in {"wait", "request"} /\ calls[p].probe

RouteQueuesOK ==
  QueueOK(routeQ, WorkerKeys("route")) /\ QueueOK(airportQ, WorkerKeys("airport"))

RouteIInv == RouteTypeOK /\ CallsOK /\ RouteProbeFlies /\ RouteQueuesOK

WeatherEntries ==
  [key : WeatherKeys, value : {"metar", "blank", "none", "error"}, expires : Nat, staleAt : Nat]

WeatherTypeOK ==
  /\ clock \in Nat
  /\ observations \in Seq(WeatherEntries) /\ OneEntryPerKey(observations)
  /\ usable \in [WeatherKeys -> Nat]

\* While a METAR may be shown, it is cached.
UsableCached ==
  \A k \in WeatherKeys : clock < usable[k] =>
    \E e \in WeatherEntries :
      Holds(observations, e) /\ e.key = k /\ e.value = "metar" /\ usable[k] <= e.staleAt

WeatherIInv == WeatherTypeOK /\ UsableCached

-----------------------------------------------------------------------------
(* The caches.                                                             *)

\* Taking out one element keeps the others in their order.
LEMMA RemoveAtFacts ==
  ASSUME NEW S, NEW s \in Seq(S), NEW i \in DOMAIN s
  PROVE  /\ RemoveAt(s, i) \in Seq(S)
         /\ Len(RemoveAt(s, i)) = Len(s) - 1
         /\ \A j \in 1..(Len(s) - 1) : RemoveAt(s, i)[j] = IF j < i THEN s[j] ELSE s[j + 1]
<1>1. Len(s) \in Nat /\ DOMAIN s = 1..Len(s) /\ \A j \in 1..Len(s) : s[j] \in S
  BY LenProperties
<1> DEFINE front == SubSeq(s, 1, i - 1)
           back == SubSeq(s, i + 1, Len(s))
<1>2. i \in Int /\ i - 1 \in Int /\ i + 1 \in Int /\ 1 <= i /\ i <= Len(s) /\ Len(s) \in Int
  BY <1>1
<1>3. /\ front \in Seq(S) /\ Len(front) = i - 1
      /\ \A j \in 1..(i - 1) : front[j] = s[j]
  <2>1. \A j \in 1..(i - 1) : s[j] \in S
    BY <1>1, <1>2
  <2>2. /\ front \in Seq(S)
        /\ Len(front) = IF 1 <= i - 1 THEN i - 1 - 1 + 1 ELSE 0
        /\ \A j \in 1..(i - 1 - 1 + 1) : front[j] = s[1 + j - 1]
    BY <1>2, <2>1, SubSeqProperties
  <2> HIDE DEF front
  <2> QED
    BY <1>2, <2>2
<1>4. /\ back \in Seq(S) /\ Len(back) = Len(s) - i
      /\ \A j \in 1..(Len(s) - i) : back[j] = s[i + j]
  <2>1. \A j \in (i + 1)..Len(s) : s[j] \in S
    BY <1>1, <1>2
  <2>2. /\ back \in Seq(S)
        /\ Len(back) = IF i + 1 <= Len(s) THEN Len(s) - (i + 1) + 1 ELSE 0
        /\ \A j \in 1..(Len(s) - (i + 1) + 1) : back[j] = s[i + 1 + j - 1]
    BY <1>2, <2>1, SubSeqProperties
  <2> HIDE DEF back
  <2> QED
    BY <1>2, <2>2
<1>5. RemoveAt(s, i) = front \o back
  BY DEF RemoveAt
<1> HIDE DEF front, back
<1>6. /\ front \o back \in Seq(S)
      /\ Len(front \o back) = Len(front) + Len(back)
      /\ \A j \in 1..(Len(front) + Len(back)) :
           (front \o back)[j] = IF j <= Len(front) THEN front[j] ELSE back[j - Len(front)]
  BY <1>3, <1>4, ConcatProperties
<1>7. ASSUME NEW j \in 1..(Len(s) - 1)
      PROVE  (front \o back)[j] = IF j < i THEN s[j] ELSE s[j + 1]
  <2>1. (front \o back)[j] = IF j <= i - 1 THEN front[j] ELSE back[j - (i - 1)]
    <3>1. j \in 1..(Len(front) + Len(back)) /\ Len(front) = i - 1
      BY <1>2, <1>3, <1>4
    <3>2. (front \o back)[j] = IF j <= Len(front) THEN front[j] ELSE back[j - Len(front)]
      BY <1>6, <3>1
    <3> QED
      BY <3>1, <3>2
  <2>2. CASE j < i
    <3>1. j <= i - 1 /\ j \in 1..(i - 1)
      BY <1>2, <2>2
    <3> QED
      BY <1>3, <2>1, <2>2, <3>1
  <2>3. CASE ~(j < i)
    <3>1. j - (i - 1) \in 1..(Len(s) - i)
      BY <1>2, <2>3
    <3>2. back[j - (i - 1)] = s[i + (j - (i - 1))]
      BY <1>4, <3>1
    <3>3. i + (j - (i - 1)) = j + 1
      BY <1>2
    <3> QED
      BY <1>2, <2>1, <2>3, <3>2, <3>3
  <2> QED
    BY <2>2, <2>3
<1>8. Len(front \o back) = Len(s) - 1
  BY <1>2, <1>3, <1>4, <1>6
<1> QED
  BY <1>5, <1>6, <1>7, <1>8

\* Its elements are the others.
LEMMA RemovedFacts ==
  ASSUME NEW S, NEW s \in Seq(S), NEW i \in DOMAIN s
  PROVE  /\ \A j \in DOMAIN RemoveAt(s, i) :
              \E o \in DOMAIN s : o # i /\ RemoveAt(s, i)[j] = s[o]
         /\ \A o \in DOMAIN s : o # i => \E j \in DOMAIN RemoveAt(s, i) : RemoveAt(s, i)[j] = s[o]
<1> DEFINE r == RemoveAt(s, i)
<1>1. /\ r \in Seq(S) /\ Len(r) = Len(s) - 1
      /\ \A j \in 1..(Len(s) - 1) : r[j] = IF j < i THEN s[j] ELSE s[j + 1]
  BY RemoveAtFacts
<1> HIDE DEF r
<1>2. Len(s) \in Nat /\ DOMAIN s = 1..Len(s) /\ DOMAIN r = 1..(Len(s) - 1) /\ i \in 1..Len(s)
  BY <1>1, LenProperties
<1>3. ASSUME NEW j \in DOMAIN r PROVE \E o \in DOMAIN s : o # i /\ r[j] = s[o]
  <2>1. CASE j < i
    BY <1>1, <1>2, <2>1
  <2>2. CASE ~(j < i)
    <3>1. j + 1 \in DOMAIN s /\ j + 1 # i /\ r[j] = s[j + 1]
      BY <1>1, <1>2, <2>2
    <3> QED
      BY <3>1
  <2> QED
    BY <2>1, <2>2
<1>4. ASSUME NEW o \in DOMAIN s, o # i PROVE \E j \in DOMAIN r : r[j] = s[o]
  <2>1. CASE o < i
    BY <1>1, <1>2, <2>1
  <2>2. CASE ~(o < i)
    <3>1. o - 1 \in DOMAIN r /\ ~(o - 1 < i) /\ r[o - 1] = s[(o - 1) + 1] /\ (o - 1) + 1 = o
      BY <1>1, <1>2, <1>4, <2>2
    <3> QED
      BY <3>1
  <2> QED
    BY <2>1, <2>2
<1> QED
  BY <1>3, <1>4 DEF r

\* What an entry of a cache is, and where.
LEMMA EntryFacts ==
  ASSUME NEW S, NEW c \in Seq(S), OneEntryPerKey(c), NEW k
  PROVE  /\ k \in CachedKeys(c) <=> \E e : Holds(c, e) /\ e.key = k
         /\ k \in CachedKeys(c) => /\ Place(c, k) \in DOMAIN c
                                   /\ Holds(c, EntryOf(c, k)) /\ EntryOf(c, k).key = k
         /\ \A e : Holds(c, e) /\ e.key = k => EntryOf(c, k) = e
         /\ \A e : Holds(c, e) => e \in S
<1>1. k \in CachedKeys(c) <=> \E e : Holds(c, e) /\ e.key = k
  BY DEF CachedKeys, Holds
<1>2. ASSUME k \in CachedKeys(c) PROVE Place(c, k) \in DOMAIN c /\ c[Place(c, k)].key = k
  BY <1>2 DEF CachedKeys, Place
<1>3. k \in CachedKeys(c) => /\ Place(c, k) \in DOMAIN c
                             /\ Holds(c, EntryOf(c, k)) /\ EntryOf(c, k).key = k
  BY <1>2 DEF Holds, EntryOf
<1>4. ASSUME NEW e, Holds(c, e), e.key = k PROVE EntryOf(c, k) = e
  <2>1. PICK i \in DOMAIN c : c[i] = e
    BY <1>4 DEF Holds
  <2>2. k \in CachedKeys(c)
    BY <1>1, <1>4
  <2>3. Place(c, k) = i
    BY <1>2, <1>4, <2>1, <2>2 DEF OneEntryPerKey
  <2> QED
    BY <2>1, <2>3 DEF EntryOf
<1>5. \A e : Holds(c, e) => e \in S
  BY LenProperties DEF Holds
<1> QED
  BY <1>1, <1>3, <1>4, <1>5

LEMMA OthersFacts ==
  ASSUME NEW S, NEW c \in Seq(S), OneEntryPerKey(c), NEW k
  PROVE  /\ Others(c, k) \in Seq(S) /\ OneEntryPerKey(Others(c, k))
         /\ Len(Others(c, k)) <= Len(c)
         /\ \A e : Holds(Others(c, k), e) <=> Holds(c, e) /\ e.key # k
<1>0. Len(c) \in Nat
  BY LenProperties
<1>1. CASE k \notin CachedKeys(c)
  <2>1. Others(c, k) = c
    BY <1>1 DEF Others
  <2>2. \A e : Holds(c, e) => e.key # k
    BY <1>1, EntryFacts
  <2> QED
    BY <1>0, <2>1, <2>2
<1>2. CASE k \in CachedKeys(c)
  <2>1. PICK i : i = Place(c, k)
    OBVIOUS
  <2>2. i \in DOMAIN c /\ c[i].key = k
    <3>1. EntryOf(c, k) = c[i]
      BY <2>1 DEF EntryOf
    <3> QED
      BY <1>2, <2>1, <3>1, EntryFacts
  <2>3. Others(c, k) = RemoveAt(c, i)
    BY <1>2, <2>1 DEF Others
  <2>4. PICK r : r = RemoveAt(c, i)
    OBVIOUS
  <2>5. /\ r \in Seq(S) /\ Len(r) = Len(c) - 1
        /\ \A j \in 1..(Len(c) - 1) : r[j] = IF j < i THEN c[j] ELSE c[j + 1]
    BY <2>2, <2>4, RemoveAtFacts
  <2>6. /\ \A j \in DOMAIN r : \E o \in DOMAIN c : o # i /\ r[j] = c[o]
        /\ \A o \in DOMAIN c : o # i => \E j \in DOMAIN r : r[j] = c[o]
    BY <2>2, <2>4, RemovedFacts
  <2>7. DOMAIN c = 1..Len(c) /\ DOMAIN r = 1..(Len(c) - 1) /\ i \in 1..Len(c)
    BY <2>2, <2>5, LenProperties
  <2>8. ASSUME NEW e PROVE Holds(r, e) <=> Holds(c, e) /\ e.key # k
    <3>1. ASSUME Holds(r, e) PROVE Holds(c, e) /\ e.key # k
      <4>1. PICK j \in DOMAIN r : r[j] = e
        BY <3>1 DEF Holds
      <4>2. PICK o \in DOMAIN c : o # i /\ r[j] = c[o]
        BY <2>6
      <4> QED
        BY <2>2, <4>1, <4>2 DEF Holds, OneEntryPerKey
    <3>2. ASSUME Holds(c, e), e.key # k PROVE Holds(r, e)
      <4>1. PICK o \in DOMAIN c : c[o] = e
        BY <3>2 DEF Holds
      <4> QED
        BY <2>2, <2>6, <3>2, <4>1 DEF Holds
    <3> QED
      BY <3>1, <3>2
  <2>9. OneEntryPerKey(r)
    <3>1. SUFFICES ASSUME NEW a \in DOMAIN r, NEW b \in DOMAIN r, r[a].key = r[b].key PROVE a = b
      BY DEF OneEntryPerKey
    <3>2. PICK x \in Int : x \in DOMAIN c /\ r[a] = c[x] /\ x = IF a < i THEN a ELSE a + 1
      BY <1>0, <2>5, <2>7
    <3>3. PICK y \in Int : y \in DOMAIN c /\ r[b] = c[y] /\ y = IF b < i THEN b ELSE b + 1
      BY <1>0, <2>5, <2>7
    <3>4. x = y
      BY <3>1, <3>2, <3>3 DEF OneEntryPerKey
    <3> QED
      BY <1>0, <2>7, <3>2, <3>3, <3>4
  <2> QED
    BY <1>0, <2>3, <2>4, <2>5, <2>8, <2>9
<1> QED
  BY <1>1, <1>2

\* An entry put in front of those of other keys.
LEMMA InFrontFacts ==
  ASSUME NEW S, NEW c \in Seq(S), NEW e \in S
  PROVE  /\ <<e>> \o c \in Seq(S) /\ Len(<<e>> \o c) = Len(c) + 1
         /\ (<<e>> \o c)[1] = e
         /\ \A i \in 2..(Len(c) + 1) : (<<e>> \o c)[i] = c[i - 1]
         /\ \A x : Holds(<<e>> \o c, x) <=> x = e \/ Holds(c, x)
         /\ OneEntryPerKey(c) /\ (\A x : Holds(c, x) => x.key # e.key) => OneEntryPerKey(<<e>> \o c)
<1>1. <<e>> \in Seq(S) /\ Len(<<e>>) = 1 /\ <<e>>[1] = e /\ Len(c) \in Nat
  OBVIOUS
<1>2. PICK f : f = <<e>> \o c
  OBVIOUS
<1>3. /\ f \in Seq(S) /\ Len(f) = 1 + Len(c)
      /\ \A i \in 1..(1 + Len(c)) : f[i] = IF i <= 1 THEN <<e>>[i] ELSE c[i - 1]
  <2>1. PICK o : o = <<e>>
    OBVIOUS
  <2>2. /\ o \o c \in Seq(S) /\ Len(o \o c) = Len(o) + Len(c)
        /\ \A i \in 1..(Len(o) + Len(c)) : (o \o c)[i] = IF i <= Len(o) THEN o[i] ELSE c[i - Len(o)]
    BY <1>1, <2>1, ConcatProperties
  <2> QED
    BY <1>1, <1>2, <2>1, <2>2
<1>4. DOMAIN f = 1..(1 + Len(c)) /\ DOMAIN c = 1..Len(c)
  BY <1>3, LenProperties
<1>5. f[1] = e /\ \A i \in 2..(Len(c) + 1) : f[i] = c[i - 1]
  BY <1>1, <1>3
<1>6. ASSUME NEW x PROVE Holds(f, x) <=> x = e \/ Holds(c, x)
  <2>1. ASSUME NEW i \in DOMAIN f, f[i] = x PROVE x = e \/ Holds(c, x)
    <3>1. CASE i = 1
      BY <1>5, <2>1, <3>1
    <3>2. CASE i # 1
      <4>1. i - 1 \in DOMAIN c /\ f[i] = c[i - 1]
        BY <1>1, <1>4, <1>5, <3>2
      <4> QED
        BY <2>1, <4>1 DEF Holds
    <3> QED
      BY <3>1, <3>2
  <2>2. ASSUME NEW i \in DOMAIN c, c[i] = x PROVE Holds(f, x)
    <3>1. i + 1 \in DOMAIN f /\ i + 1 \in 2..(Len(c) + 1) /\ (i + 1) - 1 = i
      BY <1>1, <1>4
    <3>2. f[i + 1] = c[i]
      BY <1>5, <3>1
    <3> QED
      BY <2>2, <3>1, <3>2 DEF Holds
  <2>3. 1 \in DOMAIN f
    BY <1>1, <1>4
  <2> QED
    BY <1>5, <2>1, <2>2, <2>3 DEF Holds
<1>7. ASSUME OneEntryPerKey(c), \A x : Holds(c, x) => x.key # e.key PROVE OneEntryPerKey(f)
  <2>1. \A i \in DOMAIN f : i # 1 => i - 1 \in DOMAIN c /\ f[i] = c[i - 1] /\ f[i].key # e.key
    <3>1. SUFFICES ASSUME NEW i \in DOMAIN f, i # 1
                   PROVE  i - 1 \in DOMAIN c /\ f[i] = c[i - 1] /\ f[i].key # e.key
      OBVIOUS
    <3>2. i - 1 \in DOMAIN c /\ f[i] = c[i - 1]
      BY <1>1, <1>4, <1>5, <3>1
    <3> QED
      BY <1>7, <3>2 DEF Holds
  <2>2. SUFFICES ASSUME NEW a \in DOMAIN f, NEW b \in DOMAIN f, f[a].key = f[b].key PROVE a = b
    BY DEF OneEntryPerKey
  <2>3. CASE a = 1 \/ b = 1
    BY <1>5, <2>1, <2>2, <2>3
  <2>4. CASE a # 1 /\ b # 1
    <3>1. a - 1 = b - 1
      BY <1>7, <2>1, <2>2, <2>4 DEF OneEntryPerKey
    <3> QED
      BY <1>1, <1>4, <3>1
  <2> QED
    BY <2>3, <2>4
<1> QED
  BY <1>1, <1>2, <1>3, <1>5, <1>6, <1>7

\* Cutting a cache keeps entries of it.
LEMMA CutFacts ==
  ASSUME NEW S, NEW c \in Seq(S), NEW n \in Nat, n <= Len(c)
  PROVE  /\ SubSeq(c, 1, n) \in Seq(S) /\ Len(SubSeq(c, 1, n)) = n
         /\ \A i \in 1..n : SubSeq(c, 1, n)[i] = c[i]
         /\ \A x : Holds(SubSeq(c, 1, n), x) => Holds(c, x)
         /\ OneEntryPerKey(c) => OneEntryPerKey(SubSeq(c, 1, n))
<1>1. Len(c) \in Nat /\ DOMAIN c = 1..Len(c) /\ \A j \in 1..Len(c) : c[j] \in S
  BY LenProperties
<1>2. PICK s : s = SubSeq(c, 1, n)
  OBVIOUS
<1>3. /\ s \in Seq(S) /\ Len(s) = IF 1 <= n THEN n - 1 + 1 ELSE 0
      /\ \A i \in 1..(n - 1 + 1) : s[i] = c[1 + i - 1]
  <2>1. \A i \in 1..n : c[i] \in S
    BY <1>1
  <2> QED
    BY <1>2, <2>1, SubSeqProperties
<1>4. Len(s) = n /\ DOMAIN s = 1..n /\ \A i \in 1..n : s[i] = c[i] /\ i \in DOMAIN c
  BY <1>1, <1>3, LenProperties
<1>5. \A x : Holds(s, x) => Holds(c, x)
  BY <1>4 DEF Holds
<1>6. OneEntryPerKey(c) => OneEntryPerKey(s)
  BY <1>4 DEF OneEntryPerKey
<1> QED
  BY <1>2, <1>3, <1>4, <1>5, <1>6

\* A read keeps every entry but one that is gone.
LEMMA AfterGetFacts ==
  ASSUME NEW S, NEW c \in Seq(S), OneEntryPerKey(c), NEW k, NEW now \in Nat
  PROVE  /\ AfterGet(c, k, now) \in Seq(S) /\ OneEntryPerKey(AfterGet(c, k, now))
         /\ \A e : Holds(AfterGet(c, k, now), e) <=> Holds(c, e) /\ (e.key = k => now < e.staleAt)
<1>1. PICK o : o = Others(c, k)
  OBVIOUS
<1>2. /\ o \in Seq(S) /\ OneEntryPerKey(o)
      /\ \A e : Holds(o, e) <=> Holds(c, e) /\ e.key # k
  BY <1>1, OthersFacts
<1>3. CASE Found(c, k, now)
  <2>1. PICK x : x = EntryOf(c, k)
    OBVIOUS
  <2>2. /\ Holds(c, x) /\ x.key = k /\ x \in S /\ now < x.staleAt
        /\ \A e : Holds(c, e) /\ e.key = k => e = x
    BY <1>3, <2>1, EntryFacts DEF Found
  <2>3. AfterGet(c, k, now) = <<x>> \o o
    BY <1>1, <1>3, <2>1 DEF AfterGet
  <2>4. /\ <<x>> \o o \in Seq(S)
        /\ \A e : Holds(<<x>> \o o, e) <=> e = x \/ Holds(o, e)
        /\ (\A e : Holds(o, e) => e.key # x.key) => OneEntryPerKey(<<x>> \o o)
    BY <1>2, <2>2, InFrontFacts
  <2>5. OneEntryPerKey(<<x>> \o o)
    BY <1>2, <2>2, <2>4
  <2>6. \A e : Holds(<<x>> \o o, e) <=> Holds(c, e) /\ (e.key = k => now < e.staleAt)
    BY <1>2, <2>2, <2>4
  <2> QED
    BY <2>3, <2>4, <2>5, <2>6
<1>4. CASE ~Found(c, k, now)
  <2>1. AfterGet(c, k, now) = o
    BY <1>1, <1>4 DEF AfterGet
  <2>2. \A e : Holds(c, e) /\ e.key = k => ~(now < e.staleAt)
    BY <1>4, EntryFacts DEF Found
  <2> QED
    BY <1>2, <2>1, <2>2
<1> QED
  BY <1>3, <1>4

\* A write puts its entry first, and takes or loses only others.
LEMMA AfterSetFacts ==
  ASSUME NEW S, NEW c \in Seq(S), OneEntryPerKey(c), NEW entry \in S, NEW max \in Nat \ {0}
  PROVE  /\ AfterSet(c, entry, max) \in Seq(S) /\ OneEntryPerKey(AfterSet(c, entry, max))
         /\ Holds(AfterSet(c, entry, max), entry)
         /\ \A e : Holds(AfterSet(c, entry, max), e) => e = entry \/ (Holds(c, e) /\ e.key # entry.key)
<1>1. PICK o : o = Others(c, entry.key)
  OBVIOUS
<1>2. /\ o \in Seq(S) /\ OneEntryPerKey(o)
      /\ \A e : Holds(o, e) <=> Holds(c, e) /\ e.key # entry.key
  BY <1>1, OthersFacts
<1>3. PICK w : w = <<entry>> \o o
  OBVIOUS
<1>4. /\ w \in Seq(S) /\ Len(w) = Len(o) + 1 /\ Len(o) \in Nat /\ w[1] = entry
      /\ \A e : Holds(w, e) <=> e = entry \/ Holds(o, e)
      /\ OneEntryPerKey(w)
  BY <1>2, <1>3, InFrontFacts
<1>5. PICK n : n = IF Len(w) > max THEN max ELSE Len(w)
  OBVIOUS
<1>6. n \in Nat /\ n <= Len(w) /\ 1 \in 1..n
  BY <1>4, <1>5
<1>7. AfterSet(c, entry, max) = SubSeq(w, 1, n)
  BY <1>1, <1>3, <1>5 DEF AfterSet
<1>8. /\ SubSeq(w, 1, n) \in Seq(S) /\ Len(SubSeq(w, 1, n)) = n
      /\ SubSeq(w, 1, n)[1] = entry
      /\ \A e : Holds(SubSeq(w, 1, n), e) => Holds(w, e)
      /\ OneEntryPerKey(SubSeq(w, 1, n))
  BY <1>4, <1>6, CutFacts
<1>9. Holds(SubSeq(w, 1, n), entry)
  <2>1. DOMAIN SubSeq(w, 1, n) = 1..n
    BY <1>8, LenProperties
  <2> QED
    BY <1>6, <1>8, <2>1 DEF Holds
<1>10. \A e : Holds(SubSeq(w, 1, n), e) => e = entry \/ (Holds(c, e) /\ e.key # entry.key)
  BY <1>2, <1>4, <1>8
<1> QED
  BY <1>7, <1>8, <1>9, <1>10

\* What is fresh, by the entries.
LEMMA FreshFacts ==
  ASSUME NEW S, NEW c \in Seq(S), OneEntryPerKey(c), NEW k, NEW now
  PROVE  Fresh(c, k, now) <=>
           \E e : Holds(c, e) /\ e.key = k /\ now < e.staleAt /\ ~(now >= e.expires)
<1>1. /\ k \in CachedKeys(c) <=> \E e : Holds(c, e) /\ e.key = k
      /\ \A e : Holds(c, e) /\ e.key = k => EntryOf(c, k) = e
      /\ k \in CachedKeys(c) => Holds(c, EntryOf(c, k)) /\ EntryOf(c, k).key = k
  BY EntryFacts
<1> QED
  BY <1>1 DEF Fresh, Found, Stale

-----------------------------------------------------------------------------
(* Queues with their pending keys.                                         *)

\* A key that is asked for is pending, and the queue displaces at most a key
\* that Displaced names.
LEMMA QueuedFacts ==
  ASSUME NEW K, NEW q \in [queue : Seq(K), pending : SUBSET K], NEW busy, QueueOK(q, busy),
         NEW k \in K, NEW size \in Nat \ {0}
  PROVE  /\ Queued(q, k, size) \in [queue : Seq(K), pending : SUBSET K]
         /\ QueueOK(Queued(q, k, size), busy)
         /\ k \in Queued(q, k, size).pending
         /\ \A o : o \in q.pending => o \in Queued(q, k, size).pending \/ o \in Displaced(q, k, size)
<1>1. CASE k \in q.pending
  <2>1. Queued(q, k, size) = q
    BY <1>1 DEF Queued
  <2> QED
    BY <1>1, <2>1
<1>2. CASE k \notin q.pending
  <2>1. PICK s : s = q.queue
    OBVIOUS
  <2>2. /\ s \in Seq(K) /\ Len(s) \in Nat /\ DOMAIN s = 1..Len(s)
        /\ \A i, j \in DOMAIN s : s[i] = s[j] => i = j
        /\ \A i \in DOMAIN s : s[i] \notin busy
        /\ \A o : o \in q.pending <=> o \in busy \/ \E i \in DOMAIN s : s[i] = o
    BY <2>1, LenProperties DEF QueueOK
  <2>3. PICK gone : gone = Displaced(q, k, size)
    OBVIOUS
  <2>4. PICK t : t = IF Len(s) = size THEN Tail(s) ELSE s
    OBVIOUS
  <2>5. /\ t \in Seq(K) /\ Len(t) \in Nat /\ DOMAIN t = 1..Len(t)
        /\ \A i, j \in DOMAIN t : t[i] = t[j] => i = j
        /\ \A i \in DOMAIN t : t[i] \notin busy /\ t[i] \notin gone
        /\ \A o : (\E i \in DOMAIN t : t[i] = o) <=> (\E i \in DOMAIN s : s[i] = o) /\ o \notin gone
        /\ gone \cap busy = {}
    <3>1. CASE Len(s) # size
      <4>1. gone = {} /\ t = s
        BY <2>1, <2>3, <2>4, <3>1 DEF Displaced
      <4> QED
        BY <2>2, <4>1
    <3>2. CASE Len(s) = size
      <4>1. gone = {s[1]} /\ t = Tail(s) /\ s # <<>> /\ 1 \in DOMAIN s
        <5>1. s # <<>> /\ 1 \in DOMAIN s
          BY <2>2, <3>2
        <5>2. Head(s) = s[1]
          BY <2>2, <5>1
        <5> QED
          BY <1>2, <2>1, <2>3, <2>4, <3>2, <5>1, <5>2 DEF Displaced
      <4>2. /\ t \in Seq(K) /\ Len(t) = Len(s) - 1
            /\ \A i \in 1..Len(t) : t[i] = s[i + 1]
        BY <2>2, <4>1, HeadTailProperties
      <4>3. DOMAIN t = 1..Len(t) /\ Len(t) \in Nat
        BY <4>2, LenProperties
      <4>4. \A i \in DOMAIN t : i + 1 \in DOMAIN s /\ i + 1 # 1 /\ t[i] = s[i + 1]
        BY <2>2, <4>2, <4>3
      <4>5. \A i \in DOMAIN t : t[i] \notin busy /\ t[i] \notin gone
        BY <2>2, <4>1, <4>4
      <4>6. \A i, j \in DOMAIN t : t[i] = t[j] => i = j
        <5>1. SUFFICES ASSUME NEW i \in DOMAIN t, NEW j \in DOMAIN t, t[i] = t[j] PROVE i = j
          OBVIOUS
        <5>2. i + 1 = j + 1
          BY <2>2, <4>4, <5>1
        <5> QED
          BY <4>3, <5>2
      <4>7. ASSUME NEW i \in DOMAIN s, s[i] \notin gone PROVE \E j \in DOMAIN t : t[j] = s[i]
        <5>1. i # 1
          BY <4>1, <4>7
        <5>2. i - 1 \in DOMAIN t /\ (i - 1) + 1 = i
          BY <2>2, <4>2, <4>3, <5>1
        <5> QED
          BY <4>4, <5>2
      <4>8. gone \cap busy = {}
        BY <2>2, <4>1
      <4> QED
        BY <4>2, <4>3, <4>4, <4>5, <4>6, <4>7, <4>8
    <3> QED
      BY <3>1, <3>2
  <2>6. PICK a : a = Append(t, k)
    OBVIOUS
  <2>7. /\ a \in Seq(K) /\ DOMAIN a = 1..(Len(t) + 1)
        /\ \A i \in DOMAIN t : i \in DOMAIN a /\ a[i] = t[i]
        /\ a[Len(t) + 1] = k /\ Len(t) + 1 \in DOMAIN a
        /\ \A i \in DOMAIN a : i # Len(t) + 1 => i \in DOMAIN t
    <3>1. /\ Append(t, k) \in Seq(K) /\ Len(Append(t, k)) = Len(t) + 1
          /\ \A i \in 1..Len(t) : Append(t, k)[i] = t[i]
          /\ Append(t, k)[Len(t) + 1] = k
      BY <2>5, AppendProperties
    <3>2. /\ a \in Seq(K) /\ Len(a) = Len(t) + 1
          /\ \A i \in 1..Len(t) : a[i] = t[i]
          /\ a[Len(t) + 1] = k
      BY <2>6, <3>1
    <3>3. DOMAIN a = 1..(Len(t) + 1)
      BY <3>2, LenProperties
    <3> QED
      BY <2>5, <3>2, <3>3
  <2>8. Queued(q, k, size) = [queue |-> a, pending |-> (q.pending \ gone) \cup {k}]
    BY <1>2, <2>1, <2>3, <2>4, <2>6 DEF Queued
  <2>9. PICK p : p = (q.pending \ gone) \cup {k}
    OBVIOUS
  <2>10. k \notin busy /\ \A i \in DOMAIN t : t[i] # k
    BY <1>2, <2>2, <2>5
  <2>11. \A i, j \in DOMAIN a : a[i] = a[j] => i = j
    BY <2>5, <2>7, <2>10
  <2>12. \A i \in DOMAIN a : a[i] \notin busy
    BY <2>5, <2>7, <2>10
  <2>13. \A o : o \in p <=> o \in busy \/ \E i \in DOMAIN a : a[i] = o
    <3>1. \A o : (\E i \in DOMAIN a : a[i] = o) <=> (\E i \in DOMAIN t : t[i] = o) \/ o = k
      BY <2>7
    <3>2. \A o : o \in p <=> (o \in q.pending /\ o \notin gone) \/ o = k
      BY <2>9
    <3>3. \A o : o \in busy => o \notin gone
      BY <2>5
    <3> QED
      BY <2>2, <2>5, <3>1, <3>2, <3>3
  <2>14. p \in SUBSET K
    BY <2>9
  <2>15. Queued(q, k, size).queue = a /\ Queued(q, k, size).pending = p
    BY <2>8, <2>9
  <2>16. QueueOK(Queued(q, k, size), busy)
    BY <2>11, <2>12, <2>13, <2>15 DEF QueueOK
  <2>17. Queued(q, k, size) \in [queue : Seq(K), pending : SUBSET K]
    BY <2>7, <2>8, <2>9, <2>14
  <2>18. k \in p /\ \A o : o \in q.pending => o \in p \/ o \in gone
    BY <2>9
  <2> QED
    BY <2>3, <2>15, <2>16, <2>17, <2>18
<1> QED
  BY <1>1, <1>2

\* A queue without its head.
LEMMA TailOnce ==
  ASSUME NEW K, NEW s \in Seq(K), s # <<>>, \A i, j \in DOMAIN s : s[i] = s[j] => i = j
  PROVE  /\ Tail(s) \in Seq(K) /\ Head(s) \in K
         /\ \A i, j \in DOMAIN Tail(s) : Tail(s)[i] = Tail(s)[j] => i = j
         /\ \A o : (\E i \in DOMAIN Tail(s) : Tail(s)[i] = o) <=> o # Head(s) /\ \E i \in DOMAIN s : s[i] = o
         /\ \E i \in DOMAIN s : s[i] = Head(s)
<1>1. PICK t : t = Tail(s)
  OBVIOUS
<1>2. Len(s) \in Nat /\ DOMAIN s = 1..Len(s) /\ 1 \in DOMAIN s /\ Head(s) = s[1] /\ Head(s) \in K
  BY LenProperties
<1>3. t \in Seq(K) /\ Len(t) = Len(s) - 1 /\ \A i \in 1..Len(t) : t[i] = s[i + 1]
  BY <1>1, HeadTailProperties
<1>4. DOMAIN t = 1..Len(t) /\ Len(t) \in Nat
  BY <1>3, LenProperties
<1>5. \A i \in DOMAIN t : i + 1 \in DOMAIN s /\ i + 1 # 1 /\ t[i] = s[i + 1]
  BY <1>2, <1>3, <1>4
<1>6. \A i, j \in DOMAIN t : t[i] = t[j] => i = j
  <2>1. SUFFICES ASSUME NEW i \in DOMAIN t, NEW j \in DOMAIN t, t[i] = t[j] PROVE i = j
    OBVIOUS
  <2>2. i + 1 = j + 1
    BY <1>5, <2>1
  <2> QED
    BY <1>4, <2>2
<1>7. ASSUME NEW i \in DOMAIN s, s[i] # Head(s) PROVE \E j \in DOMAIN t : t[j] = s[i]
  <2>1. i - 1 \in DOMAIN t /\ (i - 1) + 1 = i
    BY <1>2, <1>3, <1>4, <1>7
  <2> QED
    BY <1>5, <2>1
<1>8. \A i \in DOMAIN t : t[i] # Head(s)
  BY <1>2, <1>5
<1>9. \A o : (\E i \in DOMAIN t : t[i] = o) <=> o # Head(s) /\ \E i \in DOMAIN s : s[i] = o
  BY <1>5, <1>7, <1>8
<1> QED
  BY <1>1, <1>2, <1>3, <1>6, <1>9

LEMMA QueueRecord ==
  ASSUME NEW K, NEW s \in Seq(K), NEW p \in SUBSET K, NEW r, r = [queue |-> s, pending |-> p]
  PROVE  r \in [queue : Seq(K), pending : SUBSET K] /\ r.queue = s /\ r.pending = p
  OBVIOUS

LEMMA TakenFacts ==
  ASSUME NEW K, NEW s \in Seq(K), NEW p, NEW busy, QueueOK([queue |-> s, pending |-> p], busy), s # <<>>
  PROVE  /\ QueueOK([queue |-> Tail(s), pending |-> p], busy \cup {Head(s)})
         /\ Tail(s) \in Seq(K) /\ Head(s) \in K /\ Head(s) \notin busy
<1>1. PICK q : q = [queue |-> s, pending |-> p]
  OBVIOUS
<1>2. s = q.queue /\ p = q.pending
  BY <1>1
<1>3. QueueOK(q, busy)
  BY <1>1
<1>4. /\ \A i, j \in DOMAIN s : s[i] = s[j] => i = j
      /\ \A i \in DOMAIN s : s[i] \notin busy
      /\ \A o : o \in p <=> o \in busy \/ \E i \in DOMAIN s : s[i] = o
  BY <1>2, <1>3 DEF QueueOK
<1>5. PICK t, h : t = Tail(s) /\ h = Head(s)
  OBVIOUS
<1>6. /\ t \in Seq(K) /\ h \in K
      /\ \A i, j \in DOMAIN t : t[i] = t[j] => i = j
      /\ \A o : (\E i \in DOMAIN t : t[i] = o) <=> o # h /\ \E i \in DOMAIN s : s[i] = o
      /\ \E i \in DOMAIN s : s[i] = h
  <2>1. \A i, j \in DOMAIN s : s[i] = s[j] => i = j
    BY <1>4
  <2>2. /\ Tail(s) \in Seq(K) /\ Head(s) \in K
        /\ \A i, j \in DOMAIN Tail(s) : Tail(s)[i] = Tail(s)[j] => i = j
        /\ \A o : (\E i \in DOMAIN Tail(s) : Tail(s)[i] = o) <=> o # Head(s) /\ \E i \in DOMAIN s : s[i] = o
        /\ \E i \in DOMAIN s : s[i] = Head(s)
    BY <2>1, TailOnce
  <2> QED
    BY <1>5, <2>2, Zenon
<1>7. PICK r : r = [queue |-> t, pending |-> p]
  OBVIOUS
<1>8. r.queue = t /\ r.pending = p
  BY <1>7
<1>9. h \notin busy
  BY <1>4, <1>6
<1>10. \A i \in DOMAIN t : t[i] \notin busy \cup {h}
  BY <1>4, <1>6
<1>11. \A o : o \in p <=> o \in busy \cup {h} \/ \E i \in DOMAIN t : t[i] = o
  BY <1>4, <1>6
<1>12. QueueOK(r, busy \cup {h})
  BY <1>6, <1>8, <1>10, <1>11 DEF QueueOK
<1> QED
  BY <1>5, <1>6, <1>7, <1>9, <1>12

LEMMA ClearedFacts ==
  ASSUME NEW K, NEW q, q \in [queue : Seq(K), pending : SUBSET K], NEW busy, QueueOK(q, busy),
         NEW done, done \subseteq busy, NEW r, r = [q EXCEPT !.pending = @ \ done]
  PROVE  /\ r \in [queue : Seq(K), pending : SUBSET K]
         /\ r.pending = q.pending \ done
         /\ QueueOK(r, busy \ done)
<1>1. PICK s, p : q = [queue |-> s, pending |-> p] /\ s \in Seq(K) /\ p \in SUBSET K
  OBVIOUS
<1>2. s = q.queue /\ p = q.pending
  BY <1>1
<1>3. /\ \A i, j \in DOMAIN s : s[i] = s[j] => i = j
      /\ \A i \in DOMAIN s : s[i] \notin busy
      /\ \A o : o \in p <=> o \in busy \/ \E i \in DOMAIN s : s[i] = o
  BY <1>2 DEF QueueOK
<1>4. PICK o : o = p \ done
  OBVIOUS
<1>5. r = [queue |-> s, pending |-> o] /\ o \in SUBSET K
  BY <1>1, <1>4
<1>6. r \in [queue : Seq(K), pending : SUBSET K] /\ r.queue = s /\ r.pending = o
  BY <1>1, <1>5, QueueRecord
<1>7. \A i \in DOMAIN s : s[i] \notin busy \ done
  BY <1>3
<1>8. \A k : k \in o <=> k \in busy \ done \/ \E i \in DOMAIN s : s[i] = k
  BY <1>3, <1>4
<1>9. QueueOK(r, busy \ done)
  BY <1>3, <1>6, <1>7, <1>8 DEF QueueOK
<1> QED
  BY <1>2, <1>4, <1>6, <1>9

\* What the run checks of a queue.
LEMMA QueueCounts ==
  ASSUME NEW K, NEW q \in [queue : Seq(K), pending : SUBSET K], NEW busy, IsFiniteSet(busy),
         QueueOK(q, busy)
  PROVE  OnlyThese(q, busy)
<1>1. PICK s : s = q.queue
  OBVIOUS
<1>2. s \in Seq(K) /\ Len(s) \in Nat /\ DOMAIN s = 1..Len(s)
  BY <1>1, LenProperties
<1>3. /\ \A i, j \in DOMAIN s : s[i] = s[j] => i = j
      /\ \A i \in DOMAIN s : s[i] \notin busy
  BY <1>1 DEF QueueOK
<1>4. PICK T : T = ToSet(s)
  OBVIOUS
<1>5. T = {s[i] : i \in DOMAIN s}
  BY <1>4 DEF ToSet
<1>6. q.pending = T \cup busy
  BY <1>1, <1>5 DEF QueueOK
<1>7. IsFiniteSet(T) /\ Cardinality(T) = Len(s)
  <2>1. IsFiniteSet(1..Len(s)) /\ Cardinality(1..Len(s)) = Len(s)
    <3>1. /\ IsFiniteSet(1..Len(s))
          /\ Cardinality(1..Len(s)) = IF 1 > Len(s) THEN 0 ELSE Len(s) - 1 + 1
      <4>1. Len(s) \in Int
        BY <1>2
      <4> QED
        BY <4>1, FS_Interval
    <3> QED
      BY <1>2, <3>1
  <2>2. s \in Bijection(1..Len(s), T)
    BY <1>2, <1>3, <1>5 DEF Bijection, Injection, Surjection, IsInjective
  <2>3. ExistsBijection(1..Len(s), T)
    BY <2>2 DEF ExistsBijection
  <2> QED
    BY <2>1, <2>3, FS_Bijection
<1>8. Cardinality(T \cup busy) = Len(s) + Cardinality(busy)
  <2>1. T \cap busy = {}
    BY <1>3, <1>5
  <2>2. Cardinality(T \cup busy) = Cardinality(T) + Cardinality(busy) - Cardinality(T \cap busy)
    BY <1>7, FS_Union
  <2>3. Cardinality(T \cap busy) = 0
    BY <2>1, FS_EmptySet
  <2>4. Cardinality(busy) \in Nat
    BY FS_CardinalityType
  <2> QED
    BY <1>2, <1>7, <2>2, <2>3, <2>4
<1> QED
  BY <1>1, <1>4, <1>6, <1>8 DEF OnlyThese

-----------------------------------------------------------------------------
(* The circuit.                                                            *)

LEMMA AllowFacts ==
  ASSUME NEW c \in Circuits
  PROVE  AfterAllow(c) \in Circuits /\ (AfterAllow(c).probing <=> c.openUntil # 0)
<1>1. PICK f \in Nat, u \in Nat, b \in BOOLEAN : c = [failures |-> f, openUntil |-> u, probing |-> b]
  BY DEF Circuits
<1>2. PICK d : d = (u # 0)
  OBVIOUS
<1>3. AfterAllow(c) = [failures |-> f, openUntil |-> u, probing |-> d] /\ d \in BOOLEAN
  BY <1>1, <1>2 DEF AfterAllow
<1>4. AfterAllow(c) \in Circuits
  BY <1>1, <1>3 DEF Circuits
<1>5. AfterAllow(c).probing = d /\ c.openUntil = u
  BY <1>1, <1>3
<1> QED
  BY <1>2, <1>4, <1>5

LEMMA FailureFacts ==
  ASSUME NEW c \in Circuits, NEW now \in Nat, NEW threshold \in Nat, NEW openFor \in Nat
  PROVE  AfterFailure(c, now, threshold, openFor) \in Circuits /\ ~AfterFailure(c, now, threshold, openFor).probing
<1>1. c.failures \in Nat /\ c.openUntil \in Nat
  BY DEF Circuits
<1>2. PICK n : n = IF c.failures < threshold THEN c.failures + 1 ELSE threshold
  OBVIOUS
<1>3. PICK u : u = IF n >= threshold THEN now + openFor ELSE c.openUntil
  OBVIOUS
<1>4. AfterFailure(c, now, threshold, openFor) = [failures |-> n, probing |-> FALSE, openUntil |-> u]
  BY <1>2, <1>3 DEF AfterFailure
<1>5. n \in Nat /\ u \in Nat
  BY <1>1, <1>2, <1>3
<1>6. PICK r : r = [failures |-> n, probing |-> FALSE, openUntil |-> u]
  OBVIOUS
<1>7. r \in Circuits /\ r.probing = FALSE
  BY <1>5, <1>6 DEF Circuits
<1> QED
  BY <1>4, <1>6, <1>7

LEMMA ClosedFacts == Closed \in Circuits /\ ~Closed.probing
<1>1. PICK r : r = [failures |-> 0, openUntil |-> 0, probing |-> FALSE]
  OBVIOUS
<1>2. r \in Circuits /\ r.probing = FALSE
  BY <1>1 DEF Circuits
<1> QED
  BY <1>1, <1>2 DEF Closed

\* Numbers have a least one, and a greatest one if they are bounded.
LEMMA Least ==
  ASSUME NEW T, T \subseteq Nat, T # {}
  PROVE  \E x \in T : \A y \in T : x <= y
<1> DEFINE R == OpToRel(<, Nat)
<1>1. IsWellFoundedOn(R, Nat)
  BY NatLessThanWellFounded
<1>2. R = {ss \in Nat \X Nat : ss[1] < ss[2]}
  BY DEF OpToRel
<1> HIDE DEF R
<1>3. PICK x \in T : \A y \in T : ~(<<y, x>> \in R)
  BY <1>1, WFMin
<1>4. \A y \in T : ~(y < x)
  BY <1>2, <1>3
<1> QED
  BY <1>4

LEMMA Greatest ==
  ASSUME NEW n \in Nat, NEW T, T \subseteq 1..n, T # {}
  PROVE  \E x \in T : \A y \in T : y <= x
<1>1. PICK S : S = {n - y : y \in T}
  OBVIOUS
<1>2. \A y \in T : n - y \in Nat /\ y \in Int
  OBVIOUS
<1>3. S \subseteq Nat
  BY <1>1, <1>2
<1>4. S # {}
  BY <1>1
<1>5. PICK x \in S : \A y \in S : x <= y
  BY <1>3, <1>4, Least
<1>6. PICK g \in T : x = n - g
  BY <1>1
<1>7. ASSUME NEW y \in T PROVE y <= g
  <2>1. n - g <= n - y
    BY <1>1, <1>5, <1>6
  <2> QED
    BY <1>2, <2>1
<1> QED
  BY <1>7

-----------------------------------------------------------------------------
(* The aircraft service.                                                   *)

Services == [cache : Seq(AircraftEntries), tracker : Seq(Tracks),
             admitted : [queue : Seq(AircraftKeys), pending : SUBSET AircraftKeys]]

\* The service between the steps of an observation: only the keys of but are
\* not yet accounted for.
Sound(s, but) ==
  /\ s \in Services
  /\ OneEntryPerKey(s.cache) /\ \A e : Holds(s.cache, e) => Holds(cache, e)
  /\ QueueOK(s.admitted, WorkedOn)
  /\ \A i \in DOMAIN s.tracker :
       KeyOf(s.tracker[i]) \in but \/ Accounted(s.tracker[i], s.admitted.pending)

LEMMA SettledFacts ==
  ASSUME NEW t \in Seq(Tracks), NEW keys
  PROVE  /\ Settled(t, keys) \in Seq(Tracks) /\ DOMAIN Settled(t, keys) = DOMAIN t
         /\ \A i \in DOMAIN t : /\ KeyOf(Settled(t, keys)[i]) = KeyOf(t[i])
                                /\ t[i].settled => Settled(t, keys)[i].settled
                                /\ KeyOf(t[i]) \in keys => Settled(t, keys)[i].settled
<1>1. PICK u : u = Settled(t, keys)
  OBVIOUS
<1>2. Len(t) \in Nat /\ DOMAIN t = 1..Len(t) /\ \A i \in 1..Len(t) : t[i] \in Tracks
  BY LenProperties
<1>3. /\ DOMAIN u = DOMAIN t
      /\ u = [i \in 1..Len(t) |-> IF KeyOf(t[i]) \in keys THEN [t[i] EXCEPT !.settled = TRUE] ELSE t[i]]
  BY <1>1, <1>2 DEF Settled, KeyOf
<1>4. ASSUME NEW i \in DOMAIN t
      PROVE  /\ u[i] \in Tracks /\ KeyOf(u[i]) = KeyOf(t[i])
             /\ t[i].settled => u[i].settled
             /\ KeyOf(t[i]) \in keys => u[i].settled
  <2>1. u[i] = IF KeyOf(t[i]) \in keys THEN [t[i] EXCEPT !.settled = TRUE] ELSE t[i]
    BY <1>2, <1>3
  <2>2. PICK e : e = t[i]
    OBVIOUS
  <2>3. e \in Tracks
    BY <1>2, <2>2
  <2>4. CASE KeyOf(e) \in keys
    <3>1. u[i] = [e EXCEPT !.settled = TRUE]
      BY <2>1, <2>2, <2>4
    <3>2. u[i] \in Tracks /\ u[i].settled /\ u[i].icao = e.icao /\ u[i].callsign = e.callsign
      BY <2>3, <3>1 DEF Tracks
    <3> QED
      BY <2>2, <3>2 DEF KeyOf
  <2>5. CASE KeyOf(e) \notin keys
    BY <2>1, <2>2, <2>3, <2>5
  <2> QED
    BY <2>4, <2>5
<1>5. u \in Seq(Tracks)
  <2>1. u \in [1..Len(t) -> Tracks]
    BY <1>2, <1>3, <1>4
  <2> QED
    BY <1>2, <2>1, SeqDef
<1> QED
  BY <1>1, <1>3, <1>4, <1>5

\* An admission: the key is pending, or its loss is counted.
LEMMA EnqueuedOK ==
  ASSUME AircraftAssumption, AircraftTypeOK, NEW k \in AircraftKeys, NEW s, Sound(s, {k})
  PROVE  Sound(Enqueued(s, k), {})
<1>1. PICK c, a, t : s = [cache |-> c, admitted |-> a, tracker |-> t]
  BY DEF Sound, Services
<1>2. s.cache = c /\ s.admitted = a /\ s.tracker = t
  BY <1>1
<1>3. /\ c \in Seq(AircraftEntries) /\ t \in Seq(Tracks)
      /\ a \in [queue : Seq(AircraftKeys), pending : SUBSET AircraftKeys]
      /\ OneEntryPerKey(c) /\ \A e : Holds(c, e) => Holds(cache, e)
      /\ QueueOK(a, WorkedOn)
      /\ \A i \in DOMAIN t : KeyOf(t[i]) \in {k} \/ Accounted(t[i], a.pending)
  BY <1>2 DEF Sound, Services
<1>4. clock \in Nat /\ QueueSize \in Nat \ {0}
  BY DEF AircraftTypeOK, AircraftAssumption
<1>5. PICK fresh : fresh = Fresh(c, k, clock)
  OBVIOUS
<1>6. PICK over : over = {proc[w].key : w \in {v \in Workers : proc[v].phase = "done"}}
  OBVIOUS
<1>7. PICK d : d = AfterGet(c, k, clock)
  OBVIOUS
<1>8. d \in Seq(AircraftEntries) /\ OneEntryPerKey(d) /\ \A e : Holds(d, e) => Holds(cache, e)
  <2>1. /\ AfterGet(c, k, clock) \in Seq(AircraftEntries) /\ OneEntryPerKey(AfterGet(c, k, clock))
        /\ \A e : Holds(AfterGet(c, k, clock), e) <=> Holds(c, e) /\ (e.key = k => clock < e.staleAt)
    BY <1>3, <1>4, AfterGetFacts
  <2> QED
    BY <1>3, <1>7, <2>1, Zenon
<1>9. PICK b : b = IF Fresh(c, k, clock) THEN a ELSE Queued(a, k, QueueSize)
  OBVIOUS
<1>10. PICK keys : keys = IF Fresh(c, k, clock) THEN {k} ELSE Displaced(a, k, QueueSize) \cup (over \cap {k})
  OBVIOUS
<1>11. PICK u : u = Settled(t, keys)
  OBVIOUS
<1>12. Enqueued(s, k) = [cache |-> d, admitted |-> b, tracker |-> u]
  BY <1>2, <1>6, <1>7, <1>9, <1>10, <1>11 DEF Enqueued
<1>13. /\ Queued(a, k, QueueSize) \in [queue : Seq(AircraftKeys), pending : SUBSET AircraftKeys]
       /\ QueueOK(Queued(a, k, QueueSize), WorkedOn)
       /\ k \in Queued(a, k, QueueSize).pending
       /\ \A o : o \in a.pending => o \in Queued(a, k, QueueSize).pending \/ o \in Displaced(a, k, QueueSize)
  BY <1>3, <1>4, QueuedFacts
<1>14. /\ b \in [queue : Seq(AircraftKeys), pending : SUBSET AircraftKeys]
       /\ QueueOK(b, WorkedOn)
  BY <1>3, <1>9, <1>13, Zenon
<1>15. \A o : o \in a.pending => o \in b.pending \/ o \in keys
  BY <1>9, <1>10, <1>13
<1>16. k \in b.pending \/ k \in keys
  BY <1>9, <1>10, <1>13
<1>17. \A w \in Workers : proc[w].phase = "done" /\ proc[w].key = k => k \in keys
  BY <1>6, <1>10
<1>18. /\ u \in Seq(Tracks) /\ DOMAIN u = DOMAIN t
       /\ \A i \in DOMAIN t : /\ KeyOf(u[i]) = KeyOf(t[i])
                              /\ t[i].settled => u[i].settled
                              /\ KeyOf(t[i]) \in keys => u[i].settled
  BY <1>3, <1>11, SettledFacts
<1>19. ASSUME NEW i \in DOMAIN u PROVE Accounted(u[i], b.pending)
  <2>1. KeyOf(u[i]) = KeyOf(t[i]) /\ (t[i].settled => u[i].settled) /\ (KeyOf(t[i]) \in keys => u[i].settled)
    BY <1>18
  <2>2. CASE KeyOf(t[i]) = k
    BY <1>16, <1>17, <2>1, <2>2 DEF Accounted
  <2>3. CASE KeyOf(t[i]) # k
    BY <1>3, <1>15, <1>18, <2>1, <2>3 DEF Accounted
  <2> QED
    BY <2>2, <2>3
<1>20. PICK r : r = [cache |-> d, admitted |-> b, tracker |-> u]
  OBVIOUS
<1>21. r \in Services
  BY <1>8, <1>14, <1>18, <1>20 DEF Services
<1>22. r.cache = d /\ r.admitted = b /\ r.tracker = u
  BY <1>20
<1>23. Sound(r, {})
  BY <1>8, <1>14, <1>19, <1>21, <1>22 DEF Sound
<1> QED
  BY <1>12, <1>20, <1>23

\* The tracker remembers an aircraft once, in front.
LEMMA MovedToFront ==
  ASSUME NEW S, NEW t \in Seq(S), NEW a, NEW at, NEW settled,
         [icao |-> a.icao, callsign |-> a.callsign, seenAt |-> at, settled |-> settled] \in S
  PROVE  /\ InFront(t, a, at, settled) \in Seq(S)
         /\ \A j \in DOMAIN InFront(t, a, at, settled) :
              \/ InFront(t, a, at, settled)[j]
                   = [icao |-> a.icao, callsign |-> a.callsign, seenAt |-> at, settled |-> settled]
              \/ Holds(t, InFront(t, a, at, settled)[j])
<1>1. PICK e : e = [icao |-> a.icao, callsign |-> a.callsign, seenAt |-> at, settled |-> settled]
  OBVIOUS
<1>2. PICK known : known = {i \in DOMAIN t : t[i].icao = a.icao}
  OBVIOUS
<1>3. PICK r : r = IF known = {} THEN t ELSE RemoveAt(t, CHOOSE i \in known : TRUE)
  OBVIOUS
<1>4. InFront(t, a, at, settled) = <<e>> \o r
  BY <1>1, <1>2, <1>3 DEF InFront
<1>5. r \in Seq(S) /\ \A x : Holds(r, x) => Holds(t, x)
  <2>1. CASE known = {}
    BY <1>3, <2>1
  <2>2. CASE known # {}
    <3>1. PICK i : i = CHOOSE j \in known : TRUE
      OBVIOUS
    <3>2. i \in DOMAIN t
      BY <1>2, <2>2, <3>1
    <3>3. r = RemoveAt(t, i)
      BY <1>3, <2>2, <3>1
    <3>4. RemoveAt(t, i) \in Seq(S)
      BY <3>2, RemoveAtFacts
    <3>5. \A j \in DOMAIN RemoveAt(t, i) : \E o \in DOMAIN t : o # i /\ RemoveAt(t, i)[j] = t[o]
      BY <3>2, RemovedFacts
    <3> QED
      BY <3>3, <3>4, <3>5 DEF Holds
  <2> QED
    BY <2>1, <2>2
<1>6. <<e>> \o r \in Seq(S) /\ \A x : Holds(<<e>> \o r, x) <=> x = e \/ Holds(r, x)
  BY <1>1, <1>5, InFrontFacts
<1>7. ASSUME NEW j \in DOMAIN (<<e>> \o r)
      PROVE  (<<e>> \o r)[j] = e \/ Holds(t, (<<e>> \o r)[j])
  <2>1. Holds(<<e>> \o r, (<<e>> \o r)[j])
    BY DEF Holds
  <2> QED
    BY <1>5, <1>6, <2>1
<1> QED
  BY <1>1, <1>4, <1>6, <1>7

\* The aircraft of a shown.
LEMMA SeenFacts ==
  ASSUME AircraftAssumption, NEW a \in Seen, NEW at \in Nat, NEW settled \in BOOLEAN
  PROVE  /\ KeyOf(a) \in AircraftKeys
         /\ [icao |-> a.icao, callsign |-> a.callsign, seenAt |-> at, settled |-> settled] \in Tracks
<1>1. PICK shown \in Snapshots : a \in ToSet(shown)
  BY DEF Seen
<1>2. PICK i \in DOMAIN shown : a = shown[i]
  BY <1>1 DEF ToSet
<1>3. <<a.icao, a.callsign>> \in AircraftKeys
  BY <1>2 DEF AircraftAssumption
<1>4. a.icao \in {k[1] : k \in AircraftKeys} /\ a.callsign \in {k[2] : k \in AircraftKeys}
  BY <1>3
<1> QED
  BY <1>3, <1>4 DEF KeyOf, Tracks

\* The service with an aircraft moved to the front of the tracker.
LEMMA FrontOK ==
  ASSUME AircraftAssumption, NEW s, Sound(s, {}), NEW a \in Seen, NEW at \in Nat, NEW settled \in BOOLEAN,
         NEW but, KeyOf(a) \in but \/ Accounted([icao |-> a.icao, callsign |-> a.callsign, seenAt |-> at, settled |-> settled], s.admitted.pending)
  PROVE  Sound([s EXCEPT !.tracker = InFront(@, a, at, settled)], but)
<1>1. PICK c, q, t : s = [cache |-> c, admitted |-> q, tracker |-> t]
  BY DEF Sound, Services
<1>2. s.cache = c /\ s.admitted = q /\ s.tracker = t
  BY <1>1
<1>3. /\ c \in Seq(AircraftEntries) /\ t \in Seq(Tracks)
      /\ q \in [queue : Seq(AircraftKeys), pending : SUBSET AircraftKeys]
      /\ OneEntryPerKey(c) /\ \A e : Holds(c, e) => Holds(cache, e)
      /\ QueueOK(q, WorkedOn)
      /\ \A i \in DOMAIN t : Accounted(t[i], q.pending)
  BY <1>2 DEF Sound, Services
<1>4. PICK e : e = [icao |-> a.icao, callsign |-> a.callsign, seenAt |-> at, settled |-> settled]
  OBVIOUS
<1>5. e \in Tracks
  BY <1>4, SeenFacts
<1>6. KeyOf(e) = KeyOf(a)
  BY <1>4 DEF KeyOf
<1>7. KeyOf(e) \in but \/ Accounted(e, q.pending)
  BY <1>2, <1>4, <1>6
<1>8. PICK u : u = InFront(t, a, at, settled)
  OBVIOUS
<1>9. u \in Seq(Tracks) /\ \A j \in DOMAIN u : u[j] = e \/ Holds(t, u[j])
  <2>1. [icao |-> a.icao, callsign |-> a.callsign, seenAt |-> at, settled |-> settled] \in Tracks
    BY <1>4, <1>5
  <2>2. /\ InFront(t, a, at, settled) \in Seq(Tracks)
        /\ \A j \in DOMAIN InFront(t, a, at, settled) :
             \/ InFront(t, a, at, settled)[j]
                  = [icao |-> a.icao, callsign |-> a.callsign, seenAt |-> at, settled |-> settled]
             \/ Holds(t, InFront(t, a, at, settled)[j])
    BY <1>3, <2>1, MovedToFront
  <2> QED
    BY <1>4, <1>8, <2>2, Zenon
<1>10. \A j \in DOMAIN u : KeyOf(u[j]) \in but \/ Accounted(u[j], q.pending)
  BY <1>3, <1>7, <1>9 DEF Holds
<1>11. PICK r : r = [cache |-> c, admitted |-> q, tracker |-> u]
  OBVIOUS
<1>12. [s EXCEPT !.tracker = InFront(@, a, at, settled)] = r
  BY <1>1, <1>8, <1>11
<1>13. r.cache = c /\ r.admitted = q /\ r.tracker = u
  BY <1>11
<1>14. r \in Services
  BY <1>3, <1>9, <1>11 DEF Services
<1>15. Sound(r, but)
  BY <1>3, <1>10, <1>13, <1>14 DEF Sound
<1> QED
  BY <1>12, <1>15

\* An aircraft of a shown is known with its callsign, or is admitted.
LEMMA TrackedOK ==
  ASSUME AircraftAssumption, AircraftTypeOK, NEW s, Sound(s, {}), NEW a \in Seen, NEW at \in Nat
  PROVE  Sound(Tracked(s, a, at), {})
<1>1. PICK same : same = {i \in DOMAIN s.tracker : /\ s.tracker[i].icao = a.icao
                                                   /\ s.tracker[i].callsign = a.callsign}
  OBVIOUS
<1>2. KeyOf(a) \in AircraftKeys
  BY SeenFacts
<1>3. CASE same # {}
  <2>1. PICK settled : settled = \E i \in same : s.tracker[i].settled
    OBVIOUS
  <2>2. settled \in BOOLEAN
    BY <2>1
  <2>3. Tracked(s, a, at) = [s EXCEPT !.tracker = InFront(@, a, at, settled)]
    BY <1>1, <1>3, <2>1 DEF Tracked
  <2>4. PICK e : e = [icao |-> a.icao, callsign |-> a.callsign, seenAt |-> at, settled |-> settled]
    OBVIOUS
  <2>5. \A i \in same : KeyOf(s.tracker[i]) = KeyOf(e) /\ (s.tracker[i].settled => e.settled)
                        /\ Accounted(s.tracker[i], s.admitted.pending)
    <3>1. e.icao = a.icao /\ e.callsign = a.callsign /\ e.settled = settled
      BY <2>4
    <3>2. \A i \in same : s.tracker[i].icao = a.icao /\ s.tracker[i].callsign = a.callsign
      BY <1>1
    <3>3. \A i \in same : Accounted(s.tracker[i], s.admitted.pending)
      BY <1>1 DEF Sound
    <3>4. \A i \in same : s.tracker[i].settled => e.settled
      BY <2>1, <3>1
    <3> QED
      BY <3>1, <3>2, <3>3, <3>4 DEF KeyOf
  <2>6. Accounted(e, s.admitted.pending)
    BY <1>3, <2>5 DEF Accounted
  <2>7. Sound([s EXCEPT !.tracker = InFront(@, a, at, settled)], {})
    BY <2>2, <2>4, <2>6, FrontOK
  <2> QED
    BY <2>3, <2>7
<1>4. CASE same = {}
  <2>1. PICK r : r = [s EXCEPT !.tracker = InFront(@, a, at, FALSE)]
    OBVIOUS
  <2>2. Sound(r, {KeyOf(a)})
    <3>1. KeyOf(a) \in {KeyOf(a)} /\ FALSE \in BOOLEAN
      OBVIOUS
    <3>2. Sound([s EXCEPT !.tracker = InFront(@, a, at, FALSE)], {KeyOf(a)})
      BY <3>1, FrontOK
    <3> QED
      BY <2>1, <3>2
  <2>3. Sound(Enqueued(r, KeyOf(a)), {})
    BY <1>2, <2>2, EnqueuedOK
  <2>4. Tracked(s, a, at) = Enqueued(r, KeyOf(a))
    BY <1>1, <1>4, <2>1 DEF Tracked, KeyOf
  <2> QED
    BY <2>3, <2>4
<1> QED
  BY <1>3, <1>4

\* Entries leave the tracker from the back.
LEMMA KeptOK ==
  ASSUME NEW s, Sound(s, {}), NEW at
  PROVE  Sound([s EXCEPT !.tracker = Kept(@, at)], {})
<1>1. PICK c, q, t : s = [cache |-> c, admitted |-> q, tracker |-> t]
  BY DEF Sound, Services
<1>2. s.cache = c /\ s.admitted = q /\ s.tracker = t
  BY <1>1
<1>3. /\ c \in Seq(AircraftEntries) /\ t \in Seq(Tracks)
      /\ q \in [queue : Seq(AircraftKeys), pending : SUBSET AircraftKeys]
      /\ OneEntryPerKey(c) /\ \A e : Holds(c, e) => Holds(cache, e)
      /\ QueueOK(q, WorkedOn)
      /\ \A i \in DOMAIN t : Accounted(t[i], q.pending)
  BY <1>2 DEF Sound, Services
<1>4. PICK staying : staying = {i \in DOMAIN t : i <= DiscoveryEntries /\ t[i].seenAt >= at - DiscoveryTTL}
  OBVIOUS
<1>5. PICK n : n = IF staying = {} THEN 0 ELSE CHOOSE i \in staying : \A o \in staying : o <= i
  OBVIOUS
<1>6. n \in Nat /\ n <= Len(t) /\ Len(t) \in Nat /\ DOMAIN t = 1..Len(t)
  <2>1. Len(t) \in Nat /\ DOMAIN t = 1..Len(t)
    BY <1>3, LenProperties
  <2>2. staying \subseteq 1..Len(t)
    BY <1>4, <2>1
  <2>3. CASE staying = {}
    BY <1>5, <2>1, <2>3
  <2>4. CASE staying # {}
    <3>1. \E i \in staying : \A o \in staying : o <= i
      BY <2>1, <2>2, <2>4, Greatest
    <3>2. n \in staying
      BY <1>5, <2>4, <3>1
    <3> QED
      BY <2>1, <2>2, <3>2
  <2> QED
    BY <2>3, <2>4
<1>7. PICK u : u = SubSeq(t, 1, n)
  OBVIOUS
<1>8. Kept(t, at) = u
  BY <1>4, <1>5, <1>7 DEF Kept
<1>9. u \in Seq(Tracks) /\ \A x : Holds(u, x) => Holds(t, x)
  BY <1>3, <1>6, <1>7, CutFacts
<1>10. \A i \in DOMAIN u : Accounted(u[i], q.pending)
  BY <1>3, <1>9 DEF Holds
<1>11. PICK r : r = [cache |-> c, admitted |-> q, tracker |-> u]
  OBVIOUS
<1>12. [s EXCEPT !.tracker = Kept(@, at)] = r
  BY <1>1, <1>8, <1>11
<1>13. r.cache = c /\ r.admitted = q /\ r.tracker = u
  BY <1>11
<1>14. r \in Services
  BY <1>3, <1>9, <1>11 DEF Services
<1>15. Sound(r, {})
  BY <1>3, <1>10, <1>13, <1>14 DEF Sound
<1> QED
  BY <1>12, <1>15

LEMMA ServiceOK ==
  ASSUME AircraftIInv
  PROVE  Sound(Service, {})
<1>1. PICK s : s = [cache |-> cache, admitted |-> admitted, tracker |-> tracker]
  OBVIOUS
<1>2. s.cache = cache /\ s.admitted = admitted /\ s.tracker = tracker
  BY <1>1
<1>3. s \in Services
  BY <1>1 DEF AircraftIInv, AircraftTypeOK, Services
<1> QED
  BY <1>1, <1>2, <1>3 DEF Service, Sound, AircraftIInv, AircraftTypeOK, WorkOK, TrackerOK

\* What was not fresh is not fresh later, or with fewer entries.
LEMMA NotFreshKept ==
  ASSUME NEW c \in Seq(AircraftEntries), OneEntryPerKey(c), NEW d \in Seq(AircraftEntries), OneEntryPerKey(d),
         NEW k, \A e : Holds(d, e) /\ e.key = k => Holds(c, e),
         NEW now \in Nat, NEW later \in Nat, now <= later, ~Fresh(c, k, now)
  PROVE  ~Fresh(d, k, later)
<1>1. SUFFICES ASSUME Fresh(d, k, later) PROVE FALSE
  OBVIOUS
<1>2. PICK e : Holds(d, e) /\ e.key = k /\ later < e.staleAt /\ ~(later >= e.expires)
  BY <1>1, FreshFacts
<1>3. e \in AircraftEntries /\ Holds(c, e)
  BY <1>2, EntryFacts
<1>4. now < e.staleAt /\ ~(now >= e.expires)
  BY <1>2, <1>3 DEF AircraftEntries
<1> QED
  BY <1>2, <1>3, <1>4, FreshFacts

\* What a step does to the cache: it only writes keys that were asked for.
CacheStep == \A e : Holds(cache', e) => Holds(cache, e) \/ e.key \in DOMAIN flights

\* A step of the service that leaves the workers and the requests alone.
LEMMA ServiceStep ==
  ASSUME AircraftIInv, NEW s, Sound(s, {}), Becomes(s),
         clock' = clock, circuit' = circuit,
         DOMAIN flights' = DOMAIN flights, flights' \in [DOMAIN flights -> Flights],
         \A k \in DOMAIN flights : flights'[k].probe = flights[k].probe,
         proc' \in [Workers \cup Callers -> Processes],
         \A p \in Workers \cup Callers : proc'[p].phase # "idle" <=> proc'[p].key \in AircraftKeys,
         \A w \in Workers : proc'[w] = proc[w],
         observing' \in [left : Seq(Seen), at : Nat]
  PROVE  AircraftIInv' /\ CacheStep
<1>1. cache' = s.cache /\ admitted' = s.admitted /\ tracker' = s.tracker
  BY DEF Becomes
<1>2. /\ s.cache \in Seq(AircraftEntries) /\ s.tracker \in Seq(Tracks)
      /\ s.admitted \in [queue : Seq(AircraftKeys), pending : SUBSET AircraftKeys]
  BY DEF Sound, Services
<1>3. WorkedOn' = WorkedOn
  BY DEF WorkedOn
<1>4. AircraftTypeOK'
  <2>1. OneEntryPerKey(cache')
    BY <1>1 DEF Sound
  <2>2. clock' \in Nat /\ circuit' \in Circuits /\ DOMAIN flights \subseteq AircraftKeys
    BY DEF AircraftIInv, AircraftTypeOK
  <2> QED
    BY <1>1, <1>2, <2>1, <2>2 DEF AircraftTypeOK
<1>5. WorkOK'
  <2>1. QueueOK(admitted', WorkedOn')
    BY <1>1, <1>3 DEF Sound
  <2>2. \A v, w \in Workers : v # w /\ proc'[v].phase # "idle" /\ proc'[w].phase # "idle" => proc'[v].key # proc'[w].key
    BY DEF AircraftIInv, WorkOK
  <2> QED
    BY <2>1, <2>2 DEF WorkOK
<1>6. TrackerOK'
  <2>1. \A i \in DOMAIN s.tracker : Accounted(s.tracker[i], s.admitted.pending)
    BY DEF Sound
  <2>2. SUFFICES ASSUME NEW i \in DOMAIN tracker' PROVE Accounted(tracker[i], admitted.pending)'
    BY DEF TrackerOK
  <2>3. Accounted(tracker'[i], admitted'.pending)
    BY <1>1, <2>1
  <2> QED
    BY <2>3 DEF Accounted
<1>7. FlightsNotFresh'
  <2>1. SUFFICES ASSUME NEW k \in DOMAIN flights PROVE ~Fresh(cache', k, clock')
    BY DEF FlightsNotFresh
  <2>2. cache \in Seq(AircraftEntries) /\ OneEntryPerKey(cache) /\ clock \in Nat /\ clock <= clock
    BY DEF AircraftIInv, AircraftTypeOK
  <2>3. cache' \in Seq(AircraftEntries) /\ OneEntryPerKey(cache') /\ \A e : Holds(cache', e) => Holds(cache, e)
    BY <1>1, <1>2 DEF Sound
  <2>4. ~Fresh(cache, k, clock)
    BY <2>1 DEF AircraftIInv, FlightsNotFresh
  <2>5. ~Fresh(cache', k, clock)
    BY <2>2, <2>3, <2>4, NotFreshKept
  <2> QED
    BY <2>5
<1>8. ProbeFlies'
  BY DEF AircraftIInv, ProbeFlies
<1>9. CacheStep
  BY <1>1 DEF Sound, CacheStep
<1> QED
  BY <1>4, <1>5, <1>6, <1>7, <1>8, <1>9 DEF AircraftIInv

\* A step that settles a key and moves lookups on: whoever has it to clear
\* finds it settled.
LEMMA LookupsMoveOn ==
  ASSUME AircraftIInv, NEW k, admitted' = admitted,
         tracker' \in {tracker, Settled(tracker, {k})},
         \A w \in Workers : /\ proc'[w].phase = "idle" <=> proc[w].phase = "idle"
                            /\ proc'[w].key = proc[w].key
                            /\ proc'[w].phase = "done" =>
                                 \/ proc[w].phase = "done"
                                 \/ proc[w].key = k /\ tracker' = Settled(tracker, {k})
  PROVE  WorkOK' /\ TrackerOK' /\ tracker' \in Seq(Tracks)
<1>1. WorkedOn' = WorkedOn
  BY DEF WorkedOn
<1>2. WorkOK'
  <2>1. QueueOK(admitted', WorkedOn')
    BY <1>1 DEF AircraftIInv, WorkOK
  <2>2. \A v, w \in Workers : v # w /\ proc'[v].phase # "idle" /\ proc'[w].phase # "idle" => proc'[v].key # proc'[w].key
    BY DEF AircraftIInv, WorkOK
  <2> QED
    BY <2>1, <2>2 DEF WorkOK
<1>3. tracker \in Seq(Tracks)
  BY DEF AircraftIInv, AircraftTypeOK
<1>4. /\ Settled(tracker, {k}) \in Seq(Tracks) /\ DOMAIN Settled(tracker, {k}) = DOMAIN tracker
      /\ \A i \in DOMAIN tracker :
           /\ KeyOf(Settled(tracker, {k})[i]) = KeyOf(tracker[i])
           /\ tracker[i].settled => Settled(tracker, {k})[i].settled
           /\ KeyOf(tracker[i]) \in {k} => Settled(tracker, {k})[i].settled
  BY <1>3, SettledFacts
<1>5. /\ tracker' \in Seq(Tracks) /\ DOMAIN tracker' = DOMAIN tracker
      /\ \A i \in DOMAIN tracker :
           /\ KeyOf(tracker'[i]) = KeyOf(tracker[i])
           /\ tracker[i].settled => tracker'[i].settled
           /\ KeyOf(tracker[i]) = k /\ tracker' = Settled(tracker, {k}) => tracker'[i].settled
  <2>1. CASE tracker' = tracker
    <3>1. tracker' = Settled(tracker, {k}) => \A i \in DOMAIN tracker : KeyOf(tracker[i]) = k => tracker'[i].settled
      BY <1>4
    <3> QED
      BY <1>3, <2>1, <3>1
  <2>2. CASE tracker' = Settled(tracker, {k})
    BY <1>4, <2>2
  <2> QED
    BY <2>1, <2>2
<1>6. TrackerOK'
  <2>1. SUFFICES ASSUME NEW i \in DOMAIN tracker PROVE Accounted(tracker[i], admitted.pending)'
    BY <1>5 DEF TrackerOK
  <2>2. /\ KeyOf(tracker'[i]) = KeyOf(tracker[i])
        /\ tracker[i].settled => tracker'[i].settled
        /\ KeyOf(tracker[i]) = k /\ tracker' = Settled(tracker, {k}) => tracker'[i].settled
    BY <1>5
  <2>3. Accounted(tracker[i], admitted.pending)
    BY DEF AircraftIInv, TrackerOK
  <2>4. KeyOf(tracker[i])' = KeyOf(tracker[i])
    BY <2>2 DEF KeyOf
  <2>5. tracker'[i].settled \/ KeyOf(tracker[i]) \in admitted'.pending
    BY <2>2, <2>3 DEF Accounted
  <2>6. ASSUME NEW w \in Workers, proc'[w].phase = "done", proc'[w].key = KeyOf(tracker[i])
        PROVE  tracker'[i].settled
    BY <2>2, <2>3, <2>6 DEF Accounted
  <2> QED
    BY <2>4, <2>5, <2>6 DEF Accounted
<1> QED
  BY <1>2, <1>5, <1>6

LEMMA ObserveStep ==
  ASSUME AircraftAssumption, AircraftIInv, clock' = clock, NEW left \in Seq(Seen), NEW at \in Nat, Observed(left, at)
  PROVE  AircraftIInv' /\ CacheStep
<1>0. AircraftTypeOK
  BY DEF AircraftIInv
<1>1. Sound(Service, {})
  BY ServiceOK
<1>2. PICK s : s = IF left = <<>> THEN Service ELSE Tracked(Service, Head(left), at)
  OBVIOUS
<1>3. Sound(s, {})
  <2>1. CASE left = <<>>
    BY <1>1, <1>2, <2>1
  <2>2. CASE left # <<>>
    <3>1. Head(left) \in Seen
      BY <2>2
    <3>2. Sound(Tracked(Service, Head(left), at), {})
      BY <1>0, <1>1, <3>1, TrackedOK
    <3> QED
      BY <1>2, <2>2, <3>2
  <2> QED
    BY <2>1, <2>2
<1>4. PICK r : r = IF Len(left) > 1 THEN s ELSE [s EXCEPT !.tracker = Kept(@, at)]
  OBVIOUS
<1>5. Sound(r, {})
  BY <1>3, <1>4, KeptOK, Zenon
<1>6. Becomes(r) /\ UNCHANGED <<circuit, proc, flights>>
  BY <1>2, <1>4 DEF Observed
<1>7. observing' \in [left : Seq(Seen), at : Nat]
  <2>1. CASE Len(left) > 1
    <3>1. Tail(left) \in Seq(Seen)
      <4>1. left # <<>>
        BY <2>1
      <4> QED
        BY <4>1, HeadTailProperties
    <3>2. observing' = [left |-> Tail(left), at |-> at]
      BY <2>1 DEF Observed
    <3> QED
      BY <3>1, <3>2
  <2>2. CASE ~(Len(left) > 1)
    <3>1. observing' = [left |-> <<>>, at |-> 0]
      BY <2>2 DEF Observed, NoSnapshot
    <3> QED
      BY <3>1
  <2> QED
    BY <2>1, <2>2
<1> QED
  BY <1>0, <1>5, <1>6, <1>7, ServiceStep DEF AircraftTypeOK

LEMMA CachedStep ==
  ASSUME AircraftAssumption, AircraftIInv, clock' = clock, NEW k \in AircraftKeys, CachedAircraft(k)
  PROVE  AircraftIInv' /\ CacheStep
<1>0. AircraftTypeOK
  BY DEF AircraftIInv
<1>1. Sound(Service, {})
  BY ServiceOK
<1>2. PICK s : s = IF Stale(cache, k, clock) THEN Enqueued(Service, k)
                   ELSE [Service EXCEPT !.cache = AfterGet(@, k, clock)]
  OBVIOUS
<1>3. Sound(s, {})
  <2>1. CASE Stale(cache, k, clock)
    <3>1. Sound(Service, {k})
      BY <1>1 DEF Sound
    <3>2. Sound(Enqueued(Service, k), {})
      BY <1>0, <3>1, EnqueuedOK
    <3> QED
      BY <1>2, <2>1, <3>2
  <2>2. CASE ~Stale(cache, k, clock)
    <3>1. PICK d : d = AfterGet(cache, k, clock)
      OBVIOUS
    <3>2. s = [cache |-> d, admitted |-> admitted, tracker |-> tracker]
      BY <1>2, <2>2, <3>1 DEF Service
    <3>3. s.cache = d /\ s.admitted = admitted /\ s.tracker = tracker
      BY <3>2
    <3>4. d \in Seq(AircraftEntries) /\ OneEntryPerKey(d) /\ \A e : Holds(d, e) => Holds(cache, e)
      <4>1. cache \in Seq(AircraftEntries) /\ OneEntryPerKey(cache) /\ clock \in Nat
        BY <1>0 DEF AircraftTypeOK
      <4>2. /\ AfterGet(cache, k, clock) \in Seq(AircraftEntries) /\ OneEntryPerKey(AfterGet(cache, k, clock))
            /\ \A e : Holds(AfterGet(cache, k, clock), e) <=> Holds(cache, e) /\ (e.key = k => clock < e.staleAt)
        BY <4>1, AfterGetFacts
      <4> QED
        BY <3>1, <4>2, Zenon
    <3>5. s \in Services
      BY <1>0, <3>2, <3>4 DEF AircraftTypeOK, Services
    <3> QED
      BY <3>3, <3>4, <3>5 DEF Sound, AircraftIInv, WorkOK, TrackerOK
  <2> QED
    BY <2>1, <2>2
<1>4. Becomes(s) /\ UNCHANGED <<circuit, proc, flights, observing>>
  BY <1>2 DEF CachedAircraft
<1> QED
  BY <1>0, <1>3, <1>4, ServiceStep DEF AircraftTypeOK

LEMMA FollowUpStep ==
  ASSUME AircraftAssumption, AircraftIInv, clock' = clock, NEW c \in Callers, NEW k \in AircraftKeys,
         FollowUpAircraft(c, k) \/ LookupUnseen(c, k)
  PROVE  AircraftIInv' /\ CacheStep
<1>0. AircraftTypeOK
  BY DEF AircraftIInv
<1>1. Sound(Service, {})
  BY ServiceOK
<1>2. PICK s : Sound(s, {}) /\ Becomes(s)
  <2>1. CASE FollowUpAircraft(c, k)
    <3>1. Sound(Service, {k})
      BY <1>1 DEF Sound
    <3>2. Sound(Enqueued(Service, k), {})
      BY <1>0, <3>1, EnqueuedOK
    <3> QED
      BY <2>1, <3>2 DEF FollowUpAircraft
  <2>2. CASE LookupUnseen(c, k)
    <3>1. Becomes(Service)
      BY <2>2 DEF LookupUnseen, Becomes, Service
    <3> QED
      BY <1>1, <3>1
  <2> QED
    BY <2>1, <2>2
<1>3. UNCHANGED <<circuit, flights, observing>>
  BY DEF FollowUpAircraft, LookupUnseen
<1>4. proc' \in {proc, [proc EXCEPT ![c] = [phase |-> "lookup", key |-> k]]}
  BY DEF FollowUpAircraft, LookupUnseen
<1>5. c \in Workers \cup Callers /\ c \notin Workers
  BY DEF AircraftAssumption
<1>9. PICK looking : looking = [phase |-> "lookup", key |-> k]
  OBVIOUS
<1>10. looking \in Processes /\ looking.phase = "lookup" /\ looking.key = k
  BY <1>9 DEF Processes
<1>11. proc \in [Workers \cup Callers -> Processes]
  BY <1>0 DEF AircraftTypeOK
<1>12. DOMAIN proc' = Workers \cup Callers /\ \A p \in Workers \cup Callers : proc'[p] = proc[p] \/ (p = c /\ proc'[p] = looking)
  <2>1. CASE proc' = proc
    BY <1>11, <2>1
  <2>2. CASE proc' = [proc EXCEPT ![c] = looking]
    BY <1>5, <1>11, <2>2
  <2> QED
    BY <1>4, <1>9, <2>1, <2>2
<1>13. proc' = [p \in Workers \cup Callers |-> proc'[p]]
  <2>1. CASE proc' = proc
    BY <1>11, <2>1
  <2>2. CASE proc' = [proc EXCEPT ![c] = looking]
    BY <1>5, <1>11, <2>2
  <2> QED
    BY <1>4, <1>9, <2>1, <2>2
<1>6. proc' \in [Workers \cup Callers -> Processes]
  <2>1. \A p \in Workers \cup Callers : proc'[p] \in Processes
    BY <1>10, <1>11, <1>12
  <2> QED
    BY <1>13, <2>1
<1>7. \A w \in Workers : proc'[w] = proc[w]
  BY <1>5, <1>12
<1>8. \A p \in Workers \cup Callers : proc'[p].phase # "idle" <=> proc'[p].key \in AircraftKeys
  BY <1>0, <1>10, <1>12 DEF AircraftTypeOK
<1> QED
  BY <1>0, <1>2, <1>3, <1>6, <1>7, <1>8, ServiceStep DEF AircraftTypeOK

LEMMA RetryStep ==
  ASSUME AircraftAssumption, AircraftIInv, clock' = clock, NEW k \in AircraftKeys, RetryAircraft(k)
  PROVE  AircraftIInv' /\ CacheStep
<1>0. AircraftTypeOK
  BY DEF AircraftIInv
<1>1. Sound(Service, {})
  BY ServiceOK
<1>2. Becomes(Service)
  BY DEF RetryAircraft, Becomes, Service
<1>3. /\ UNCHANGED <<circuit, proc, observing>> /\ k \in DOMAIN flights
      /\ flights' = [flights EXCEPT ![k].attempt = @ + 1]
  BY DEF RetryAircraft
<1>4. flights \in [DOMAIN flights -> Flights]
  BY <1>0 DEF AircraftTypeOK
<1>5. DOMAIN flights' = DOMAIN flights
  BY <1>3
<1>6. ASSUME NEW o \in DOMAIN flights
      PROVE  flights'[o] \in Flights /\ flights'[o].probe = flights[o].probe
  <2>1. PICK f \in Flights : f = flights[o]
    BY <1>4
  <2>2. PICK b \in BOOLEAN, n \in Nat, d \in Nat : f = [probe |-> b, attempt |-> n, deadline |-> d]
    BY <2>1 DEF Flights
  <2>3. flights'[o] = f \/ flights'[o] = [probe |-> b, attempt |-> n + 1, deadline |-> d]
    <3>1. CASE o = k
      <4>1. flights'[o] = [f EXCEPT !.attempt = f.attempt + 1]
        BY <1>3, <2>1, <3>1
      <4> QED
        BY <2>2, <4>1
    <3>2. CASE o # k
      BY <1>3, <2>1, <3>2
    <3> QED
      BY <3>1, <3>2
  <2>4. n + 1 \in Nat
    OBVIOUS
  <2>5. [probe |-> b, attempt |-> n + 1, deadline |-> d] \in Flights
    BY <2>4 DEF Flights
  <2>6. flights'[o] \in Flights
    BY <2>1, <2>3, <2>5, Zenon
  <2>7. flights'[o].probe = b /\ flights[o].probe = b
    BY <2>1, <2>2, <2>3
  <2> QED
    BY <2>6, <2>7
<1>7. flights' \in [DOMAIN flights -> Flights]
  BY <1>3, <1>6
<1> QED
  BY <1>0, <1>1, <1>2, <1>3, <1>5, <1>6, <1>7, ServiceStep DEF AircraftTypeOK

\* Of the cache, the requests and the circuit, nothing changes.
LEMMA NothingAsked ==
  ASSUME AircraftIInv, UNCHANGED <<clock, cache, circuit, flights>>
  PROVE  FlightsNotFresh' /\ ProbeFlies' /\ CacheStep
BY DEF AircraftIInv, FlightsNotFresh, ProbeFlies, CacheStep, Holds

LEMMA TakeStep ==
  ASSUME AircraftAssumption, AircraftIInv, clock' = clock, NEW w \in Workers, TakeAircraft(w)
  PROVE  AircraftIInv' /\ CacheStep
<1>0. AircraftTypeOK
  BY DEF AircraftIInv
<1>1. PICK h : h = Head(admitted.queue)
  OBVIOUS
<1>2. /\ proc[w].phase = "idle"
      /\ proc' = [proc EXCEPT ![w] = [phase |-> "lookup", key |-> h]]
      /\ UNCHANGED <<clock, cache, circuit, flights, tracker, observing>>
  BY <1>1 DEF TakeAircraft
<1>3. /\ admitted' \in [queue : Seq(AircraftKeys), pending : SUBSET AircraftKeys]
      /\ admitted'.pending = admitted.pending
      /\ QueueOK(admitted', WorkedOn \cup {h}) /\ h \notin WorkedOn /\ h \in AircraftKeys
  <2>1. PICK q, p : q \in Seq(AircraftKeys) /\ p \in SUBSET AircraftKeys /\ admitted = [queue |-> q, pending |-> p]
    BY <1>0 DEF AircraftTypeOK
  <2>2. /\ QueueOK([queue |-> q, pending |-> p], WorkedOn) /\ q # <<>>
        /\ admitted' = [queue |-> Tail(q), pending |-> p]
    BY <2>1 DEF AircraftIInv, WorkOK, TakeAircraft
  <2>3. /\ QueueOK([queue |-> Tail(q), pending |-> p], WorkedOn \cup {Head(q)})
        /\ Tail(q) \in Seq(AircraftKeys) /\ Head(q) \in AircraftKeys /\ Head(q) \notin WorkedOn
    BY <2>1, <2>2, TakenFacts
  <2>4. h = Head(q) /\ admitted.pending = p
    BY <1>1, <2>1
  <2>5. admitted' \in [queue : Seq(AircraftKeys), pending : SUBSET AircraftKeys] /\ admitted'.pending = p
    BY <2>1, <2>2, <2>3
  <2> QED
    BY <2>2, <2>3, <2>4, <2>5, Zenon
<1>4. w \in Workers \cup Callers /\ proc \in [Workers \cup Callers -> Processes]
  BY <1>0 DEF AircraftTypeOK
<1>5. proc'[w].phase = "lookup" /\ proc'[w].key = h /\ \A p \in Workers \cup Callers : p # w => proc'[p] = proc[p]
  BY <1>2, <1>4
<1>6. WorkedOn' = WorkedOn \cup {h}
  <2>1. \A k : k \in WorkedOn <=> \E v \in Workers : proc[v].phase # "idle" /\ proc[v].key = k
    BY DEF WorkedOn
  <2>2. \A k : k \in WorkedOn' <=> \E v \in Workers : proc'[v].phase # "idle" /\ proc'[v].key = k
    BY DEF WorkedOn
  <2>3. \A k : k \in WorkedOn' <=> k \in WorkedOn \/ k = h
    BY <1>2, <1>5, <2>1, <2>2
  <2> QED
    BY <2>3
<1>7. AircraftTypeOK'
  <2>1. proc' \in [Workers \cup Callers -> Processes]
    BY <1>2, <1>3, <1>4 DEF Processes
  <2>2. \A p \in Workers \cup Callers : proc'[p].phase # "idle" <=> proc'[p].key \in AircraftKeys
    BY <1>0, <1>3, <1>5 DEF AircraftTypeOK
  <2>3. OneEntryPerKey(cache')
    BY <1>0, <1>2 DEF AircraftTypeOK
  <2> QED
    BY <1>0, <1>2, <1>3, <2>1, <2>2, <2>3 DEF AircraftTypeOK
<1>8. WorkOK'
  <2>1. QueueOK(admitted', WorkedOn')
    BY <1>3, <1>6
  <2>2. \A v \in Workers : v # w /\ proc[v].phase # "idle" => proc[v].key # h
    BY <1>3 DEF WorkedOn
  <2>3. \A u, v \in Workers : u # v /\ proc'[u].phase # "idle" /\ proc'[v].phase # "idle" => proc'[u].key # proc'[v].key
    BY <1>5, <2>2 DEF AircraftIInv, WorkOK
  <2> QED
    BY <2>1, <2>3 DEF WorkOK
<1>9. TrackerOK'
  <2>1. SUFFICES ASSUME NEW i \in DOMAIN tracker PROVE Accounted(tracker[i], admitted.pending)'
    BY <1>2 DEF TrackerOK
  <2>2. PICK e : e = tracker[i]
    OBVIOUS
  <2>3. Accounted(e, admitted.pending)
    BY <2>2 DEF AircraftIInv, TrackerOK
  <2>4. e.settled \/ KeyOf(e) \in admitted'.pending
    BY <1>3, <2>3 DEF Accounted
  <2>5. \A v \in Workers : proc'[v].phase = "done" /\ proc'[v].key = KeyOf(e) => e.settled
    BY <1>5, <2>3 DEF Accounted
  <2> QED
    BY <1>2, <2>2, <2>4, <2>5 DEF Accounted, KeyOf
<1>10. FlightsNotFresh' /\ ProbeFlies' /\ CacheStep
  BY <1>2, NothingAsked
<1> QED
  BY <1>7, <1>8, <1>9, <1>10 DEF AircraftIInv

LEMMA ClearStep ==
  ASSUME AircraftAssumption, AircraftIInv, clock' = clock, NEW w \in Workers, ClearAircraft(w)
  PROVE  AircraftIInv' /\ CacheStep
<1>0. AircraftTypeOK
  BY DEF AircraftIInv
<1>1. PICK k : k = proc[w].key
  OBVIOUS
<1>2. /\ proc[w].phase = "done"
      /\ proc' = [proc EXCEPT ![w] = Idle]
      /\ admitted' = [admitted EXCEPT !.pending = @ \ {k}]
      /\ UNCHANGED <<clock, cache, circuit, flights, tracker, observing>>
  BY <1>1 DEF ClearAircraft
<1>3. \A o : o \in WorkedOn <=> \E v \in Workers : proc[v].phase # "idle" /\ proc[v].key = o
  BY DEF WorkedOn
<1>4. k \in WorkedOn
  BY <1>1, <1>2, <1>3
<1>5. /\ admitted' \in [queue : Seq(AircraftKeys), pending : SUBSET AircraftKeys]
      /\ admitted'.pending = admitted.pending \ {k}
      /\ QueueOK(admitted', WorkedOn \ {k})
  <2>1. /\ admitted \in [queue : Seq(AircraftKeys), pending : SUBSET AircraftKeys]
        /\ QueueOK(admitted, WorkedOn) /\ {k} \subseteq WorkedOn
    BY <1>0, <1>4 DEF AircraftIInv, AircraftTypeOK, WorkOK
  <2> QED
    BY <1>2, <2>1, ClearedFacts
<1>6. w \in Workers \cup Callers /\ proc \in [Workers \cup Callers -> Processes]
  BY <1>0 DEF AircraftTypeOK
<1>7. proc'[w].phase = "idle" /\ proc'[w].key = NoKey /\ \A p \in Workers \cup Callers : p # w => proc'[p] = proc[p]
  BY <1>2, <1>6 DEF Idle
<1>8. WorkedOn' = WorkedOn \ {k}
  <2>1. \A o : o \in WorkedOn' <=> \E v \in Workers : proc'[v].phase # "idle" /\ proc'[v].key = o
    BY DEF WorkedOn
  <2>2. \A v \in Workers : v # w /\ proc[v].phase # "idle" => proc[v].key # k
    BY <1>1, <1>2 DEF AircraftIInv, WorkOK
  <2>3. \A o : o \in WorkedOn' <=> o \in WorkedOn /\ o # k
    BY <1>1, <1>3, <1>7, <2>1, <2>2
  <2> QED
    BY <2>3
<1>9. AircraftTypeOK'
  <2>1. proc' \in [Workers \cup Callers -> Processes]
    BY <1>2, <1>6 DEF Processes, Idle
  <2>2. \A p \in Workers \cup Callers : proc'[p].phase # "idle" <=> proc'[p].key \in AircraftKeys
    BY <1>0, <1>7 DEF AircraftTypeOK, AircraftAssumption
  <2>3. OneEntryPerKey(cache')
    BY <1>0, <1>2 DEF AircraftTypeOK
  <2> QED
    BY <1>0, <1>2, <1>5, <2>1, <2>2, <2>3 DEF AircraftTypeOK
<1>10. WorkOK'
  <2>1. QueueOK(admitted', WorkedOn')
    BY <1>5, <1>8
  <2>2. \A u, v \in Workers : u # v /\ proc'[u].phase # "idle" /\ proc'[v].phase # "idle" => proc'[u].key # proc'[v].key
    BY <1>7 DEF AircraftIInv, WorkOK
  <2> QED
    BY <2>1, <2>2 DEF WorkOK
<1>11. TrackerOK'
  <2>1. SUFFICES ASSUME NEW i \in DOMAIN tracker PROVE Accounted(tracker[i], admitted.pending)'
    BY <1>2 DEF TrackerOK
  <2>2. PICK e : e = tracker[i]
    OBVIOUS
  <2>3. Accounted(e, admitted.pending)
    BY <2>2 DEF AircraftIInv, TrackerOK
  <2>4. e.settled \/ KeyOf(e) \in admitted'.pending
    BY <1>1, <1>2, <1>5, <2>3 DEF Accounted
  <2>5. \A v \in Workers : proc'[v].phase = "done" /\ proc'[v].key = KeyOf(e) => e.settled
    BY <1>7, <2>3 DEF Accounted
  <2> QED
    BY <1>2, <2>2, <2>4, <2>5 DEF Accounted, KeyOf
<1>12. FlightsNotFresh' /\ ProbeFlies' /\ CacheStep
  BY <1>2, NothingAsked
<1> QED
  BY <1>9, <1>10, <1>11, <1>12 DEF AircraftIInv

\* What a lookup may do to whoever is at it.
MovesTo(p, n) ==
  /\ proc' = [proc EXCEPT ![p] = n]
  /\ n.phase # "idle" <=> n.key \in AircraftKeys
  /\ p \in Workers => n.phase # "idle" /\ n.key = proc[p].key
  /\ n.phase = "done" => tracker' = Settled(tracker, {proc[p].key})

LEMMA LookupMoves ==
  ASSUME AircraftAssumption, AircraftIInv, NEW p \in Workers \cup Callers, LookupAircraft(p)
  PROVE  \E n \in Processes : MovesTo(p, n)
<1>0. AircraftTypeOK
  BY DEF AircraftIInv
<1>8. PICK k : k = proc[p].key
  OBVIOUS
<1>1. proc[p] = [phase |-> "lookup", key |-> k] /\ k \in AircraftKeys
  <2>1. proc[p] \in Processes /\ proc[p].phase = "lookup" /\ (proc[p].phase # "idle" => proc[p].key \in AircraftKeys)
    BY <1>0 DEF LookupAircraft, AircraftTypeOK
  <2> QED
    BY <1>8, <2>1 DEF Processes
<1>2. PICK flying, over : flying = [phase |-> "flying", key |-> k] /\ over = [phase |-> "done", key |-> k]
  OBVIOUS
<1>3. Over(p) = IF p \in Workers THEN over ELSE Idle
  BY <1>1, <1>2 DEF Over
<1>4. \/ proc' = [proc EXCEPT ![p] = flying]
      \/ p \notin Workers /\ proc' = [proc EXCEPT ![p] = Idle]
      \/ p \in Workers /\ proc' = [proc EXCEPT ![p] = over] /\ tracker' = Settled(tracker, {k})
  <2>1. [proc[p] EXCEPT !.phase = "flying"] = flying
    BY <1>1, <1>2
  <2>2. \/ proc' = [proc EXCEPT ![p] = IF p \in Workers THEN [proc[p] EXCEPT !.phase = "flying"] ELSE Idle]
        \/ proc' = [proc EXCEPT ![p] = Over(p)] /\ tracker' = Settled(tracker, {k})
        \/ proc' = [proc EXCEPT ![p] = [proc[p] EXCEPT !.phase = "flying"]]
    BY <1>8 DEF LookupAircraft
  <2>3. p \in Workers \/ p \notin Workers
    OBVIOUS
  <2> QED
    BY <1>3, <2>1, <2>2, <2>3
<1>5. CASE proc' = [proc EXCEPT ![p] = flying]
  <2>1. flying \in Processes /\ flying.phase = "flying" /\ flying.key = k
    BY <1>1, <1>2 DEF Processes
  <2> QED
    BY <1>1, <1>5, <1>8, <2>1 DEF MovesTo
<1>6. CASE p \notin Workers /\ proc' = [proc EXCEPT ![p] = Idle]
  <2>1. Idle \in Processes /\ Idle.phase = "idle" /\ Idle.key = NoKey
    BY DEF Idle, Processes
  <2>2. NoKey \notin AircraftKeys
    BY DEF AircraftAssumption
  <2> QED
    BY <1>6, <2>1, <2>2 DEF MovesTo
<1>7. CASE p \in Workers /\ proc' = [proc EXCEPT ![p] = over] /\ tracker' = Settled(tracker, {k})
  <2>1. over \in Processes /\ over.phase = "done" /\ over.key = k
    BY <1>1, <1>2 DEF Processes
  <2> QED
    BY <1>1, <1>7, <1>8, <2>1 DEF MovesTo
<1> QED
  BY <1>4, <1>5, <1>6, <1>7

LEMMA LookupStep ==
  ASSUME AircraftAssumption, AircraftIInv, clock' = clock, NEW p \in Workers \cup Callers, LookupAircraft(p)
  PROVE  AircraftIInv' /\ CacheStep
<1>0. AircraftTypeOK
  BY DEF AircraftIInv
<1>1. PICK k : k = proc[p].key
  OBVIOUS
<1>2. k \in AircraftKeys /\ proc[p].phase = "lookup" /\ UNCHANGED <<admitted, observing>>
  BY <1>0, <1>1 DEF LookupAircraft, AircraftTypeOK
<1>3. PICK n \in Processes : MovesTo(p, n)
  BY LookupMoves
<1>15. /\ proc' = [proc EXCEPT ![p] = n]
       /\ n.phase # "idle" <=> n.key \in AircraftKeys
       /\ p \in Workers => n.phase # "idle" /\ n.key = k
       /\ n.phase = "done" => tracker' = Settled(tracker, {k})
  BY <1>1, <1>3 DEF MovesTo
<1>4. proc \in [Workers \cup Callers -> Processes]
  BY <1>0 DEF AircraftTypeOK
<1>5. /\ proc' \in [Workers \cup Callers -> Processes]
      /\ proc'[p] = n /\ \A o \in Workers \cup Callers : o # p => proc'[o] = proc[o]
  BY <1>4, <1>15
<1>6. tracker' \in {tracker, Settled(tracker, {k})}
  BY <1>1 DEF LookupAircraft
<1>7. WorkOK' /\ TrackerOK' /\ tracker' \in Seq(Tracks)
  <2>1. \A w \in Workers : /\ proc'[w].phase = "idle" <=> proc[w].phase = "idle"
                           /\ proc'[w].key = proc[w].key
                           /\ proc'[w].phase = "done" =>
                                \/ proc[w].phase = "done"
                                \/ proc[w].key = k /\ tracker' = Settled(tracker, {k})
    BY <1>1, <1>2, <1>5, <1>15
  <2> QED
    BY <1>2, <1>6, <2>1, LookupsMoveOn
<1>8. cache \in Seq(AircraftEntries) /\ OneEntryPerKey(cache) /\ clock \in Nat
  BY <1>0 DEF AircraftTypeOK
<1>9. cache' \in Seq(AircraftEntries) /\ OneEntryPerKey(cache') /\ \A e : Holds(cache', e) => Holds(cache, e)
  <2>1. cache' = cache \/ cache' = AfterGet(cache, k, clock)
    BY <1>1 DEF LookupAircraft
  <2>2. /\ AfterGet(cache, k, clock) \in Seq(AircraftEntries) /\ OneEntryPerKey(AfterGet(cache, k, clock))
        /\ \A e : Holds(AfterGet(cache, k, clock), e) <=> Holds(cache, e) /\ (e.key = k => clock < e.staleAt)
    BY <1>8, AfterGetFacts
  <2> QED
    BY <1>8, <2>1, <2>2
<1>10. PICK f \in Flights :
         /\ f.probe <=> circuit.openUntil # 0
         /\ \/ UNCHANGED <<flights, circuit>>
            \/ /\ flights' = Put(flights, k, f) /\ circuit' = AfterAllow(circuit)
               /\ ~Fresh(cache, k, clock)
  <2>1. PICK f : f = [probe |-> circuit.openUntil # 0, attempt |-> 1, deadline |-> clock + RequestBudget]
    OBVIOUS
  <2>2. f \in Flights
    <3>1. clock + RequestBudget \in Nat /\ 1 \in Nat
      BY <1>8 DEF AircraftAssumption
    <3>2. (circuit.openUntil # 0) \in BOOLEAN
      OBVIOUS
    <3> QED
      BY <2>1, <3>1, <3>2 DEF Flights
  <2>3. f.probe <=> circuit.openUntil # 0
    BY <2>1
  <2>4. \/ UNCHANGED <<flights, circuit>>
        \/ /\ flights' = Put(flights, k, f) /\ circuit' = AfterAllow(circuit)
           /\ ~Fresh(cache, k, clock)
    BY <1>1, <2>1 DEF LookupAircraft, MustFetch
  <2> QED
    BY <2>2, <2>3, <2>4
<1>11. /\ DOMAIN flights' \subseteq AircraftKeys /\ flights' \in [DOMAIN flights' -> Flights]
       /\ circuit' \in Circuits
       /\ \A o \in DOMAIN flights' : o \in DOMAIN flights \/ (o = k /\ ~Fresh(cache, k, clock))
       /\ ProbeFlies'
  <2>0. DOMAIN flights \subseteq AircraftKeys /\ flights \in [DOMAIN flights -> Flights] /\ circuit \in Circuits
    BY <1>0 DEF AircraftTypeOK
  <2>1. CASE UNCHANGED <<flights, circuit>>
    BY <2>0, <2>1 DEF AircraftIInv, ProbeFlies
  <2>2. CASE /\ flights' = Put(flights, k, f) /\ circuit' = AfterAllow(circuit)
             /\ ~Fresh(cache, k, clock)
    <3>1. /\ DOMAIN flights' = DOMAIN flights \cup {k} /\ flights'[k] = f
          /\ \A o \in DOMAIN flights : o # k => flights'[o] = flights[o]
          /\ flights' = [o \in DOMAIN flights \cup {k} |-> flights'[o]]
      BY <2>2 DEF Put
    <3>2. \A o \in DOMAIN flights \cup {k} : flights'[o] \in Flights
      BY <1>10, <2>0, <3>1
    <3>3. flights' \in [DOMAIN flights' -> Flights]
      BY <3>1, <3>2
    <3>4. circuit' \in Circuits /\ (circuit'.probing => circuit.openUntil # 0)
      BY <2>0, <2>2, AllowFacts
    <3>5. ProbeFlies'
      BY <1>10, <3>1, <3>4 DEF ProbeFlies
    <3> QED
      BY <1>2, <2>0, <2>2, <3>1, <3>3, <3>4, <3>5
  <2> QED
    BY <1>10, <2>1, <2>2
<1>12. FlightsNotFresh'
  <2>1. SUFFICES ASSUME NEW o \in DOMAIN flights' PROVE ~Fresh(cache', o, clock')
    BY DEF FlightsNotFresh
  <2>2. ~Fresh(cache, o, clock)
    BY <1>11 DEF AircraftIInv, FlightsNotFresh
  <2>3. clock <= clock
    BY <1>8
  <2>4. ~Fresh(cache', o, clock)
    BY <1>8, <1>9, <2>2, <2>3, NotFreshKept
  <2> QED
    BY <2>4
<1>13. AircraftTypeOK'
  <2>1. \A o \in Workers \cup Callers : proc'[o].phase # "idle" <=> proc'[o].key \in AircraftKeys
    BY <1>0, <1>5, <1>15 DEF AircraftTypeOK
  <2>2. OneEntryPerKey(cache') /\ cache' \in Seq(AircraftEntries)
    BY <1>9
  <2> QED
    BY <1>0, <1>2, <1>5, <1>7, <1>11, <2>1, <2>2 DEF AircraftTypeOK
<1>14. CacheStep
  BY <1>9 DEF CacheStep
<1> QED
  BY <1>7, <1>11, <1>12, <1>13, <1>14 DEF AircraftIInv

\* The answer to a request: of the key that was asked for, the entry is put
\* into the cache.
LEMMA LandStep ==
  ASSUME AircraftAssumption, AircraftIInv, clock' = clock, NEW k \in DOMAIN flights,
         NEW entry \in AircraftEntries, entry.key = k, cache' = AfterSet(cache, entry, MaxEntries),
         circuit' \in Circuits, ~circuit'.probing, Land(k)
  PROVE  AircraftIInv' /\ CacheStep
<1>0. AircraftTypeOK
  BY DEF AircraftIInv
<1>1. /\ proc \in [Workers \cup Callers -> Processes] /\ clock \in Nat
      /\ cache \in Seq(AircraftEntries) /\ OneEntryPerKey(cache)
      /\ DOMAIN flights \subseteq AircraftKeys /\ flights \in [DOMAIN flights -> Flights]
  BY <1>0 DEF AircraftTypeOK
<1>2. /\ flights' = Without(flights, k) /\ tracker' = Settled(tracker, {k})
      /\ UNCHANGED <<admitted, observing>>
      /\ proc' = [p \in Workers \cup Callers |->
                    IF proc[p] = [phase |-> "flying", key |-> k] THEN Over(p) ELSE proc[p]]
  BY <1>1 DEF Land
<1>3. ASSUME NEW p \in Workers \cup Callers
      PROVE  \/ proc'[p] = proc[p]
             \/ /\ proc[p] = [phase |-> "flying", key |-> k]
                /\ \/ p \in Workers /\ proc'[p] = [phase |-> "done", key |-> k]
                   \/ p \notin Workers /\ proc'[p] = [phase |-> "idle", key |-> NoKey]
  <2>1. CASE proc[p] = [phase |-> "flying", key |-> k]
    <3>1. proc'[p] = Over(p)
      BY <1>2, <2>1
    <3>2. Over(p) = IF p \in Workers THEN [phase |-> "done", key |-> k] ELSE [phase |-> "idle", key |-> NoKey]
      BY <2>1 DEF Over, Idle
    <3> QED
      BY <2>1, <3>1, <3>2
  <2>2. CASE proc[p] # [phase |-> "flying", key |-> k]
    BY <1>2, <2>2
  <2> QED
    BY <2>1, <2>2
<1>4. ASSUME NEW p \in Workers \cup Callers
      PROVE  /\ proc'[p] \in Processes
             /\ proc'[p].phase # "idle" <=> proc'[p].key \in AircraftKeys
             /\ p \in Workers => /\ proc'[p].phase = "idle" <=> proc[p].phase = "idle"
                                 /\ proc'[p].key = proc[p].key
                                 /\ proc'[p].phase = "done" => proc[p].phase = "done" \/ proc[p].key = k
  <2>0. proc[p] \in Processes /\ (proc[p].phase # "idle" <=> proc[p].key \in AircraftKeys) /\ k \in AircraftKeys /\ NoKey \notin AircraftKeys
    BY <1>0, <1>1 DEF AircraftTypeOK, AircraftAssumption
  <2>1. CASE proc'[p] = proc[p]
    BY <2>0, <2>1
  <2>2. CASE proc[p] = [phase |-> "flying", key |-> k] /\ p \in Workers /\ proc'[p] = [phase |-> "done", key |-> k]
    <3>1. proc[p].phase = "flying" /\ proc[p].key = k /\ proc'[p].phase = "done" /\ proc'[p].key = k
      BY <2>2
    <3>2. proc'[p] \in Processes
      BY <2>0, <2>2 DEF Processes
    <3> QED
      BY <2>0, <3>1, <3>2
  <2>3. CASE p \notin Workers /\ proc'[p] = [phase |-> "idle", key |-> NoKey]
    <3>1. proc'[p].phase = "idle" /\ proc'[p].key = NoKey /\ proc'[p] \in Processes
      BY <2>3 DEF Processes
    <3> QED
      BY <2>0, <2>3, <3>1
  <2> QED
    BY <1>3, <2>1, <2>2, <2>3
<1>5. WorkOK' /\ TrackerOK' /\ tracker' \in Seq(Tracks)
  <2>1. \A w \in Workers : /\ proc'[w].phase = "idle" <=> proc[w].phase = "idle"
                           /\ proc'[w].key = proc[w].key
                           /\ proc'[w].phase = "done" =>
                                \/ proc[w].phase = "done"
                                \/ proc[w].key = k /\ tracker' = Settled(tracker, {k})
    BY <1>2, <1>4
  <2>2. admitted' = admitted /\ tracker' \in {tracker, Settled(tracker, {k})}
    BY <1>2
  <2> QED
    BY <2>1, <2>2, LookupsMoveOn
<1>6. /\ cache' \in Seq(AircraftEntries) /\ OneEntryPerKey(cache')
      /\ \A e : Holds(cache', e) => e = entry \/ (Holds(cache, e) /\ e.key # k)
  <2>1. MaxEntries \in Nat \ {0}
    BY DEF AircraftAssumption
  <2>2. /\ AfterSet(cache, entry, MaxEntries) \in Seq(AircraftEntries) /\ OneEntryPerKey(AfterSet(cache, entry, MaxEntries))
        /\ Holds(AfterSet(cache, entry, MaxEntries), entry)
        /\ \A e : Holds(AfterSet(cache, entry, MaxEntries), e) => e = entry \/ (Holds(cache, e) /\ e.key # entry.key)
    BY <1>1, <2>1, AfterSetFacts
  <2> QED
    BY <2>2
<1>7. /\ DOMAIN flights' = DOMAIN flights \ {k}
      /\ flights' = [o \in DOMAIN flights \ {k} |-> flights[o]]
  BY <1>2 DEF Without
<1>8. AircraftTypeOK'
  <2>1. flights' \in [DOMAIN flights' -> Flights] /\ DOMAIN flights' \subseteq AircraftKeys
    BY <1>1, <1>7
  <2>2. proc' \in [Workers \cup Callers -> Processes]
    BY <1>2, <1>4
  <2> QED
    BY <1>0, <1>2, <1>4, <1>5, <1>6, <2>1, <2>2 DEF AircraftTypeOK
<1>9. FlightsNotFresh'
  <2>1. SUFFICES ASSUME NEW o \in DOMAIN flights' PROVE ~Fresh(cache', o, clock')
    BY DEF FlightsNotFresh
  <2>2. o \in DOMAIN flights /\ o # k
    BY <1>7
  <2>3. ~Fresh(cache, o, clock) /\ clock <= clock
    BY <1>1, <2>2 DEF AircraftIInv, FlightsNotFresh
  <2>4. \A e : Holds(cache', e) /\ e.key = o => Holds(cache, e)
    BY <1>6, <2>2
  <2>5. ~Fresh(cache', o, clock)
    BY <1>1, <1>6, <2>3, <2>4, NotFreshKept
  <2> QED
    BY <2>5
<1>10. ProbeFlies'
  BY DEF ProbeFlies
<1>11. CacheStep
  BY <1>6 DEF CacheStep
<1> QED
  BY <1>5, <1>8, <1>9, <1>10, <1>11 DEF AircraftIInv

LEMMA AnsweredStep ==
  ASSUME AircraftAssumption, AircraftIInv, clock' = clock, NEW k \in AircraftKeys,
         AircraftAnswered(k) \/ AircraftFailed(k)
  PROVE  AircraftIInv' /\ CacheStep
<1>0. AircraftTypeOK /\ clock \in Nat /\ circuit \in Circuits
  BY DEF AircraftIInv, AircraftTypeOK
<1>1. k \in DOMAIN flights /\ Land(k)
  BY DEF AircraftAnswered, AircraftFailed
<1>2. PICK entry : /\ cache' = AfterSet(cache, entry, MaxEntries)
                   /\ entry \in AircraftEntries /\ entry.key = k
  <2>1. CASE AircraftAnswered(k)
    <3>1. PICK entry \in Replies(k) : cache' = AfterSet(cache, entry, MaxEntries)
      BY <2>1 DEF AircraftAnswered
    <3>2. \/ \E ttl \in FoundTTLs : entry = [key |-> k, value |-> "found", expires |-> clock + ttl, staleAt |-> clock + ttl + StaleTTL]
          \/ entry = [key |-> k, value |-> "none", expires |-> clock + NotFoundTTL, staleAt |-> clock + NotFoundTTL + 0]
      BY <3>1 DEF Replies, Entry
    <3>3. /\ \A ttl \in FoundTTLs : clock + ttl \in Nat /\ clock + ttl + StaleTTL \in Nat
          /\ clock + NotFoundTTL \in Nat /\ clock + NotFoundTTL + 0 \in Nat
      <4>1. FoundTTLs \subseteq Nat /\ StaleTTL \in Nat /\ NotFoundTTL \in Nat
        BY DEF AircraftAssumption
      <4> QED
        BY <1>0, <4>1
    <3>4. entry \in AircraftEntries /\ entry.key = k
      BY <3>2, <3>3 DEF AircraftEntries
    <3> QED
      BY <3>1, <3>4
  <2>2. CASE AircraftFailed(k)
    <3>1. PICK entry : entry = [key |-> k, value |-> "error", expires |-> clock + ErrorTTL, staleAt |-> clock + ErrorTTL + 0]
      OBVIOUS
    <3>2. cache' = AfterSet(cache, entry, MaxEntries)
      BY <2>2, <3>1 DEF AircraftFailed, Entry
    <3>3. clock + ErrorTTL \in Nat /\ clock + ErrorTTL + 0 \in Nat
      <4>1. ErrorTTL \in Nat
        BY DEF AircraftAssumption
      <4> QED
        BY <1>0, <4>1
    <3>4. entry \in AircraftEntries /\ entry.key = k
      BY <3>1, <3>3 DEF AircraftEntries
    <3> QED
      BY <3>2, <3>4
  <2> QED
    BY <2>1, <2>2
<1>3. circuit' \in Circuits /\ ~circuit'.probing
  <2>1. CASE AircraftAnswered(k)
    BY <2>1, ClosedFacts DEF AircraftAnswered
  <2>2. CASE AircraftFailed(k)
    <3>1. CircuitFailures \in Nat /\ OpenFor \in Nat
      BY DEF AircraftAssumption
    <3>2. circuit' = AfterFailure(circuit, clock, CircuitFailures, OpenFor)
      BY <2>2 DEF AircraftFailed
    <3> QED
      BY <1>0, <3>1, <3>2, FailureFacts
  <2> QED
    BY <2>1, <2>2
<1> QED
  BY <1>1, <1>2, <1>3, LandStep

LEMMA SnapshotsSeen ==
  ASSUME AircraftAssumption, NEW shown \in Snapshots
  PROVE  shown \in Seq(Seen)
<1>1. shown \in Seq(ToSet(shown))
  BY DEF AircraftAssumption
<1>2. Len(shown) \in Nat /\ DOMAIN shown = 1..Len(shown) /\ \A i \in 1..Len(shown) : shown[i] \in ToSet(shown)
  BY <1>1, LenProperties
<1>3. \A i \in 1..Len(shown) : shown[i] \in Seen
  BY <1>2 DEF Seen
<1>4. shown = [i \in 1..Len(shown) |-> shown[i]]
  BY <1>1
<1>5. shown \in [1..Len(shown) -> Seen]
  BY <1>3, <1>4
<1> QED
  BY <1>2, <1>5, SeqDef

\* Every step of the aircraft service keeps its invariant.
LEMMA AircraftStep ==
  ASSUME AircraftAssumption, AircraftIInv, clock' = clock, AircraftNext
  PROVE  AircraftIInv' /\ CacheStep
<1>0. AircraftTypeOK
  BY DEF AircraftIInv
<1>1. CASE \E shown \in Snapshots : ObserveAircraft(shown)
  <2>1. PICK shown \in Snapshots : Observed(shown, clock)
    BY <1>1 DEF ObserveAircraft
  <2>2. shown \in Seq(Seen) /\ clock \in Nat
    BY <1>0, SnapshotsSeen DEF AircraftTypeOK
  <2> QED
    BY <2>1, <2>2, ObserveStep
<1>2. CASE ObserveNext
  <2>1. Observed(observing.left, observing.at)
    BY <1>2 DEF ObserveNext
  <2>2. observing.left \in Seq(Seen) /\ observing.at \in Nat
    BY <1>0 DEF AircraftTypeOK
  <2> QED
    BY <2>1, <2>2, ObserveStep
<1>3. CASE \E k \in AircraftKeys : CachedAircraft(k)
  BY <1>3, CachedStep
<1>4. CASE \E c \in Callers, k \in AircraftKeys : FollowUpAircraft(c, k) \/ LookupUnseen(c, k)
  BY <1>4, FollowUpStep
<1>5. CASE \E c \in Callers : LookupAircraft(c)
  BY <1>5, LookupStep
<1>6. CASE \E w \in Workers : WorkerStep(w)
  BY <1>6, TakeStep, ClearStep, LookupStep DEF WorkerStep
<1>7. CASE \E k \in AircraftKeys : RetryAircraft(k) \/ AircraftAnswered(k) \/ AircraftFailed(k)
  BY <1>7, RetryStep, AnsweredStep
<1> QED
  BY <1>1, <1>2, <1>3, <1>4, <1>5, <1>6, <1>7 DEF AircraftNext

LEMMA AircraftPasses ==
  ASSUME AircraftIInv, UNCHANGED aircraftVars, clock' \in Nat, clock <= clock'
  PROVE  AircraftIInv' /\ CacheStep
<1>1. UNCHANGED <<cache, circuit, admitted, proc, flights, tracker, observing>>
  BY DEF aircraftVars
<1>2. AircraftTypeOK'
  BY <1>1 DEF AircraftIInv, AircraftTypeOK, OneEntryPerKey
<1>3. WorkOK'
  BY <1>1 DEF AircraftIInv, WorkOK, QueueOK, WorkedOn
<1>4. TrackerOK'
  BY <1>1 DEF AircraftIInv, TrackerOK, Accounted, KeyOf
<1>5. FlightsNotFresh'
  <2>1. SUFFICES ASSUME NEW o \in DOMAIN flights PROVE ~Fresh(cache', o, clock')
    BY <1>1 DEF FlightsNotFresh
  <2>2. ~Fresh(cache, o, clock) /\ cache \in Seq(AircraftEntries) /\ OneEntryPerKey(cache) /\ clock \in Nat
    BY DEF AircraftIInv, AircraftTypeOK, FlightsNotFresh
  <2>3. ~Fresh(cache, o, clock')
    BY <2>2, NotFreshKept
  <2> QED
    BY <1>1, <2>3
<1>6. ProbeFlies'
  BY <1>1 DEF AircraftIInv, ProbeFlies
<1>7. CacheStep
  BY <1>1 DEF CacheStep, Holds
<1> QED
  BY <1>2, <1>3, <1>4, <1>5, <1>6, <1>7 DEF AircraftIInv

LEMMA AircraftStarts ==
  ASSUME AircraftAssumption, AircraftInit, clock = 1
  PROVE  AircraftIInv
<1>1. /\ cache = <<>> /\ circuit = Closed /\ admitted = [queue |-> <<>>, pending |-> {}]
      /\ proc = [p \in Workers \cup Callers |-> [phase |-> "idle", key |-> NoKey]]
      /\ flights = <<>> /\ tracker = <<>> /\ observing = [left |-> <<>>, at |-> 0]
  BY DEF AircraftInit, Idle, NoSnapshot
<1>2. WorkedOn = {}
  BY <1>1 DEF WorkedOn
<1>3. AircraftTypeOK
  <2>1. cache \in Seq(AircraftEntries) /\ OneEntryPerKey(cache)
    BY <1>1 DEF OneEntryPerKey
  <2>2. circuit \in Circuits
    BY <1>1 DEF Closed, Circuits
  <2>3. proc \in [Workers \cup Callers -> Processes] /\ \A p \in Workers \cup Callers : proc[p].phase # "idle" <=> proc[p].key \in AircraftKeys
    BY <1>1 DEF Processes, AircraftAssumption
  <2>4. DOMAIN flights \subseteq AircraftKeys /\ flights \in [DOMAIN flights -> Flights]
    BY <1>1
  <2>5. tracker \in Seq(Tracks) /\ clock \in Nat
    BY <1>1
  <2>6. admitted \in [queue : Seq(AircraftKeys), pending : SUBSET AircraftKeys]
    BY <1>1
  <2>7. observing \in [left : Seq(Seen), at : Nat]
    BY <1>1
  <2> QED
    BY <2>1, <2>2, <2>3, <2>4, <2>5, <2>6, <2>7 DEF AircraftTypeOK
<1>4. QueueOK(admitted, WorkedOn)
  <2>1. admitted.queue = <<>> /\ admitted.pending = {}
    BY <1>1
  <2> QED
    BY <1>2, <2>1 DEF QueueOK
<1>5. WorkOK
  BY <1>1, <1>4 DEF WorkOK
<1>6. TrackerOK /\ FlightsNotFresh
  BY <1>1 DEF TrackerOK, FlightsNotFresh
<1>7. ProbeFlies
  BY <1>1 DEF ProbeFlies, Closed
<1> QED
  BY <1>3, <1>5, <1>6, <1>7 DEF AircraftIInv

\* What the runs check of the aircraft.
LEMMA AircraftPromises ==
  ASSUME AircraftAssumption, AircraftIInv
  PROVE  /\ OnlyThese(admitted, WorkedOn)
         /\ \A v, w \in Workers : v # w /\ proc[v].phase # "idle" => proc[v].key # proc[w].key
         /\ AdmissionsAccounted
<1>1. OnlyThese(admitted, WorkedOn)
  <2>1. IsFiniteSet(WorkedOn)
    <3>1. IsFiniteSet(Workers)
      BY DEF AircraftAssumption
    <3>2. PICK V : V = {v \in Workers : proc[v].phase # "idle"}
      OBVIOUS
    <3>3. IsFiniteSet(V)
      BY <3>1, <3>2, FS_Subset
    <3>4. IsFiniteSet({proc[w].key : w \in V})
      <4>1. PICK T, f : T = {proc[w].key : w \in V} /\ f = [w \in V |-> proc[w].key]
        OBVIOUS
      <4>2. f \in Surjection(V, T)
        BY <4>1 DEF Surjection
      <4> QED
        BY <3>3, <4>1, <4>2, FS_Surjection
    <3> QED
      BY <3>2, <3>4 DEF WorkedOn
  <2> QED
    BY <2>1, QueueCounts DEF AircraftIInv, AircraftTypeOK, WorkOK
<1>2. \A v, w \in Workers : v # w /\ proc[v].phase # "idle" => proc[v].key # proc[w].key
  BY DEF AircraftIInv, AircraftTypeOK, WorkOK
<1>3. AdmissionsAccounted
  BY DEF AircraftIInv, TrackerOK, Accounted, KeyOf, AdmissionsAccounted
<1> QED
  BY <1>1, <1>2, <1>3

\* FreshAircraftKept, of one step.
LEMMA FreshKept ==
  ASSUME AircraftIInv, AircraftIInv', CacheStep, NEW k \in AircraftKeys,
         Fresh(cache, k, clock), EntryOf(cache, k).value = "found", k \in CachedKeys(cache')
  PROVE  EntryOf(cache', k).value = "found"
<1>1. /\ cache \in Seq(AircraftEntries) /\ OneEntryPerKey(cache)
      /\ cache' \in Seq(AircraftEntries) /\ OneEntryPerKey(cache')
  BY DEF AircraftIInv, AircraftTypeOK
<1>2. k \notin DOMAIN flights
  BY DEF AircraftIInv, FlightsNotFresh
<1>3. Holds(cache', EntryOf(cache', k)) /\ EntryOf(cache', k).key = k
  BY <1>1, EntryFacts
<1>4. Holds(cache, EntryOf(cache', k))
  BY <1>2, <1>3 DEF CacheStep
<1>5. EntryOf(cache, k) = EntryOf(cache', k)
  BY <1>1, <1>3, <1>4, EntryFacts
<1> QED
  BY <1>5

-----------------------------------------------------------------------------
(* Routes and airports.                                                    *)

LEMMA NoCallFacts ==
  /\ NoCall \in Calls /\ NoCall.phase = "idle" /\ NoCall.keys = <<>> /\ NoCall.kind = "route"
<1>1. <<>> \in Seq(RouteKeys) /\ {} \in SUBSET RouteKeys /\ FALSE \in BOOLEAN /\ 0 \in Nat
  OBVIOUS
<1> QED
  BY <1>1 DEF NoCall, Calls

\* The call of one handler or of the worker changes.
LEMMA CallChanges ==
  ASSUME RouteIInv, NEW p \in RouteCallers \cup {RouteWorker}, NEW n \in Calls, calls' = [calls EXCEPT ![p] = n]
  PROVE  /\ calls' \in [RouteCallers \cup {RouteWorker} -> Calls]
         /\ DOMAIN calls = RouteCallers \cup {RouteWorker} /\ DOMAIN calls' = DOMAIN calls
         /\ calls'[p] = n /\ \A o \in RouteCallers \cup {RouteWorker} : o # p => calls'[o] = calls[o]
BY DEF RouteIInv, RouteTypeOK

\* A handler begins, goes on or is over.
LEMMA HandlerStep ==
  ASSUME RouteAssumption, RouteIInv, clock' = clock, NEW c \in RouteCallers, NEW n \in Calls,
         calls' = [calls EXCEPT ![c] = n],
         n.phase = "lookup" => n.keys[1] \in KeysOf(n.kind)
  PROVE  /\ calls' \in [RouteCallers \cup {RouteWorker} -> Calls] /\ CallsOK'
         /\ \A kind : WorkerKeys(kind)' = WorkerKeys(kind)
<1>1. c # RouteWorker /\ c \in RouteCallers \cup {RouteWorker} /\ RouteWorker \in RouteCallers \cup {RouteWorker}
  BY DEF RouteAssumption
<1>2. /\ calls' \in [RouteCallers \cup {RouteWorker} -> Calls]
      /\ calls'[c] = n /\ \A o \in RouteCallers \cup {RouteWorker} : o # c => calls'[o] = calls[o]
  BY <1>1, CallChanges
<1>3. calls'[RouteWorker] = calls[RouteWorker]
  BY <1>1, <1>2
<1>4. CallsOK'
  <2>1. \A o \in RouteCallers : calls'[o].phase = "lookup" => calls'[o].keys[1] \in KeysOf(calls'[o].kind)
    BY <1>2 DEF RouteIInv, CallsOK
  <2>2. /\ calls'[RouteWorker].phase = "idle" => calls'[RouteWorker].keys = <<>>
        /\ calls'[RouteWorker].phase = "collect" => calls'[RouteWorker].kind = "route"
    BY <1>3 DEF RouteIInv, CallsOK
  <2> QED
    BY <2>1, <2>2 DEF CallsOK, KeysOf
<1>5. \A kind : WorkerKeys(kind)' = WorkerKeys(kind)
  BY <1>3 DEF WorkerKeys
<1> QED
  BY <1>2, <1>4, <1>5

\* Nobody who has a request moves.
LEMMA ProbeKept ==
  ASSUME RouteIInv, NEW p \in RouteCallers \cup {RouteWorker}, NEW n \in Calls,
         calls' = [calls EXCEPT ![p] = n], routeCircuit' = routeCircuit,
         calls[p].phase \notin {"wait", "request"}
  PROVE  RouteProbeFlies'
<1>1. /\ DOMAIN calls = RouteCallers \cup {RouteWorker} /\ DOMAIN calls' = DOMAIN calls
      /\ calls'[p] = n /\ \A o \in RouteCallers \cup {RouteWorker} : o # p => calls'[o] = calls[o]
  BY CallChanges
<1> QED
  BY <1>1 DEF RouteIInv, RouteProbeFlies

\* A key is asked for unless it is fresh.
LEMMA AskedFacts ==
  ASSUME NEW K, NEW q, q \in [queue : Seq(K), pending : SUBSET K], NEW busy, QueueOK(q, busy),
         NEW k \in K, NEW size \in Nat \ {0}, NEW c
  PROVE  /\ Asked([cache |-> c, q |-> q], k, size).q \in [queue : Seq(K), pending : SUBSET K]
         /\ QueueOK(Asked([cache |-> c, q |-> q], k, size).q, busy)
<1>1. /\ Queued(q, k, size) \in [queue : Seq(K), pending : SUBSET K]
      /\ QueueOK(Queued(q, k, size), busy)
  BY QueuedFacts
<1>2. PICK s : s = [cache |-> c, q |-> q]
  OBVIOUS
<1>3. s.q = q
  BY <1>2
<1>4. Asked(s, k, size).q = IF Fresh(s.cache, k, clock) THEN q ELSE Queued(q, k, size)
  BY <1>3 DEF Asked
<1>5. Asked(s, k, size).q = q \/ Asked(s, k, size).q = Queued(q, k, size)
  BY <1>4
<1> QED
  BY <1>1, <1>2, <1>5, Zenon

\* The queues after a request for a callsign or for an airport.
LEMMA RouteAsked ==
  ASSUME RouteAssumption, RouteIInv, NEW k \in RouteCallsigns, NEW c
  PROVE  /\ Asked([cache |-> c, q |-> routeQ], k, RouteQueueSize).q
              \in [queue : Seq(RouteCallsigns), pending : SUBSET RouteCallsigns]
         /\ QueueOK(Asked([cache |-> c, q |-> routeQ], k, RouteQueueSize).q, WorkerKeys("route"))
<1>1. /\ routeQ \in [queue : Seq(RouteCallsigns), pending : SUBSET RouteCallsigns]
      /\ QueueOK(routeQ, WorkerKeys("route")) /\ RouteQueueSize \in Nat \ {0}
  BY DEF RouteIInv, RouteTypeOK, RouteQueuesOK, RouteAssumption
<1> QED
  BY <1>1, AskedFacts

LEMMA AirportAsked ==
  ASSUME RouteAssumption, RouteIInv, NEW k \in Airports, NEW c
  PROVE  /\ Asked([cache |-> c, q |-> airportQ], k, AirportQueueSize).q
              \in [queue : Seq(Airports), pending : SUBSET Airports]
         /\ QueueOK(Asked([cache |-> c, q |-> airportQ], k, AirportQueueSize).q, WorkerKeys("airport"))
<1>1. /\ airportQ \in [queue : Seq(Airports), pending : SUBSET Airports]
      /\ QueueOK(airportQ, WorkerKeys("airport")) /\ AirportQueueSize \in Nat \ {0}
  BY DEF RouteIInv, RouteTypeOK, RouteQueuesOK, RouteAssumption
<1> QED
  BY <1>1, AskedFacts

\* The rest of a step is put together.
LEMMA RouteTogether ==
  ASSUME RouteIInv, clock' = clock, calls' \in [RouteCallers \cup {RouteWorker} -> Calls], CallsOK',
         \A kind : WorkerKeys(kind)' = WorkerKeys(kind),
         routeQ' \in [queue : Seq(RouteCallsigns), pending : SUBSET RouteCallsigns],
         QueueOK(routeQ', WorkerKeys("route")),
         airportQ' \in [queue : Seq(Airports), pending : SUBSET Airports],
         QueueOK(airportQ', WorkerKeys("airport")),
         routeCircuit' \in Circuits, UNCHANGED <<cursor, walk>>, RouteProbeFlies'
  PROVE  RouteIInv'
<1>1. RouteTypeOK'
  BY DEF RouteIInv, RouteTypeOK, NoWalk
<1>2. RouteQueuesOK'
  <2>1. WorkerKeys("route")' = WorkerKeys("route") /\ WorkerKeys("airport")' = WorkerKeys("airport")
    OBVIOUS
  <2> QED
    BY <2>1 DEF RouteQueuesOK
<1> QED
  BY <1>1, <1>2 DEF RouteIInv

LEMMA RouteCommandStep ==
  ASSUME RouteAssumption, RouteIInv, clock' = clock, NEW c \in RouteCallers, NEW k \in RouteCallsigns, RouteCommand(c, k)
  PROVE  RouteIInv'
<1>1. /\ calls[c].phase = "idle"
      /\ UNCHANGED <<airports, airportQ, routeCircuit, cursor, walk>>
      /\ \/ UNCHANGED <<routeQ, calls>>
         \/ /\ routeQ' = Asked([cache |-> routes, q |-> routeQ], k, RouteQueueSize).q
            /\ calls' = [calls EXCEPT ![c] = [NoCall EXCEPT !.phase = "lookup", !.keys = <<k>>]]
  BY DEF RouteCommand
<1>2. calls \in [RouteCallers \cup {RouteWorker} -> Calls] /\ c \in RouteCallers \cup {RouteWorker}
  BY DEF RouteIInv, RouteTypeOK
<1>3. PICK n : n = [NoCall EXCEPT !.phase = "lookup", !.keys = <<k>>]
  OBVIOUS
<1>4. n \in Calls /\ n.keys[1] = k /\ n.kind = "route"
  <2>1. <<k>> \in Seq(RouteKeys) /\ <<k>>[1] = k
    BY DEF RouteKeys
  <2>2. n \in Calls /\ n.keys = <<k>> /\ n.kind = "route"
    BY <1>3, <2>1, NoCallFacts DEF Calls
  <2> QED
    BY <2>1, <2>2
<1>6. CASE UNCHANGED <<routeQ, calls>>
  <2>1. CallsOK' /\ RouteProbeFlies' /\ \A kind : WorkerKeys(kind)' = WorkerKeys(kind)
    BY <1>1, <1>6 DEF RouteIInv, CallsOK, RouteProbeFlies, WorkerKeys, KeysOf
  <2> QED
    BY <1>1, <1>2, <1>6, <2>1, RouteTogether DEF RouteIInv, RouteTypeOK, RouteQueuesOK
<1>7. CASE /\ routeQ' = Asked([cache |-> routes, q |-> routeQ], k, RouteQueueSize).q
           /\ calls' = [calls EXCEPT ![c] = n]
  <2>1. /\ calls' \in [RouteCallers \cup {RouteWorker} -> Calls] /\ CallsOK'
        /\ \A kind : WorkerKeys(kind)' = WorkerKeys(kind)
    <3>1. n.keys[1] \in KeysOf(n.kind)
      BY <1>4 DEF KeysOf
    <3> QED
      BY <1>4, <1>7, <3>1, HandlerStep
  <2>2. RouteProbeFlies'
    BY <1>1, <1>2, <1>4, <1>7, ProbeKept
  <2>3. routeQ' \in [queue : Seq(RouteCallsigns), pending : SUBSET RouteCallsigns] /\ QueueOK(routeQ', WorkerKeys("route"))
    BY <1>7, RouteAsked
  <2> QED
    BY <1>1, <2>1, <2>2, <2>3, RouteTogether DEF RouteIInv, RouteTypeOK, RouteQueuesOK
<1> QED
  BY <1>1, <1>3, <1>6, <1>7

LEMMA AirportCommandStep ==
  ASSUME RouteAssumption, RouteIInv, clock' = clock, NEW c \in RouteCallers, NEW k \in Airports, AirportCommand(c, k)
  PROVE  RouteIInv'
<1>1. /\ calls[c].phase = "idle"
      /\ UNCHANGED <<routes, routeQ, routeCircuit, cursor, walk>>
      /\ \/ UNCHANGED <<airportQ, calls>>
         \/ /\ airportQ' = Asked([cache |-> airports, q |-> airportQ], k, AirportQueueSize).q
            /\ \/ calls' = calls
               \/ calls' = [calls EXCEPT ![c] = [NoCall EXCEPT !.phase = "lookup", !.kind = "airport", !.keys = <<k>>]]
  BY DEF AirportCommand
<1>2. calls \in [RouteCallers \cup {RouteWorker} -> Calls] /\ c \in RouteCallers \cup {RouteWorker}
  BY DEF RouteIInv, RouteTypeOK
<1>3. PICK n : n = [NoCall EXCEPT !.phase = "lookup", !.kind = "airport", !.keys = <<k>>]
  OBVIOUS
<1>4. n \in Calls /\ n.keys[1] = k /\ n.kind = "airport"
  <2>1. <<k>> \in Seq(RouteKeys) /\ <<k>>[1] = k
    BY DEF RouteKeys
  <2>2. n \in Calls /\ n.keys = <<k>> /\ n.kind = "airport"
    BY <1>3, <2>1, NoCallFacts DEF Calls
  <2> QED
    BY <2>1, <2>2
<1>6. airportQ' \in [queue : Seq(Airports), pending : SUBSET Airports] /\ QueueOK(airportQ', WorkerKeys("airport"))
  <2>1. CASE airportQ' = airportQ
    BY <2>1 DEF RouteIInv, RouteTypeOK, RouteQueuesOK
  <2>2. CASE airportQ' = Asked([cache |-> airports, q |-> airportQ], k, AirportQueueSize).q
    BY <2>2, AirportAsked
  <2> QED
    BY <1>1, <2>1, <2>2
<1>7. CASE calls' = calls
  <2>1. CallsOK' /\ RouteProbeFlies' /\ \A kind : WorkerKeys(kind)' = WorkerKeys(kind)
    BY <1>1, <1>7 DEF RouteIInv, CallsOK, RouteProbeFlies, WorkerKeys, KeysOf
  <2> QED
    BY <1>1, <1>2, <1>6, <1>7, <2>1, RouteTogether DEF RouteIInv, RouteTypeOK, RouteQueuesOK
<1>8. CASE calls' = [calls EXCEPT ![c] = n]
  <2>1. /\ calls' \in [RouteCallers \cup {RouteWorker} -> Calls] /\ CallsOK'
        /\ \A kind : WorkerKeys(kind)' = WorkerKeys(kind)
    <3>1. n.keys[1] \in KeysOf(n.kind)
      BY <1>4 DEF KeysOf
    <3> QED
      BY <1>4, <1>8, <3>1, HandlerStep
  <2>2. RouteProbeFlies'
    BY <1>1, <1>2, <1>4, <1>8, ProbeKept
  <2> QED
    BY <1>1, <1>6, <2>1, <2>2, RouteTogether DEF RouteIInv, RouteTypeOK, RouteQueuesOK
<1> QED
  BY <1>1, <1>3, <1>7, <1>8

LEMMA LookupRouteStep ==
  ASSUME RouteAssumption, RouteIInv, clock' = clock, NEW c \in RouteCallers, LookupRoute(c)
  PROVE  RouteIInv'
<1>1. calls \in [RouteCallers \cup {RouteWorker} -> Calls] /\ c \in RouteCallers \cup {RouteWorker}
  BY DEF RouteIInv, RouteTypeOK
<1>2. PICK k : k = calls[c].keys[1]
  OBVIOUS
<1>3. /\ calls[c].phase = "lookup" /\ UNCHANGED <<routeCircuit, cursor, walk>>
      /\ \/ calls' = [calls EXCEPT ![c] = NoCall]
         \/ calls' = [calls EXCEPT ![c] = [calls[c] EXCEPT !.phase = "fetch"]]
      /\ \/ routeQ' = routeQ
         \/ calls[c].kind = "route" /\ routeQ' = Asked([cache |-> routes, q |-> routeQ], k, RouteQueueSize).q
      /\ \/ airportQ' = airportQ
         \/ calls[c].kind # "route" /\ airportQ' = Asked([cache |-> airports, q |-> airportQ], k, AirportQueueSize).q
  <2>1. CASE calls[c].kind = "route"
    BY <1>2, <2>1 DEF LookupRoute
  <2>2. CASE calls[c].kind # "route"
    BY <1>2, <2>2 DEF LookupRoute
  <2> QED
    BY <2>1, <2>2
<1>4. k \in KeysOf(calls[c].kind)
  BY <1>2, <1>3 DEF RouteIInv, CallsOK
<1>5. routeQ' \in [queue : Seq(RouteCallsigns), pending : SUBSET RouteCallsigns] /\ QueueOK(routeQ', WorkerKeys("route"))
  <2>1. CASE routeQ' = routeQ
    BY <2>1 DEF RouteIInv, RouteTypeOK, RouteQueuesOK
  <2>2. CASE calls[c].kind = "route" /\ routeQ' = Asked([cache |-> routes, q |-> routeQ], k, RouteQueueSize).q
    <3>1. k \in RouteCallsigns
      BY <1>4, <2>2 DEF KeysOf
    <3> QED
      BY <2>2, <3>1, RouteAsked
  <2> QED
    BY <1>3, <2>1, <2>2
<1>6. airportQ' \in [queue : Seq(Airports), pending : SUBSET Airports] /\ QueueOK(airportQ', WorkerKeys("airport"))
  <2>1. CASE airportQ' = airportQ
    BY <2>1 DEF RouteIInv, RouteTypeOK, RouteQueuesOK
  <2>2. CASE calls[c].kind # "route" /\ airportQ' = Asked([cache |-> airports, q |-> airportQ], k, AirportQueueSize).q
    <3>1. k \in Airports
      BY <1>4, <2>2 DEF KeysOf
    <3> QED
      BY <2>2, <3>1, AirportAsked
  <2> QED
    BY <1>3, <2>1, <2>2
<1>7. PICK n \in Calls : calls' = [calls EXCEPT ![c] = n] /\ n.phase # "lookup"
  <2>1. PICK d : d = [calls[c] EXCEPT !.phase = "fetch"]
    OBVIOUS
  <2>2. d \in Calls /\ d.phase = "fetch"
    <3>1. calls[c] \in Calls
      BY <1>1
    <3> QED
      BY <2>1, <3>1 DEF Calls
  <2>3. NoCall \in Calls /\ NoCall.phase = "idle"
    BY NoCallFacts
  <2>4. CASE calls' = [calls EXCEPT ![c] = NoCall]
    BY <2>3, <2>4
  <2>5. CASE calls' = [calls EXCEPT ![c] = d]
    BY <2>2, <2>5
  <2> QED
    BY <1>3, <2>1, <2>4, <2>5
<1>8. /\ calls' \in [RouteCallers \cup {RouteWorker} -> Calls] /\ CallsOK'
      /\ \A kind : WorkerKeys(kind)' = WorkerKeys(kind)
  BY <1>7, HandlerStep
<1>9. RouteProbeFlies'
  BY <1>1, <1>3, <1>7, ProbeKept
<1> QED
  BY <1>3, <1>5, <1>6, <1>8, <1>9, RouteTogether DEF RouteIInv, RouteTypeOK

LEMMA RemainderFacts ==
  ASSUME NEW a \in Nat, NEW b \in Nat, b # 0
  PROVE  a % b \in Nat /\ (a % b) + 1 \in 1..b
OBVIOUS

\* One aircraft of a prefetch.
LEMMA ExaminedStep ==
  ASSUME RouteAssumption, RouteIInv, clock' = clock,
         NEW w \in [over : RouteSnapshots, examined : Nat, queued : Nat], w.over # <<>>, Examined(w)
  PROVE  RouteIInv'
<1>1. PICK o \in RouteSnapshots, x \in Nat, y \in Nat : w = [over |-> o, examined |-> x, queued |-> y]
  OBVIOUS
<1>2. o # <<>> /\ w.over = o /\ w.examined = x /\ w.queued = y
  BY <1>1
<1>3. cursor \in Nat /\ Len(o) \in Nat /\ Len(o) # 0 /\ DOMAIN o = 1..Len(o)
  <2>1. o \in Seq(ToSet(o))
    BY DEF RouteAssumption
  <2> QED
    BY <1>2, <2>1, LenProperties DEF RouteIInv, RouteTypeOK
<1>4. PICK aircraft : aircraft = o[((cursor + x) % Len(o)) + 1]
  OBVIOUS
<1>5. aircraft.callsign \in RouteCallsigns \cup {NoCallsign}
  <2>1. ((cursor + x) % Len(o)) + 1 \in DOMAIN o
    <3>1. cursor + x \in Nat
      BY <1>3
    <3>2. ((cursor + x) % Len(o)) + 1 \in 1..Len(o)
      BY <1>3, <3>1, RemainderFacts
    <3> QED
      BY <1>3, <3>2
  <2> QED
    BY <1>4, <2>1 DEF RouteAssumption
<1>6. routeQ' = routeQ \/ /\ aircraft.callsign # NoCallsign
                          /\ routeQ' = Asked([cache |-> routes, q |-> routeQ], aircraft.callsign, RouteQueueSize).q
  BY <1>2, <1>4 DEF Examined
<1>7. routeQ' \in [queue : Seq(RouteCallsigns), pending : SUBSET RouteCallsigns] /\ QueueOK(routeQ', WorkerKeys("route"))
  <2>1. CASE routeQ' = routeQ
    BY <2>1 DEF RouteIInv, RouteTypeOK, RouteQueuesOK
  <2>2. CASE /\ aircraft.callsign # NoCallsign
             /\ routeQ' = Asked([cache |-> routes, q |-> routeQ], aircraft.callsign, RouteQueueSize).q
    BY <1>5, <2>2, RouteAsked
  <2> QED
    BY <1>6, <2>1, <2>2
<1>8. UNCHANGED <<airports, airportQ, routeCircuit, calls>>
  BY DEF Examined
<1>17. PICK d : d = IF ~aircraft.position \/ aircraft.callsign = NoCallsign \/ Asked([cache |-> routes, q |-> routeQ], aircraft.callsign, RouteQueueSize).q = routeQ THEN 0 ELSE 1
  OBVIOUS
<1>9. PICK z : z = y + d
  OBVIOUS
<1>10. z \in Nat
  BY <1>9, <1>17
<1>11. PICK next : next = [w EXCEPT !.examined = x + 1, !.queued = z]
  OBVIOUS
<1>18. /\ next \in [over : RouteSnapshots, examined : Nat, queued : Nat]
       /\ next.over = o /\ next.examined = x + 1
  <2>1. x + 1 \in Nat
    OBVIOUS
  <2> QED
    BY <1>2, <1>10, <1>11, <2>1
<1>12. \/ walk' = NoWalk /\ cursor' = (cursor + next.examined) % Len(w.over)
       \/ walk' = next /\ cursor' = cursor
  <2>1. [w EXCEPT !.examined = @ + 1, !.queued = @ + d] = next
    BY <1>2, <1>9, <1>11, Zenon
  <2> QED
    BY <1>2, <1>4, <1>17, <2>1 DEF Examined
<1>13. /\ walk' \in [over : {<<>>} \cup RouteSnapshots, examined : Nat, queued : Nat]
       /\ walk' # NoWalk => walk'.over # <<>>
       /\ cursor' \in Nat
  <2>1. CASE walk' = NoWalk /\ cursor' = (cursor + next.examined) % Len(w.over)
    <3>1. NoWalk \in [over : {<<>>} \cup RouteSnapshots, examined : Nat, queued : Nat]
      BY DEF NoWalk
    <3>2. next.examined = x + 1 /\ cursor + (x + 1) \in Nat
      BY <1>3, <1>18
    <3>4. cursor' = (cursor + (x + 1)) % Len(o)
      BY <1>2, <2>1, <3>2
    <3>5. (cursor + (x + 1)) % Len(o) \in Nat
      <4>1. PICK a, b : a = cursor + (x + 1) /\ b = Len(o)
        OBVIOUS
      <4>2. a \in Nat /\ b \in Nat /\ b # 0
        BY <1>3, <3>2, <4>1
      <4>3. a % b \in Nat
        BY <4>2, RemainderFacts
      <4> QED
        BY <4>1, <4>3, Zenon
    <3>3. cursor' \in Nat
      BY <3>4, <3>5
    <3> QED
      BY <2>1, <3>1, <3>3
  <2>2. CASE walk' = next /\ cursor' = cursor
    BY <1>2, <1>3, <1>18, <2>2
  <2> QED
    BY <1>12, <2>1, <2>2
<1>14. RouteTypeOK'
  BY <1>7, <1>8, <1>13 DEF RouteIInv, RouteTypeOK, NoWalk
<1>15. CallsOK' /\ RouteProbeFlies'
  BY <1>8 DEF RouteIInv, CallsOK, RouteProbeFlies, KeysOf
<1>16. RouteQueuesOK'
  <2>1. WorkerKeys("route")' = WorkerKeys("route") /\ WorkerKeys("airport")' = WorkerKeys("airport")
    BY <1>8 DEF WorkerKeys
  <2> QED
    BY <1>7, <1>8, <2>1 DEF RouteIInv, RouteQueuesOK
<1> QED
  BY <1>14, <1>15, <1>16 DEF RouteIInv

LEMMA PrefetchStep ==
  ASSUME RouteAssumption, RouteIInv, clock' = clock,
         PrefetchNext \/ \E shown \in RouteSnapshots : Prefetch(shown)
  PROVE  RouteIInv'
<1>1. CASE PrefetchNext
  <2>1. walk \in [over : RouteSnapshots, examined : Nat, queued : Nat] /\ walk.over # <<>> /\ Examined(walk)
    BY <1>1 DEF PrefetchNext, RouteIInv, RouteTypeOK
  <2> QED
    BY <2>1, ExaminedStep
<1>2. ASSUME NEW shown \in RouteSnapshots, Prefetch(shown) PROVE RouteIInv'
  <2>1. PICK w : w = [NoWalk EXCEPT !.over = shown]
    OBVIOUS
  <2>2. w = [over |-> shown, examined |-> 0, queued |-> 0]
    BY <2>1 DEF NoWalk
  <2>3. w \in [over : RouteSnapshots, examined : Nat, queued : Nat] /\ w.over = shown
    BY <2>2
  <2>4. shown # <<>> /\ Examined(w)
    BY <1>2, <2>1 DEF Prefetch
  <2> QED
    BY <2>3, <2>4, ExaminedStep
<1> QED
  BY <1>1, <1>2

\* The worker goes on.
LEMMA WorkerGoesOn ==
  ASSUME RouteAssumption, RouteIInv, NEW n \in Calls, calls' = [calls EXCEPT ![RouteWorker] = n],
         n.phase = "idle" => n.keys = <<>>, n.phase = "collect" => n.kind = "route"
  PROVE  /\ calls' \in [RouteCallers \cup {RouteWorker} -> Calls] /\ CallsOK'
         /\ \A kind : WorkerKeys(kind)' = IF n.kind = kind THEN ToSet(n.keys) ELSE {}
<1>1. RouteWorker \in RouteCallers \cup {RouteWorker} /\ RouteWorker \notin RouteCallers
  BY DEF RouteAssumption
<1>2. /\ calls' \in [RouteCallers \cup {RouteWorker} -> Calls]
      /\ calls'[RouteWorker] = n /\ \A o \in RouteCallers \cup {RouteWorker} : o # RouteWorker => calls'[o] = calls[o]
  BY <1>1, CallChanges
<1>3. \A o \in RouteCallers : calls'[o].phase = "lookup" => calls'[o].keys[1] \in KeysOf(calls'[o].kind)
  BY <1>1, <1>2 DEF RouteIInv, CallsOK
<1>4. CallsOK'
  BY <1>2, <1>3 DEF CallsOK, KeysOf
<1>5. \A kind : WorkerKeys(kind)' = IF n.kind = kind THEN ToSet(n.keys) ELSE {}
  BY <1>2 DEF WorkerKeys
<1> QED
  BY <1>2, <1>4, <1>5

LEMMA ToSetFacts ==
  /\ \A h : ToSet(<<h>>) = {h}
  /\ ToSet(<<>>) = {}
  /\ \A K : \A s \in Seq(K), h \in K : ToSet(Append(s, h)) = ToSet(s) \cup {h}
  /\ \A K : \A s \in Seq(K) : IsFiniteSet(ToSet(s)) /\ ToSet(s) \subseteq K
<1>1. \A h : ToSet(<<h>>) = {h}
  BY DEF ToSet
<1>2. ToSet(<<>>) = {}
  BY DEF ToSet
<1>3. ASSUME NEW K, NEW s \in Seq(K), NEW h \in K PROVE ToSet(Append(s, h)) = ToSet(s) \cup {h}
  <2>1. PICK a : a = Append(s, h)
    OBVIOUS
  <2>2. /\ a \in Seq(K) /\ Len(a) = Len(s) + 1
        /\ \A i \in 1..Len(s) : a[i] = s[i]
        /\ a[Len(s) + 1] = h
    BY <2>1, AppendProperties
  <2>3. DOMAIN a = 1..(Len(s) + 1) /\ DOMAIN s = 1..Len(s) /\ Len(s) \in Nat
    BY <2>2, LenProperties
  <2>4. \A x : x \in ToSet(a) <=> x \in ToSet(s) \/ x = h
    <3>1. SUFFICES ASSUME NEW x PROVE x \in ToSet(a) <=> x \in ToSet(s) \/ x = h
      OBVIOUS
    <3>2. x \in ToSet(a) <=> \E i \in 1..(Len(s) + 1) : a[i] = x
      BY <2>3 DEF ToSet
    <3>3. x \in ToSet(s) <=> \E i \in 1..Len(s) : s[i] = x
      BY <2>3 DEF ToSet
    <3>4. \A i \in 1..(Len(s) + 1) : i \in 1..Len(s) \/ i = Len(s) + 1
      BY <2>3
    <3>5. \A i \in 1..Len(s) : i \in 1..(Len(s) + 1)
      BY <2>3
    <3>6. Len(s) + 1 \in 1..(Len(s) + 1)
      BY <2>3
    <3> QED
      BY <2>2, <3>2, <3>3, <3>4, <3>5, <3>6
  <2> QED
    BY <2>1, <2>4
<1>4. ASSUME NEW K, NEW s \in Seq(K) PROVE IsFiniteSet(ToSet(s)) /\ ToSet(s) \subseteq K
  <2>1. DOMAIN s = 1..Len(s) /\ Len(s) \in Nat /\ \A i \in 1..Len(s) : s[i] \in K
    BY LenProperties
  <2>2. PICK T : T = ToSet(s)
    OBVIOUS
  <2>3. T = {s[i] : i \in 1..Len(s)}
    BY <2>1, <2>2 DEF ToSet
  <2>4. IsFiniteSet(1..Len(s))
    BY <2>1, FS_Interval
  <2>5. s \in Surjection(1..Len(s), T)
    BY <2>1, <2>3 DEF Surjection
  <2> QED
    BY <2>1, <2>2, <2>3, <2>4, <2>5, FS_Surjection
<1> QED
  BY <1>1, <1>2, <1>3, <1>4

LEMMA TakeAirportStep ==
  ASSUME RouteAssumption, RouteIInv, clock' = clock, TakeAirport
  PROVE  RouteIInv'
<1>1. PICK q, p : q \in Seq(Airports) /\ p \in SUBSET Airports /\ airportQ = [queue |-> q, pending |-> p]
  BY DEF RouteIInv, RouteTypeOK
<1>2. PICK h, t : h = Head(q) /\ t = Tail(q)
  OBVIOUS
<1>3. PICK n : n = [NoCall EXCEPT !.phase = "fetch", !.kind = "airport", !.keys = <<h>>]
  OBVIOUS
<1>4. /\ calls[RouteWorker].phase = "idle" /\ q # <<>>
      /\ calls' = [calls EXCEPT ![RouteWorker] = n]
      /\ airportQ' = [queue |-> t, pending |-> p]
      /\ UNCHANGED <<routes, airports, routeQ, routeCircuit, cursor, walk>>
  BY <1>1, <1>2, <1>3 DEF TakeAirport
<1>5. WorkerKeys("route") = {} /\ WorkerKeys("airport") = {}
  BY <1>4, ToSetFacts DEF RouteIInv, CallsOK, WorkerKeys
<1>6. /\ QueueOK([queue |-> t, pending |-> p], {h}) /\ t \in Seq(Airports) /\ h \in Airports
  <2>1. QueueOK([queue |-> q, pending |-> p], {})
    BY <1>1, <1>5 DEF RouteIInv, RouteQueuesOK
  <2>2. /\ QueueOK([queue |-> Tail(q), pending |-> p], {} \cup {Head(q)})
        /\ Tail(q) \in Seq(Airports) /\ Head(q) \in Airports
    BY <1>1, <1>4, <2>1, TakenFacts
  <2>3. {} \cup {Head(q)} = {Head(q)}
    OBVIOUS
  <2> QED
    BY <1>2, <2>2, <2>3
<1>7. n \in Calls /\ n.phase = "fetch" /\ n.kind = "airport" /\ n.keys = <<h>>
  <2>1. <<h>> \in Seq(RouteKeys)
    BY <1>6 DEF RouteKeys
  <2> QED
    BY <1>3, <2>1, NoCallFacts DEF Calls
<1>8. /\ calls' \in [RouteCallers \cup {RouteWorker} -> Calls] /\ CallsOK'
      /\ \A kind : WorkerKeys(kind)' = IF n.kind = kind THEN ToSet(n.keys) ELSE {}
  BY <1>4, <1>7, WorkerGoesOn
<1>9. WorkerKeys("route")' = {} /\ WorkerKeys("airport")' = {h}
  BY <1>7, <1>8, ToSetFacts
<1>10. RouteProbeFlies'
  BY <1>4, <1>7, ProbeKept
<1>11. airportQ' \in [queue : Seq(Airports), pending : SUBSET Airports]
  BY <1>1, <1>4, <1>6
<1>12. RouteTypeOK'
  BY <1>4, <1>8, <1>11 DEF RouteIInv, RouteTypeOK, NoWalk
<1>13. RouteQueuesOK'
  BY <1>4, <1>5, <1>6, <1>9 DEF RouteIInv, RouteQueuesOK
<1> QED
  BY <1>8, <1>10, <1>12, <1>13 DEF RouteIInv

LEMMA TakeRouteStep ==
  ASSUME RouteAssumption, RouteIInv, clock' = clock, TakeRoute
  PROVE  RouteIInv'
<1>1. PICK q, p : q \in Seq(RouteCallsigns) /\ p \in SUBSET RouteCallsigns /\ routeQ = [queue |-> q, pending |-> p]
  BY DEF RouteIInv, RouteTypeOK
<1>2. PICK h, t, s : h = Head(q) /\ t = Tail(q) /\ s = calls[RouteWorker].keys
  OBVIOUS
<1>3. PICK n : n = [NoCall EXCEPT !.phase = "collect", !.keys = Append(s, h)]
  OBVIOUS
<1>4. /\ calls[RouteWorker].phase \in {"idle", "collect"} /\ q # <<>>
      /\ calls' = [calls EXCEPT ![RouteWorker] = n]
      /\ routeQ' = [queue |-> t, pending |-> p]
      /\ UNCHANGED <<routes, airports, airportQ, routeCircuit, cursor, walk>>
  BY <1>1, <1>2, <1>3 DEF TakeRoute
<1>5. s \in Seq(RouteKeys)
  BY <1>2 DEF RouteIInv, RouteTypeOK, Calls
<1>6. WorkerKeys("route") = ToSet(s) /\ WorkerKeys("airport") = {}
  <2>1. CASE calls[RouteWorker].phase = "idle"
    BY <1>2, <2>1, ToSetFacts DEF RouteIInv, CallsOK, WorkerKeys
  <2>2. CASE calls[RouteWorker].phase = "collect"
    BY <1>2, <2>2 DEF RouteIInv, CallsOK, WorkerKeys
  <2> QED
    BY <1>4, <2>1, <2>2
<1>7. /\ QueueOK([queue |-> t, pending |-> p], ToSet(s) \cup {h}) /\ t \in Seq(RouteCallsigns) /\ h \in RouteCallsigns
  <2>1. QueueOK([queue |-> q, pending |-> p], ToSet(s))
    BY <1>1, <1>6 DEF RouteIInv, RouteQueuesOK
  <2>2. /\ QueueOK([queue |-> Tail(q), pending |-> p], ToSet(s) \cup {Head(q)})
        /\ Tail(q) \in Seq(RouteCallsigns) /\ Head(q) \in RouteCallsigns
    BY <1>1, <1>4, <2>1, TakenFacts
  <2> QED
    BY <1>2, <2>2
<1>8. Append(s, h) \in Seq(RouteKeys) /\ ToSet(Append(s, h)) = ToSet(s) \cup {h}
  <2>1. h \in RouteKeys
    BY <1>7 DEF RouteKeys
  <2> QED
    BY <1>5, <2>1, ToSetFacts
<1>9. n \in Calls /\ n.phase = "collect" /\ n.kind = "route" /\ n.keys = Append(s, h)
  BY <1>3, <1>8, NoCallFacts DEF Calls
<1>10. /\ calls' \in [RouteCallers \cup {RouteWorker} -> Calls] /\ CallsOK'
       /\ \A kind : WorkerKeys(kind)' = IF n.kind = kind THEN ToSet(n.keys) ELSE {}
  BY <1>4, <1>9, WorkerGoesOn
<1>11. WorkerKeys("route")' = ToSet(s) \cup {h} /\ WorkerKeys("airport")' = {}
  BY <1>8, <1>9, <1>10
<1>12. RouteProbeFlies'
  BY <1>4, <1>9, ProbeKept
<1>13. routeQ' \in [queue : Seq(RouteCallsigns), pending : SUBSET RouteCallsigns]
  BY <1>1, <1>4, <1>7
<1>14. RouteTypeOK'
  BY <1>4, <1>10, <1>13 DEF RouteIInv, RouteTypeOK, NoWalk
<1>15. RouteQueuesOK'
  BY <1>4, <1>6, <1>7, <1>11 DEF RouteIInv, RouteQueuesOK
<1> QED
  BY <1>10, <1>12, <1>14, <1>15 DEF RouteIInv

LEMMA CollectedStep ==
  ASSUME RouteAssumption, RouteIInv, clock' = clock, BatchCollected
  PROVE  RouteIInv'
<1>1. calls[RouteWorker] \in Calls
  BY DEF RouteIInv, RouteTypeOK
<1>2. PICK n : n = [calls[RouteWorker] EXCEPT !.phase = "fetch"]
  OBVIOUS
<1>3. /\ calls[RouteWorker].phase = "collect"
      /\ calls' = [calls EXCEPT ![RouteWorker] = n]
      /\ UNCHANGED <<routes, airports, routeQ, airportQ, routeCircuit, cursor, walk>>
  BY <1>2 DEF BatchCollected
<1>4. n \in Calls /\ n.phase = "fetch" /\ n.kind = calls[RouteWorker].kind /\ n.keys = calls[RouteWorker].keys
  BY <1>1, <1>2 DEF Calls
<1>5. /\ calls' \in [RouteCallers \cup {RouteWorker} -> Calls] /\ CallsOK'
      /\ \A kind : WorkerKeys(kind)' = IF n.kind = kind THEN ToSet(n.keys) ELSE {}
  BY <1>3, <1>4, WorkerGoesOn
<1>6. \A kind : WorkerKeys(kind)' = WorkerKeys(kind)
  BY <1>4, <1>5 DEF WorkerKeys
<1>7. RouteProbeFlies'
  BY <1>3, <1>4, ProbeKept
<1> QED
  BY <1>3, <1>5, <1>6, <1>7, RouteTogether DEF RouteIInv, RouteTypeOK, RouteQueuesOK

LEMMA ClearRoutesStep ==
  ASSUME RouteAssumption, RouteIInv, clock' = clock, ClearRoutes
  PROVE  RouteIInv'
<1>1. PICK done : done = ToSet(calls[RouteWorker].keys)
  OBVIOUS
<1>2. /\ calls[RouteWorker].phase = "clear" /\ calls' = [calls EXCEPT ![RouteWorker] = NoCall]
      /\ UNCHANGED <<routes, airports, routeCircuit, cursor, walk>>
  BY DEF ClearRoutes
<1>3. /\ calls' \in [RouteCallers \cup {RouteWorker} -> Calls] /\ CallsOK'
      /\ WorkerKeys("route")' = {} /\ WorkerKeys("airport")' = {}
  <2>1. NoCall \in Calls /\ NoCall.phase = "idle" /\ NoCall.keys = <<>> /\ NoCall.kind = "route"
    BY NoCallFacts
  <2>2. /\ calls' \in [RouteCallers \cup {RouteWorker} -> Calls] /\ CallsOK'
        /\ \A kind : WorkerKeys(kind)' = IF NoCall.kind = kind THEN ToSet(NoCall.keys) ELSE {}
    BY <1>2, <2>1, WorkerGoesOn
  <2> QED
    BY <2>1, <2>2, ToSetFacts
<1>4. RouteProbeFlies'
  BY <1>2, NoCallFacts, ProbeKept
<1>5. /\ routeQ \in [queue : Seq(RouteCallsigns), pending : SUBSET RouteCallsigns] /\ QueueOK(routeQ, WorkerKeys("route"))
      /\ airportQ \in [queue : Seq(Airports), pending : SUBSET Airports] /\ QueueOK(airportQ, WorkerKeys("airport"))
  BY DEF RouteIInv, RouteTypeOK, RouteQueuesOK
<1>6. calls[RouteWorker].kind \in {"route", "airport"}
  BY DEF RouteIInv, RouteTypeOK, Calls
<1>7. CASE calls[RouteWorker].kind = "route"
  <2>1. WorkerKeys("route") = done /\ WorkerKeys("airport") = {}
    BY <1>1, <1>7 DEF WorkerKeys
  <2>2. routeQ' = [routeQ EXCEPT !.pending = @ \ done] /\ airportQ' = airportQ
    BY <1>1, <1>7 DEF ClearRoutes
  <2>3. routeQ' \in [queue : Seq(RouteCallsigns), pending : SUBSET RouteCallsigns] /\ QueueOK(routeQ', done \ done)
    BY <1>5, <2>1, <2>2, ClearedFacts
  <2>4. done \ done = {}
    OBVIOUS
  <2>5. RouteQueuesOK'
    BY <1>3, <1>5, <2>1, <2>2, <2>3, <2>4 DEF RouteQueuesOK
  <2>6. RouteTypeOK'
    BY <1>2, <1>3, <2>2, <2>3 DEF RouteIInv, RouteTypeOK, NoWalk
  <2> QED
    BY <1>3, <1>4, <2>5, <2>6 DEF RouteIInv
<1>8. CASE calls[RouteWorker].kind = "airport"
  <2>1. WorkerKeys("airport") = done /\ WorkerKeys("route") = {}
    BY <1>1, <1>8 DEF WorkerKeys
  <2>2. airportQ' = [airportQ EXCEPT !.pending = @ \ done] /\ routeQ' = routeQ
    BY <1>1, <1>8 DEF ClearRoutes
  <2>3. airportQ' \in [queue : Seq(Airports), pending : SUBSET Airports] /\ QueueOK(airportQ', done \ done)
    BY <1>5, <2>1, <2>2, ClearedFacts
  <2>4. done \ done = {}
    OBVIOUS
  <2>5. RouteQueuesOK'
    BY <1>3, <1>5, <2>1, <2>2, <2>3, <2>4 DEF RouteQueuesOK
  <2>6. RouteTypeOK'
    BY <1>2, <1>3, <2>2, <2>3 DEF RouteIInv, RouteTypeOK, NoWalk
  <2> QED
    BY <1>3, <1>4, <2>5, <2>6 DEF RouteIInv
<1> QED
  BY <1>6, <1>7, <1>8

\* A request begins, waits, is made or is over.
GoesOn(p, n) ==
  /\ n \in Calls /\ calls' = [calls EXCEPT ![p] = n] /\ n.phase \notin {"lookup", "collect"}
  /\ p = RouteWorker => n.phase # "idle" /\ n.kind = calls[p].kind /\ n.keys = calls[p].keys

LEMMA RequestGoesOn ==
  ASSUME RouteAssumption, RouteIInv, clock' = clock, NEW p \in RouteCallers \cup {RouteWorker}, NEW n, GoesOn(p, n),
         UNCHANGED <<routeQ, airportQ, cursor, walk>>, routeCircuit' \in Circuits,
         \/ ~routeCircuit'.probing
         \/ routeCircuit' = routeCircuit /\ calls[p].phase \notin {"wait", "request"}
         \/ /\ n.phase \in {"wait", "request"}
            /\ \/ routeCircuit'.probing => n.probe
               \/ routeCircuit' = routeCircuit /\ n.probe = calls[p].probe
  PROVE  RouteIInv'
<1>0. /\ n \in Calls /\ calls' = [calls EXCEPT ![p] = n] /\ n.phase \notin {"lookup", "collect"}
      /\ p = RouteWorker => n.phase # "idle" /\ n.kind = calls[p].kind /\ n.keys = calls[p].keys
  BY DEF GoesOn
<1>1. /\ calls' \in [RouteCallers \cup {RouteWorker} -> Calls] /\ CallsOK'
      /\ \A kind : WorkerKeys(kind)' = WorkerKeys(kind)
  <2>1. CASE p = RouteWorker
    <3>1. /\ calls' \in [RouteCallers \cup {RouteWorker} -> Calls] /\ CallsOK'
          /\ \A kind : WorkerKeys(kind)' = IF n.kind = kind THEN ToSet(n.keys) ELSE {}
      BY <1>0, <2>1, WorkerGoesOn
    <3> QED
      BY <1>0, <2>1, <3>1 DEF WorkerKeys
  <2>2. CASE p # RouteWorker
    BY <1>0, <2>2, HandlerStep
  <2> QED
    BY <2>1, <2>2
<1>2. RouteProbeFlies'
  <2>1. /\ DOMAIN calls = RouteCallers \cup {RouteWorker} /\ DOMAIN calls' = DOMAIN calls
        /\ calls'[p] = n /\ \A o \in RouteCallers \cup {RouteWorker} : o # p => calls'[o] = calls[o]
    BY <1>0, CallChanges
  <2>2. CASE ~routeCircuit'.probing
    BY <2>2 DEF RouteProbeFlies
  <2>3. CASE routeCircuit' = routeCircuit /\ calls[p].phase \notin {"wait", "request"}
    BY <1>0, <2>3, ProbeKept
  <2>4. CASE n.phase \in {"wait", "request"} /\ (routeCircuit'.probing => n.probe)
    BY <2>1, <2>4 DEF RouteProbeFlies
  <2>5. CASE n.phase \in {"wait", "request"} /\ routeCircuit' = routeCircuit /\ n.probe = calls[p].probe
    BY <2>1, <2>5 DEF RouteIInv, RouteProbeFlies
  <2> QED
    BY <2>2, <2>3, <2>4, <2>5
<1>3. /\ routeQ' \in [queue : Seq(RouteCallsigns), pending : SUBSET RouteCallsigns] /\ QueueOK(routeQ', WorkerKeys("route"))
      /\ airportQ' \in [queue : Seq(Airports), pending : SUBSET Airports] /\ QueueOK(airportQ', WorkerKeys("airport"))
  BY DEF RouteIInv, RouteTypeOK, RouteQueuesOK
<1> QED
  BY <1>1, <1>2, <1>3, RouteTogether

LEMMA OverFacts ==
  ASSUME RouteAssumption, RouteIInv, NEW p \in RouteCallers \cup {RouteWorker}, calls' = [calls EXCEPT ![p] = CallOver(p)]
  PROVE  GoesOn(p, CallOver(p))
<1>1. calls[p] \in Calls
  BY DEF RouteIInv, RouteTypeOK
<1>2. CASE p = RouteWorker
  <2>1. PICK kind, keys : kind = calls[p].kind /\ keys = calls[p].keys
    OBVIOUS
  <2>2. kind \in {"route", "airport"} /\ keys \in Seq(RouteKeys)
    BY <1>1, <2>1 DEF Calls
  <2>3. PICK n : n = [NoCall EXCEPT !.phase = "clear", !.kind = kind, !.keys = keys]
    OBVIOUS
  <2>4. n \in Calls /\ n.phase = "clear" /\ n.kind = kind /\ n.keys = keys
    BY <2>2, <2>3, NoCallFacts DEF Calls
  <2>5. CallOver(p) = n
    BY <1>2, <2>1, <2>3 DEF CallOver
  <2> QED
    BY <2>1, <2>4, <2>5 DEF GoesOn
<1>3. CASE p # RouteWorker
  BY <1>3, NoCallFacts DEF CallOver, GoesOn
<1> QED
  BY <1>2, <1>3

LEMMA FetchStep ==
  ASSUME RouteAssumption, RouteIInv, clock' = clock, NEW p \in RouteCallers \cup {RouteWorker}, Fetch(p)
  PROVE  RouteIInv'
<1>1. calls[p] \in Calls /\ routeCircuit \in Circuits /\ clock \in Nat
  BY DEF RouteIInv, RouteTypeOK
<1>2. PICK missing : missing = {k \in ToSet(calls[p].keys) :
                                  ~Fresh(IF calls[p].kind = "route" THEN routes ELSE airports, k, clock)}
  OBVIOUS
<1>3. PICK n : n = [calls[p] EXCEPT !.phase = "wait", !.missing = missing, !.attempt = 1,
                                    !.deadline = clock + RouteBudget, !.probe = routeCircuit.openUntil # 0]
  OBVIOUS
<1>4. /\ calls[p].phase = "fetch" /\ UNCHANGED <<routeQ, airportQ, cursor, walk>>
      /\ \/ calls' = [calls EXCEPT ![p] = n] /\ routeCircuit' = AfterAllow(routeCircuit)
         \/ calls' = [calls EXCEPT ![p] = CallOver(p)] /\ routeCircuit' = routeCircuit
  BY <1>2, <1>3 DEF Fetch
<1>5. CASE calls' = [calls EXCEPT ![p] = n] /\ routeCircuit' = AfterAllow(routeCircuit)
  <2>1. missing \in SUBSET RouteKeys
    <3>1. calls[p].keys \in Seq(RouteKeys)
      BY <1>1 DEF Calls
    <3>2. ToSet(calls[p].keys) \subseteq RouteKeys
      BY <3>1, ToSetFacts
    <3> QED
      BY <1>2, <3>2
  <2>2. clock + RouteBudget \in Nat /\ (routeCircuit.openUntil # 0) \in BOOLEAN
    BY <1>1 DEF RouteAssumption
  <2>3. PICK d, b : d = clock + RouteBudget /\ b = (routeCircuit.openUntil # 0)
    OBVIOUS
  <2>4. n \in Calls /\ n.phase = "wait" /\ n.probe = b /\ n.kind = calls[p].kind /\ n.keys = calls[p].keys
    <3>1. d \in Nat /\ b \in BOOLEAN
      BY <2>2, <2>3
    <3>2. n = [calls[p] EXCEPT !.phase = "wait", !.missing = missing, !.attempt = 1, !.deadline = d, !.probe = b]
      BY <1>3, <2>3
    <3> QED
      BY <1>1, <2>1, <3>1, <3>2 DEF Calls
  <2>5. routeCircuit' \in Circuits /\ (routeCircuit'.probing <=> routeCircuit.openUntil # 0)
    BY <1>1, <1>5, AllowFacts
  <2>6. GoesOn(p, n)
    BY <1>5, <2>4 DEF GoesOn
  <2>7. routeCircuit'.probing => n.probe
    BY <2>3, <2>4, <2>5
  <2> QED
    BY <1>4, <2>4, <2>5, <2>6, <2>7, RequestGoesOn
<1>6. CASE calls' = [calls EXCEPT ![p] = CallOver(p)] /\ routeCircuit' = routeCircuit
  <2>1. GoesOn(p, CallOver(p))
    BY <1>6, OverFacts
  <2>2. routeCircuit' \in Circuits /\ calls[p].phase \notin {"wait", "request"}
    BY <1>1, <1>4, <1>6
  <2> QED
    BY <1>4, <1>6, <2>1, <2>2, RequestGoesOn
<1> QED
  BY <1>4, <1>5, <1>6

LEMMA WaitStep ==
  ASSUME RouteAssumption, RouteIInv, clock' = clock, NEW p \in RouteCallers \cup {RouteWorker},
         WaitForRequest(p) \/ Retry(p)
  PROVE  RouteIInv'
<1>1. calls[p] \in Calls /\ routeCircuit \in Circuits
  BY DEF RouteIInv, RouteTypeOK
<1>2. PICK n \in Calls : /\ calls' = [calls EXCEPT ![p] = n] /\ n.phase \in {"wait", "request"}
                         /\ n.kind = calls[p].kind /\ n.keys = calls[p].keys /\ n.probe = calls[p].probe
  <2>1. CASE WaitForRequest(p)
    <3>1. PICK n : n = [calls[p] EXCEPT !.phase = "request"]
      OBVIOUS
    <3>2. calls' = [calls EXCEPT ![p] = n]
      BY <2>1, <3>1 DEF WaitForRequest
    <3>3. n \in Calls /\ n.phase = "request" /\ n.kind = calls[p].kind /\ n.keys = calls[p].keys /\ n.probe = calls[p].probe
      BY <1>1, <3>1 DEF Calls
    <3> QED
      BY <3>2, <3>3
  <2>2. CASE Retry(p)
    <3>1. calls \in [RouteCallers \cup {RouteWorker} -> Calls]
      BY DEF RouteIInv, RouteTypeOK
    <3>2. PICK n : n = [calls[p] EXCEPT !.phase = "wait", !.attempt = calls[p].attempt + 1]
      OBVIOUS
    <3>3. calls' = [calls EXCEPT ![p] = n]
      BY <2>2, <3>1, <3>2 DEF Retry, Calls
    <3>4. calls[p].attempt \in Nat
      BY <1>1 DEF Calls
    <3>5. n \in Calls /\ n.phase = "wait" /\ n.kind = calls[p].kind /\ n.keys = calls[p].keys /\ n.probe = calls[p].probe
      <4>1. PICK a \in Nat : a = calls[p].attempt + 1
        BY <3>4
      <4>2. n = [calls[p] EXCEPT !.phase = "wait", !.attempt = a]
        BY <3>2, <4>1
      <4> QED
        BY <1>1, <4>2 DEF Calls
    <3> QED
      BY <3>3, <3>5
  <2> QED
    BY <2>1, <2>2
<1>3. GoesOn(p, n)
  BY <1>2 DEF GoesOn
<1>4. UNCHANGED <<routeQ, airportQ, cursor, walk>> /\ routeCircuit' = routeCircuit
  BY DEF WaitForRequest, Retry
<1> QED
  BY <1>1, <1>2, <1>3, <1>4, RequestGoesOn

LEMMA EndStep ==
  ASSUME RouteAssumption, RouteIInv, clock' = clock, NEW p \in RouteCallers \cup {RouteWorker}, RequestEnds(p)
  PROVE  RouteIInv'
<1>1. /\ calls' = [calls EXCEPT ![p] = CallOver(p)]
      /\ UNCHANGED <<routeQ, airportQ, cursor, walk>>
      /\ \/ routeCircuit' = Closed
         \/ routeCircuit' = AfterFailure(routeCircuit, clock, RouteFailures, RouteOpenFor)
  <2>1. CASE RoutesAnswered(p)
    BY <2>1 DEF RoutesAnswered
  <2>2. CASE AirportAnswered(p)
    BY <2>2 DEF AirportAnswered
  <2>3. CASE FetchFailed(p)
    BY <2>3 DEF FetchFailed
  <2> QED
    BY <2>1, <2>2, <2>3 DEF RequestEnds
<1>2. routeCircuit' \in Circuits /\ ~routeCircuit'.probing
  <2>1. CASE routeCircuit' = Closed
    BY <2>1, ClosedFacts
  <2>2. CASE routeCircuit' = AfterFailure(routeCircuit, clock, RouteFailures, RouteOpenFor)
    <3>1. routeCircuit \in Circuits /\ clock \in Nat /\ RouteFailures \in Nat /\ RouteOpenFor \in Nat
      BY DEF RouteIInv, RouteTypeOK, RouteAssumption
    <3> QED
      BY <2>2, <3>1, FailureFacts
  <2> QED
    BY <1>1, <2>1, <2>2
<1>3. GoesOn(p, CallOver(p))
  BY <1>1, OverFacts
<1> QED
  BY <1>1, <1>2, <1>3, RequestGoesOn

LEMMA RouteStep ==
  ASSUME RouteAssumption, RouteIInv, clock' = clock, RouteNext
  PROVE  RouteIInv'
<1>1. DOMAIN calls = RouteCallers \cup {RouteWorker}
  BY DEF RouteIInv, RouteTypeOK
<1>2. CASE PrefetchNext \/ \E shown \in RouteSnapshots : Prefetch(shown)
  BY <1>2, PrefetchStep
<1>3. CASE \E c \in RouteCallers, k \in RouteCallsigns : RouteCommand(c, k)
  BY <1>3, RouteCommandStep
<1>4. CASE \E c \in RouteCallers, k \in Airports : AirportCommand(c, k)
  BY <1>4, AirportCommandStep
<1>5. CASE \E c \in RouteCallers : LookupRoute(c)
  BY <1>5, LookupRouteStep
<1>6. CASE RouteWorkerStep
  BY <1>6, TakeAirportStep, TakeRouteStep, CollectedStep, ClearRoutesStep DEF RouteWorkerStep
<1>7. CASE \E p \in DOMAIN calls : Fetch(p) \/ WaitForRequest(p) \/ Retry(p) \/ RequestEnds(p)
  BY <1>1, <1>7, FetchStep, WaitStep, EndStep
<1> QED
  BY <1>2, <1>3, <1>4, <1>5, <1>6, <1>7 DEF RouteNext

LEMMA RoutePasses ==
  ASSUME RouteIInv, UNCHANGED routeVars, clock' \in Nat
  PROVE  RouteIInv'
<1>1. UNCHANGED <<routes, airports, routeQ, airportQ, routeCircuit, calls, cursor, walk>>
  BY DEF routeVars
<1>2. RouteTypeOK'
  BY <1>1 DEF RouteIInv, RouteTypeOK, NoWalk
<1>3. CallsOK' /\ RouteProbeFlies'
  BY <1>1 DEF RouteIInv, CallsOK, RouteProbeFlies, KeysOf
<1>4. RouteQueuesOK'
  <2>1. WorkerKeys("route")' = WorkerKeys("route") /\ WorkerKeys("airport")' = WorkerKeys("airport")
    BY <1>1 DEF WorkerKeys
  <2> QED
    BY <1>1, <2>1 DEF RouteIInv, RouteQueuesOK
<1> QED
  BY <1>2, <1>3, <1>4 DEF RouteIInv

LEMMA RouteStarts ==
  ASSUME RouteAssumption, RouteInit, clock = 1
  PROVE  RouteIInv
<1>1. /\ routeQ = [queue |-> <<>>, pending |-> {}] /\ airportQ = [queue |-> <<>>, pending |-> {}]
      /\ routeCircuit = Closed /\ calls = [p \in RouteCallers \cup {RouteWorker} |-> NoCall]
      /\ cursor = 0 /\ walk = NoWalk
  BY DEF RouteInit
<1>2. NoCall \in Calls /\ NoCall.phase = "idle" /\ NoCall.keys = <<>> /\ NoCall.kind = "route"
  BY NoCallFacts
<1>3. WorkerKeys("route") = {} /\ WorkerKeys("airport") = {}
  BY <1>1, <1>2, ToSetFacts DEF WorkerKeys
<1>4. RouteTypeOK
  <2>1. calls \in [RouteCallers \cup {RouteWorker} -> Calls] /\ routeCircuit \in Circuits
    BY <1>1, <1>2, ClosedFacts
  <2>2. /\ routeQ \in [queue : Seq(RouteCallsigns), pending : SUBSET RouteCallsigns]
        /\ airportQ \in [queue : Seq(Airports), pending : SUBSET Airports]
    BY <1>1
  <2>3. NoWalk \in [over : {<<>>} \cup RouteSnapshots, examined : Nat, queued : Nat]
    BY DEF NoWalk
  <2> QED
    BY <1>1, <2>1, <2>2, <2>3 DEF RouteTypeOK
<1>5. CallsOK
  BY <1>1, <1>2 DEF CallsOK
<1>6. RouteProbeFlies
  BY <1>1, ClosedFacts DEF RouteProbeFlies
<1>7. RouteQueuesOK
  BY <1>1, <1>3 DEF RouteQueuesOK, QueueOK
<1> QED
  BY <1>4, <1>5, <1>6, <1>7 DEF RouteIInv

LEMMA RoutePromises ==
  ASSUME RouteIInv
  PROVE  OnlyThese(routeQ, WorkerKeys("route")) /\ OnlyThese(airportQ, WorkerKeys("airport"))
<1>1. \A kind : IsFiniteSet(WorkerKeys(kind))
  <2>1. calls[RouteWorker].keys \in Seq(RouteKeys)
    BY DEF RouteIInv, RouteTypeOK, Calls
  <2> QED
    BY <2>1, ToSetFacts, FS_EmptySet DEF WorkerKeys
<1> QED
  BY <1>1, QueueCounts DEF RouteIInv, RouteTypeOK, RouteQueuesOK

-----------------------------------------------------------------------------
(* Weather.                                                                *)

\* No answer is an error while a METAR may be shown.
Bridged == reply' # reply /\ reply'.value = "error" => clock >= usable[reply'.key]

\* What a METAR that may be shown is, in the cache.
LEMMA UsableFacts ==
  ASSUME WeatherIInv, NEW k \in WeatherKeys, clock < usable[k]
  PROVE  /\ k \in CachedKeys(observations) /\ Found(observations, k, clock)
         /\ EntryOf(observations, k).value = "metar" /\ usable[k] <= EntryOf(observations, k).staleAt
         /\ EntryOf(observations, k) \in WeatherEntries
         /\ Holds(observations, EntryOf(observations, k)) /\ EntryOf(observations, k).key = k
<1>1. /\ observations \in Seq(WeatherEntries) /\ OneEntryPerKey(observations)
      /\ clock \in Nat /\ usable[k] \in Nat
  BY DEF WeatherIInv, WeatherTypeOK
<1>2. PICK e \in WeatherEntries :
        Holds(observations, e) /\ e.key = k /\ e.value = "metar" /\ usable[k] <= e.staleAt
  BY DEF WeatherIInv, UsableCached
<1>3. /\ k \in CachedKeys(observations)
      /\ EntryOf(observations, k) = e
  BY <1>1, <1>2, EntryFacts
<1>4. clock < e.staleAt
  <2>1. e.staleAt \in Nat
    BY DEF WeatherEntries
  <2> QED
    BY <1>1, <1>2, <2>1
<1> QED
  BY <1>2, <1>3, <1>4 DEF Found

LEMMA StoredStep ==
  ASSUME WeatherAssumption, WeatherIInv, clock' = clock, NEW k \in WeatherKeys,
         NEW value \in {"metar", "blank", "none", "error"}, NEW ttl \in Nat, Stored(k, value, ttl),
         value = "error" => clock >= usable[k]
  PROVE  WeatherIInv' /\ Bridged
<1>1. /\ observations \in Seq(WeatherEntries) /\ OneEntryPerKey(observations)
      /\ clock \in Nat /\ usable \in [WeatherKeys -> Nat]
  BY DEF WeatherIInv, WeatherTypeOK
<1>2. PICK stale : stale = IF value = "error" THEN 0 ELSE WeatherStaleTTL
  OBVIOUS
<1>3. PICK until : until = clock + ttl + stale
  OBVIOUS
<1>4. stale \in Nat /\ until \in Nat /\ clock + ttl \in Nat
  <2>1. stale \in Nat
    BY <1>2 DEF WeatherAssumption
  <2> QED
    BY <1>1, <1>3, <2>1
<1>5. PICK entry : entry = Entry(k, value, ttl, stale, clock)
  OBVIOUS
<1>6. entry \in WeatherEntries /\ entry.key = k /\ entry.value = value /\ entry.staleAt = until
  BY <1>3, <1>4, <1>5 DEF Entry, WeatherEntries
<1>7. PICK next : next = AfterSet(observations, entry, WeatherMax)
  OBVIOUS
<1>8. /\ next \in Seq(WeatherEntries) /\ OneEntryPerKey(next) /\ Holds(next, entry)
      /\ \A e : Holds(next, e) => e = entry \/ (Holds(observations, e) /\ e.key # k)
  <2>1. WeatherMax \in Nat \ {0}
    BY DEF WeatherAssumption
  <2>2. /\ AfterSet(observations, entry, WeatherMax) \in Seq(WeatherEntries)
        /\ OneEntryPerKey(AfterSet(observations, entry, WeatherMax))
        /\ Holds(AfterSet(observations, entry, WeatherMax), entry)
        /\ \A e : Holds(AfterSet(observations, entry, WeatherMax), e) => e = entry \/ (Holds(observations, e) /\ e.key # entry.key)
    BY <1>1, <1>6, <2>1, AfterSetFacts
  <2> QED
    BY <1>6, <1>7, <2>2
<1>9. /\ observations' = next
      /\ usable' = [o \in WeatherKeys |->
           IF o = k /\ value = "metar" THEN until
           ELSE IF (o = k /\ value # "error") \/ o \notin CachedKeys(next) THEN 0
           ELSE usable[o]]
      /\ reply' = [key |-> k, value |-> value]
  BY <1>2, <1>3, <1>5, <1>7 DEF Stored
<1>10. usable' \in [WeatherKeys -> Nat]
  BY <1>1, <1>4, <1>9
<1>11. ASSUME NEW o \in WeatherKeys, clock < usable'[o]
       PROVE  \E e \in WeatherEntries : Holds(next, e) /\ e.key = o /\ e.value = "metar" /\ usable'[o] <= e.staleAt
  <2>1. CASE o = k
    <3>1. value = "metar"
      <4>1. SUFFICES ASSUME value # "metar" PROVE FALSE
        OBVIOUS
      <4>2. usable'[o] = 0 \/ (value = "error" /\ usable'[o] = usable[k])
        BY <1>9, <2>1, <4>1
      <4>3. usable[k] \in Nat
        BY <1>1
      <4> QED
        BY <1>1, <1>11, <4>2, <4>3
    <3>2. usable'[o] = until
      BY <1>9, <2>1, <3>1
    <3>3. until <= until
      BY <1>4
    <3> QED
      BY <1>6, <1>8, <2>1, <3>1, <3>2, <3>3
  <2>2. CASE o # k
    <3>1. o \in CachedKeys(next) /\ usable'[o] = usable[o]
      <4>1. usable'[o] = 0 \/ (o \in CachedKeys(next) /\ usable'[o] = usable[o])
        BY <1>9, <2>2
      <4> QED
        BY <1>1, <1>11, <4>1
    <3>2. PICK e : Holds(next, e) /\ e.key = o
      BY <1>8, <3>1, EntryFacts
    <3>3. Holds(observations, e)
      BY <1>6, <1>8, <2>2, <3>2
    <3>4. EntryOf(observations, o) = e
      BY <1>1, <3>2, <3>3, EntryFacts
    <3>5. /\ EntryOf(observations, o).value = "metar" /\ usable[o] <= EntryOf(observations, o).staleAt
          /\ EntryOf(observations, o) \in WeatherEntries
      BY <1>11, <3>1, UsableFacts
    <3> QED
      BY <3>1, <3>2, <3>4, <3>5
  <2> QED
    BY <2>1, <2>2
<1>12. WeatherTypeOK'
  BY <1>1, <1>8, <1>9, <1>10 DEF WeatherTypeOK
<1>13. UsableCached'
  <2>1. SUFFICES ASSUME NEW o \in WeatherKeys, clock' < usable'[o]
                 PROVE  \E e \in WeatherEntries : Holds(observations', e) /\ e.key = o /\ e.value = "metar" /\ usable'[o] <= e.staleAt
    BY DEF UsableCached, Holds
  <2>2. clock < usable'[o]
    BY <2>1
  <2> QED
    BY <1>9, <1>11, <2>2
<1>14. Bridged
  <2>1. reply'.value = value /\ reply'.key = k
    BY <1>9
  <2> QED
    BY <2>1 DEF Bridged
<1> QED
  BY <1>12, <1>13, <1>14 DEF WeatherIInv

\* A step that keeps what may be shown, and answers with it.
LEMMA KeptStep ==
  ASSUME WeatherIInv, clock' = clock, usable' = usable,
         observations' \in Seq(WeatherEntries), OneEntryPerKey(observations'),
         \A e : Holds(observations, e) /\ clock < e.staleAt => Holds(observations', e),
         Bridged
  PROVE  WeatherIInv' /\ Bridged
<1>1. clock \in Nat /\ usable \in [WeatherKeys -> Nat]
  BY DEF WeatherIInv, WeatherTypeOK
<1>2. WeatherTypeOK'
  BY <1>1 DEF WeatherTypeOK
<1>3. UsableCached'
  <2>1. SUFFICES ASSUME NEW o \in WeatherKeys, clock < usable[o]
                 PROVE  \E e \in WeatherEntries : Holds(observations', e) /\ e.key = o /\ e.value = "metar" /\ usable[o] <= e.staleAt
    BY DEF UsableCached, Holds
  <2>2. PICK e : e = EntryOf(observations, o)
    OBVIOUS
  <2>3. /\ e.value = "metar" /\ usable[o] <= e.staleAt
        /\ e \in WeatherEntries /\ Holds(observations, e) /\ e.key = o
    BY <2>1, <2>2, UsableFacts
  <2>4. clock < e.staleAt
    <3>1. e.staleAt \in Nat /\ usable[o] \in Nat
      BY <1>1, <2>3 DEF WeatherEntries
    <3> QED
      BY <1>1, <2>1, <2>3, <3>1
  <2> QED
    BY <2>3, <2>4
<1> QED
  BY <1>2, <1>3 DEF WeatherIInv

LEMMA FailsStep ==
  ASSUME WeatherAssumption, WeatherIInv, clock' = clock, NEW k \in WeatherKeys, LookupFails(k)
  PROVE  WeatherIInv' /\ Bridged
<1>1. /\ observations \in Seq(WeatherEntries) /\ OneEntryPerKey(observations)
      /\ clock \in Nat /\ usable \in [WeatherKeys -> Nat]
  BY DEF WeatherIInv, WeatherTypeOK
<1>2. CASE HasFallback(k)
  <2>1. observations' = AfterGet(observations, k, clock) /\ usable' = usable /\ reply' = [key |-> k, value |-> "metar"]
    BY <1>2 DEF LookupFails
  <2>2. /\ AfterGet(observations, k, clock) \in Seq(WeatherEntries) /\ OneEntryPerKey(AfterGet(observations, k, clock))
        /\ \A e : Holds(AfterGet(observations, k, clock), e) <=> Holds(observations, e) /\ (e.key = k => clock < e.staleAt)
    BY <1>1, AfterGetFacts
  <2>3. Bridged
    <3>1. reply'.value = "metar"
      BY <2>1
    <3> QED
      BY <3>1 DEF Bridged
  <2>4. \A e : Holds(observations, e) /\ clock < e.staleAt => Holds(observations', e)
    BY <2>1, <2>2
  <2> QED
    BY <2>1, <2>2, <2>3, <2>4, KeptStep
<1>3. CASE ~HasFallback(k)
  <2>1. Stored(k, "error", WeatherErrorTTL)
    BY <1>3 DEF LookupFails
  <2>2. ~(clock < usable[k])
    BY <1>3, UsableFacts DEF HasFallback
  <2>3. clock >= usable[k] /\ WeatherErrorTTL \in Nat
    BY <1>1, <2>2 DEF WeatherAssumption
  <2> QED
    BY <2>1, <2>3, StoredStep
<1> QED
  BY <1>2, <1>3

LEMMA LookupAtStep ==
  ASSUME WeatherAssumption, WeatherIInv, clock' = clock, NEW k \in WeatherKeys, LookupAt(k)
  PROVE  WeatherIInv' /\ Bridged
<1>1. /\ observations \in Seq(WeatherEntries) /\ OneEntryPerKey(observations)
      /\ clock \in Nat /\ usable \in [WeatherKeys -> Nat]
  BY DEF WeatherIInv, WeatherTypeOK
<1>2. \/ /\ IsCached(k) /\ observations' = AfterGet(observations, k, clock) /\ usable' = usable
         /\ reply' = [key |-> k, value |-> EntryOf(observations, k).value]
      \/ Stored(k, "none", NegativeTTL)
      \/ /\ observations' = IF Found(observations, k, clock) THEN observations ELSE Others(observations, k)
         /\ UNCHANGED <<usable, reply>>
  BY DEF LookupAt
<1>3. CASE /\ IsCached(k) /\ observations' = AfterGet(observations, k, clock) /\ usable' = usable
           /\ reply' = [key |-> k, value |-> EntryOf(observations, k).value]
  <2>1. /\ AfterGet(observations, k, clock) \in Seq(WeatherEntries) /\ OneEntryPerKey(AfterGet(observations, k, clock))
        /\ \A e : Holds(AfterGet(observations, k, clock), e) <=> Holds(observations, e) /\ (e.key = k => clock < e.staleAt)
    BY <1>1, AfterGetFacts
  <2>2. Bridged
    <3>1. reply'.value = EntryOf(observations, k).value /\ reply'.key = k
      BY <1>3
    <3>2. clock < usable[k] => EntryOf(observations, k).value = "metar"
      BY UsableFacts
    <3>3. clock < usable[k] \/ clock >= usable[k]
      BY <1>1
    <3> QED
      BY <3>1, <3>2, <3>3 DEF Bridged
  <2>3. \A e : Holds(observations, e) /\ clock < e.staleAt => Holds(observations', e)
    BY <1>3, <2>1
  <2> QED
    BY <1>3, <2>1, <2>2, <2>3, KeptStep
<1>4. CASE Stored(k, "none", NegativeTTL)
  <2>1. NegativeTTL \in Nat
    BY DEF WeatherAssumption
  <2> QED
    BY <1>4, <2>1, StoredStep
<1>5. CASE /\ observations' = IF Found(observations, k, clock) THEN observations ELSE Others(observations, k)
           /\ UNCHANGED <<usable, reply>>
  <2>1. Bridged
    BY <1>5 DEF Bridged
  <2>2. CASE Found(observations, k, clock)
    BY <1>1, <1>5, <2>1, <2>2, KeptStep
  <2>3. CASE ~Found(observations, k, clock)
    <3>1. /\ Others(observations, k) \in Seq(WeatherEntries) /\ OneEntryPerKey(Others(observations, k))
          /\ \A e : Holds(Others(observations, k), e) <=> Holds(observations, e) /\ e.key # k
      BY <1>1, OthersFacts
    <3>2. \A e : Holds(observations, e) /\ clock < e.staleAt => e.key # k
      BY <1>1, <2>3, EntryFacts DEF Found
    <3>3. \A e : Holds(observations, e) /\ clock < e.staleAt => Holds(observations', e)
      BY <1>5, <2>3, <3>1, <3>2
    <3> QED
      BY <1>5, <2>1, <2>3, <3>1, <3>3, KeptStep
  <2> QED
    BY <2>2, <2>3
<1> QED
  BY <1>2, <1>3, <1>4, <1>5

LEMMA AnsweredWeather ==
  ASSUME WeatherAssumption, WeatherIInv, clock' = clock, NEW k \in WeatherKeys, WeatherAnswered(k)
  PROVE  WeatherIInv' /\ Bridged
<1>1. PICK answer \in WeatherAnswers :
        \/ RecheckStation(k, answer) \/ AskStation(k, answer) \/ AskPosition(k, answer)
        \/ AskNearby(k, answer) \/ AskTAF(k, answer)
  BY DEF WeatherAnswered
<1>2. \/ UNCHANGED <<observations, usable, reply>>
      \/ LookupFails(k)
      \/ \E value \in {"metar", "blank", "none"}, ttl \in {WeatherTTL, NegativeTTL} : Stored(k, value, ttl)
  <2>0. \A reports : Resolved(k, reports) =>
          UNCHANGED <<observations, usable, reply>> \/ Stored(k, "none", NegativeTTL)
    BY DEF Resolved
  <2>1. CASE RecheckStation(k, answer)
    BY <2>0, <2>1 DEF RecheckStation
  <2>2. CASE AskStation(k, answer)
    BY <2>0, <2>2 DEF AskStation, StationResolved
  <2>3. CASE AskPosition(k, answer)
    BY <2>0, <2>3 DEF AskPosition, StationResolved
  <2>4. CASE AskNearby(k, answer)
    BY <2>0, <2>4 DEF AskNearby, StationResolved
  <2>5. CASE AskTAF(k, answer)
    BY <2>5 DEF AskTAF
  <2> QED
    BY <1>1, <2>1, <2>2, <2>3, <2>4, <2>5
<1>3. CASE UNCHANGED <<observations, usable, reply>>
  <2>1. observations \in Seq(WeatherEntries) /\ OneEntryPerKey(observations)
    BY DEF WeatherIInv, WeatherTypeOK
  <2>2. Bridged
    BY <1>3 DEF Bridged
  <2> QED
    BY <1>3, <2>1, <2>2, KeptStep
<1>4. CASE LookupFails(k)
  BY <1>4, FailsStep
<1>5. CASE \E value \in {"metar", "blank", "none"}, ttl \in {WeatherTTL, NegativeTTL} : Stored(k, value, ttl)
  <2>1. PICK value \in {"metar", "blank", "none"}, ttl \in {WeatherTTL, NegativeTTL} : Stored(k, value, ttl)
    BY <1>5
  <2>2. ttl \in Nat
    BY DEF WeatherAssumption
  <2>3. value \in {"metar", "blank", "none", "error"} /\ value # "error"
    OBVIOUS
  <2> QED
    BY <2>1, <2>2, <2>3, StoredStep
<1> QED
  BY <1>2, <1>3, <1>4, <1>5

LEMMA WeatherStep ==
  ASSUME WeatherAssumption, WeatherIInv, clock' = clock, WeatherNext
  PROVE  WeatherIInv' /\ Bridged
BY LookupAtStep, AnsweredWeather DEF WeatherNext

LEMMA WeatherPasses ==
  ASSUME WeatherIInv, UNCHANGED weatherVars, clock' \in Nat, clock <= clock'
  PROVE  WeatherIInv' /\ Bridged
<1>1. UNCHANGED <<observations, stations, lookups, usable, reply>>
  BY DEF weatherVars
<1>2. WeatherTypeOK'
  BY <1>1 DEF WeatherIInv, WeatherTypeOK, OneEntryPerKey
<1>3. UsableCached'
  <2>1. SUFFICES ASSUME NEW o \in WeatherKeys, clock' < usable[o]
                 PROVE  \E e \in WeatherEntries : Holds(observations, e) /\ e.key = o /\ e.value = "metar" /\ usable[o] <= e.staleAt
    BY <1>1 DEF UsableCached, Holds
  <2>2. clock < usable[o]
    <3>1. clock \in Nat /\ usable[o] \in Nat
      BY DEF WeatherIInv, WeatherTypeOK
    <3> QED
      BY <2>1, <3>1
  <2> QED
    BY <2>2 DEF WeatherIInv, UsableCached
<1>4. Bridged
  BY <1>1 DEF Bridged
<1> QED
  BY <1>2, <1>3, <1>4 DEF WeatherIInv

LEMMA WeatherStarts ==
  ASSUME WeatherAssumption, WeatherInit, clock = 1
  PROVE  WeatherIInv
<1>1. observations = <<>> /\ usable = [k \in WeatherKeys |-> 0]
  BY DEF WeatherInit
<1>2. WeatherTypeOK
  BY <1>1 DEF WeatherTypeOK, OneEntryPerKey
<1>3. UsableCached
  BY <1>1 DEF UsableCached
<1> QED
  BY <1>2, <1>3 DEF WeatherIInv

-----------------------------------------------------------------------------
(* The services together.  Time passes for all, and none touches another.  *)

EnrichmentIInv == AircraftIInv /\ RouteIInv /\ WeatherIInv

LEMMA EnrichmentStarts ==
  ASSUME AircraftAssumption, RouteAssumption, WeatherAssumption, EnrichmentInit
  PROVE  EnrichmentIInv
BY AircraftStarts, RouteStarts, WeatherStarts DEF EnrichmentInit, EnrichmentIInv

LEMMA TimePasses ==
  ASSUME NEW n \in Nat, NEW m, m = n + 1 \/ m = n
  PROVE  m \in Nat /\ n <= m
OBVIOUS

\* A step keeps the invariant, and does to the caches what it may.
LEMMA EnrichmentStep ==
  ASSUME AircraftAssumption, RouteAssumption, WeatherAssumption, EnrichmentIInv, [EnrichmentNext]_enrichmentVars
  PROVE  EnrichmentIInv' /\ CacheStep /\ Bridged
<1>1. AircraftIInv /\ RouteIInv /\ WeatherIInv /\ clock \in Nat
  BY DEF EnrichmentIInv, WeatherIInv, WeatherTypeOK
<1>2. CASE Tick \/ UNCHANGED enrichmentVars
  <2>1. UNCHANGED aircraftVars /\ UNCHANGED routeVars /\ UNCHANGED weatherVars
    BY <1>2 DEF Tick, enrichmentVars
  <2>2. clock' = clock + 1 \/ clock' = clock
    BY <1>2 DEF Tick, enrichmentVars
  <2>3. clock' \in Nat /\ clock <= clock'
    BY <1>1, <2>2, TimePasses
  <2> QED
    BY <1>1, <2>1, <2>3, AircraftPasses, RoutePasses, WeatherPasses DEF EnrichmentIInv
<1>3. CASE InAircraft(AircraftNext)
  <2>1. AircraftNext /\ UNCHANGED <<clock, config, routeVars, weatherVars>>
    BY <1>3 DEF InAircraft
  <2>2. clock' = clock /\ UNCHANGED routeVars /\ UNCHANGED weatherVars /\ clock' \in Nat /\ clock <= clock'
    BY <1>1, <2>1
  <2> QED
    BY <1>1, <2>1, <2>2, AircraftStep, RoutePasses, WeatherPasses DEF EnrichmentIInv
<1>4. CASE InRoutes(RouteNext)
  <2>1. RouteNext /\ UNCHANGED <<clock, config, aircraftVars, weatherVars>>
    BY <1>4 DEF InRoutes
  <2>2. clock' = clock /\ UNCHANGED aircraftVars /\ UNCHANGED weatherVars /\ clock' \in Nat /\ clock <= clock'
    BY <1>1, <2>1
  <2> QED
    BY <1>1, <2>1, <2>2, RouteStep, AircraftPasses, WeatherPasses DEF EnrichmentIInv
<1>5. CASE InWeather(WeatherNext)
  <2>1. WeatherNext /\ UNCHANGED <<clock, config, aircraftVars, routeVars>>
    BY <1>5 DEF InWeather
  <2>2. clock' = clock /\ UNCHANGED aircraftVars /\ UNCHANGED routeVars /\ clock' \in Nat /\ clock <= clock'
    BY <1>1, <2>1
  <2> QED
    BY <1>1, <2>1, <2>2, WeatherStep, AircraftPasses, RoutePasses DEF EnrichmentIInv
<1> QED
  BY <1>2, <1>3, <1>4, <1>5 DEF EnrichmentNext

LEMMA EnrichmentInvariance == EnrichmentSpec => []EnrichmentIInv
<1>1. EnrichmentInit => EnrichmentIInv
  BY EnrichmentStarts, AircraftAssumption, RouteAssumption, WeatherAssumption
<1>2. EnrichmentIInv /\ [EnrichmentNext]_enrichmentVars => EnrichmentIInv'
  BY EnrichmentStep, AircraftAssumption, RouteAssumption, WeatherAssumption
<1> QED
  BY <1>1, <1>2, PTL DEF EnrichmentSpec

\* A key that suppresses further requests is in a queue or in a worker's
\* hands, exactly once: no key is stuck (service.go Enqueue, worker; routes.go
\* EnqueueRoute, EnqueueAirport, clearPending...).
THEOREM PendingWorkedOn == EnrichmentSpec => []PendingIsWorkedOn
<1>1. EnrichmentIInv => PendingIsWorkedOn
  BY AircraftPromises, RoutePromises, AircraftAssumption DEF EnrichmentIInv, PendingIsWorkedOn
<1> QED
  BY <1>1, EnrichmentInvariance, PTL

\* A half-open circuit waits for a request that is under way, whichever way
\* requests end (circuitBreaker.allow, routeCircuit.allow).
THEOREM ProbeInFlight == EnrichmentSpec => []ProbeIsInFlight
<1>1. EnrichmentIInv => ProbeIsInFlight
  BY DEF EnrichmentIInv, AircraftIInv, ProbeFlies, RouteIInv, RouteProbeFlies, ProbeIsInFlight
<1> QED
  BY <1>1, EnrichmentInvariance, PTL

\* What the tracker admitted is pending, was answered or its loss counted as
\* long as it is tracked, for any queue and tracker (discovery.go Observe).
THEOREM AdmissionsAreAccounted == EnrichmentSpec => []AdmissionsAccounted
<1>1. EnrichmentIInv => AdmissionsAccounted
  BY AircraftPromises, AircraftAssumption DEF EnrichmentIInv
<1> QED
  BY <1>1, EnrichmentInvariance, PTL

\* An error never takes the place of aircraft data that has not expired: a
\* request is only made while its key is not fresh (service.go lookup).
THEOREM FreshIsKept == EnrichmentSpec => FreshAircraftKept
<1>1. ASSUME EnrichmentIInv, [EnrichmentNext]_enrichmentVars
      PROVE  [ \A k \in AircraftKeys :
                 Fresh(cache, k, clock) /\ EntryOf(cache, k).value = "found" /\ k \in CachedKeys(cache')
                   => EntryOf(cache', k).value = "found" ]_enrichmentVars
  <2>1. AircraftIInv /\ AircraftIInv' /\ CacheStep
    BY <1>1, EnrichmentStep, AircraftAssumption, RouteAssumption, WeatherAssumption DEF EnrichmentIInv
  <2> QED
    BY <2>1, FreshKept
<1> QED
  BY <1>1, EnrichmentInvariance, PTL DEF EnrichmentSpec, FreshAircraftKept

\* A METAR that is young enough bridges an outage, for any cache size and any
\* TTLs: as long as it may be shown it is cached (client.go lookup, stale).
THEOREM OutageBridged == EnrichmentSpec => WeatherOutageBridged
<1>1. ASSUME EnrichmentIInv, [EnrichmentNext]_enrichmentVars
      PROVE  [ reply' # reply /\ reply'.value = "error" => clock >= usable[reply'.key] ]_enrichmentVars
  <2>1. Bridged
    BY <1>1, EnrichmentStep, AircraftAssumption, RouteAssumption, WeatherAssumption
  <2> QED
    BY <2>1 DEF Bridged
<1> QED
  BY <1>1, EnrichmentInvariance, PTL DEF EnrichmentSpec, WeatherOutageBridged
=============================================================================
