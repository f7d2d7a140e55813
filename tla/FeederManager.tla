---------------------------- MODULE FeederManager ----------------------------
(***************************************************************************)
(* The registry of feeders and the coalesced community view                *)
(* (internal/state/manager.go).                                            *)
(*                                                                         *)
(* A feeder's publications are made one at a time: by the ingress worker   *)
(* that holds the feeder's lock, or by the local aircraft poller (its race *)
(* with the metadata poller is the subject of StateEngine).                *)
(* Administration registers and removes feeders.  One goroutine, Run,      *)
(* turns dirty marks into delayed rebuilds of the aggregate.  Publish      *)
(* looks its entry up under the read lock but stores into it afterwards,   *)
(* and Rebuild loads the entries one by one, so a publication can fall     *)
(* anywhere between the two.                                               *)
(*                                                                         *)
(* A snapshot is its feeder's publication number, 0 for none.  The content *)
(* of the aggregate is the number taken from every feeder; how the         *)
(* observations of one aircraft are merged is the subject of               *)
(* AggregateView.                                                          *)
(***************************************************************************)
EXTENDS Naturals

CONSTANTS
  Feeders,     \* feeder identifiers
  MaxPublish,  \* bound on the publications of a feeder
  MaxAdmin     \* bound on registrations and removals

ASSUME BoundAssumption == MaxPublish \in Nat /\ MaxAdmin \in Nat

Versions == 0..MaxPublish
EntryIds == 0..MaxAdmin  \* identity of an entry; 0 for no entry

VARIABLES
  feeders,     \* the registry: the identity of each feeder's entry
  enabled,     \* descriptor.Enabled of every entry
  snapshot,    \* the atomic snapshot pointer of every entry
  dirty,       \* the dirty channel holds its one token
  admins,      \* administrative operations so far; also names new entries
  since,       \* history: publications begun before each entry was created
  adminMarks,  \* administrative operations that are about to mark dirty
  publisher,   \* each feeder's Publish call: pc, entry looked up, version
  loop,        \* Run: "wait", "read", "build" or "stopped"
  pending,     \* Run's local flag: a rebuild is scheduled
  collected,   \* versions Rebuild has loaded so far
  unread,      \* feeders Rebuild has still to load
  aggregate,   \* the version of each feeder in the current aggregate
  shutdown     \* Run's context is done

vars == <<feeders, enabled, snapshot, dirty, admins, since, adminMarks,
          publisher, loop, pending, collected, unread, aggregate, shutdown>>
registry == <<feeders, enabled, admins, since, adminMarks>>
run == <<loop, pending, collected, unread, aggregate>>

Init ==
  /\ feeders = [f \in Feeders |-> 0]
  /\ enabled = [f \in Feeders |-> [e \in EntryIds |-> FALSE]]
  /\ snapshot = [f \in Feeders |-> [e \in EntryIds |-> 0]]
  /\ dirty = FALSE
  /\ admins = 0
  /\ since = [f \in Feeders |-> [e \in EntryIds |-> 0]]
  /\ adminMarks = 0
  /\ publisher = [f \in Feeders |-> [pc |-> "idle", entry |-> 0, version |-> 0]]
  /\ loop = "wait"
  /\ pending = FALSE
  /\ collected = [f \in Feeders |-> 0]
  /\ unread = {}
  /\ aggregate = [f \in Feeders |-> 0]
  /\ shutdown = FALSE

\* What the next load of feeder f contributes to an aggregate.
Live(f) == IF enabled[f][feeders[f]] THEN snapshot[f][feeders[f]] ELSE 0

-----------------------------------------------------------------------------
(* Administration.  The write lock excludes the loads of Rebuild.          *)

markDirty == dirty' = TRUE

Register(f, on) ==
  /\ admins < MaxAdmin
  /\ loop # "read"
  /\ LET e == IF feeders[f] = 0 THEN admins + 1 ELSE feeders[f]
     IN /\ feeders' = [feeders EXCEPT ![f] = e]
        /\ enabled' = [enabled EXCEPT ![f][e] = on]
        /\ since' = IF feeders[f] = 0
                      THEN [since EXCEPT ![f][e] = publisher[f].version]
                      ELSE since
  /\ admins' = admins + 1
  /\ adminMarks' = adminMarks + 1
  /\ UNCHANGED <<snapshot, dirty, publisher, shutdown>>
  /\ UNCHANGED run

RemoveFeeder(f) ==
  /\ admins < MaxAdmin
  /\ loop # "read"
  /\ feeders' = [feeders EXCEPT ![f] = 0]
  /\ admins' = admins + 1
  /\ adminMarks' = adminMarks + 1
  /\ UNCHANGED <<enabled, since, snapshot, dirty, publisher, shutdown>>
  /\ UNCHANGED run

\* Register and Remove mark the registry dirty after unlocking.
AdminMark ==
  /\ adminMarks > 0
  /\ adminMarks' = adminMarks - 1
  /\ markDirty
  /\ UNCHANGED <<feeders, enabled, admins, since, snapshot, publisher, shutdown>>
  /\ UNCHANGED run

-----------------------------------------------------------------------------
(* Publish.                                                                *)

At(f, where) == publisher[f].pc = where
Goto(f, where) == publisher' = [publisher EXCEPT ![f].pc = where]

\* Look the entry up under the read lock.
PublishLookup(f) ==
  /\ At(f, "idle")
  /\ publisher[f].version < MaxPublish
  /\ publisher' = [publisher EXCEPT
                     ![f] = [pc |-> IF feeders[f] = 0 THEN "idle" ELSE "check",
                             entry |-> feeders[f], version |-> @.version + 1]]
  /\ UNCHANGED <<snapshot, dirty, shutdown>>
  /\ UNCHANGED registry
  /\ UNCHANGED run

\* descriptor.Enabled is read without the lock, after it was released.
PublishCheck(f) ==
  /\ At(f, "check")
  /\ Goto(f, IF enabled[f][publisher[f].entry] THEN "store" ELSE "idle")
  /\ UNCHANGED <<snapshot, dirty, shutdown>>
  /\ UNCHANGED registry
  /\ UNCHANGED run

PublishStore(f) ==
  /\ At(f, "store")
  /\ snapshot' = [snapshot EXCEPT ![f][publisher[f].entry] = publisher[f].version]
  /\ Goto(f, "mark")
  /\ UNCHANGED <<dirty, shutdown>>
  /\ UNCHANGED registry
  /\ UNCHANGED run

PublishMark(f) ==
  /\ At(f, "mark")
  /\ markDirty
  /\ Goto(f, "idle")
  /\ UNCHANGED <<snapshot, shutdown>>
  /\ UNCHANGED registry
  /\ UNCHANGED run

-----------------------------------------------------------------------------
(* Run and Rebuild.                                                        *)

\* Mutant of RunDirty: the mark is consumed and no rebuild is scheduled.
RunDirtyUnscheduled ==
  /\ loop = "wait"
  /\ dirty
  /\ dirty' = FALSE
  /\ UNCHANGED <<snapshot, publisher, shutdown>>
  /\ UNCHANGED registry
  /\ UNCHANGED run

\* The dirty case: arm the timer unless a rebuild is already scheduled.
RunDirty ==
  /\ loop = "wait"
  /\ dirty
  /\ dirty' = FALSE
  /\ pending' = TRUE
  /\ UNCHANGED <<snapshot, publisher, loop, collected, unread, aggregate, shutdown>>
  /\ UNCHANGED registry

\* The timer case, or the context is done with a rebuild pending: Rebuild
\* takes the read lock.
RebuildBegin ==
  /\ loop = "wait"
  /\ pending
  /\ loop' = "read"
  /\ unread' = Feeders
  /\ UNCHANGED <<snapshot, dirty, publisher, pending, collected, aggregate, shutdown>>
  /\ UNCHANGED registry

RebuildLoad(f) ==
  /\ loop = "read"
  /\ f \in unread
  /\ unread' = unread \ {f}
  /\ collected' = [collected EXCEPT ![f] = Live(f)]
  /\ UNCHANGED <<snapshot, dirty, publisher, loop, pending, aggregate, shutdown>>
  /\ UNCHANGED registry

RebuildUnlock ==
  /\ loop = "read"
  /\ unread = {}
  /\ loop' = "build"
  /\ UNCHANGED <<snapshot, dirty, publisher, pending, collected, unread,
                 aggregate, shutdown>>
  /\ UNCHANGED registry

\* Mutant of RebuildStore: the marks that arrived meanwhile are drained.
RebuildStoreDrains ==
  /\ loop = "build"
  /\ aggregate' = collected
  /\ pending' = FALSE
  /\ dirty' = FALSE
  /\ loop' = "wait"
  /\ UNCHANGED <<snapshot, publisher, collected, unread, shutdown>>
  /\ UNCHANGED registry

\* Store the new aggregate and return to the loop.
RebuildStore ==
  /\ loop = "build"
  /\ aggregate' = collected
  /\ pending' = FALSE
  /\ loop' = "wait"
  /\ UNCHANGED <<snapshot, dirty, publisher, collected, unread, shutdown>>
  /\ UNCHANGED registry

Shutdown ==
  /\ ~shutdown
  /\ shutdown' = TRUE
  /\ UNCHANGED <<snapshot, dirty, publisher>>
  /\ UNCHANGED registry
  /\ UNCHANGED run

RunStop ==
  /\ loop = "wait"
  /\ shutdown
  /\ ~pending
  /\ loop' = "stopped"
  /\ UNCHANGED <<snapshot, dirty, publisher, pending, collected, unread,
                 aggregate, shutdown>>
  /\ UNCHANGED registry

-----------------------------------------------------------------------------
PublishStep(f) == PublishCheck(f) \/ PublishStore(f) \/ PublishMark(f)

RunStep ==
  \/ RunDirty
  \/ RebuildBegin
  \/ \E f \in Feeders : RebuildLoad(f)
  \/ RebuildUnlock
  \/ RebuildStore
  \/ RunStop

Next ==
  \/ \E f \in Feeders : \E on \in BOOLEAN : Register(f, on)
  \/ \E f \in Feeders : RemoveFeeder(f)
  \/ AdminMark
  \/ \E f \in Feeders : PublishLookup(f)
  \/ \E f \in Feeders : PublishStep(f)
  \/ RunStep
  \/ Shutdown

\* Calls that have started run to their end, and Run keeps looping.  Under
\* strong fairness an armed timer is served even when dirty tokens keep
\* arriving: select picks among its ready cases at random.
Fairness ==
  /\ WF_vars(AdminMark)
  /\ \A f \in Feeders : WF_vars(PublishStep(f))
  /\ WF_vars(RunStep)
  /\ SF_vars(RebuildBegin)

Spec == Init /\ [][Next]_vars
FairSpec == Spec /\ Fairness

-----------------------------------------------------------------------------
(* Properties.                                                             *)

\* Type correctness; entry 0 stands for no entry, so it is never enabled.
TypeOK ==
  /\ feeders \in [Feeders -> EntryIds]
  /\ enabled \in [Feeders -> [EntryIds -> BOOLEAN]]
  /\ snapshot \in [Feeders -> [EntryIds -> Versions]]
  /\ dirty \in BOOLEAN
  /\ admins \in 0..MaxAdmin
  /\ since \in [Feeders -> [EntryIds -> Versions]]
  /\ adminMarks \in Nat
  /\ publisher \in [Feeders -> [pc : {"idle", "check", "store", "mark"},
                                entry : EntryIds, version : Versions]]
  /\ loop \in {"wait", "read", "build", "stopped"}
  /\ pending \in BOOLEAN
  /\ collected \in [Feeders -> Versions]
  /\ unread \subseteq Feeders
  /\ aggregate \in [Feeders -> Versions]
  /\ shutdown \in BOOLEAN
  /\ \A f \in Feeders : ~enabled[f][0]

\* A rebuild that has not loaded f yet is scheduled or under way.
WillLoad(f) ==
  \/ dirty \/ adminMarks > 0 \/ At(f, "mark")
  \/ pending /\ loop = "wait"
  \/ loop = "read" /\ f \in unread

\* A rebuild under way has loaded what f would contribute now.
HasLoaded(f) == loop \in {"read", "build"} /\ f \notin unread /\ collected[f] = Live(f)

\* No lost update: whenever the aggregate does not show what a feeder would
\* contribute now, a rebuild that will show it is scheduled, under way, or
\* about to be requested.  The one-token channel and Run's pending flag
\* together never swallow the last mark.
NoLostUpdate ==
  loop # "stopped" =>
    \A f \in Feeders : aggregate[f] # Live(f) => WillLoad(f) \/ HasLoaded(f)

\* A feeder that is removed and registered again starts empty: a Publish that
\* found the old entry never shows up in the new one, however late it stores.
RemovedNotResurrected ==
  \A f \in Feeders : \A e \in EntryIds :
    snapshot[f][e] # 0 => snapshot[f][e] > since[f][e]

\* What an enabled feeder has published reaches the aggregate, and a feeder
\* that is disabled or removed leaves it, unless it changes again first or the
\* process shuts down.
AggregateCatchesUp ==
  \A f \in Feeders : \A v \in Versions :
    Live(f) = v ~> (aggregate[f] = v \/ Live(f) # v \/ shutdown)

\* However Publish, Register, Remove and the rebuild loop interleave, no update
\* is lost and nothing published into a removed entry comes back.
ViewSound == TypeOK /\ NoLostUpdate /\ RemovedNotResurrected

=============================================================================
