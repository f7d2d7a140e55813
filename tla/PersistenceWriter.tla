-------------------------- MODULE PersistenceWriter --------------------------
(***************************************************************************)
(* The batch writer between the live system and SQLite                     *)
(* (internal/storage/writer.go, ApplyBatch of internal/storage/sqlite).    *)
(*                                                                         *)
(* Any goroutine calls Enqueue.  One goroutine, Run, collects events in a  *)
(* batch, coalesces report rollups by bucket, and applies the batch or the *)
(* rollups in one transaction: when they are full, at every tick, and once *)
(* more at shutdown.  A busy database is retried within a budget; any      *)
(* other error disables the writer, and an expired context is such an      *)
(* error.                                                                  *)
(*                                                                         *)
(* Events name the calls of Enqueue.  A coalesced rollup is the set of the *)
(* events summed in it; the database is the sequence of the events it has  *)
(* inserted and how often it has added each rollup.                        *)
(***************************************************************************)
EXTENDS Naturals, Sequences, FiniteSets, Functions

CONSTANTS
  Events,    \* events of every kind but WriteReportRollup
  Rollups,   \* events of kind WriteReportRollup
  Buckets,   \* values of reportRollupKey
  BucketOf,  \* the bucket of each rollup
  Capacity,  \* capacity of the queue
  BatchMax   \* writer.batchMax

ASSUME EventAssumption ==
  /\ Events \cap Rollups = {}
  /\ BucketOf \in [Rollups -> Buckets]
ASSUME SizeAssumption == Capacity \in Nat \ {0} /\ BatchMax \in Nat \ {0}

VARIABLES
  queue,      \* the channel of events
  calling,    \* events whose Enqueue has found the writer enabled
  disabled,   \* writer.disabled
  degraded,   \* writer.degraded; databaseReady is its negation
  pc,         \* what Run does: "select", "apply", "transaction", "backoff",
              \* "drain" or "stopped"
  target,     \* what Run applies: "batch" or "rollups"
  final,      \* Run applies with its shutdown context
  batch,      \* Run's batch
  rollups,    \* Run's coalesced rollups, by bucket
  shutdown,   \* Run's context is done
  rows,       \* the database: events inserted, in order
  added,      \* the database: how often each rollup was added
  raised,     \* history: events Enqueue was called with
  accepted,   \* history: events the queue took, in order
  broken,     \* history: a transaction has failed and not for being busy
  flushFailed \* history: an apply with the shutdown context has failed

vars == <<queue, calling, disabled, degraded, pc, target, final, batch, rollups,
          shutdown, rows, added, raised, accepted, broken, flushFailed>>
callers == <<calling, raised, accepted>>
database == <<rows, added>>
history == <<broken, flushFailed>>

Init ==
  /\ queue = <<>>
  /\ calling = {}
  /\ disabled = FALSE
  /\ degraded = FALSE
  /\ pc = "select"
  /\ target = "batch"
  /\ final = FALSE
  /\ batch = <<>>
  /\ rollups = [b \in Buckets |-> {}]
  /\ shutdown = FALSE
  /\ rows = <<>>
  /\ added = [r \in Rollups |-> 0]
  /\ raised = {}
  /\ accepted = <<>>
  /\ broken = FALSE
  /\ flushFailed = FALSE

-----------------------------------------------------------------------------
(* Enqueue.                                                                *)

\* Load disabled; a disabled writer drops the event.
EnqueueCheck(e) ==
  /\ e \notin raised
  /\ raised' = raised \cup {e}
  /\ calling' = IF disabled THEN calling ELSE calling \cup {e}
  /\ UNCHANGED <<queue, disabled, degraded, pc, target, final, batch, rollups,
                 shutdown, accepted>>
  /\ UNCHANGED <<database, history>>

\* Send if the queue has room, else drop.
EnqueueSend(e) ==
  /\ e \in calling
  /\ calling' = calling \ {e}
  /\ IF Len(queue) < Capacity
       THEN queue' = Append(queue, e) /\ accepted' = Append(accepted, e)
       ELSE UNCHANGED <<queue, accepted>>
  /\ UNCHANGED <<disabled, degraded, pc, target, final, batch, rollups, shutdown,
                 raised>>
  /\ UNCHANGED <<database, history>>

-----------------------------------------------------------------------------
(* Run: collecting.                                                        *)

\* The buckets that hold a rollup.
Filled == {b \in Buckets : rollups[b] # {}}

\* The test at the head of the loop.
Full == ~disabled /\ (Len(batch) >= BatchMax \/ Cardinality(Filled) >= BatchMax)

\* Mutant of addEvent: the newest event is written first.
addEventFront(e) ==
  IF e \in Rollups
    THEN /\ rollups' = [rollups EXCEPT ![BucketOf[e]] = @ \cup {e}]
         /\ UNCHANGED batch
    ELSE /\ batch' = <<e>> \o batch
         /\ UNCHANGED rollups

addEvent(e) ==
  IF e \in Rollups
    THEN /\ rollups' = [rollups EXCEPT ![BucketOf[e]] = @ \cup {e}]
         /\ UNCHANGED batch
    ELSE /\ batch' = Append(batch, e)
         /\ UNCHANGED rollups

\* The queue case of the select; a disabled writer drops what it receives.
Receive ==
  /\ pc = "select"
  /\ ~Full
  /\ queue # <<>>
  /\ queue' = Tail(queue)
  /\ IF disabled THEN UNCHANGED <<batch, rollups>> ELSE addEvent(Head(queue))
  /\ UNCHANGED <<disabled, degraded, pc, target, final, shutdown>>
  /\ UNCHANGED <<callers, database, history>>

Start(t) ==
  /\ pc' = "apply"
  /\ target' = t
  /\ UNCHANGED <<queue, disabled, degraded, final, batch, rollups, shutdown>>
  /\ UNCHANGED <<callers, database, history>>

\* The batch, or else the rollups, are full.
ApplyFull ==
  /\ pc = "select"
  /\ Full
  /\ Start(IF Len(batch) >= BatchMax THEN "batch" ELSE "rollups")

\* Mutant of Tick: the ticker of the rollups is missing.
TickBatch(t) ==
  /\ pc = "select"
  /\ ~Full
  /\ t = "batch" /\ batch # <<>>
  /\ Start(t)

\* The ticker cases; with nothing to apply applyUntil returns at once.  They
\* do not ask whether the writer is disabled.
Tick(t) ==
  /\ pc = "select"
  /\ ~Full
  /\ IF t = "batch" THEN batch # <<>> ELSE Filled # {}
  /\ Start(t)

-----------------------------------------------------------------------------
(* applyUntil.                                                             *)

\* What follows an apply: the select, or at shutdown the rollups and the end.
After ==
  IF ~final THEN pc' = "select" /\ UNCHANGED target
  ELSE IF target = "batch" THEN pc' = "apply" /\ target' = "rollups"
  ELSE pc' = "stopped" /\ UNCHANGED target

\* Run forgets what it applied or gave up for good.
Clear ==
  IF target = "batch" THEN batch' = <<>> /\ UNCHANGED rollups
                      ELSE rollups' = [b \in Buckets |-> {}] /\ UNCHANGED batch

Keep == UNCHANGED <<batch, rollups>>

Empty == IF target = "batch" THEN batch = <<>> ELSE Filled = {}

\* Only the shutdown's applies can have nothing to do.
ApplyNothing ==
  /\ pc = "apply"
  /\ Empty
  /\ After
  /\ Keep
  /\ UNCHANGED <<queue, disabled, degraded, final, shutdown>>
  /\ UNCHANGED <<callers, database, history>>

\* The transaction begins unless the context is already done.
Begin ==
  /\ pc = "apply"
  /\ ~Empty
  /\ final \/ ~shutdown
  /\ pc' = "transaction"
  /\ Keep
  /\ UNCHANGED <<queue, disabled, degraded, target, final, shutdown>>
  /\ UNCHANGED <<callers, database, history>>

\* The transaction commits, as a whole.
Succeed ==
  /\ pc = "transaction"
  /\ rows' = IF target = "batch" THEN rows \o batch ELSE rows
  /\ added' = IF target = "batch" THEN added
              ELSE [r \in Rollups |-> added[r] + IF r \in rollups[BucketOf[r]] THEN 1 ELSE 0]
  /\ degraded' = FALSE
  /\ Clear
  /\ After
  /\ UNCHANGED <<queue, disabled, final, shutdown>>
  /\ UNCHANGED <<callers, history>>

\* The database is busy: back off, or give up for now when the budget is
\* spent.
Busy ==
  /\ pc = "transaction"
  /\ degraded' = TRUE
  /\ \/ pc' = "backoff" /\ UNCHANGED <<target, flushFailed>>
     \/ After /\ flushFailed' = (flushFailed \/ final)
  /\ Keep
  /\ UNCHANGED <<queue, disabled, final, shutdown, broken>>
  /\ UNCHANGED <<callers, database>>

BackoffEnds ==
  /\ pc = "backoff"
  /\ pc' = "apply"
  /\ Keep
  /\ UNCHANGED <<queue, disabled, degraded, target, final, shutdown>>
  /\ UNCHANGED <<callers, database, history>>

\* The context ends during the backoff; the shutdown's context has a timeout.
BackoffCancelled ==
  /\ pc = "backoff"
  /\ shutdown
  /\ After
  /\ Keep
  /\ flushFailed' = (flushFailed \/ final)
  /\ UNCHANGED <<queue, disabled, degraded, final, shutdown, broken>>
  /\ UNCHANGED <<callers, database>>

\* Any other error disables the writer and drops what was to be applied.
Permanent ==
  /\ degraded' = TRUE
  /\ disabled' = TRUE
  /\ Clear
  /\ After
  /\ UNCHANGED <<queue, final, shutdown>>
  /\ UNCHANGED <<callers, database>>

Fail ==
  /\ pc = "transaction"
  /\ broken' = TRUE
  /\ Permanent
  /\ UNCHANGED flushFailed

\* The context is done before or during the transaction: transientWriteError
\* says no, although the database is well.
Cancelled ==
  /\ pc \in {"apply", "transaction"}
  /\ shutdown
  /\ ~Empty
  /\ flushFailed' = (flushFailed \/ final)
  /\ Permanent
  /\ UNCHANGED broken

-----------------------------------------------------------------------------
(* Shutdown.                                                               *)

Shutdown ==
  /\ ~shutdown
  /\ shutdown' = TRUE
  /\ UNCHANGED <<queue, disabled, degraded, pc, target, final, batch, rollups>>
  /\ UNCHANGED <<callers, database, history>>

\* The select sees the context done.
Stop ==
  /\ pc = "select"
  /\ ~Full
  /\ shutdown
  /\ pc' = "drain"
  /\ UNCHANGED <<queue, disabled, degraded, target, final, batch, rollups, shutdown>>
  /\ UNCHANGED <<callers, database, history>>

\* drainInto, which takes every event there is, disabled or not.
DrainEvent ==
  /\ pc = "drain"
  /\ queue # <<>>
  /\ queue' = Tail(queue)
  /\ addEvent(Head(queue))
  /\ UNCHANGED <<disabled, degraded, pc, target, final, shutdown>>
  /\ UNCHANGED <<callers, database, history>>

DrainEnds ==
  /\ pc = "drain"
  /\ queue = <<>>
  /\ final' = TRUE
  /\ pc' = "apply"
  /\ target' = "batch"
  /\ Keep
  /\ UNCHANGED <<queue, disabled, degraded, shutdown>>
  /\ UNCHANGED <<callers, database, history>>

-----------------------------------------------------------------------------
Collect == Receive \/ ApplyFull \/ (\E t \in {"batch", "rollups"} : Tick(t))

Apply ==
  \/ ApplyNothing \/ Begin
  \/ Succeed \/ Busy \/ Fail \/ Cancelled
  \/ BackoffEnds \/ BackoffCancelled

Run == Collect \/ Apply \/ Stop \/ DrainEvent \/ DrainEnds

Next ==
  \/ \E e \in Events \cup Rollups : EnqueueCheck(e) \/ EnqueueSend(e)
  \/ Run
  \/ Shutdown

\* Calls of Enqueue run on and Run keeps looping; select picks at random among
\* its ready cases, so each of them is served, and so is each ticker.  The
\* shutdown's context times out.
Fairness ==
  /\ \A e \in Events \cup Rollups : WF_vars(EnqueueSend(e))
  /\ WF_vars(Run)
  /\ SF_vars(Receive) /\ SF_vars(Stop) /\ SF_vars(BackoffCancelled)
  /\ \A t \in {"batch", "rollups"} : SF_vars(Tick(t))

\* A database that is not broken does not stay busy for ever.
DatabaseRecovers ==
  \A t \in {"batch", "rollups"} : SF_vars(target = t /\ Succeed)

Spec == Init /\ [][Next]_vars
FairSpec == Spec /\ Fairness

-----------------------------------------------------------------------------
(* Properties.                                                             *)

\* Type correctness; the queue stays within its capacity and a rollup in its
\* bucket.
TypeOK ==
  /\ queue \in Seq(Events \cup Rollups) /\ Len(queue) <= Capacity
  /\ calling \subseteq raised
  /\ disabled \in BOOLEAN
  /\ degraded \in BOOLEAN
  /\ pc \in {"select", "apply", "transaction", "backoff", "drain", "stopped"}
  /\ target \in {"batch", "rollups"}
  /\ final \in BOOLEAN
  /\ batch \in Seq(Events)
  /\ rollups \in [Buckets -> SUBSET Rollups]
  /\ \A b \in Buckets : \A r \in rollups[b] : BucketOf[r] = b
  /\ shutdown \in BOOLEAN
  /\ rows \in Seq(Events)
  /\ added \in [Rollups -> Nat]
  /\ raised \subseteq Events \cup Rollups
  /\ accepted \in Seq(raised)
  /\ broken \in BOOLEAN
  /\ flushFailed \in BOOLEAN

Written == Range(rows) \cup {r \in Rollups : added[r] > 0}
Held == Range(queue) \cup Range(batch) \cup UNION Range(rollups)

\* However often a batch is retried, no event is inserted and no rollup added
\* twice, and what is still held has not been written yet.
WrittenOnce ==
  /\ \A i, j \in DOMAIN rows : rows[i] = rows[j] => i = j
  /\ \A r \in Rollups : added[r] <= 1
  /\ Held \cap Written = {}

\* While no transaction has failed for good and the process runs, nothing
\* accepted is lost: a busy database only delays it.
BusyLosesNothing == ~broken /\ ~shutdown => Range(accepted) \subseteq Held \cup Written

\* Until shutdown a busy database does not make the memory grow: neither the
\* batch nor the rollups exceed batchMax.
MemoryBounded ==
  ~shutdown => Len(batch) <= BatchMax /\ Cardinality(Filled) <= BatchMax

\* What is written and what is on its way, in the order it was or will be
\* taken up.
Line == rows \o batch \o queue

\* An alert state overwrites the one before it, so events must reach the
\* database in the order the queue accepted them, retries included.
WrittenInOrder ==
  \A i, j \in DOMAIN Line : i < j =>
    \E m, n \in DOMAIN accepted :
      m < n /\ accepted[m] = Line[i] /\ accepted[n] = Line[j]

\* A shutdown without a database fault writes everything Run had received.
ShutdownFlushes ==
  pc = "stopped" /\ ~broken /\ ~flushFailed =>
    Range(accepted) \subseteq Range(queue) \cup Written

\* Every accepted event is written in the end, as long as the database
\* recovers from being busy and the process is not stopped: once the calls of
\* Enqueue cease, nothing stays behind in the queue, a half-full batch or a
\* bucket.
AcceptedIsWritten ==
  DatabaseRecovers =>
    <>[](Range(accepted) \subseteq Written \/ broken \/ shutdown)

\* Shutdown ends the writer, even if the database is busy for ever.
StopsAtShutdown == shutdown ~> pc = "stopped"

\* Through every retry, overflow and shutdown what is accepted is written once,
\* in order, without being lost to a busy database and in bounded memory.
WritesSound ==
  TypeOK /\ WrittenOnce /\ BusyLosesNothing /\ MemoryBounded /\ WrittenInOrder

\* What is accepted is written in the end, and shutdown ends the writer.
WriterProgress == AcceptedIsWritten /\ StopsAtShutdown

=============================================================================
