----------------------- MODULE PersistenceWriterProofs -----------------------
(***************************************************************************)
(* Proofs about PersistenceWriter, for any events, rollups and buckets and *)
(* any sizes of the queue and the batch: WritesSound.                      *)
(*                                                                         *)
(* The order in which the queue accepted the events carries the argument.  *)
(* No event is accepted twice (AcceptedOnce), so an event that comes       *)
(* before another in this order is not that other (Before); keeping the    *)
(* rows, the batch and the queue in this order (Ordered) therefore also    *)
(* keeps them apart.  Rollups leave the order when they are coalesced and  *)
(* are followed by themselves (RollupsOK).  A busy database loses nothing  *)
(* because only a fault or the shutdown disables the writer (PhaseOK), and *)
(* the memory is bounded because the select never receives when full.      *)
(***************************************************************************)
EXTENDS PersistenceWriter, FiniteSetTheorems, TLAPS

USE EventAssumption, SizeAssumption DEF EventAssumption, SizeAssumption

\* x was accepted before y.
Before(x, y) ==
  \E m, n \in DOMAIN accepted : m < n /\ accepted[m] = x /\ accepted[n] = y

AcceptedOnce ==
  /\ \A m, n \in DOMAIN accepted : accepted[m] = accepted[n] => m = n
  /\ calling \cap Range(accepted) = {}

InOrder(s) == \A i, j \in DOMAIN s : i < j => Before(s[i], s[j])

\* What is in the database comes before the batch, and both before the queue.
Ordered ==
  /\ InOrder(rows) /\ InOrder(batch) /\ InOrder(queue)
  /\ \A x \in Range(rows), y \in Range(batch) : Before(x, y)
  /\ \A x \in Range(rows), y \in Range(queue) : Before(x, y)
  /\ \A x \in Range(batch), y \in Range(queue) : Before(x, y)
  /\ Range(rows) \cup Range(batch) \cup Range(queue) \subseteq Range(accepted)

\* A rollup that Run holds or the database has added is not in the queue, and
\* not both.
RollupsOK ==
  \A r \in Rollups :
    /\ added[r] <= 1
    /\ added[r] > 0 => r \notin rollups[BucketOf[r]]
    /\ added[r] > 0 \/ r \in rollups[BucketOf[r]] =>
         r \in Range(accepted) /\ r \notin Range(queue)

\* Only a fault of the database or the shutdown disables the writer, and only
\* the shutdown drains it.
PhaseOK ==
  /\ disabled => broken \/ shutdown
  /\ pc = "drain" \/ final => shutdown

IInv ==
  /\ TypeOK
  /\ AcceptedOnce
  /\ Ordered
  /\ RollupsOK
  /\ PhaseOK
  /\ IsFiniteSet(Filled)
  /\ BusyLosesNothing
  /\ MemoryBounded

-----------------------------------------------------------------------------
(* Sequences and their ranges.                                             *)

LEMMA AppendFacts ==
  ASSUME NEW S, NEW s \in Seq(S), NEW x \in S
  PROVE  /\ Append(s, x) \in Seq(S)
         /\ Len(s) \in Nat /\ Len(Append(s, x)) = Len(s) + 1
         /\ DOMAIN s = 1..Len(s)
         /\ DOMAIN Append(s, x) = 1..(Len(s) + 1)
         /\ \A i \in 1..Len(s) : Append(s, x)[i] = s[i]
         /\ Append(s, x)[Len(s) + 1] = x
OBVIOUS

LEMMA AppendRange ==
  ASSUME NEW S, NEW s \in Seq(S), NEW x \in S
  PROVE  Range(Append(s, x)) = Range(s) \cup {x}
<1>1. Range(Append(s, x)) \subseteq Range(s) \cup {x}
  BY AppendFacts DEF Range
<1>2. Range(s) \subseteq Range(Append(s, x))
  <2> SUFFICES ASSUME NEW i \in DOMAIN s PROVE s[i] \in Range(Append(s, x))
    BY DEF Range
  <2>1. i \in DOMAIN Append(s, x) /\ Append(s, x)[i] = s[i]
    BY AppendFacts
  <2> QED
    BY <2>1 DEF Range
<1>3. x \in Range(Append(s, x))
  <2>1. Len(s) + 1 \in DOMAIN Append(s, x) /\ Append(s, x)[Len(s) + 1] = x
    BY AppendFacts
  <2> QED
    BY <2>1 DEF Range
<1> QED
  BY <1>1, <1>2, <1>3

LEMMA TailFacts ==
  ASSUME NEW S, NEW s \in Seq(S), s # <<>>
  PROVE  /\ Tail(s) \in Seq(S)
         /\ Len(s) \in Nat \ {0} /\ DOMAIN s = 1..Len(s)
         /\ Len(Tail(s)) = Len(s) - 1
         /\ DOMAIN Tail(s) = 1..(Len(s) - 1)
         /\ \A i \in 1..(Len(s) - 1) : Tail(s)[i] = s[i + 1]
         /\ Head(s) = s[1] /\ Head(s) \in S
<1>1. Len(s) \in Nat /\ Len(s) # 0 /\ DOMAIN s = 1..Len(s)
  OBVIOUS
<1>2. Tail(s) \in Seq(S) /\ Len(Tail(s)) = Len(s) - 1
      /\ \A i \in 1..(Len(s) - 1) : Tail(s)[i] = s[i + 1]
  BY <1>1
<1>3. DOMAIN Tail(s) = 1..(Len(s) - 1)
  BY <1>2
<1>4. Head(s) = s[1] /\ Head(s) \in S
  BY <1>1
<1> QED
  BY <1>1, <1>2, <1>3, <1>4

LEMMA TailRange ==
  ASSUME NEW S, NEW s \in Seq(S), s # <<>>
  PROVE  Range(s) = Range(Tail(s)) \cup {Head(s)}
<1>1. Range(Tail(s)) \subseteq Range(s)
  <2> SUFFICES ASSUME NEW i \in DOMAIN Tail(s) PROVE Tail(s)[i] \in Range(s)
    BY DEF Range
  <2>1. i + 1 \in DOMAIN s /\ Tail(s)[i] = s[i + 1]
    BY TailFacts
  <2> QED
    BY <2>1 DEF Range
<1>2. Head(s) \in Range(s)
  <2>1. 1 \in DOMAIN s /\ Head(s) = s[1]
    BY TailFacts
  <2> QED
    BY <2>1 DEF Range
<1>3. ASSUME NEW i \in DOMAIN s PROVE s[i] \in Range(Tail(s)) \cup {Head(s)}
  <2>1. CASE i = 1
    BY <2>1, TailFacts
  <2>2. CASE i # 1
    <3>1. i - 1 \in DOMAIN Tail(s)
      BY <2>2, TailFacts
    <3>2. Tail(s)[i - 1] = s[i]
      BY <2>2, <3>1, TailFacts
    <3> QED
      BY <3>1, <3>2 DEF Range
  <2> QED
    BY <2>1, <2>2
<1> QED
  BY <1>1, <1>2, <1>3 DEF Range

LEMMA ConcatFacts ==
  ASSUME NEW S, NEW s \in Seq(S), NEW t \in Seq(S)
  PROVE  /\ s \o t \in Seq(S)
         /\ Len(s) \in Nat /\ Len(t) \in Nat /\ Len(s \o t) = Len(s) + Len(t)
         /\ DOMAIN s = 1..Len(s) /\ DOMAIN t = 1..Len(t)
         /\ DOMAIN (s \o t) = 1..(Len(s) + Len(t))
         /\ \A i \in 1..(Len(s) + Len(t)) :
              (s \o t)[i] = IF i <= Len(s) THEN s[i] ELSE t[i - Len(s)]
OBVIOUS

LEMMA ConcatRange ==
  ASSUME NEW S, NEW s \in Seq(S), NEW t \in Seq(S)
  PROVE  Range(s \o t) = Range(s) \cup Range(t)
<1>1. ASSUME NEW i \in DOMAIN (s \o t) PROVE (s \o t)[i] \in Range(s) \cup Range(t)
  <2>1. CASE i <= Len(s)
    <3>1. i \in DOMAIN s /\ (s \o t)[i] = s[i]
      BY <2>1, ConcatFacts
    <3> QED
      BY <3>1 DEF Range
  <2>2. CASE ~(i <= Len(s))
    <3>1. i - Len(s) \in DOMAIN t /\ (s \o t)[i] = t[i - Len(s)]
      BY <2>2, ConcatFacts
    <3> QED
      BY <3>1 DEF Range
  <2> QED
    BY <2>1, <2>2
<1>2. ASSUME NEW i \in DOMAIN s PROVE s[i] \in Range(s \o t)
  <2>1. i \in DOMAIN (s \o t) /\ (s \o t)[i] = s[i]
    BY ConcatFacts
  <2> QED
    BY <2>1 DEF Range
<1>3. ASSUME NEW i \in DOMAIN t PROVE t[i] \in Range(s \o t)
  <2>1. Len(s) + i \in DOMAIN (s \o t) /\ (s \o t)[Len(s) + i] = t[i]
    BY ConcatFacts
  <2> QED
    BY <2>1 DEF Range
<1> QED
  BY <1>1, <1>2, <1>3 DEF Range

LEMMA EmptyRange == Range(<<>>) = {}
BY DEF Range

\* Two sequences in order, the first before the second, are in order together.
LEMMA ConcatInOrder ==
  ASSUME NEW S, NEW s \in Seq(S), NEW t \in Seq(S), InOrder(s), InOrder(t),
         \A x \in Range(s), y \in Range(t) : Before(x, y)
  PROVE  InOrder(s \o t)
<1> SUFFICES ASSUME NEW i \in DOMAIN (s \o t), NEW j \in DOMAIN (s \o t), i < j
             PROVE  Before((s \o t)[i], (s \o t)[j])
  BY DEF InOrder
<1>1. i \in Nat /\ j \in Nat /\ Len(s) \in Nat
  BY ConcatFacts
<1>2. CASE j <= Len(s)
  <2>1. i \in DOMAIN s /\ j \in DOMAIN s /\ (s \o t)[i] = s[i] /\ (s \o t)[j] = s[j]
    BY <1>1, <1>2, ConcatFacts
  <2> QED
    BY <2>1 DEF InOrder
<1>3. CASE i <= Len(s) /\ j > Len(s)
  <2>1. i \in DOMAIN s /\ (s \o t)[i] = s[i]
    BY <1>1, <1>3, ConcatFacts
  <2>2. j - Len(s) \in DOMAIN t /\ (s \o t)[j] = t[j - Len(s)]
    BY <1>1, <1>3, ConcatFacts
  <2>3. s[i] \in Range(s) /\ t[j - Len(s)] \in Range(t)
    BY <2>1, <2>2 DEF Range
  <2> QED
    BY <2>1, <2>2, <2>3
<1>4. CASE i > Len(s)
  <2>1. i - Len(s) \in DOMAIN t /\ (s \o t)[i] = t[i - Len(s)]
    BY <1>1, <1>4, ConcatFacts
  <2>2. j - Len(s) \in DOMAIN t /\ (s \o t)[j] = t[j - Len(s)]
    BY <1>1, <1>4, ConcatFacts
  <2>3. i - Len(s) < j - Len(s)
    BY <1>1
  <2> QED
    BY <2>1, <2>2, <2>3 DEF InOrder
<1> QED
  BY <1>1, <1>2, <1>3, <1>4

LEMMA AppendInOrder ==
  ASSUME NEW S, NEW s \in Seq(S), NEW x \in S, InOrder(s),
         \A y \in Range(s) : Before(y, x)
  PROVE  InOrder(Append(s, x))
<1> SUFFICES ASSUME NEW i \in DOMAIN Append(s, x), NEW j \in DOMAIN Append(s, x), i < j
             PROVE  Before(Append(s, x)[i], Append(s, x)[j])
  BY DEF InOrder
<1>1. i \in DOMAIN s /\ Append(s, x)[i] = s[i]
  BY AppendFacts
<1>2. CASE j = Len(s) + 1
  <2>1. Append(s, x)[j] = x /\ s[i] \in Range(s)
    BY <1>1, <1>2, AppendFacts DEF Range
  <2> QED
    BY <1>1, <2>1
<1>3. CASE j # Len(s) + 1
  <2>1. j \in DOMAIN s /\ Append(s, x)[j] = s[j]
    BY <1>3, AppendFacts
  <2> QED
    BY <1>1, <2>1 DEF InOrder
<1> QED
  BY <1>2, <1>3

LEMMA TailInOrder ==
  ASSUME NEW S, NEW s \in Seq(S), s # <<>>, InOrder(s)
  PROVE  /\ InOrder(Tail(s))
         /\ \A y \in Range(Tail(s)) : Before(Head(s), y)
<1>1. ASSUME NEW i \in DOMAIN Tail(s)
      PROVE  i \in Nat /\ i + 1 \in DOMAIN s /\ Tail(s)[i] = s[i + 1] /\ 1 < i + 1
  BY TailFacts
<1>2. InOrder(Tail(s))
  <2> SUFFICES ASSUME NEW i \in DOMAIN Tail(s), NEW j \in DOMAIN Tail(s), i < j
               PROVE  Before(Tail(s)[i], Tail(s)[j])
    BY DEF InOrder
  <2>1. i + 1 < j + 1
    BY <1>1
  <2> QED
    BY <1>1, <2>1 DEF InOrder
<1>3. ASSUME NEW i \in DOMAIN Tail(s) PROVE Before(Head(s), Tail(s)[i])
  <2>1. Head(s) = s[1] /\ 1 \in DOMAIN s
    BY TailFacts
  <2> QED
    BY <1>1, <2>1 DEF InOrder
<1> QED
  BY <1>2, <1>3 DEF Range

-----------------------------------------------------------------------------
LEMMA InitInv == Init => IInv
<1> SUFFICES ASSUME Init PROVE IInv
  OBVIOUS
<1>1. TypeOK
  <2>1. /\ queue \in Seq(Events \cup Rollups) /\ Len(queue) <= Capacity
        /\ batch \in Seq(Events) /\ rows \in Seq(Events) /\ accepted \in Seq(raised)
    BY DEF Init
  <2>2. rollups \in [Buckets -> SUBSET Rollups] /\ added \in [Rollups -> Nat]
        /\ \A b \in Buckets : \A r \in rollups[b] : BucketOf[r] = b
    BY DEF Init
  <2>3. calling \subseteq raised /\ raised \subseteq Events \cup Rollups
    BY DEF Init
  <2>4. disabled \in BOOLEAN /\ degraded \in BOOLEAN /\ final \in BOOLEAN
        /\ shutdown \in BOOLEAN /\ broken \in BOOLEAN /\ flushFailed \in BOOLEAN
    BY DEF Init
  <2>5. /\ pc \in {"select", "apply", "transaction", "backoff", "drain", "stopped"}
        /\ target \in {"batch", "rollups"}
    BY DEF Init
  <2> QED
    BY <2>1, <2>2, <2>3, <2>4, <2>5 DEF TypeOK
<1>2. Range(accepted) = {} /\ Range(queue) = {} /\ Range(batch) = {} /\ Range(rows) = {}
      /\ DOMAIN accepted = {} /\ DOMAIN rows = {} /\ DOMAIN batch = {} /\ DOMAIN queue = {}
  BY EmptyRange DEF Init
<1>3. AcceptedOnce /\ Ordered
  BY <1>2 DEF AcceptedOnce, Ordered, InOrder
<1>4. RollupsOK
  BY <1>2 DEF RollupsOK, Init
<1>5. PhaseOK
  BY DEF PhaseOK, Init
<1>6. Filled = {}
  BY DEF Init, Filled
<1>7. IsFiniteSet(Filled) /\ Cardinality(Filled) = 0
  BY <1>6, FS_EmptySet
<1>8. BusyLosesNothing
  BY <1>2 DEF BusyLosesNothing
<1>9. MemoryBounded
  <2>1. Len(batch) = 0
    BY DEF Init
  <2> QED
    BY <1>7, <2>1 DEF MemoryBounded
<1> QED
  BY <1>1, <1>3, <1>4, <1>5, <1>7, <1>8, <1>9 DEF IInv

-----------------------------------------------------------------------------
(* What the steps do to the events, whatever Run's place in its loop.      *)

events == <<queue, calling, batch, rollups, rows, added, raised, accepted>>

\* The head of the queue goes to the batch or its bucket, or is dropped by a
\* writer that is disabled.
Taken ==
  /\ queue # <<>>
  /\ queue' = Tail(queue)
  /\ \/ disabled /\ UNCHANGED <<batch, rollups>>
     \/ ((~disabled /\ ~Full) \/ shutdown) /\ addEvent(Head(queue))
  /\ UNCHANGED <<calling, rows, added, raised, accepted, broken, shutdown>>

\* What was to be applied is given up.
Dropped ==
  /\ Clear
  /\ broken' = TRUE \/ shutdown' = TRUE
  /\ UNCHANGED <<queue, calling, rows, added, raised, accepted>>

\* No event moves.
Quiet ==
  /\ UNCHANGED events
  /\ broken => broken'
  /\ shutdown => shutdown'

LEMMA NextCases ==
  ASSUME TypeOK, PhaseOK, [Next]_vars
  PROVE  \/ \E e \in Events \cup Rollups : EnqueueCheck(e)
         \/ \E e \in Events \cup Rollups : EnqueueSend(e)
         \/ Taken \/ Succeed \/ Dropped \/ Quiet
<1>1. CASE Receive
  <2>1. CASE disabled
    BY <1>1, <2>1 DEF Receive, Taken, callers, database, history
  <2>2. CASE ~disabled
    BY <1>1, <2>2 DEF Receive, Taken, callers, database, history
  <2> QED
    BY <2>1, <2>2
<1>2. ASSUME NEW t, Start(t) PROVE Quiet
  BY <1>2 DEF Start, Quiet, events, callers, database, history
<1>3. CASE ApplyFull
  BY <1>2, <1>3 DEF ApplyFull
<1>4. ASSUME NEW t \in {"batch", "rollups"}, Tick(t) PROVE Quiet
  BY <1>2, <1>4 DEF Tick
<1>5. CASE ApplyNothing
  BY <1>5 DEF ApplyNothing, Keep, Quiet, events, callers, database, history
<1>6. CASE Begin
  BY <1>6 DEF Begin, Keep, Quiet, events, callers, database, history
<1>7. CASE Busy
  BY <1>7 DEF Busy, Keep, Quiet, events, callers, database, history
<1>8. CASE BackoffEnds
  BY <1>8 DEF BackoffEnds, Keep, Quiet, events, callers, database, history
<1>9. CASE BackoffCancelled
  BY <1>9 DEF BackoffCancelled, Keep, Quiet, events, callers, database, history
<1>10. CASE Fail
  BY <1>10 DEF Fail, Permanent, Dropped, callers, database
<1>11. CASE Cancelled
  <2>1. shutdown' = TRUE
    BY <1>11 DEF Cancelled, Permanent, TypeOK
  <2> QED
    BY <1>11, <2>1 DEF Cancelled, Permanent, Dropped, callers, database
<1>12. CASE Shutdown
  BY <1>12 DEF Shutdown, Quiet, events, callers, database, history
<1>13. CASE Stop
  BY <1>13 DEF Stop, Quiet, events, callers, database, history
<1>14. CASE DrainEvent
  <2>1. shutdown
    BY <1>14 DEF DrainEvent, PhaseOK
  <2> QED
    BY <1>14, <2>1 DEF DrainEvent, Taken, callers, database, history
<1>15. CASE DrainEnds
  BY <1>15 DEF DrainEnds, Keep, Quiet, events, callers, database, history
<1>16. CASE UNCHANGED vars
  BY <1>16 DEF vars, Quiet, events
<1> QED
  BY <1>1, <1>3, <1>4, <1>5, <1>6, <1>7, <1>8, <1>9, <1>10, <1>11, <1>12, <1>13, <1>14, <1>15,
     <1>16 DEF Next, Run, Collect, Apply

\* The event added is of the kind its collection is for.
LEMMA AddType ==
  ASSUME TypeOK, NEW e \in Events \cup Rollups, addEvent(e)
  PROVE  \/ e \in Rollups /\ batch' = batch
            /\ rollups' = [rollups EXCEPT ![BucketOf[e]] = @ \cup {e}]
         \/ e \in Events /\ batch' = Append(batch, e) /\ rollups' = rollups
<1>1. CASE e \in Rollups
  BY <1>1 DEF addEvent
<1>2. CASE e \notin Rollups
  BY <1>2 DEF addEvent
<1> QED
  BY <1>1, <1>2

-----------------------------------------------------------------------------
(* Types.                                                                  *)

EventsOK ==
  /\ queue \in Seq(Events \cup Rollups) /\ Len(queue) <= Capacity
  /\ calling \subseteq raised
  /\ batch \in Seq(Events)
  /\ rollups \in [Buckets -> SUBSET Rollups]
  /\ \A b \in Buckets : \A r \in rollups[b] : BucketOf[r] = b
  /\ rows \in Seq(Events)
  /\ added \in [Rollups -> Nat]
  /\ raised \subseteq Events \cup Rollups
  /\ accepted \in Seq(raised)

ControlOK ==
  /\ disabled \in BOOLEAN /\ degraded \in BOOLEAN /\ final \in BOOLEAN
  /\ shutdown \in BOOLEAN /\ broken \in BOOLEAN /\ flushFailed \in BOOLEAN
  /\ pc \in {"select", "apply", "transaction", "backoff", "drain", "stopped"}
  /\ target \in {"batch", "rollups"}

LEMMA TypeParts == TypeOK <=> EventsOK /\ ControlOK
BY DEF TypeOK, EventsOK, ControlOK

LEMMA ClearType ==
  ASSUME TypeOK, Clear
  PROVE  /\ batch' \in Seq(Events) /\ rollups' \in [Buckets -> SUBSET Rollups]
         /\ \A b \in Buckets : \A r \in rollups'[b] : BucketOf[r] = b
<1>1. CASE target = "batch"
  BY <1>1 DEF TypeOK, Clear
<1>2. CASE target # "batch"
  BY <1>2 DEF TypeOK, Clear
<1> QED
  BY <1>1, <1>2

LEMMA EventsStep == ASSUME TypeOK, PhaseOK, [Next]_vars PROVE EventsOK'
<1>1. EventsOK
  BY TypeParts
<1>2. ASSUME NEW e \in Events \cup Rollups, EnqueueCheck(e) PROVE EventsOK'
  <2>1. raised' = raised \cup {e} /\ calling' \subseteq calling \cup {e}
        /\ UNCHANGED <<queue, batch, rollups, accepted, rows, added>>
    BY <1>2 DEF EnqueueCheck, database
  <2>2. accepted' \in Seq(raised')
    <3>1. raised \subseteq raised'
      BY <2>1
    <3> QED
      BY <1>1, <2>1, <3>1 DEF EventsOK
  <2> QED
    BY <1>1, <2>1, <2>2 DEF EventsOK
<1>3. ASSUME NEW e \in Events \cup Rollups, EnqueueSend(e) PROVE EventsOK'
  <2>1. e \in calling /\ calling' = calling \ {e}
        /\ UNCHANGED <<raised, batch, rollups, rows, added>>
    BY <1>3 DEF EnqueueSend, database
  <2>2. e \in raised
    BY <1>1, <2>1 DEF EventsOK
  <2>3. queue' \in Seq(Events \cup Rollups) /\ Len(queue') <= Capacity
        /\ accepted' \in Seq(raised)
    <3>1. CASE Len(queue) < Capacity
      <4>1. queue' = Append(queue, e) /\ accepted' = Append(accepted, e)
        BY <1>3, <3>1 DEF EnqueueSend
      <4> QED
        BY <1>1, <2>2, <3>1, <4>1 DEF EventsOK
    <3>2. CASE ~(Len(queue) < Capacity)
      BY <1>1, <1>3, <3>2 DEF EnqueueSend, EventsOK
    <3> QED
      BY <3>1, <3>2
  <2> QED
    BY <1>1, <2>1, <2>3 DEF EventsOK
<1>4. CASE Taken
  <2>1. queue # <<>> /\ queue' = Tail(queue)
        /\ UNCHANGED <<calling, rows, added, raised, accepted>>
        /\ (UNCHANGED <<batch, rollups>> \/ addEvent(Head(queue)))
    BY <1>4 DEF Taken
  <2>2. queue \in Seq(Events \cup Rollups) /\ Len(queue) <= Capacity
    BY <1>1 DEF EventsOK
  <2>3. queue' \in Seq(Events \cup Rollups) /\ Head(queue) \in Events \cup Rollups
        /\ Len(queue') = Len(queue) - 1 /\ Len(queue) \in Nat \ {0}
    BY <2>1, <2>2, TailFacts
  <2>4. Len(queue') <= Capacity
    BY <2>2, <2>3
  <2>5. batch' \in Seq(Events) /\ rollups' \in [Buckets -> SUBSET Rollups]
        /\ \A b \in Buckets : \A r \in rollups'[b] : BucketOf[r] = b
    <3>1. CASE UNCHANGED <<batch, rollups>>
      BY <1>1, <3>1 DEF EventsOK
    <3>2. CASE addEvent(Head(queue))
      <4> DEFINE e == Head(queue)
      <4>1. e \in Events \cup Rollups
        BY <2>3
      <4> HIDE DEF e
      <4>2. CASE e \in Rollups /\ batch' = batch
                 /\ rollups' = [rollups EXCEPT ![BucketOf[e]] = @ \cup {e}]
        BY <1>1, <4>2 DEF EventsOK
      <4>3. CASE e \in Events /\ batch' = Append(batch, e) /\ rollups' = rollups
        BY <1>1, <4>3 DEF EventsOK
      <4> QED
        BY <3>2, <4>1, <4>2, <4>3, AddType DEF e
    <3> QED
      BY <2>1, <3>1, <3>2
  <2> QED
    BY <1>1, <2>1, <2>3, <2>4, <2>5 DEF EventsOK
<1>5. CASE Succeed
  <2>1. UNCHANGED <<queue, calling, raised, accepted>> /\ Clear
        /\ rows' = (IF target = "batch" THEN rows \o batch ELSE rows)
        /\ added' = IF target = "batch" THEN added
                    ELSE [r \in Rollups |->
                            added[r] + IF r \in rollups[BucketOf[r]] THEN 1 ELSE 0]
    BY <1>5 DEF Succeed, callers
  <2>2. rows' \in Seq(Events)
    BY <1>1, <2>1 DEF EventsOK
  <2>3. added' \in [Rollups -> Nat]
    BY <1>1, <2>1 DEF EventsOK
  <2> QED
    BY <1>1, <2>1, <2>2, <2>3, ClearType DEF EventsOK
<1>6. CASE Dropped
  BY <1>1, <1>6, ClearType DEF Dropped, EventsOK
<1>7. CASE Quiet
  BY <1>1, <1>7 DEF Quiet, events, EventsOK
<1> QED
  BY <1>2, <1>3, <1>4, <1>5, <1>6, <1>7, NextCases

LEMMA AfterType ==
  ASSUME ControlOK, After
  PROVE  /\ pc' \in {"select", "apply", "stopped"} /\ target' \in {"batch", "rollups"}
BY DEF After, ControlOK

LEMMA ControlStep ==
  ASSUME ControlOK, PhaseOK, [Next]_vars
  PROVE  ControlOK' /\ PhaseOK'
<1> USE DEF ControlOK, PhaseOK, callers, database, history
<1>1. ASSUME NEW e \in Events \cup Rollups, EnqueueCheck(e) \/ EnqueueSend(e)
      PROVE  ControlOK' /\ PhaseOK'
  BY <1>1 DEF EnqueueCheck, EnqueueSend
<1>2. CASE Receive
  BY <1>2 DEF Receive
<1>3. ASSUME NEW t \in {"batch", "rollups"}, Start(t) PROVE ControlOK' /\ PhaseOK'
  BY <1>3 DEF Start
<1>4. CASE ApplyFull
  BY <1>3, <1>4 DEF ApplyFull
<1>5. ASSUME NEW t \in {"batch", "rollups"}, Tick(t) PROVE ControlOK' /\ PhaseOK'
  BY <1>3, <1>5 DEF Tick
<1>6. CASE ApplyNothing
  BY <1>6, AfterType DEF ApplyNothing
<1>7. CASE Begin
  BY <1>7 DEF Begin
<1>8. CASE Busy
  BY <1>8, AfterType DEF Busy
<1>9. CASE BackoffEnds
  BY <1>9 DEF BackoffEnds
<1>10. CASE BackoffCancelled
  BY <1>10, AfterType DEF BackoffCancelled
<1>11. CASE Fail
  BY <1>11, AfterType DEF Fail, Permanent
<1>12. CASE Cancelled
  BY <1>12, AfterType DEF Cancelled, Permanent
<1>13. CASE Succeed
  BY <1>13, AfterType DEF Succeed
<1>14. CASE Shutdown
  BY <1>14 DEF Shutdown
<1>15. CASE Stop
  BY <1>15 DEF Stop
<1>16. CASE DrainEvent
  BY <1>16 DEF DrainEvent
<1>17. CASE DrainEnds
  BY <1>17 DEF DrainEnds
<1>18. CASE UNCHANGED vars
  BY <1>18 DEF vars
<1> QED
  BY <1>1, <1>2, <1>4, <1>5, <1>6, <1>7, <1>8, <1>9, <1>10, <1>11, <1>12, <1>13, <1>14, <1>15,
     <1>16, <1>17, <1>18 DEF Next, Run, Collect, Apply

LEMMA TypeStep == ASSUME TypeOK, PhaseOK, [Next]_vars PROVE TypeOK' /\ PhaseOK'
<1>1. ControlOK /\ (TypeOK' <=> EventsOK' /\ ControlOK')
  BY DEF TypeOK, EventsOK, ControlOK
<1> QED
  BY <1>1, EventsStep, ControlStep

-----------------------------------------------------------------------------
(* The order of the events.                                                *)

LEMMA AcceptedStep ==
  ASSUME TypeOK, PhaseOK, AcceptedOnce, [Next]_vars
  PROVE  AcceptedOnce'
<1>1. accepted \in Seq(raised)
  BY DEF TypeOK
<1>2. ASSUME NEW e \in Events \cup Rollups, EnqueueCheck(e) PROVE AcceptedOnce'
  <2>1. e \notin raised /\ calling' \subseteq calling \cup {e} /\ UNCHANGED accepted
    BY <1>2 DEF EnqueueCheck
  <2>2. e \notin Range(accepted)
    BY <1>1, <2>1 DEF Range
  <2> QED
    BY <2>1, <2>2 DEF AcceptedOnce
<1>3. ASSUME NEW e \in Events \cup Rollups, EnqueueSend(e) PROVE AcceptedOnce'
  <2>1. e \in calling /\ calling' = calling \ {e} /\ e \in raised
        /\ (accepted' = accepted \/ accepted' = Append(accepted, e))
    BY <1>3 DEF EnqueueSend, TypeOK
  <2>2. e \notin Range(accepted)
    BY <2>1 DEF AcceptedOnce
  <2>3. CASE accepted' = accepted
    BY <2>1, <2>3 DEF AcceptedOnce
  <2>4. CASE accepted' = Append(accepted, e)
    <3>1. Range(accepted') = Range(accepted) \cup {e}
      BY <1>1, <2>1, <2>4, AppendRange
    <3>2. calling' \cap Range(accepted') = {}
      BY <2>1, <3>1 DEF AcceptedOnce
    <3>3. ASSUME NEW m \in DOMAIN accepted', NEW n \in DOMAIN accepted',
                 accepted'[m] = accepted'[n]
          PROVE  m = n
      <4>1. /\ DOMAIN accepted = 1..Len(accepted) /\ Len(accepted) \in Nat
            /\ DOMAIN accepted' = 1..(Len(accepted) + 1)
            /\ \A i \in 1..Len(accepted) : accepted'[i] = accepted[i]
            /\ accepted'[Len(accepted) + 1] = e
        BY <1>1, <2>1, <2>4, AppendFacts
      <4>2. \A i \in 1..Len(accepted) : accepted'[i] # e
        BY <2>2, <4>1 DEF Range
      <4>3. CASE m = Len(accepted) + 1 \/ n = Len(accepted) + 1
        BY <3>3, <4>1, <4>2, <4>3
      <4>4. CASE m \in 1..Len(accepted) /\ n \in 1..Len(accepted)
        BY <3>3, <4>1, <4>4 DEF AcceptedOnce
      <4> QED
        BY <4>1, <4>3, <4>4
    <3> QED
      BY <3>2, <3>3 DEF AcceptedOnce
  <2> QED
    BY <2>1, <2>3, <2>4
<1>4. ASSUME UNCHANGED <<calling, accepted>> PROVE AcceptedOnce'
  BY <1>4 DEF AcceptedOnce
<1> QED
  BY <1>2, <1>3, <1>4, NextCases DEF Taken, Succeed, Dropped, Quiet, events, callers

LEMMA BeforeDiffers ==
  ASSUME TypeOK, AcceptedOnce, NEW x, NEW y, Before(x, y)
  PROVE  x # y
<1>1. PICK m \in DOMAIN accepted, n \in DOMAIN accepted :
        m < n /\ accepted[m] = x /\ accepted[n] = y
  BY DEF Before
<1>2. m \in Nat /\ n \in Nat
  BY <1>1 DEF TypeOK
<1> QED
  BY <1>1, <1>2 DEF AcceptedOnce

LEMMA OrderedRows ==
  ASSUME TypeOK, Ordered, Succeed, target = "batch"
  PROVE  Ordered'
<1>1. rows \in Seq(Events) /\ batch \in Seq(Events)
  BY DEF TypeOK
<1>2. rows' = rows \o batch /\ batch' = <<>> /\ UNCHANGED <<queue, accepted>>
  BY DEF Succeed, Clear, callers
<1>3. InOrder(rows \o batch)
  BY <1>1, ConcatInOrder DEF Ordered
<1>4. Range(rows') = Range(rows) \cup Range(batch) /\ Range(batch') = {}
      /\ DOMAIN batch' = {}
  BY <1>1, <1>2, ConcatRange, EmptyRange
<1>5. InOrder(rows)' /\ InOrder(batch)' /\ InOrder(queue)'
  BY <1>2, <1>3, <1>4 DEF InOrder, Before, Ordered
<1>6. ASSUME NEW x, NEW y, Before(x, y) PROVE Before(x, y)'
  BY <1>2, <1>6 DEF Before
<1>7. \A x \in Range(rows'), y \in Range(queue') : Before(x, y)'
  BY <1>2, <1>4, <1>6 DEF Ordered
<1>8. Range(rows') \cup Range(batch') \cup Range(queue') \subseteq Range(accepted')
  BY <1>2, <1>4 DEF Ordered
<1> QED
  BY <1>4, <1>5, <1>7, <1>8 DEF Ordered

\* The batch is left as it is, or cleared.
LEMMA OrderedLess ==
  ASSUME TypeOK, Ordered, UNCHANGED <<queue, rows, accepted>>,
         batch' = batch \/ batch' = <<>>
  PROVE  Ordered'
<1>1. CASE batch' = batch
  <2>1. ASSUME NEW x, NEW y, Before(x, y) PROVE Before(x, y)'
    BY <2>1 DEF Before
  <2> QED
    BY <1>1, <2>1 DEF Ordered, InOrder
<1>2. CASE batch' = <<>>
  <2>1. Range(batch') = {} /\ DOMAIN batch' = {}
    BY <1>2, EmptyRange
  <2>2. ASSUME NEW x, NEW y, Before(x, y) PROVE Before(x, y)'
    BY <2>2 DEF Before
  <2> QED
    BY <2>1, <2>2 DEF Ordered, InOrder
<1> QED
  BY <1>1, <1>2

LEMMA OrderedTaken == ASSUME TypeOK, Ordered, Taken PROVE Ordered'
<1> DEFINE e == Head(queue)
           All == Events \cup Rollups
<1>1. queue \in Seq(All) /\ batch \in Seq(Events) /\ queue # <<>> /\ queue' = Tail(queue)
      /\ UNCHANGED <<rows, accepted>>
  BY DEF TypeOK, Taken
<1>2. InOrder(Tail(queue)) /\ \A y \in Range(Tail(queue)) : Before(e, y)
  BY <1>1, TailInOrder DEF Ordered
<1>3. Range(queue) = Range(queue') \cup {e} /\ e \in All
  BY <1>1, TailRange, TailFacts
<1>4. ASSUME NEW x, NEW y PROVE Before(x, y)' <=> Before(x, y)
  BY <1>1 DEF Before
<1>5. \/ batch' = batch
      \/ e \in Events /\ batch' = Append(batch, e)
  BY <1>3, AddType DEF Taken
<1> HIDE DEF e
<1>6. InOrder(queue)' /\ InOrder(rows)'
  BY <1>1, <1>2, <1>4 DEF InOrder, Ordered
<1>7. \A x \in Range(rows'), y \in Range(queue') : Before(x, y)'
  BY <1>1, <1>3, <1>4 DEF Ordered
<1>8. CASE batch' = batch
  <2>1. InOrder(batch)'
    BY <1>4, <1>8 DEF InOrder, Ordered
  <2> QED
    BY <1>1, <1>3, <1>4, <1>6, <1>7, <1>8, <2>1 DEF Ordered
<1>9. CASE e \in Events /\ batch' = Append(batch, e)
  <2>1. \A x \in Range(batch) \cup Range(rows) : Before(x, e)
    BY <1>3 DEF Ordered
  <2>2. InOrder(Append(batch, e))
    BY <1>1, <1>9, <2>1, AppendInOrder DEF Ordered
  <2>3. InOrder(batch)'
    BY <1>4, <1>9, <2>2 DEF InOrder
  <2>4. Range(batch') = Range(batch) \cup {e}
    BY <1>1, <1>9, AppendRange
  <2>5. \A x \in Range(batch'), y \in Range(queue') : Before(x, y)'
    BY <1>1, <1>2, <1>3, <1>4, <2>4 DEF Ordered
  <2>6. \A x \in Range(rows'), y \in Range(batch') : Before(x, y)'
    BY <1>1, <1>4, <2>1, <2>4 DEF Ordered
  <2>7. Range(rows') \cup Range(batch') \cup Range(queue') \subseteq Range(accepted')
    BY <1>1, <1>3, <2>4 DEF Ordered
  <2> QED
    BY <1>6, <1>7, <2>3, <2>5, <2>6, <2>7 DEF Ordered
<1> QED
  BY <1>5, <1>8, <1>9

LEMMA OrderedSend ==
  ASSUME TypeOK, Ordered, NEW e \in Events \cup Rollups, EnqueueSend(e)
  PROVE  Ordered'
<1>1. UNCHANGED <<rows, batch>> /\ e \in raised
  BY DEF EnqueueSend, database, TypeOK
<1>2. CASE Len(queue) < Capacity
  <2>1. queue' = Append(queue, e) /\ accepted' = Append(accepted, e)
    BY <1>2 DEF EnqueueSend
  <2>2. queue \in Seq(Events \cup Rollups) /\ accepted \in Seq(raised)
    BY DEF TypeOK
  <2>3. /\ DOMAIN accepted = 1..Len(accepted) /\ Len(accepted) \in Nat
        /\ DOMAIN accepted' = 1..(Len(accepted) + 1)
        /\ \A i \in 1..Len(accepted) : accepted'[i] = accepted[i]
        /\ accepted'[Len(accepted) + 1] = e
    BY <1>1, <2>1, <2>2, AppendFacts
  <2>4. ASSUME NEW x, NEW y, Before(x, y) PROVE Before(x, y)'
    <3>1. PICK m \in DOMAIN accepted, n \in DOMAIN accepted :
            m < n /\ accepted[m] = x /\ accepted[n] = y
      BY <2>4 DEF Before
    <3>2. m \in DOMAIN accepted' /\ n \in DOMAIN accepted'
          /\ accepted'[m] = x /\ accepted'[n] = y
      BY <2>3, <3>1
    <3> QED
      BY <3>1, <3>2 DEF Before
  <2>5. ASSUME NEW x \in Range(accepted) PROVE Before(x, e)'
    <3>1. PICK m \in DOMAIN accepted : accepted[m] = x
      BY DEF Range
    <3>2. m < Len(accepted) + 1 /\ m \in DOMAIN accepted'
          /\ Len(accepted) + 1 \in DOMAIN accepted' /\ accepted'[m] = x
      BY <2>3, <3>1
    <3> QED
      BY <2>3, <3>2 DEF Before
  <2>6. Range(queue') = Range(queue) \cup {e} /\ Range(accepted') = Range(accepted) \cup {e}
    BY <1>1, <2>1, <2>2, AppendRange
  <2>7. InOrder(rows)' /\ InOrder(batch)'
    BY <1>1, <2>4 DEF Ordered, InOrder
  <2>8. InOrder(queue)'
    <3> SUFFICES ASSUME NEW i \in DOMAIN queue', NEW j \in DOMAIN queue', i < j
                 PROVE  \E m, n \in DOMAIN accepted' :
                          m < n /\ accepted'[m] = queue'[i] /\ accepted'[n] = queue'[j]
      BY DEF InOrder, Before
    <3>1. /\ DOMAIN queue = 1..Len(queue) /\ Len(queue) \in Nat
          /\ DOMAIN queue' = 1..(Len(queue) + 1)
          /\ \A k \in 1..Len(queue) : queue'[k] = queue[k]
          /\ queue'[Len(queue) + 1] = e
      BY <2>1, <2>2, AppendFacts
    <3>2. i \in DOMAIN queue /\ queue'[i] = queue[i] /\ queue[i] \in Range(accepted)
      <4>1. i \in DOMAIN queue /\ queue'[i] = queue[i]
        BY <3>1
      <4>2. queue[i] \in Range(queue)
        BY <4>1 DEF Range
      <4> QED
        BY <4>1, <4>2 DEF Ordered
    <3>3. PICK x, y : x = queue'[i] /\ y = queue'[j]
      OBVIOUS
    <3>4. Before(x, y)'
      <4>1. CASE j = Len(queue) + 1
        BY <2>5, <3>1, <3>2, <3>3, <4>1
      <4>2. CASE j # Len(queue) + 1
        <5>1. j \in DOMAIN queue /\ queue'[j] = queue[j]
          BY <3>1, <4>2
        <5>2. Before(queue[i], queue[j])
          BY <3>2, <5>1 DEF Ordered, InOrder
        <5> QED
          BY <2>4, <3>2, <3>3, <5>1, <5>2
      <4> QED
        BY <4>1, <4>2
    <3> QED
      BY <3>3, <3>4 DEF Before
  <2>9. \A x \in Range(rows') \cup Range(batch'), y \in Range(queue') : Before(x, y)'
    BY <1>1, <2>4, <2>5, <2>6 DEF Ordered
  <2>10. \A x \in Range(rows'), y \in Range(batch') : Before(x, y)'
    BY <1>1, <2>4 DEF Ordered
  <2>11. Range(rows') \cup Range(batch') \cup Range(queue') \subseteq Range(accepted')
    BY <1>1, <2>6 DEF Ordered
  <2> QED
    BY <2>7, <2>8, <2>9, <2>10, <2>11 DEF Ordered
<1>3. CASE ~(Len(queue) < Capacity)
  BY <1>1, <1>3, OrderedLess DEF EnqueueSend
<1> QED
  BY <1>2, <1>3

LEMMA OrderedStep == ASSUME TypeOK, PhaseOK, Ordered, [Next]_vars PROVE Ordered'
<1>1. ASSUME NEW e \in Events \cup Rollups, EnqueueCheck(e) PROVE Ordered'
  BY <1>1, OrderedLess DEF EnqueueCheck, database
<1>2. CASE Succeed
  <2>1. CASE target = "batch"
    BY <1>2, <2>1, OrderedRows
  <2>2. CASE target # "batch"
    BY <1>2, <2>2, OrderedLess DEF Succeed, Clear, callers
  <2> QED
    BY <2>1, <2>2
<1>3. CASE Dropped
  BY <1>3, OrderedLess DEF Dropped, Clear
<1>4. CASE Quiet
  BY <1>4, OrderedLess DEF Quiet, events
<1> QED
  BY <1>1, <1>2, <1>3, <1>4, OrderedSend, OrderedTaken, NextCases

-----------------------------------------------------------------------------
(* Rollups.                                                                *)

LEMMA RollupsLess ==
  ASSUME RollupsOK, UNCHANGED added, Range(queue') \subseteq Range(queue),
         Range(accepted) \subseteq Range(accepted'),
         \A r \in Rollups : r \in rollups'[BucketOf[r]] => r \in rollups[BucketOf[r]]
  PROVE  RollupsOK'
BY DEF RollupsOK

LEMMA RollupsStep ==
  ASSUME TypeOK, PhaseOK, AcceptedOnce, Ordered, RollupsOK, [Next]_vars
  PROVE  RollupsOK'
<1>1. ASSUME NEW e \in Events \cup Rollups, EnqueueCheck(e) PROVE RollupsOK'
  BY <1>1, RollupsLess DEF EnqueueCheck, database
<1>2. ASSUME NEW e \in Events \cup Rollups, EnqueueSend(e) PROVE RollupsOK'
  <2>1. UNCHANGED <<rollups, added>> /\ e \in calling
    BY <1>2 DEF EnqueueSend, database
  <2>2. e \notin Range(accepted)
    BY <2>1 DEF AcceptedOnce
  <2>3. Range(queue') \subseteq Range(queue) \cup {e}
        /\ Range(accepted) \subseteq Range(accepted')
    <3>1. queue \in Seq(Events \cup Rollups) /\ accepted \in Seq(raised) /\ e \in raised
      BY <2>1 DEF TypeOK
    <3>2. CASE Len(queue) < Capacity
      <4>1. queue' = Append(queue, e) /\ accepted' = Append(accepted, e)
        BY <1>2, <3>2 DEF EnqueueSend
      <4>2. Range(queue') = Range(queue) \cup {e}
        BY <3>1, <4>1, AppendRange
      <4>3. Range(accepted') = Range(accepted) \cup {e}
        BY <3>1, <4>1, AppendRange
      <4> QED
        BY <4>2, <4>3
    <3>3. CASE ~(Len(queue) < Capacity)
      BY <1>2, <3>3 DEF EnqueueSend
    <3> QED
      BY <3>2, <3>3
  <2> QED
    BY <2>1, <2>2, <2>3 DEF RollupsOK
<1>3. CASE Taken
  <2> DEFINE e == Head(queue)
  <2>1. queue \in Seq(Events \cup Rollups) /\ queue # <<>> /\ queue' = Tail(queue)
        /\ UNCHANGED <<added, accepted>>
    BY <1>3 DEF TypeOK, Taken
  <2>2. Range(queue) = Range(queue') \cup {e} /\ e \in Events \cup Rollups
    BY <2>1, TailRange, TailFacts
  <2>3. e \notin Range(queue')
    BY <2>1, TailInOrder, BeforeDiffers DEF Ordered
  <2>4. e \in Range(accepted)
    BY <2>2 DEF Ordered
  <2>5. \/ rollups' = rollups
        \/ e \in Rollups /\ rollups' = [rollups EXCEPT ![BucketOf[e]] = @ \cup {e}]
    BY <1>3, <2>2, AddType DEF Taken
  <2> HIDE DEF e
  <2>6. CASE rollups' = rollups
    BY <2>1, <2>2, <2>6, RollupsLess
  <2>7. CASE e \in Rollups /\ rollups' = [rollups EXCEPT ![BucketOf[e]] = @ \cup {e}]
    <3>1. added[e] = 0
      BY <2>2, <2>7 DEF RollupsOK, TypeOK
    <3>2. ASSUME NEW r \in Rollups
          PROVE  r \in rollups'[BucketOf[r]] => r \in rollups[BucketOf[r]] \/ r = e
      BY <2>7 DEF TypeOK
    <3> QED
      BY <2>1, <2>2, <2>3, <2>4, <3>1, <3>2 DEF RollupsOK
  <2> QED
    BY <2>5, <2>6, <2>7
<1>4. CASE Succeed
  <2>1. UNCHANGED <<queue, accepted>>
    BY <1>4 DEF Succeed, callers
  <2>2. CASE target = "batch"
    BY <1>4, <2>1, <2>2, RollupsLess DEF Succeed, Clear
  <2>3. CASE target # "batch"
    <3>1. \A r \in Rollups : rollups'[BucketOf[r]] = {}
      BY <1>4, <2>3 DEF Succeed, Clear
    <3>2. \A r \in Rollups :
            added'[r] = added[r] + IF r \in rollups[BucketOf[r]] THEN 1 ELSE 0
      BY <1>4, <2>3 DEF Succeed
    <3>3. \A r \in Rollups : added[r] \in Nat
      BY DEF TypeOK
    <3> QED
      BY <2>1, <3>1, <3>2, <3>3 DEF RollupsOK
  <2> QED
    BY <2>2, <2>3
<1>5. CASE Dropped
  <2>1. \A r \in Rollups : r \in rollups'[BucketOf[r]] => r \in rollups[BucketOf[r]]
    BY <1>5 DEF Dropped, Clear
  <2> QED
    BY <1>5, <2>1, RollupsLess DEF Dropped
<1>6. CASE Quiet
  BY <1>6, RollupsLess DEF Quiet, events
<1> QED
  BY <1>1, <1>2, <1>3, <1>4, <1>5, <1>6, NextCases

\* The rollups Run holds are in their buckets.
LEMMA HeldRollups ==
  ASSUME TypeOK
  PROVE  UNION Range(rollups) = {r \in Rollups : r \in rollups[BucketOf[r]]}
<1>1. rollups \in [Buckets -> SUBSET Rollups]
      /\ \A b \in Buckets : \A r \in rollups[b] : BucketOf[r] = b
  BY DEF TypeOK
<1>2. ASSUME NEW b \in Buckets, NEW r \in rollups[b] PROVE r \in Rollups /\ r \in rollups[BucketOf[r]]
  BY <1>1
<1>3. ASSUME NEW r \in Rollups, r \in rollups[BucketOf[r]] PROVE r \in UNION Range(rollups)
  BY <1>1, <1>3 DEF Range
<1> QED
  BY <1>1, <1>2, <1>3 DEF Range

-----------------------------------------------------------------------------
(* Nothing is lost to a busy database, and memory is bounded.              *)

LEMMA BusyStep ==
  ASSUME TypeOK, TypeOK', PhaseOK, BusyLosesNothing, [Next]_vars
  PROVE  BusyLosesNothing'
<1> DEFINE Coalesced == {r \in Rollups : r \in rollups[BucketOf[r]]}
           Added == {r \in Rollups : added[r] > 0}
           Kept == Range(queue) \cup Range(batch) \cup Coalesced \cup Range(rows) \cup Added
<1>1. Held \cup Written = Kept /\ Held' \cup Written' = Kept'
  <2>1. UNION Range(rollups) = Coalesced
    BY HeldRollups
  <2>2. UNION Range(rollups') = Coalesced'
    <3>1. rollups' \in [Buckets -> SUBSET Rollups]
          /\ \A b \in Buckets : \A r \in rollups'[b] : BucketOf[r] = b
      BY DEF TypeOK
    <3>2. ASSUME NEW b \in Buckets, NEW r \in rollups'[b]
          PROVE  r \in Rollups /\ r \in rollups'[BucketOf[r]]
      BY <3>1
    <3>3. ASSUME NEW r \in Rollups, r \in rollups'[BucketOf[r]] PROVE r \in UNION Range(rollups')
      BY <3>1, <3>3 DEF Range
    <3> QED
      BY <3>1, <3>2, <3>3 DEF Range
  <2> QED
    BY <2>1, <2>2 DEF Held, Written
<1> SUFFICES ASSUME ~broken', ~shutdown' PROVE Range(accepted') \subseteq Kept'
  BY <1>1 DEF BusyLosesNothing
<1>2. ASSUME ~broken, ~shutdown PROVE Range(accepted) \subseteq Kept /\ ~disabled
  BY <1>1, <1>2 DEF BusyLosesNothing, PhaseOK
<1>3. ASSUME NEW e \in Events \cup Rollups, EnqueueCheck(e) PROVE Range(accepted') \subseteq Kept'
  BY <1>2, <1>3 DEF EnqueueCheck, database, history
<1>4. ASSUME NEW e \in Events \cup Rollups, EnqueueSend(e) PROVE Range(accepted') \subseteq Kept'
  <2>1. UNCHANGED <<rollups, batch, rows, added, broken, shutdown>> /\ e \in raised
    BY <1>4 DEF EnqueueSend, database, history, TypeOK
  <2>2. CASE Len(queue) < Capacity
    <3>1. queue' = Append(queue, e) /\ accepted' = Append(accepted, e)
      BY <1>4, <2>2 DEF EnqueueSend
    <3>2. queue \in Seq(Events \cup Rollups) /\ accepted \in Seq(raised)
      BY DEF TypeOK
    <3>3. Range(queue') = Range(queue) \cup {e}
      BY <3>1, <3>2, AppendRange
    <3>4. Range(accepted') = Range(accepted) \cup {e}
      BY <2>1, <3>1, <3>2, AppendRange
    <3> QED
      BY <1>2, <2>1, <3>3, <3>4
  <2>3. CASE ~(Len(queue) < Capacity)
    BY <1>2, <1>4, <2>1, <2>3 DEF EnqueueSend
  <2> QED
    BY <2>2, <2>3
<1>5. CASE Taken
  <2> DEFINE e == Head(queue)
  <2>1. queue \in Seq(Events \cup Rollups) /\ queue # <<>> /\ queue' = Tail(queue)
        /\ UNCHANGED <<rows, added, accepted, broken, shutdown>>
    BY <1>5 DEF TypeOK, Taken
  <2>2. Range(queue) = Range(queue') \cup {e} /\ e \in Events \cup Rollups
    BY <2>1, TailRange, TailFacts
  <2>3. Range(accepted) \subseteq Kept /\ addEvent(e)
    BY <1>2, <1>5, <2>1 DEF Taken
  <2>4. \/ e \in Rollups /\ batch' = batch
           /\ rollups' = [rollups EXCEPT ![BucketOf[e]] = @ \cup {e}]
        \/ e \in Events /\ batch' = Append(batch, e) /\ rollups' = rollups
    BY <2>2, <2>3, AddType
  <2> HIDE DEF e
  <2>5. CASE e \in Rollups /\ batch' = batch
             /\ rollups' = [rollups EXCEPT ![BucketOf[e]] = @ \cup {e}]
    <3>1. Coalesced \cup {e} \subseteq Coalesced'
      BY <2>5 DEF TypeOK
    <3> HIDE DEF Coalesced, Added
    <3>2. Added' = Added
      BY <2>1 DEF Added
    <3> QED
      BY <2>1, <2>2, <2>3, <2>5, <3>1, <3>2
  <2>6. CASE e \in Events /\ batch' = Append(batch, e) /\ rollups' = rollups
    <3>1. Range(batch') = Range(batch) \cup {e}
      BY <2>6, AppendRange DEF TypeOK
    <3>2. Coalesced' = Coalesced /\ Added' = Added
      BY <2>1, <2>6
    <3> HIDE DEF Coalesced, Added
    <3> QED
      BY <2>1, <2>2, <2>3, <3>1, <3>2
  <2> QED
    BY <2>4, <2>5, <2>6
<1>6. CASE Succeed
  <2>1. UNCHANGED <<queue, accepted, broken, shutdown>>
    BY <1>6 DEF Succeed, callers, history
  <2>2. Range(accepted) \subseteq Kept
    BY <1>2, <2>1
  <2>3. CASE target = "batch"
    <3>1. rows' = rows \o batch /\ UNCHANGED <<added, rollups>>
      BY <1>6, <2>3 DEF Succeed, Clear
    <3>2. Range(rows') = Range(rows) \cup Range(batch)
      BY <3>1, ConcatRange DEF TypeOK
    <3> QED
      BY <2>1, <2>2, <3>1, <3>2
  <2>4. CASE target # "batch"
    <3>1. UNCHANGED <<rows, batch>>
          /\ added' = [r \in Rollups |->
                         added[r] + IF r \in rollups[BucketOf[r]] THEN 1 ELSE 0]
      BY <1>6, <2>4 DEF Succeed, Clear
    <3>2. Coalesced \cup Added \subseteq Added'
      BY <3>1 DEF TypeOK
    <3> HIDE DEF Coalesced, Added
    <3> QED
      BY <2>1, <2>2, <3>1, <3>2
  <2> QED
    BY <2>3, <2>4
<1>7. CASE Dropped
  BY <1>7 DEF Dropped
<1>8. CASE Quiet
  BY <1>2, <1>8 DEF Quiet, events
<1> QED
  BY <1>3, <1>4, <1>5, <1>6, <1>7, <1>8, NextCases

LEMMA MemoryStep ==
  ASSUME TypeOK, TypeOK', PhaseOK, IsFiniteSet(Filled), MemoryBounded, [Next]_vars
  PROVE  IsFiniteSet(Filled') /\ MemoryBounded'
<1>1. Len(batch) \in Nat /\ Cardinality(Filled) \in Nat
  BY FS_CardinalityType DEF TypeOK
<1>2. ASSUME UNCHANGED <<batch, rollups>>, shutdown => shutdown'
      PROVE  IsFiniteSet(Filled') /\ MemoryBounded'
  <2>1. Filled' = Filled
    BY <1>2 DEF Filled
  <2> QED
    BY <1>2, <2>1 DEF MemoryBounded
<1>3. ASSUME Clear, shutdown => shutdown' PROVE IsFiniteSet(Filled') /\ MemoryBounded'
  <2>1. CASE target = "batch"
    <3>1. batch' = <<>> /\ UNCHANGED rollups
      BY <1>3, <2>1 DEF Clear
    <3>2. Filled' = Filled /\ Len(batch') = 0
      BY <3>1 DEF Filled
    <3> QED
      BY <1>3, <3>2 DEF MemoryBounded
  <2>2. CASE target # "batch"
    <3>1. rollups' = [b \in Buckets |-> {}] /\ UNCHANGED batch
      BY <1>3, <2>2 DEF Clear
    <3>2. Filled' = {}
      BY <3>1 DEF Filled
    <3>3. IsFiniteSet(Filled') /\ Cardinality(Filled') = 0
      BY <3>2, FS_EmptySet
    <3> QED
      BY <1>3, <3>1, <3>3 DEF MemoryBounded
  <2> QED
    BY <2>1, <2>2
<1>4. CASE Taken
  <2>1. CASE disabled /\ UNCHANGED <<batch, rollups>>
    BY <1>2, <1>4, <2>1 DEF Taken
  <2>2. CASE ((~disabled /\ ~Full) \/ shutdown) /\ addEvent(Head(queue))
    <3> DEFINE e == Head(queue)
    <3>1. e \in Events \cup Rollups /\ addEvent(e) /\ UNCHANGED shutdown
      BY <1>4, <2>2, TailFacts DEF Taken, TypeOK
    <3>2. ~shutdown => Len(batch) < BatchMax /\ Cardinality(Filled) < BatchMax
      BY <1>1, <2>2 DEF Full
    <3> HIDE DEF e
    <3>3. CASE e \in Rollups /\ batch' = batch
               /\ rollups' = [rollups EXCEPT ![BucketOf[e]] = @ \cup {e}]
      <4>1. Filled' = Filled \cup {BucketOf[e]}
        <5> DEFINE bucket == BucketOf[e]
        <5>1. bucket \in Buckets /\ rollups \in [Buckets -> SUBSET Rollups]
          BY <3>3 DEF TypeOK
        <5>2. rollups' = [rollups EXCEPT ![bucket] = @ \cup {e}]
          BY <3>3
        <5> HIDE DEF bucket
        <5>3. rollups'[bucket] # {} /\ \A b \in Buckets \ {bucket} : rollups'[b] = rollups[b]
          BY <5>1, <5>2
        <5>4. Filled' = Filled \cup {bucket}
          BY <5>1, <5>3 DEF Filled
        <5> QED
          BY <5>4 DEF bucket
      <4>2. IsFiniteSet(Filled') /\ (Cardinality(Filled') = Cardinality(Filled)
                                     \/ Cardinality(Filled') = Cardinality(Filled) + 1)
        BY <4>1, FS_AddElement
      <4>3. ~shutdown => Cardinality(Filled') <= BatchMax
        BY <1>1, <3>2, <4>2
      <4> QED
        BY <1>1, <3>1, <3>2, <3>3, <4>2, <4>3 DEF MemoryBounded
    <3>4. CASE e \in Events /\ batch' = Append(batch, e) /\ rollups' = rollups
      <4>1. Filled' = Filled
        BY <3>4 DEF Filled
      <4>2. Len(batch') = Len(batch) + 1
        BY <3>4, AppendFacts DEF TypeOK
      <4> QED
        BY <1>1, <3>1, <3>2, <4>1, <4>2 DEF MemoryBounded
    <3> QED
      BY <3>1, <3>3, <3>4, AddType
  <2> QED
    BY <1>4, <2>1, <2>2 DEF Taken
<1>5. ASSUME NEW e \in Events \cup Rollups, EnqueueCheck(e) \/ EnqueueSend(e)
      PROVE  IsFiniteSet(Filled') /\ MemoryBounded'
  BY <1>2, <1>5 DEF EnqueueCheck, EnqueueSend
<1>6. CASE Succeed
  BY <1>3, <1>6 DEF Succeed
<1>7. CASE Dropped
  <2>1. shutdown => shutdown'
    BY DEF Next, Run, Collect, Apply, EnqueueCheck, EnqueueSend, Receive, ApplyFull, Tick, Start,
           ApplyNothing, Begin, Succeed, Busy, Fail, Cancelled, Permanent, BackoffEnds,
           BackoffCancelled, Stop, DrainEvent, DrainEnds, Shutdown, vars
  <2> QED
    BY <1>3, <1>7, <2>1 DEF Dropped
<1>8. CASE Quiet
  BY <1>2, <1>8 DEF Quiet, events
<1> QED
  BY <1>4, <1>5, <1>6, <1>7, <1>8, NextCases

-----------------------------------------------------------------------------
LEMMA InductiveStep == IInv /\ [Next]_vars => IInv'
<1> SUFFICES ASSUME IInv, [Next]_vars PROVE IInv'
  OBVIOUS
<1>1. TypeOK /\ AcceptedOnce /\ Ordered /\ RollupsOK /\ PhaseOK /\ IsFiniteSet(Filled)
      /\ BusyLosesNothing /\ MemoryBounded
  BY DEF IInv
<1>2. TypeOK' /\ PhaseOK'
  BY <1>1, TypeStep
<1>3. AcceptedOnce' /\ Ordered' /\ RollupsOK'
  BY <1>1, AcceptedStep, OrderedStep, RollupsStep
<1>4. IsFiniteSet(Filled') /\ MemoryBounded' /\ BusyLosesNothing'
  BY <1>1, <1>2, MemoryStep, BusyStep
<1>5. IsFiniteSet(Filled)'
  BY <1>4
<1> QED
  BY <1>2, <1>3, <1>4, <1>5 DEF IInv

\* The inductive invariant holds in every reachable state of the writer.
THEOREM Invariance == Spec => []IInv
  BY InitInv, InductiveStep, PTL DEF Spec

\* Type correctness: the queue of writer.go stays within its capacity and every
\* rollup in the bucket of its key.
THEOREM TypeCorrect == Spec => []TypeOK
<1>1. IInv => TypeOK
  BY DEF IInv
<1> QED
  BY <1>1, Invariance, PTL

LEMMA WrittenOnceHolds == ASSUME TypeOK, AcceptedOnce, Ordered, RollupsOK PROVE WrittenOnce
<1>1. ASSUME NEW i \in DOMAIN rows, NEW j \in DOMAIN rows, rows[i] = rows[j] PROVE i = j
  <2>1. i \in Nat /\ j \in Nat
    BY DEF TypeOK
  <2>2. ~(i < j) /\ ~(j < i)
    BY <1>1, BeforeDiffers DEF Ordered, InOrder
  <2> QED
    BY <2>1, <2>2
<1>2. \A r \in Rollups : added[r] <= 1
  BY DEF RollupsOK
<1>3. Held \cap Written = {}
  <2> SUFFICES ASSUME NEW x \in Held, x \in Written PROVE FALSE
    OBVIOUS
  <2>1. Range(rows) \subseteq Events /\ Range(batch) \subseteq Events
    BY DEF TypeOK, Range
  <2>2. CASE x \in Range(rows)
    <3>1. x \notin Range(queue) \cup Range(batch)
      BY <2>2, BeforeDiffers DEF Ordered
    <3>2. x \notin UNION Range(rollups)
      BY <2>1, <2>2, HeldRollups
    <3> QED
      BY <3>1, <3>2 DEF Held
  <2>3. CASE x \in Rollups /\ added[x] > 0
    <3>1. x \notin Range(batch)
      BY <2>1, <2>3
    <3>2. x \notin Range(queue) /\ x \notin rollups[BucketOf[x]]
      BY <2>3 DEF RollupsOK
    <3>3. x \notin UNION Range(rollups)
      BY <3>2, HeldRollups
    <3> QED
      BY <3>1, <3>2, <3>3 DEF Held
  <2> QED
    BY <2>2, <2>3 DEF Written
<1> QED
  BY <1>1, <1>2, <1>3 DEF WrittenOnce

LEMMA WrittenInOrderHolds == ASSUME TypeOK, Ordered PROVE WrittenInOrder
<1> DEFINE All == Events \cup Rollups
<1>1. rows \in Seq(All) /\ batch \in Seq(All) /\ queue \in Seq(All)
  <2>1. rows \in Seq(Events) /\ batch \in Seq(Events) /\ queue \in Seq(All)
    BY DEF TypeOK
  <2> QED
    BY <2>1
<1> HIDE DEF All
<1>2. InOrder(rows \o batch) /\ rows \o batch \in Seq(All)
      /\ Range(rows \o batch) = Range(rows) \cup Range(batch)
  BY <1>1, ConcatInOrder, ConcatFacts, ConcatRange DEF Ordered
<1>3. InOrder((rows \o batch) \o queue)
  BY <1>1, <1>2, ConcatInOrder DEF Ordered
<1>4. InOrder(Line)
  BY <1>3 DEF Line
<1> QED
  BY <1>4 DEF WrittenInOrder, InOrder, Before

\* Through every retry, overflow and shutdown of writer.go each accepted event
\* is written once, in the order of the queue, none is lost to a busy database,
\* and the batch and the rollups stay within batchMax.
THEOREM WritesAreSound == Spec => []WritesSound
<1>1. IInv => WritesSound
  BY WrittenOnceHolds, WrittenInOrderHolds DEF IInv, WritesSound
<1> QED
  BY <1>1, Invariance, PTL

=============================================================================
