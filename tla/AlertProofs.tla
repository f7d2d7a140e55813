---------------------------- MODULE AlertProofs ----------------------------
(***************************************************************************)
(* Proofs about the components that decide which alerts are raised and     *)
(* which of them get through: the queue (AlertQueue) and the monitors that *)
(* raise alerts beside the rules (Monitors).                               *)
(*                                                                         *)
(* AlertQueue, for any alerts, keys, threads and capacities.  Everything   *)
(* rests on one inductive invariant, QueueIInv.  The parts that the        *)
(* properties do not state themselves are: which threads hold the mutex,   *)
(* which threads hold an alert and of what kind, and that a thread about   *)
(* to send again has room.                                                 *)
(*                                                                         *)
(* Monitors, for any feeders, pollers, aircraft, sources, releases of the  *)
(* reference, configurations and limits.                                   *)
(* That a recovery rests on a poll of the outage needs PollingOK: as long  *)
(* as no poll has answered, a healthy sample can only be on its way with   *)
(* the other poller, and there is one such poller at most.                 *)
(* The properties of the movement monitors speak of a history that a track *)
(* does not have: the alerts before it was removed for its age, and the    *)
(* observations behind its counts.  HistoryOK ties the two together.  A    *)
(* time a track remembers is that of the last alert, and one it does not   *)
(* remember is a cooldown ago, because a track is only removed when it has *)
(* not been seen for longer.  A count is a streak of observations that     *)
(* fit; for the approaches this also needs that nothing is counted while   *)
(* an approach is announced or cools down, since evaluateApproach then     *)
(* returns before it looks at the observation.                             *)
(***************************************************************************)
EXTENDS AlertQueue, Monitors, FiniteSetTheorems, SequenceTheorems, TLAPS

-----------------------------------------------------------------------------
(* AlertQueue.                                                             *)

USE AlertAssumption, ThreadAssumption, CapacityAssumption
    DEF AlertAssumption, ThreadAssumption, CapacityAssumption

\* The mutex is held exactly while an Enqueue makes room.
LockOK == \A p \in Producers : pc[p] \in {"evict", "resend"} <=> mu = p

\* The alert a working thread holds is of the kind its branch handles.
HeldOK ==
  /\ \A t \in Threads : pc[t] = "urgent" => held[t] \in Emergency
  /\ \A t \in Threads :
       pc[t] \in {"admit", "evict", "resend", "release"} =>
         held[t] \in Alerts \ Emergency

\* Only the holder of the mutex sends, so the room that the eviction made is
\* still there.
RoomOK == \A p \in Producers : pc[p] = "resend" => Len(normal) < NormalCapacity

\* PendingExact, key by key.
KeyQueued(k) == \E i \in DOMAIN normal : KeyOf[normal[i]] = k
KeyCarried(k) == \E t \in Carrying : KeyOf[held[t]] = k
PendingPointwise == \A k \in Keys : k \in pending <=> KeyQueued(k) \/ KeyCarried(k)

\* A popper that has passed an emergency does not select before it is gone.
OvertakenOK ==
  \A c \in Poppers :
    /\ overtaken[c] <= 1
    /\ overtaken[c] = 1 => emergency # <<>> /\ pc[c] # "select"

Types == QueueTypeOK /\ HeldOK

QueueIInv ==
  /\ Types
  /\ LockOK
  /\ RoomOK
  /\ PendingPointwise
  /\ OneAlertPerKey
  /\ OvertakenOK
  /\ NormalNeverRefused

-----------------------------------------------------------------------------
(* Sequences.                                                              *)

\* What sending on a channel does to its content.
LEMMA AppendFacts ==
  ASSUME NEW S, NEW s \in Seq(S), NEW e \in S
  PROVE  /\ Append(s, e) \in Seq(S)
         /\ Len(Append(s, e)) = Len(s) + 1
         /\ DOMAIN Append(s, e) = 1..(Len(s) + 1)
         /\ \A i \in 1..Len(s) : Append(s, e)[i] = s[i]
         /\ Append(s, e)[Len(s) + 1] = e
  OBVIOUS

\* What receiving from a channel does to its content.
LEMMA TailFacts ==
  ASSUME NEW S, NEW s \in Seq(S), s # <<>>
  PROVE  /\ Len(s) \in Nat \ {0}
         /\ Tail(s) \in Seq(S)
         /\ Len(Tail(s)) = Len(s) - 1
         /\ DOMAIN Tail(s) = 1..(Len(s) - 1)
         /\ \A i \in 1..(Len(s) - 1) : Tail(s)[i] = s[i + 1]
         /\ Head(s) = s[1]
         /\ Head(s) \in S
  OBVIOUS

-----------------------------------------------------------------------------
(* Type correctness.                                                       *)

LEMMA TypesInit == QueueInit => Types
<1> SUFFICES ASSUME QueueInit PROVE Types
  OBVIOUS
<1>1. /\ emergency \in Seq(Emergency) /\ Len(emergency) = 0
      /\ normal \in Seq(Alerts \ Emergency) /\ Len(normal) = 0
  BY DEF QueueInit
<1>2. EmergencyCapacity >= 0 /\ NormalCapacity >= 0
  OBVIOUS
<1>3. /\ \A p \in Producers : pc[p] = "idle"
      /\ \A c \in Poppers : pc[c] = "idle"
      /\ pc \in [Threads -> {"idle"}]
      /\ held \in [Threads -> {NoAlert}]
      /\ overtaken \in [Poppers -> {0}]
  BY DEF QueueInit, Threads
<1>4. QueueTypeOK
  BY <1>1, <1>2, <1>3 DEF QueueInit, QueueTypeOK, ProducerStates, PopperStates
<1> QED
  BY <1>3, <1>4 DEF Types, HeldOK

LEMMA TypesStep == Types /\ [QueueNext]_queueVars => Types'
<1> SUFFICES ASSUME Types, [QueueNext]_queueVars PROVE Types'
  OBVIOUS
<1> USE DEF Types, HeldOK, Threads, ProducerStates, PopperStates
<1>1. ASSUME NEW p \in Producers, NEW a \in Alerts, Enqueue(p, a)
      PROVE  Types'
  BY <1>1 DEF Enqueue, QueueTypeOK
<1>2. ASSUME NEW p \in Producers, SendEmergency(p)
      PROVE  Types'
  <2>1. held[p] \in Emergency
    BY <1>2 DEF SendEmergency
  <2>2. emergency' \in Seq(Emergency) /\ Len(emergency') <= EmergencyCapacity
    BY <1>2, <2>1, AppendFacts DEF SendEmergency, QueueTypeOK
  <2> QED
    BY <1>2, <2>2 DEF SendEmergency, Return, history, QueueTypeOK
<1>3. ASSUME NEW p \in Producers, EmergencyTimeout(p)
      PROVE  Types'
  BY <1>3 DEF EmergencyTimeout, Return, QueueTypeOK
<1>4. ASSUME NEW p \in Producers, Coalesce(p)
      PROVE  Types'
  BY <1>4 DEF Coalesce, Return, history, QueueTypeOK
<1>5. ASSUME NEW p \in Producers, Admit(p)
      PROVE  Types'
  <2>1. held[p] \in Alerts \ Emergency
    BY <1>5 DEF Admit
  <2>2. normal' \in Seq(Alerts \ Emergency) /\ Len(normal') <= NormalCapacity
    <3>1. CASE Len(normal) < NormalCapacity
      <4>1. normal \in Seq(Alerts \ Emergency) /\ normal' = Append(normal, held[p])
        BY <1>5, <3>1 DEF Admit, QueueTypeOK
      <4> QED
        BY <2>1, <3>1, <4>1, AppendFacts
    <3>2. CASE ~(Len(normal) < NormalCapacity)
      BY <1>5, <3>2 DEF Admit, QueueTypeOK
    <3> QED
      BY <3>1, <3>2
  <2>3. /\ pc' \in [Threads -> ProducerStates \cup PopperStates]
        /\ held' \in [Threads -> Alerts \cup {NoAlert}]
        /\ mu' \in Producers \cup {NoThread}
        /\ \A t \in Threads : pc'[t] \in {pc[t], "idle", "evict"}
        /\ \A t \in Threads : t # p => pc'[t] = pc[t] /\ held'[t] = held[t]
        /\ pc'[p] \in {"idle", "evict"}
        /\ pc'[p] = "evict" => held'[p] = held[p]
    BY <1>5 DEF Admit, Return, QueueTypeOK
  <2>4. pending' \subseteq Keys
    BY <1>5, <2>1 DEF Admit, QueueTypeOK
  <2> QED
    BY <1>5, <2>1, <2>2, <2>3, <2>4 DEF Admit, history, QueueTypeOK
<1>6. ASSUME NEW p \in Producers, Evict(p)
      PROVE  Types'
  <2>1. normal' \in Seq(Alerts \ Emergency) /\ Len(normal') <= NormalCapacity
    <3>1. CASE normal # <<>>
      <4>1. normal \in Seq(Alerts \ Emergency) /\ normal' = Tail(normal)
        BY <1>6, <3>1 DEF Evict, QueueTypeOK
      <4> QED
        BY <3>1, <4>1, TailFacts DEF QueueTypeOK
    <3>2. CASE normal = <<>>
      BY <1>6, <3>2 DEF Evict, QueueTypeOK
    <3> QED
      BY <3>1, <3>2
  <2>2. dropped' \subseteq Alerts
    BY <1>6, TailFacts DEF Evict, QueueTypeOK
  <2> QED
    BY <1>6, <2>1, <2>2 DEF Evict, history, QueueTypeOK
<1>7. ASSUME NEW p \in Producers, Resend(p)
      PROVE  Types'
  <2>1. held[p] \in Alerts \ Emergency
    BY <1>7 DEF Resend
  <2>2. normal' \in Seq(Alerts \ Emergency) /\ Len(normal') <= NormalCapacity
    <3>1. CASE Len(normal) < NormalCapacity
      <4>1. normal \in Seq(Alerts \ Emergency) /\ normal' = Append(normal, held[p])
        BY <1>7, <3>1 DEF Resend, QueueTypeOK
      <4> QED
        BY <2>1, <3>1, <4>1, AppendFacts
    <3>2. CASE ~(Len(normal) < NormalCapacity)
      BY <1>7, <3>2 DEF Resend, QueueTypeOK
    <3> QED
      BY <3>1, <3>2
  <2> QED
    BY <1>7, <2>1, <2>2 DEF Resend, Return, QueueTypeOK
<1>8. ASSUME NEW c \in Poppers, PopEmergency(c)
      PROVE  Types'
  <2>1. /\ emergency' \in Seq(Emergency) /\ Len(emergency') <= EmergencyCapacity
        /\ delivered' \subseteq Alerts
    BY <1>8, TailFacts DEF PopEmergency, QueueTypeOK
  <2> QED
    BY <1>8, <2>1 DEF PopEmergency, QueueTypeOK
<1>9. ASSUME NEW c \in Poppers, PopNoEmergency(c)
      PROVE  Types'
  BY <1>9 DEF PopNoEmergency, history, QueueTypeOK
<1>10. ASSUME NEW c \in Poppers, PopNormal(c)
       PROVE  Types'
  <2>1. /\ normal' \in Seq(Alerts \ Emergency) /\ Len(normal') <= NormalCapacity
        /\ Head(normal) \in Alerts \ Emergency
    BY <1>10, TailFacts DEF PopNormal, QueueTypeOK
  <2> QED
    BY <1>10, <2>1 DEF PopNormal, QueueTypeOK
<1>11. ASSUME NEW c \in Poppers, PopRelease(c)
       PROVE  Types'
  BY <1>11 DEF PopRelease, Return, QueueTypeOK
<1>12. ASSUME NEW c \in Poppers, PopStop(c)
       PROVE  Types'
  BY <1>12 DEF PopStop, history, QueueTypeOK
<1>13. CASE Shutdown
  BY <1>13 DEF Shutdown, QueueTypeOK
<1>14. CASE UNCHANGED queueVars
  BY <1>14 DEF queueVars, QueueTypeOK
<1> QED
  BY <1>1, <1>2, <1>3, <1>4, <1>5, <1>6, <1>7, <1>8, <1>9, <1>10, <1>11,
     <1>12, <1>13, <1>14
  DEF QueueNext, EnqueueStep, PopStep

\* The two channels stay within their capacities and carry alerts of their own
\* priority, and every thread holds the alert its step needs, for any number of
\* producers, poppers and alerts.
THEOREM QueueTypeCorrect == QueueSpec => []QueueTypeOK
<1>1. Types => QueueTypeOK
  BY DEF Types
<1> QED
  BY TypesInit, TypesStep, <1>1, PTL DEF QueueSpec

-----------------------------------------------------------------------------
(* The inductive invariant.                                                *)

\* The parts of QueueIInv about keys.
KeysOK == PendingPointwise /\ OneAlertPerKey

\* The parts of QueueIInv about single threads.
ThreadsOK == LockOK /\ RoomOK /\ OvertakenOK /\ NormalNeverRefused

LEMMA IInvInit == QueueInit => QueueIInv
<1> SUFFICES ASSUME QueueInit PROVE QueueIInv
  OBVIOUS
<1>1. Types
  BY TypesInit
<1>2. \A t \in Threads : pc[t] = "idle"
  BY DEF QueueInit
<1>3. Carrying = {} /\ DOMAIN normal = {}
  BY <1>2 DEF QueueInit, Carrying
<1>4. PendingPointwise /\ OneAlertPerKey
  BY <1>3 DEF QueueInit, PendingPointwise, OneAlertPerKey, KeyQueued, KeyCarried
<1>5. LockOK /\ RoomOK
  BY <1>2 DEF QueueInit, LockOK, RoomOK, Threads
<1>6. OvertakenOK /\ NormalNeverRefused
  BY DEF QueueInit, OvertakenOK, NormalNeverRefused
<1> QED
  BY <1>1, <1>4, <1>5, <1>6 DEF QueueIInv

\* A step that leaves the normal channel, the pending keys and the threads that
\* carry an alert alone keeps the parts about keys.
LEMMA QuietStep ==
  ASSUME Types, KeysOK, UNCHANGED <<normal, pending>>, Carrying' = Carrying,
         \A t \in Carrying : held'[t] = held[t]
  PROVE  KeysOK'
  BY DEF KeysOK, PendingPointwise, KeyQueued, KeyCarried, OneAlertPerKey

\* An alert with a fresh key enters the channel directly.
LEMMA SendFresh ==
  ASSUME Types, KeysOK, NEW a \in Alerts \ Emergency, KeyOf[a] \notin pending,
         normal' = Append(normal, a), pending' = pending \cup {KeyOf[a]},
         Carrying' = Carrying, \A t \in Carrying : held'[t] = held[t]
  PROVE  KeysOK'
<1> DEFINE n == Len(normal)
<1>1. /\ n \in Nat
      /\ DOMAIN normal = 1..n
      /\ DOMAIN normal' = 1..(n + 1)
      /\ \A i \in 1..n : normal'[i] = normal[i]
      /\ normal'[n + 1] = a
  BY AppendFacts DEF Types, QueueTypeOK
<1>2. KeyOf[a] \in Keys
  OBVIOUS
<1> HIDE DEF n
<1>3. /\ \A i \in 1..n : KeyOf[normal[i]] # KeyOf[a]
      /\ \A t \in Carrying : KeyOf[held[t]] # KeyOf[a]
  BY <1>1, <1>2 DEF KeysOK, PendingPointwise, KeyQueued, KeyCarried
<1>4. \A k : KeyQueued(k)' <=> KeyQueued(k) \/ k = KeyOf[a]
  BY <1>1 DEF KeyQueued
<1>5. \A k : KeyCarried(k)' <=> KeyCarried(k)
  BY DEF KeyCarried
<1>6. PendingPointwise'
  BY <1>4, <1>5 DEF KeysOK, PendingPointwise
<1>7. OneAlertPerKey'
  BY <1>1, <1>3 DEF KeysOK, OneAlertPerKey
<1> QED
  BY <1>6, <1>7 DEF KeysOK

\* The holder of the mutex sends the alert whose key it has made pending.
LEMMA SendCarried ==
  ASSUME Types, KeysOK, NEW p \in Carrying, held[p] \in Alerts \ Emergency,
         normal' = Append(normal, held[p]), pending' = pending,
         Carrying' = Carrying \ {p}, \A t \in Carrying' : held'[t] = held[t]
  PROVE  KeysOK'
<1> DEFINE n == Len(normal)
<1>1. /\ n \in Nat
      /\ DOMAIN normal = 1..n
      /\ DOMAIN normal' = 1..(n + 1)
      /\ \A i \in 1..n : normal'[i] = normal[i]
      /\ normal'[n + 1] = held[p]
  BY AppendFacts DEF Types, QueueTypeOK
<1> HIDE DEF n
<1>2. \A k : KeyQueued(k)' <=> KeyQueued(k) \/ k = KeyOf[held[p]]
  BY <1>1 DEF KeyQueued
<1>3. \A k : KeyCarried(k) <=> KeyCarried(k)' \/ k = KeyOf[held[p]]
  BY DEF KeyCarried
<1>4. PendingPointwise'
  BY <1>2, <1>3 DEF KeysOK, PendingPointwise
<1>5. OneAlertPerKey'
  BY <1>1 DEF KeysOK, OneAlertPerKey
<1> QED
  BY <1>4, <1>5 DEF KeysOK

\* The keys of a channel after a receive are those of its later places.
LEMMA ShiftedKeys ==
  ASSUME Types, normal # <<>>, normal' = Tail(normal)
  PROVE  \A k : KeyQueued(k)' <=> \E i \in 2..Len(normal) : KeyOf[normal[i]] = k
<1> DEFINE n == Len(normal)
<1>1. /\ n \in Nat \ {0}
      /\ DOMAIN normal' = 1..(n - 1)
      /\ \A i \in 1..(n - 1) : normal'[i] = normal[i + 1]
  BY TailFacts DEF Types, QueueTypeOK
<1> HIDE DEF n
<1>2. ASSUME NEW k, NEW i \in 1..(n - 1), KeyOf[normal'[i]] = k
      PROVE  \E j \in 2..n : KeyOf[normal[j]] = k
  <2>1. i + 1 \in 2..n /\ KeyOf[normal[i + 1]] = k
    BY <1>1, <1>2
  <2> QED
    BY <2>1
<1>3. ASSUME NEW k, NEW i \in 2..n, KeyOf[normal[i]] = k
      PROVE  \E j \in 1..(n - 1) : KeyOf[normal'[j]] = k
  <2>1. i - 1 \in 1..(n - 1) /\ normal'[i - 1] = normal[i]
    BY <1>1, <1>3
  <2> QED
    BY <1>3, <2>1
<1> QED
  BY <1>1, <1>2, <1>3 DEF KeyQueued, n

\* Removing the oldest alert together with its key.
LEMMA DropHead ==
  ASSUME Types, KeysOK, normal # <<>>, normal' = Tail(normal),
         pending' = pending \ {KeyOf[Head(normal)]},
         Carrying' = Carrying, \A t \in Carrying : held'[t] = held[t]
  PROVE  KeysOK'
<1> DEFINE n == Len(normal)
<1>1. /\ n \in Nat \ {0}
      /\ DOMAIN normal = 1..n
      /\ DOMAIN normal' = 1..(n - 1)
      /\ \A i \in 1..(n - 1) : normal'[i] = normal[i + 1]
      /\ Head(normal) = normal[1]
  BY TailFacts DEF Types, QueueTypeOK
<1> HIDE DEF n
<1>2. /\ \A i \in 2..n : KeyOf[normal[i]] # KeyOf[normal[1]]
      /\ \A t \in Carrying : KeyOf[held[t]] # KeyOf[normal[1]]
  BY <1>1 DEF KeysOK, OneAlertPerKey
<1>3. \A k : KeyQueued(k)' <=> \E i \in 2..n : KeyOf[normal[i]] = k
  BY ShiftedKeys DEF n
<1>4. \A k : KeyQueued(k) <=> KeyQueued(k)' \/ k = KeyOf[normal[1]]
  <2>1. \A k : KeyQueued(k) <=> \E i \in 1..n : KeyOf[normal[i]] = k
    BY <1>1 DEF KeyQueued
  <2>2. 1..n = {1} \cup 2..n
    BY <1>1
  <2> QED
    BY <1>3, <2>1, <2>2, Zenon
<1>5. \A k : KeyCarried(k)' <=> KeyCarried(k)
  BY DEF KeyCarried
<1>6. PICK h : h = KeyOf[normal[1]]
  OBVIOUS
<1>7. ~KeyQueued(h)' /\ ~KeyCarried(h)
  BY <1>2, <1>3, <1>6 DEF KeyCarried
<1>8. PendingPointwise'
  <2>1. pending' = pending \ {h}
    BY <1>1, <1>6
  <2> QED
    BY <2>1, <1>4, <1>5, <1>6, <1>7 DEF KeysOK, PendingPointwise
<1>9. OneAlertPerKey'
  BY <1>1 DEF KeysOK, OneAlertPerKey
<1> QED
  BY <1>8, <1>9 DEF KeysOK

\* A popper takes the oldest alert and leaves its key pending.
LEMMA TakeHead ==
  ASSUME Types, KeysOK, NEW c \in Threads \ Carrying,
         normal # <<>>, normal' = Tail(normal), pending' = pending,
         Carrying' = Carrying \cup {c}, held'[c] = Head(normal),
         \A t \in Carrying : held'[t] = held[t]
  PROVE  KeysOK'
<1> DEFINE n == Len(normal)
<1>1. /\ n \in Nat \ {0}
      /\ DOMAIN normal = 1..n
      /\ DOMAIN normal' = 1..(n - 1)
      /\ \A i \in 1..(n - 1) : normal'[i] = normal[i + 1]
      /\ Head(normal) = normal[1]
  BY TailFacts DEF Types, QueueTypeOK
<1> HIDE DEF n
<1>2. \A k : KeyQueued(k) <=> KeyQueued(k)' \/ k = KeyOf[normal[1]]
  <2>1. \A k : KeyQueued(k)' <=> \E i \in 2..n : KeyOf[normal[i]] = k
    BY ShiftedKeys DEF n
  <2>2. 1..n = {1} \cup 2..n
    BY <1>1
  <2>3. \A k : KeyQueued(k) <=> \E i \in {1} \cup 2..n : KeyOf[normal[i]] = k
    BY <1>1, <2>2 DEF KeyQueued
  <2> QED
    BY <2>1, <2>3
<1>3. \A k : KeyCarried(k)' <=> KeyCarried(k) \/ k = KeyOf[normal[1]]
  BY <1>1 DEF KeyCarried
<1>4. PendingPointwise'
  BY <1>2, <1>3 DEF KeysOK, PendingPointwise
<1>5. OneAlertPerKey'
  BY <1>1 DEF KeysOK, OneAlertPerKey
<1> QED
  BY <1>4, <1>5 DEF KeysOK

LEMMA IInvStep == QueueIInv /\ [QueueNext]_queueVars => QueueIInv'
<1> SUFFICES ASSUME QueueIInv, [QueueNext]_queueVars PROVE QueueIInv'
  OBVIOUS
<1>t. Types /\ Types'
  BY TypesStep DEF QueueIInv
<1>k. KeysOK
  BY DEF QueueIInv, KeysOK
<1>o. LockOK /\ RoomOK /\ OvertakenOK /\ NormalNeverRefused
  BY DEF QueueIInv
<1>d. Producers \cap Poppers = {} /\ NoThread \notin Producers
  OBVIOUS
<1> SUFFICES KeysOK' /\ ThreadsOK'
  BY <1>t DEF QueueIInv, KeysOK, ThreadsOK
<1>1. ASSUME NEW p \in Producers, NEW a \in Alerts, Enqueue(p, a)
      PROVE  KeysOK' /\ ThreadsOK'
  <2>1. Carrying' = Carrying /\ \A t \in Carrying : held'[t] = held[t]
    BY <1>1, <1>t DEF Enqueue, Carrying, Threads, Types, QueueTypeOK
  <2>2. KeysOK'
    BY <1>1, <1>t, <1>k, <2>1, QuietStep DEF Enqueue
  <2>3. LockOK' /\ RoomOK'
    BY <1>1, <1>t, <1>o DEF Enqueue, LockOK, RoomOK, Types, QueueTypeOK, Threads
  <2>4. OvertakenOK' /\ NormalNeverRefused'
    BY <1>1, <1>t, <1>o DEF Enqueue, OvertakenOK, NormalNeverRefused, Types, QueueTypeOK, Threads
  <2> QED
    BY <2>2, <2>3, <2>4 DEF ThreadsOK
<1>2. ASSUME NEW p \in Producers, SendEmergency(p)
      PROVE  KeysOK' /\ ThreadsOK'
  <2>1. Carrying' = Carrying /\ \A t \in Carrying : held'[t] = held[t]
    BY <1>2, <1>t DEF SendEmergency, Return, Carrying, Threads, Types, QueueTypeOK
  <2>2. KeysOK'
    BY <1>2, <1>t, <1>k, <2>1, QuietStep DEF SendEmergency
  <2>3. LockOK' /\ RoomOK'
    BY <1>2, <1>t, <1>o DEF SendEmergency, Return, LockOK, RoomOK, Types, QueueTypeOK, Threads
  <2>4. emergency' # <<>>
    <3>1. held[p] \in Emergency /\ emergency \in Seq(Emergency)
      BY <1>2, <1>t DEF SendEmergency, Types, HeldOK, QueueTypeOK, Threads
    <3> QED
      BY <1>2, <3>1 DEF SendEmergency
  <2>5. OvertakenOK' /\ NormalNeverRefused'
    BY <1>2, <1>t, <1>o, <1>d, <2>4
    DEF SendEmergency, Return, history, OvertakenOK, NormalNeverRefused, Types, QueueTypeOK, Threads
  <2> QED
    BY <2>2, <2>3, <2>5 DEF ThreadsOK
<1>3. ASSUME NEW p \in Producers, EmergencyTimeout(p)
      PROVE  KeysOK' /\ ThreadsOK'
  <2>1. Carrying' = Carrying /\ \A t \in Carrying : held'[t] = held[t]
    BY <1>3, <1>t DEF EmergencyTimeout, Return, Carrying, Threads, Types, QueueTypeOK
  <2>2. KeysOK'
    BY <1>3, <1>t, <1>k, <2>1, QuietStep DEF EmergencyTimeout
  <2>3. LockOK' /\ RoomOK'
    BY <1>3, <1>t, <1>o DEF EmergencyTimeout, Return, LockOK, RoomOK, Types, QueueTypeOK, Threads
  <2>4. OvertakenOK'
    BY <1>3, <1>t, <1>o, <1>d
    DEF EmergencyTimeout, Return, OvertakenOK, Types, QueueTypeOK, Threads
  <2>5. NormalNeverRefused'
    BY <1>3, <1>t, <1>o
    DEF EmergencyTimeout, NormalNeverRefused, Types, HeldOK, Threads
  <2> QED
    BY <2>2, <2>3, <2>4, <2>5 DEF ThreadsOK
<1>4. ASSUME NEW p \in Producers, Coalesce(p)
      PROVE  KeysOK' /\ ThreadsOK'
  <2>1. Carrying' = Carrying /\ \A t \in Carrying : held'[t] = held[t]
    BY <1>4, <1>t DEF Coalesce, Return, Carrying, Threads, Types, QueueTypeOK
  <2>2. KeysOK'
    BY <1>4, <1>t, <1>k, <2>1, QuietStep DEF Coalesce
  <2>3. LockOK' /\ RoomOK'
    BY <1>4, <1>t, <1>o DEF Coalesce, Return, LockOK, RoomOK, Types, QueueTypeOK, Threads
  <2>4. OvertakenOK' /\ NormalNeverRefused'
    BY <1>4, <1>t, <1>o, <1>d
    DEF Coalesce, Return, history, OvertakenOK, NormalNeverRefused, Types, QueueTypeOK, Threads
  <2> QED
    BY <2>2, <2>3, <2>4 DEF ThreadsOK
<1>5. ASSUME NEW p \in Producers, Admit(p)
      PROVE  KeysOK' /\ ThreadsOK'
  <2>1. held[p] \in Alerts \ Emergency
    BY <1>5, <1>t DEF Admit, Types, HeldOK, Threads
  <2>2. \A q \in Producers : pc[q] \notin {"evict", "resend"}
    BY <1>5, <1>o, <1>d DEF Admit, LockOK
  <2>3. KeysOK'
    <3>1. CASE Len(normal) < NormalCapacity
      <4>1. Carrying' = Carrying /\ \A t \in Carrying : held'[t] = held[t]
        BY <1>5, <3>1, <1>t DEF Admit, Return, Carrying, Threads, Types, QueueTypeOK
      <4> QED
        BY <1>5, <3>1, <1>t, <1>k, <2>1, <4>1, SendFresh DEF Admit
    <3>2. CASE ~(Len(normal) < NormalCapacity)
      <4>1. Carrying' = Carrying \cup {p} /\ held' = held /\ normal' = normal
        BY <1>5, <3>2, <1>t DEF Admit, Return, Carrying, Threads, Types, QueueTypeOK
      <4>2. \A k : KeyQueued(k)' <=> KeyQueued(k)
        BY <4>1 DEF KeyQueued
      <4>3. \A k : KeyCarried(k)' <=> KeyCarried(k) \/ k = KeyOf[held[p]]
        BY <4>1 DEF KeyCarried
      <4>4. PendingPointwise'
        BY <1>5, <1>k, <4>2, <4>3 DEF Admit, KeysOK, PendingPointwise
      <4>5. ~KeyQueued(KeyOf[held[p]]) /\ ~KeyCarried(KeyOf[held[p]])
        BY <1>5, <1>k, <2>1 DEF Admit, KeysOK, PendingPointwise
      <4>6. OneAlertPerKey'
        BY <1>k, <4>1, <4>5 DEF KeysOK, OneAlertPerKey, KeyQueued, KeyCarried
      <4> QED
        BY <4>4, <4>6 DEF KeysOK
    <3> QED
      BY <3>1, <3>2
  <2>4. LockOK' /\ RoomOK'
    BY <1>5, <1>t, <1>o, <1>d, <2>2
    DEF Admit, Return, LockOK, RoomOK, Types, QueueTypeOK, Threads
  <2>5. OvertakenOK' /\ NormalNeverRefused'
    BY <1>5, <1>t, <1>o, <1>d
    DEF Admit, Return, history, OvertakenOK, NormalNeverRefused, Types, QueueTypeOK, Threads
  <2> QED
    BY <2>3, <2>4, <2>5 DEF ThreadsOK
<1>6. ASSUME NEW p \in Producers, Evict(p)
      PROVE  KeysOK' /\ ThreadsOK'
  <2>1. Carrying' = Carrying /\ held' = held
    BY <1>6, <1>t DEF Evict, Carrying, Threads, Types, QueueTypeOK
  <2>2. KeysOK'
    <3>1. CASE normal # <<>>
      BY <1>6, <3>1, <1>t, <1>k, <2>1, DropHead DEF Evict
    <3>2. CASE normal = <<>>
      BY <1>6, <3>2, <1>t, <1>k, <2>1, QuietStep DEF Evict
    <3> QED
      BY <3>1, <3>2
  <2>3. Len(normal') < NormalCapacity
    <3>1. CASE normal # <<>>
      BY <1>6, <3>1, <1>t, TailFacts DEF Evict, Types, QueueTypeOK
    <3>2. CASE normal = <<>>
      BY <1>6, <3>2 DEF Evict
    <3> QED
      BY <3>1, <3>2
  <2>4. LockOK' /\ RoomOK'
    BY <1>6, <1>t, <1>o, <1>d, <2>3
    DEF Evict, LockOK, RoomOK, Types, QueueTypeOK, Threads
  <2>5. OvertakenOK' /\ NormalNeverRefused'
    BY <1>6, <1>t, <1>o, <1>d
    DEF Evict, history, OvertakenOK, NormalNeverRefused, Types, QueueTypeOK, Threads
  <2> QED
    BY <2>2, <2>4, <2>5 DEF ThreadsOK
<1>7. ASSUME NEW p \in Producers, Resend(p)
      PROVE  KeysOK' /\ ThreadsOK'
  <2>1. held[p] \in Alerts \ Emergency
    BY <1>7, <1>t DEF Resend, Types, HeldOK, Threads
  <2>2. Len(normal) < NormalCapacity
    BY <1>7, <1>o DEF Resend, RoomOK
  <2>3. /\ p \in Carrying
        /\ Carrying' = Carrying \ {p}
        /\ \A t \in Carrying' : held'[t] = held[t]
    BY <1>7, <1>t DEF Resend, Return, Carrying, Threads, Types, QueueTypeOK
  <2>4. KeysOK'
    BY <1>7, <1>t, <1>k, <2>1, <2>2, <2>3, SendCarried DEF Resend
  <2>5. \A q \in Producers : pc[q] \in {"evict", "resend"} => q = p
    BY <1>7, <1>o DEF Resend, LockOK
  <2>6. LockOK' /\ RoomOK'
    BY <1>7, <1>t, <1>d, <2>5
    DEF Resend, Return, LockOK, RoomOK, Types, QueueTypeOK, Threads
  <2>7. OvertakenOK' /\ NormalNeverRefused'
    BY <1>7, <1>t, <1>o, <1>d, <2>2
    DEF Resend, Return, OvertakenOK, NormalNeverRefused, Types, QueueTypeOK, Threads
  <2> QED
    BY <2>4, <2>6, <2>7 DEF ThreadsOK
<1>8. ASSUME NEW c \in Poppers, PopEmergency(c)
      PROVE  KeysOK' /\ ThreadsOK'
  <2>1. Carrying' = Carrying /\ held' = held
    BY <1>8, <1>t DEF PopEmergency, Carrying, Threads, Types, QueueTypeOK
  <2>2. KeysOK'
    BY <1>8, <1>t, <1>k, <2>1, QuietStep DEF PopEmergency
  <2>3. LockOK' /\ RoomOK'
    BY <1>8, <1>t, <1>o, <1>d
    DEF PopEmergency, LockOK, RoomOK, Types, QueueTypeOK, Threads
  <2>4. OvertakenOK' /\ NormalNeverRefused'
    BY <1>8, <1>o DEF PopEmergency, OvertakenOK, NormalNeverRefused
  <2> QED
    BY <2>2, <2>3, <2>4 DEF ThreadsOK
<1>9. ASSUME NEW c \in Poppers, PopNoEmergency(c)
      PROVE  KeysOK' /\ ThreadsOK'
  <2>1. Carrying' = Carrying /\ held' = held
    BY <1>9, <1>t DEF PopNoEmergency, Carrying, Threads, Types, QueueTypeOK
  <2>2. KeysOK'
    BY <1>9, <1>t, <1>k, <2>1, QuietStep DEF PopNoEmergency
  <2>3. LockOK' /\ RoomOK'
    BY <1>9, <1>t, <1>o, <1>d
    DEF PopNoEmergency, LockOK, RoomOK, Types, QueueTypeOK, Threads
  <2>4. OvertakenOK' /\ NormalNeverRefused'
    BY <1>9, <1>t, <1>o
    DEF PopNoEmergency, history, OvertakenOK, NormalNeverRefused, Types, QueueTypeOK, Threads
  <2> QED
    BY <2>2, <2>3, <2>4 DEF ThreadsOK
<1>10. ASSUME NEW c \in Poppers, PopNormal(c)
       PROVE  KeysOK' /\ ThreadsOK'
  <2>1. /\ c \in Threads \ Carrying
        /\ Carrying' = Carrying \cup {c}
        /\ held'[c] = Head(normal)
        /\ \A t \in Carrying : held'[t] = held[t]
    BY <1>10, <1>t DEF PopNormal, Carrying, Threads, Types, QueueTypeOK
  <2>2. KeysOK'
    BY <1>10, <1>t, <1>k, <2>1, TakeHead DEF PopNormal
  <2>3. Len(normal') < Len(normal) /\ Len(normal') \in Nat /\ Len(normal) \in Nat
    BY <1>10, <1>t, TailFacts DEF PopNormal, Types, QueueTypeOK
  <2>4. LockOK'
    BY <1>10, <1>t, <1>o, <1>d DEF PopNormal, LockOK, Types, QueueTypeOK, Threads
  <2>5. RoomOK'
    BY <1>10, <1>t, <1>o, <1>d, <2>3 DEF PopNormal, RoomOK, Types, QueueTypeOK, Threads
  <2>6. OvertakenOK' /\ NormalNeverRefused'
    BY <1>10, <1>t, <1>o
    DEF PopNormal, OvertakenOK, NormalNeverRefused, Types, QueueTypeOK, Threads
  <2> QED
    BY <2>2, <2>4, <2>5, <2>6 DEF ThreadsOK
<1>11. ASSUME NEW c \in Poppers, PopRelease(c)
       PROVE  KeysOK' /\ ThreadsOK'
  <2>1. /\ c \in Carrying
        /\ Carrying' = Carrying \ {c}
        /\ \A t \in Carrying' : held'[t] = held[t]
        /\ normal' = normal
    BY <1>11, <1>t DEF PopRelease, Return, Carrying, Threads, Types, QueueTypeOK
  <2>2. KeysOK'
    <3>1. \A k : KeyQueued(k)' <=> KeyQueued(k)
      BY <2>1 DEF KeyQueued
    <3>2. \A k : KeyCarried(k) <=> KeyCarried(k)' \/ k = KeyOf[held[c]]
      BY <2>1 DEF KeyCarried
    <3>3. PICK h : h = KeyOf[held[c]]
      OBVIOUS
    <3>4. ~KeyQueued(h) /\ ~KeyCarried(h)'
      BY <1>k, <2>1, <3>3 DEF KeysOK, OneAlertPerKey, KeyQueued, KeyCarried
    <3>5. PendingPointwise'
      BY <1>11, <1>k, <3>1, <3>2, <3>3, <3>4 DEF PopRelease, KeysOK, PendingPointwise
    <3>6. OneAlertPerKey'
      BY <1>k, <2>1 DEF KeysOK, OneAlertPerKey
    <3> QED
      BY <3>5, <3>6 DEF KeysOK
  <2>3. LockOK' /\ RoomOK'
    BY <1>11, <1>t, <1>o, <1>d
    DEF PopRelease, Return, LockOK, RoomOK, Types, QueueTypeOK, Threads
  <2>4. OvertakenOK' /\ NormalNeverRefused'
    BY <1>11, <1>t, <1>o
    DEF PopRelease, Return, OvertakenOK, NormalNeverRefused, Types, QueueTypeOK, Threads
  <2> QED
    BY <2>2, <2>3, <2>4 DEF ThreadsOK
<1>12. ASSUME NEW c \in Poppers, PopStop(c)
       PROVE  KeysOK' /\ ThreadsOK'
  <2>1. Carrying' = Carrying /\ held' = held
    BY <1>12, <1>t DEF PopStop, Carrying, Threads, Types, QueueTypeOK
  <2>2. KeysOK'
    BY <1>12, <1>t, <1>k, <2>1, QuietStep DEF PopStop
  <2>3. LockOK' /\ RoomOK'
    BY <1>12, <1>t, <1>o, <1>d
    DEF PopStop, LockOK, RoomOK, Types, QueueTypeOK, Threads
  <2>4. OvertakenOK' /\ NormalNeverRefused'
    BY <1>12, <1>t, <1>o
    DEF PopStop, history, OvertakenOK, NormalNeverRefused, Types, QueueTypeOK, Threads
  <2> QED
    BY <2>2, <2>3, <2>4 DEF ThreadsOK
<1>13. CASE Shutdown \/ UNCHANGED queueVars
  <2>1. UNCHANGED <<emergency, normal, pending, mu, pc, held, refused, overtaken>>
    BY <1>13 DEF Shutdown, queueVars
  <2>2. Carrying' = Carrying
    BY <2>1 DEF Carrying
  <2>3. KeysOK'
    BY <1>t, <1>k, <2>1, <2>2, QuietStep
  <2>4. ThreadsOK'
    BY <1>o, <2>1 DEF ThreadsOK, LockOK, RoomOK, OvertakenOK, NormalNeverRefused
  <2> QED
    BY <2>3, <2>4
<1> QED
  BY <1>1, <1>2, <1>3, <1>4, <1>5, <1>6, <1>7, <1>8, <1>9, <1>10, <1>11,
     <1>12, <1>13
  DEF QueueNext, EnqueueStep, PopStep

\* QueueIInv holds in every reachable state.
THEOREM QueueInvariance == QueueSpec => []QueueIInv
  BY IInvInit, IInvStep, PTL DEF QueueSpec

-----------------------------------------------------------------------------
(* What follows.                                                           *)

\* The pending set is exactly the keys queued or in a thread's hands, so
\* neither an eviction nor a Pop leaves a key behind that would silence its
\* condition and aircraft, for any capacities and number of goroutines.
THEOREM PendingIsExact == QueueSpec => []PendingExact
<1>1. QueueIInv => PendingExact
  <2> SUFFICES ASSUME QueueIInv PROVE PendingExact
    OBVIOUS
  <2>1. pending \subseteq Keys
    BY DEF QueueIInv, Types, QueueTypeOK
  <2>2. \A k : k \in {KeyOf[a] : a \in Range(normal)} <=> KeyQueued(k)
    BY DEF Range, KeyQueued
  <2>3. \A k : k \in {KeyOf[held[t]] : t \in Carrying} <=> KeyCarried(k)
    BY DEF KeyCarried
  <2>4. \A k : KeyQueued(k) => k \in Keys
    BY DEF QueueIInv, Types, QueueTypeOK, KeyQueued
  <2>5. \A k : KeyCarried(k) => k \in Keys
    BY DEF QueueIInv, Types, HeldOK, KeyCarried, Carrying
  <2> QED
    BY <2>1, <2>2, <2>3, <2>4, <2>5 DEF QueueIInv, PendingPointwise, PendingExact
<1> QED
  BY QueueInvariance, <1>1, PTL

\* At most one alert per condition and aircraft is queued or in hand.
THEOREM OneAlertPerKeyHolds == QueueSpec => []OneAlertPerKey
<1>1. QueueIInv => OneAlertPerKey
  BY DEF QueueIInv
<1> QED
  BY QueueInvariance, <1>1, PTL

\* Enqueue never returns ErrAlertQueueFull for a normal alert: the eviction
\* makes room and no other sender can take it while the mutex is held.
THEOREM NormalIsNeverRefused == QueueSpec => []NormalNeverRefused
<1>1. QueueIInv => NormalNeverRefused
  BY DEF QueueIInv
<1> QED
  BY QueueInvariance, <1>1, PTL

\* Each popper passes a waiting emergency at most once.
THEOREM EmergencyOvertakenOnce == QueueSpec => []EmergencyNotOvertakenTwice
<1>1. QueueIInv => EmergencyNotOvertakenTwice
  BY DEF QueueIInv, OvertakenOK, EmergencyNotOvertakenTwice
<1> QED
  BY QueueInvariance, <1>1, PTL

\* The queue's admission bookkeeping is right in every reachable state, for any
\* capacities and any number of producers, poppers and alerts.
THEOREM AdmissionIsSound == QueueSpec => []AdmissionSound
<1>1. QueueTypeOK /\ PendingExact /\ OneAlertPerKey /\ NormalNeverRefused => AdmissionSound
  BY DEF AdmissionSound
<1> QED
  BY QueueTypeCorrect, PendingIsExact, OneAlertPerKeyHolds, NormalIsNeverRefused, <1>1, PTL

HIDE DEF AlertAssumption, ThreadAssumption, CapacityAssumption

-----------------------------------------------------------------------------
(* Monitors.                                                               *)

USE MonitorAssumption, MonitorBounds, DeploymentAssumption, NoTrackAssumption
    DEF MonitorBounds

OutageAlerts == {"none", "offline", "recovered", "unsaved"}

\* The samples a source counts towards its recovery were healthy ones.
HealthOK ==
  /\ sources \in [Feeders -> [Sources -> [offline : BOOLEAN, samples : 0..1]]]
  /\ outage \in [Feeders -> [Sources -> OutageAlerts]]
  /\ healthy \in [Feeders -> [Sources -> 0..2]]
  /\ \A f \in Feeders, s \in Sources : sources[f][s].samples <= healthy[f][s]

\* A poller is about to have the feeder's monitor sample a healthy source.
Waiting(p, f, s) ==
  FeederOf[p] = f /\ job[p].stage = "health" /\ job[p].sample[s] = "healthy"

\* While no poll has answered in an outage, one healthy sample at most is
\* counted or on its way, which was made before the outage.
Unanswered(f, s) ==
  sources[f][s].offline /\ answers[f][s] = 0 =>
    /\ health[f][s] # "healthy"
    /\ sources[f][s].samples = 1 => \A p \in Pollers : ~Waiting(p, f, s)

\* What a poller found is what the engine knows until it polls again.
PollingOK ==
  /\ DOMAIN health = Feeders /\ DOMAIN job = Pollers
  /\ answers \in [Feeders -> [Sources -> 0..2]]
  /\ \A p \in Pollers : job[p].stage = "health" =>
       \A s \in Polls[p] : s \in Sources => job[p].sample[s] = health[FeederOf[p]][s]
  /\ \A p \in Pollers : job[p].stage \in {"health", "frame"} /\ job[p].snap.fetched =>
       job[p].snap.aircraft \in [Aircraft -> Observations \cup {NotSeen}]
  /\ \A f \in Feeders, s \in Sources : Unanswered(f, s)

\* An aircraft that is not marked has been announced only as often as the
\* mark was lost.
SightingsOK ==
  /\ sighted \in [Aircraft -> Nat] /\ forgotten \in [Aircraft -> Nat]
  /\ \A a \in Aircraft : /\ a \in seen => sighted[a] <= 1 + forgotten[a]
                         /\ a \notin seen => sighted[a] <= forgotten[a]

\* A hash is one of a version that was published when it was asked for.
ReferenceOK ==
  /\ latest \in Nat /\ reference \in [hash : Nat, version : Nat]
  /\ reference.hash <= reference.version /\ reference.version <= latest
  /\ refresh.stage = "fetching" => refresh.hash \in Nat /\ refresh.hash <= latest

Configs == Centers \cup {d.center : d \in Deployments}
Monitor == [config : Configs, lastAt : Nat, tracks : [Aircraft -> Tracks \cup {NoTrack}]]
InUse(i) == i <= Cardinality(Feeders) + changes

MovementType ==
  /\ clock \in Nat /\ deployment \in Deployments /\ changes \in Nat
  /\ registry \in [Feeders -> Ids]
  /\ heap \in [Ids -> Monitor]
  /\ moved \in [Ids -> [Aircraft -> [Kinds -> Nat]]]
  /\ recent \in [Ids -> [Aircraft -> Seq(Observations)]]

\* Monitors are numbered in the order they are made, and one that is not made
\* yet has no history.
RegistryOK ==
  /\ \A f \in Feeders : InUse(registry[f])
  /\ \A i \in Ids : ~InUse(i) =>
       \A a \in Aircraft : moved[i][a] = NoAlerts /\ recent[i][a] = <<>>

\* The last n observations fit the movement.
Streak(seq, n, kind) ==
  n <= Len(seq) /\ \A j \in 1..Len(seq) : j > Len(seq) - n => Fits(seq[j], kind)

Away(o) == o.position /\ ~o.ground /\ o.nm > ActivityRadius

\* The alerts a track has raised, at the time now, mv being the last ones.
AlertsOK(t, mv, now) ==
  /\ t.lastSeen <= now
  /\ \A k \in Kinds :
       /\ t.last[k] <= t.lastSeen
       /\ t.last[k] # 0 => mv[k] = t.last[k]
       /\ t.last[k] = 0 => mv[k] = 0 \/ now - mv[k] >= Cooldown

\* The counts of a track, seq being its last observations.
CountsOK(t, seq) ==
  /\ Len(seq) <= Consecutive
  /\ Streak(seq, t.takeoffs, "takeoff")
  /\ Streak(seq, t.landings, "landing")
  /\ Streak(seq, t.approaches, "approach")
  /\ t.approaches # 0 =>
       ~t.approaching /\ (t.last["approach"] = 0 \/ t.lastSeen - t.last["approach"] >= Cooldown)

PhaseOK(t, seq) == seq # <<>> /\ (Away(seq[Len(seq)]) => t.phase \in {"", "landing"})

TrackOK(t, mv, seq, now) == AlertsOK(t, mv, now) /\ CountsOK(t, seq) /\ PhaseOK(t, seq)
GoneOK(mv, seq, now) ==
  seq = <<>> /\ \A k \in Kinds : mv[k] = 0 \/ now - mv[k] >= Cooldown
PairOK(t, mv, seq, now) ==
  IF t = NoTrack THEN GoneOK(mv, seq, now) ELSE TrackOK(t, mv, seq, now)

HistoryOK ==
  \A i \in Ids, a \in Aircraft :
    PairOK(heap[i].tracks[a], moved[i][a], recent[i][a], clock)

MovementOK == MovementType /\ RegistryOK /\ HistoryOK

IInv == HealthOK /\ PollingOK /\ SightingsOK /\ ReferenceOK /\ MovementOK

-----------------------------------------------------------------------------
LEMMA Parameters ==
  /\ Cooldown \in Nat /\ StaleAfter \in Nat /\ Cooldown <= StaleAfter
  /\ Cardinality(Feeders) \in Nat /\ MaxChanges \in Nat
<1>1. Cardinality(Feeders) \in Nat
  BY FS_CardinalityType
<1> QED
  BY <1>1 DEF MonitorAssumption

\* At the start each feeder has a monitor of its own.
LEMMA Numbering ==
  \E pos \in [Feeders -> 1..Cardinality(Feeders)] :
    \A f, g \in Feeders : pos[f] = pos[g] => f = g
<1> DEFINE n == Cardinality(Feeders)
<1>1. ExistsBijection(1..n, Feeders)
  BY FS_CardinalityType
<1>2. PICK b \in Bijection(1..n, Feeders) : TRUE
  BY <1>1 DEF ExistsBijection
<1>3. b \in [1..n -> Feeders] /\ \A f \in Feeders : \E j \in 1..n : b[j] = f
  BY <1>2 DEF Bijection, Injection, Surjection
<1> DEFINE pos == [f \in Feeders |-> CHOOSE j \in 1..n : b[j] = f]
<1>4. ASSUME NEW f \in Feeders
      PROVE  pos[f] \in 1..n /\ b[pos[f]] = f
  BY <1>3, Zenon
<1>5. pos \in [Feeders -> 1..n]
  BY <1>4
<1>6. ASSUME NEW f \in Feeders, NEW g \in Feeders, pos[f] = pos[g] PROVE f = g
  <2>1. b[pos[f]] = b[pos[g]]
    BY <1>6
  <2>2. b[pos[f]] = f /\ b[pos[g]] = g
    BY <1>4
  <2> QED
    BY <2>1, <2>2
<1> HIDE DEF pos
<1> QED
  BY <1>5, <1>6

LEMMA NoAlertsType == NoAlerts \in [Kinds -> Nat] /\ \A k \in Kinds : NoAlerts[k] = 0
  BY DEF NoAlerts

LEMMA NewTrackType == NewTrack \in Tracks
<1>1. "" \in Kinds \cup {""} /\ 0 \in 0..Consecutive /\ 0 \in Nat /\ FALSE \in BOOLEAN
  BY DEF Consecutive
<1> QED
  BY <1>1, NoAlertsType DEF NewTrack, Tracks

LEMMA NewMonitorType ==
  ASSUME NEW config \in Configs
  PROVE  /\ NewMovementMonitor(config) \in Monitor
         /\ \A a \in Aircraft : NewMovementMonitor(config).tracks[a] = NoTrack
  BY DEF NewMovementMonitor, Monitor

\* A track that is gone, with nothing before it.
LEMMA NothingIsGone ==
  ASSUME NEW now
  PROVE  PairOK(NoTrack, NoAlerts, <<>>, now)
  BY NoAlertsType DEF PairOK, GoneOK

LEMMA InitInv == Init => IInv
<1> SUFFICES ASSUME Init PROVE IInv
  OBVIOUS
<1>1. HealthOK
  <2>1. Known \in [offline : BOOLEAN, samples : 0..1] /\ Known.samples = 0
    BY DEF Known
  <2> QED
    BY <2>1 DEF Init, HealthOK, OutageAlerts
<1>2. SightingsOK
  BY DEF Init, SightingsOK
<1>3. ReferenceOK
  BY DEF Init, ReferenceOK, Unknown
<1>4. MovementType
  <2>1. deployment.center \in Configs
    BY DEF Init, Configs
  <2>2. heap \in [Ids -> Monitor]
    BY <2>1, NewMonitorType DEF Init
  <2>3. registry \in [Feeders -> 1..Cardinality(Feeders)]
    BY Numbering DEF Init
  <2>4. registry \in [Feeders -> Ids]
    BY <2>3, Parameters DEF Ids
  <2>5. /\ moved \in [Ids -> [Aircraft -> [Kinds -> Nat]]]
        /\ recent \in [Ids -> [Aircraft -> Seq(Observations)]]
    BY NoAlertsType DEF Init
  <2> QED
    BY <2>2, <2>4, <2>5 DEF Init, MovementType
<1>5. RegistryOK
  <2>1. registry \in [Feeders -> 1..Cardinality(Feeders)]
    BY Numbering DEF Init
  <2>2. changes = 0 /\ \A i \in Ids, a \in Aircraft : moved[i][a] = NoAlerts /\ recent[i][a] = <<>>
    BY DEF Init
  <2> QED
    BY <2>1, <2>2, Parameters DEF RegistryOK, InUse
<1>6. HistoryOK
  <2> SUFFICES ASSUME NEW i \in Ids, NEW a \in Aircraft
               PROVE  PairOK(heap[i].tracks[a], moved[i][a], recent[i][a], clock)
    BY DEF HistoryOK
  <2>1. heap[i].tracks[a] = NoTrack /\ moved[i][a] = NoAlerts /\ recent[i][a] = <<>>
    BY DEF Init, NewMovementMonitor
  <2> QED
    BY <2>1, NothingIsGone
<1>7. PollingOK
  <2>1. /\ DOMAIN health = Feeders /\ DOMAIN job = Pollers
        /\ \A p \in Pollers : job[p].stage = "idle"
    BY DEF Init, Unpolled, Idle
  <2>2. answers \in [Feeders -> [Sources -> 0..2]]
    BY DEF Init
  <2>3. \A f \in Feeders, s \in Sources : ~sources[f][s].offline
    BY DEF Init, Known
  <2> QED
    BY <2>1, <2>2, <2>3 DEF PollingOK, Unanswered
<1> QED
  BY <1>1, <1>2, <1>3, <1>4, <1>5, <1>6, <1>7 DEF IInv, MovementOK

-----------------------------------------------------------------------------
(* One source and one track.                                               *)
\* A sample keeps a source's count within the healthy samples in a row, and a
\* recovery is announced with the second.
LEMMA SampledStep ==
  ASSUME NEW state \in [offline : BOOLEAN, samples : 0..1], NEW status,
         NEW n \in 0..2, state.samples <= n
  PROVE  LET after == Sampled(state, status)
             m == IF status = "healthy" THEN (IF n = 2 THEN 2 ELSE n + 1) ELSE 0
         IN  /\ after \in [offline : BOOLEAN, samples : 0..1]
             /\ m \in 0..2 /\ after.samples <= m
             /\ HealthAlert(state, after, status) \in OutageAlerts
             /\ HealthAlert(state, after, status) = "recovered" => m = 2
<1> DEFINE after == Sampled(state, status)
           m == IF status = "healthy" THEN (IF n = 2 THEN 2 ELSE n + 1) ELSE 0
<1>1. Known \in [offline : BOOLEAN, samples : 0..1] /\ Known.samples = 0
  BY DEF Known
<1>2. m \in 0..2
  OBVIOUS
<1>3. HealthAlert(state, after, status) \in OutageAlerts
  BY DEF HealthAlert, OutageAlerts
<1>4. CASE status = "disabled"
  <2>1. after = Known /\ m = 0
    BY <1>4 DEF Sampled
  <2>2. HealthAlert(state, after, status) # "recovered"
    BY <1>4 DEF HealthAlert
  <2> QED
    BY <1>1, <1>2, <1>3, <2>1, <2>2
<1>5. CASE status = "offline"
  <2>1. after = [offline |-> TRUE, samples |-> 0]
    BY <1>5 DEF Sampled
  <2>2. after \in [offline : BOOLEAN, samples : 0..1] /\ after.samples = 0
    BY <2>1
  <2>3. HealthAlert(state, after, status) # "recovered"
    BY <1>5 DEF HealthAlert
  <2> QED
    BY <1>2, <1>3, <2>2, <2>3
<1>6. CASE status = "healthy" /\ state.offline
  <2>3. after = IF state.samples + 1 >= 2 THEN Known ELSE [state EXCEPT !.samples = @ + 1]
    <3>1. status # "disabled" /\ status # "offline"
      BY <1>6
    <3> QED
      BY <1>6, <3>1, Zenon DEF Sampled
  <2>1. CASE state.samples = 1
    <3>1. after = Known
      BY <2>1, <2>3
    <3>2. m = 2
      BY <1>6, <2>1
    <3> QED
      BY <1>1, <1>2, <1>3, <3>1, <3>2
  <2>2. CASE state.samples = 0
    <3>1. after = [state EXCEPT !.samples = @ + 1]
      BY <2>2, <2>3
    <3>2. after \in [offline : BOOLEAN, samples : 0..1] /\ after.samples = 1
      BY <3>1, <2>2
    <3>3. after.offline = state.offline
      BY <3>1
    <3>4. m >= 1
      BY <1>6
    <3>5. HealthAlert(state, after, status) # "recovered"
      BY <1>6, <3>3 DEF HealthAlert
    <3> QED
      BY <1>2, <1>3, <3>2, <3>4, <3>5
  <2> QED
    BY <2>1, <2>2
<1>7. CASE status = "healthy" /\ ~state.offline
  <2>1. after = state
    BY <1>7 DEF Sampled
  <2>2. state.samples <= m
    BY <1>7
  <2>3. HealthAlert(state, after, status) # "recovered"
    BY <1>7 DEF HealthAlert
  <2> QED
    BY <1>2, <1>3, <2>1, <2>2, <2>3
<1>8. CASE status \notin {"disabled", "offline", "healthy"}
  <2>1. after = [state EXCEPT !.samples = 0]
    BY <1>8 DEF Sampled
  <2>2. after \in [offline : BOOLEAN, samples : 0..1] /\ after.samples = 0
    BY <2>1
  <2>3. HealthAlert(state, after, status) # "recovered"
    BY <1>8 DEF HealthAlert
  <2> QED
    BY <1>2, <1>3, <2>2, <2>3
<1> QED
  BY <1>4, <1>5, <1>6, <1>7, <1>8

\* An alert of a track sets the time of its kind, and no count.
Announced(u, t, kind, now) ==
  /\ u.last[kind] = now /\ \A k \in Kinds \ {kind} : u.last[k] = t.last[k]
  /\ u.lastSeen = t.lastSeen
  /\ u.takeoffs = t.takeoffs /\ u.landings = t.landings /\ u.approaches = t.approaches
  /\ u.approaching <=> kind = "approach"

LEMMA AnnounceStep ==
  ASSUME NEW t \in Tracks, NEW kind \in Kinds, NEW now \in Nat
  PROVE  Announce(t, kind, now) \in Tracks /\ Announced(Announce(t, kind, now), t, kind, now)
<1>1. PICK l : l = [t.last EXCEPT ![kind] = now]
  OBVIOUS
<1>2. l \in [Kinds -> Nat] /\ l[kind] = now /\ \A k \in Kinds \ {kind} : l[k] = t.last[k]
  BY <1>1 DEF Tracks
<1>3. PICK b \in BOOLEAN : b = (kind = "approach")
  OBVIOUS
<1>4. Announce(t, kind, now) =
        [t EXCEPT !.last = l, !.phase = kind, !.phaseAt = now, !.approaching = b]
  BY <1>1, <1>3 DEF Announce, Tracks
<1>5. PICK u : u = [t EXCEPT !.last = l, !.phase = kind, !.phaseAt = now, !.approaching = b]
  OBVIOUS
<1>6. u \in Tracks
  BY <1>2, <1>5 DEF Tracks
<1>7. /\ u.last = l /\ u.approaching = b
      /\ u.lastSeen = t.lastSeen
      /\ u.takeoffs = t.takeoffs /\ u.landings = t.landings /\ u.approaches = t.approaches
  BY <1>5 DEF Tracks
<1>8. Announce(t, kind, now) = u
  BY <1>4, <1>5
<1>9. u.approaching <=> kind = "approach"
  BY <1>3, <1>7
<1>10. u.last[kind] = now /\ \A k \in Kinds \ {kind} : u.last[k] = t.last[k]
  BY <1>2, <1>7
<1>11. Announced(u, t, kind, now)
  BY <1>7, <1>9, <1>10, Zenon DEF Announced
<1> QED
  BY <1>6, <1>8, <1>11

\* The counts are kept within their range, the kinds are distinct.
LEMMA CountSet ==
  ASSUME NEW t \in Tracks, NEW n \in 0..Consecutive
  PROVE  /\ [t EXCEPT !.takeoffs = n] \in Tracks
         /\ [t EXCEPT !.landings = n] \in Tracks
         /\ [t EXCEPT !.approaches = n] \in Tracks
  BY DEF Tracks

LEMMA ZeroCount == 0 \in 0..Consecutive
  BY DEF Consecutive

LEMMA ThreeKinds ==
  /\ "takeoff" \in Kinds /\ "landing" \in Kinds /\ "approach" \in Kinds
  /\ "takeoff" # "landing" /\ "takeoff" # "approach" /\ "landing" # "approach"
  /\ \A k \in Kinds : k \in {"takeoff", "landing", "approach"}
  BY DEF Kinds

\* An alert of the kind is due: the observation is the third in a row of its
\* count, and the cooldown is over.
DueAlert(t, n, o, kind, now) ==
  Cooled(t, kind, now) /\ Fits(o, kind) /\ n + 1 >= Consecutive

\* What one observation makes of the count of a kind: n before, m after.
Counted(n, m, o, kind) == m = 0 \/ (Fits(o, kind) /\ m <= n + 1)

\* What the departure counts and announces.
Departed(u, t, o, now) ==
  /\ u.lastSeen = t.lastSeen
  /\ u.landings = t.landings /\ u.approaches = t.approaches
  /\ u.last["landing"] = t.last["landing"] /\ u.last["approach"] = t.last["approach"]
  /\ \/ u.last["takeoff"] = t.last["takeoff"]
     \/ u.last["takeoff"] = now /\ DueAlert(t, t.takeoffs, o, "takeoff", now)
  /\ Counted(t.takeoffs, u.takeoffs, o, "takeoff")
  /\ u.approaching => t.approaching
  /\ Away(o) => u.phase = t.phase

LEMMA DepartureStep ==
  ASSUME NEW t \in Tracks, NEW o \in Observations, NEW now \in Nat, o.position
  PROVE  Departure(t, o, now) \in Tracks /\ Departed(Departure(t, o, now), t, o, now)
<1> DEFINE u == Departure(t, o, now)
           ends == o.ground \/ o.nm > DepartureRadius \/ (~t.groundNear /\ t.takeoffs = 0) \/ ~o.departing
           waits == t.takeoffs + 1 < Consecutive \/ ~Cooled(t, "takeoff", now)
<1> USE DEF Departed
<1>1. t.takeoffs \in 0..Consecutive /\ o.nm \in Nat
  BY DEF Tracks, Observations
<1>2. Away(o) => ends
  BY <1>1 DEF Away, ActivityRadius, DepartureRadius
<1>3. CASE ends
  <2>1. u = [t EXCEPT !.takeoffs = 0]
    BY <1>3 DEF Departure
  <2>2. u \in Tracks
    <3> HIDE DEF u
    <3>1. [t EXCEPT !.takeoffs = 0] \in Tracks
      BY CountSet, ZeroCount
    <3> QED
      BY <2>1, <3>1
  <2>3. /\ u.lastSeen = t.lastSeen /\ u.landings = t.landings /\ u.approaches = t.approaches
        /\ u.last = t.last /\ u.phase = t.phase /\ u.takeoffs = 0
        /\ u.approaching = t.approaching
    BY <2>1 DEF Tracks
  <2> QED
    BY <2>2, <2>3 DEF Counted
<1>4. ~ends => Fits(o, "takeoff")
  <2>1. ~ends => o.nm <= DepartureRadius
    BY <1>1 DEF DepartureRadius
  <2> QED
    BY <2>1 DEF Fits
<1>5. CASE ~ends /\ waits
  <2>1. PICK n : n = IF t.takeoffs = Consecutive THEN t.takeoffs ELSE t.takeoffs + 1
    OBVIOUS
  <2>2. u = [t EXCEPT !.takeoffs = n]
    BY <1>5, <2>1 DEF Departure
  <2>3. n \in 0..Consecutive /\ n <= t.takeoffs + 1
    BY <1>1, <2>1 DEF Consecutive
  <2>4. u \in Tracks
    BY <2>2, <2>3 DEF Tracks
  <2>5. /\ u.lastSeen = t.lastSeen /\ u.landings = t.landings /\ u.approaches = t.approaches
        /\ u.last = t.last /\ u.phase = t.phase /\ u.takeoffs = n
        /\ u.approaching = t.approaching
    BY <2>2 DEF Tracks
  <2> QED
    BY <1>4, <1>5, <2>3, <2>4, <2>5 DEF Counted
<1>6. CASE ~ends /\ ~waits
  <2>1. PICK v : v = Announce(t, "takeoff", now)
    OBVIOUS
  <2>7. v \in Tracks /\ Announced(v, t, "takeoff", now)
    BY <2>1, AnnounceStep, ThreeKinds
  <2>2. /\ v \in Tracks /\ v.last["takeoff"] = now
        /\ v.last["landing"] = t.last["landing"] /\ v.last["approach"] = t.last["approach"]
        /\ v.lastSeen = t.lastSeen /\ v.landings = t.landings /\ v.approaches = t.approaches
        /\ ~v.approaching
    BY <2>7, ThreeKinds DEF Announced
  <2>3. u = [v EXCEPT !.takeoffs = 0, !.groundNear = FALSE]
    BY <1>6, <2>1 DEF Departure
  <2>4. u \in Tracks
    <3>1. PICK w : w = [v EXCEPT !.takeoffs = 0]
      OBVIOUS
    <3>2. w \in Tracks
      BY <2>2, <3>1, CountSet, ZeroCount
    <3>3. u = [w EXCEPT !.groundNear = FALSE]
      BY <2>3, <3>1
    <3> QED
      BY <3>2, <3>3 DEF Tracks
  <2>5. /\ u.lastSeen = v.lastSeen /\ u.landings = v.landings /\ u.approaches = v.approaches
        /\ u.last = v.last /\ u.takeoffs = 0 /\ u.approaching = v.approaching
    BY <2>2, <2>3 DEF Tracks
  <2>6. DueAlert(t, t.takeoffs, o, "takeoff", now)
    <3>1. t.takeoffs + 1 >= Consecutive
      BY <1>1, <1>6 DEF Consecutive
    <3> QED
      BY <1>4, <1>6, <3>1 DEF DueAlert
  <2> QED
    BY <1>2, <1>6, <2>2, <2>4, <2>5, <2>6 DEF Counted
<1> QED
  BY <1>3, <1>5, <1>6
\* What the landing counts and announces.
Landed(u, t, o, now) ==
  /\ u.lastSeen = t.lastSeen
  /\ u.takeoffs = t.takeoffs /\ u.approaches = t.approaches
  /\ u.last["takeoff"] = t.last["takeoff"] /\ u.last["approach"] = t.last["approach"]
  /\ \/ u.last["landing"] = t.last["landing"]
     \/ u.last["landing"] = now /\ DueAlert(t, t.landings, o, "landing", now)
  /\ Counted(t.landings, u.landings, o, "landing")
  /\ u.approaching => t.approaching
  /\ Away(o) => u.phase = t.phase

LEMMA LandingStep ==
  ASSUME NEW t \in Tracks, NEW o \in Observations, NEW now \in Nat, o.position
  PROVE  Landing(t, o, now) \in Tracks /\ Landed(Landing(t, o, now), t, o, now)
<1> DEFINE u == Landing(t, o, now)
           ends == \/ ~o.ground
                   \/ o.nm > GroundRadius
                   \/ (~t.approaching /\ ~t.airborneNear /\ t.landings = 0)
           waits == t.landings + 1 < Consecutive \/ ~Cooled(t, "landing", now)
<1> USE DEF Landed
<1>1. t.landings \in 0..Consecutive /\ o.nm \in Nat
  BY DEF Tracks, Observations
<1>2. Away(o) => ends
  BY DEF Away
<1>3. CASE ends
  <2>1. u = [t EXCEPT !.landings = 0]
    BY <1>3 DEF Landing
  <2>2. u \in Tracks
    <3> HIDE DEF u
    <3>1. [t EXCEPT !.landings = 0] \in Tracks
      BY CountSet, ZeroCount
    <3> QED
      BY <2>1, <3>1
  <2>3. /\ u.lastSeen = t.lastSeen /\ u.takeoffs = t.takeoffs /\ u.approaches = t.approaches
        /\ u.last = t.last /\ u.phase = t.phase /\ u.landings = 0
        /\ u.approaching = t.approaching
    BY <2>1 DEF Tracks
  <2> QED
    BY <2>2, <2>3 DEF Counted
<1>4. ~ends => Fits(o, "landing")
  <2>1. ~ends => o.nm <= GroundRadius
    BY <1>1 DEF GroundRadius
  <2> QED
    BY <2>1 DEF Fits
<1>5. CASE ~ends /\ waits
  <2>1. PICK n : n = IF t.landings = Consecutive THEN t.landings ELSE t.landings + 1
    OBVIOUS
  <2>2. u = [t EXCEPT !.landings = n]
    BY <1>5, <2>1 DEF Landing
  <2>3. n \in 0..Consecutive /\ n <= t.landings + 1
    BY <1>1, <2>1 DEF Consecutive
  <2>4. u \in Tracks
    BY <2>2, <2>3 DEF Tracks
  <2>5. /\ u.lastSeen = t.lastSeen /\ u.takeoffs = t.takeoffs /\ u.approaches = t.approaches
        /\ u.last = t.last /\ u.phase = t.phase /\ u.landings = n
        /\ u.approaching = t.approaching
    BY <2>2 DEF Tracks
  <2> QED
    BY <1>4, <1>5, <2>3, <2>4, <2>5 DEF Counted
<1>6. CASE ~ends /\ ~waits
  <2>1. PICK v : v = Announce(t, "landing", now)
    OBVIOUS
  <2>7. v \in Tracks /\ Announced(v, t, "landing", now)
    BY <2>1, AnnounceStep, ThreeKinds
  <2>2. /\ v \in Tracks /\ v.last["landing"] = now
        /\ v.last["takeoff"] = t.last["takeoff"] /\ v.last["approach"] = t.last["approach"]
        /\ v.lastSeen = t.lastSeen /\ v.takeoffs = t.takeoffs /\ v.approaches = t.approaches
        /\ ~v.approaching
    BY <2>7, ThreeKinds DEF Announced
  <2>3. u = [v EXCEPT !.landings = 0, !.airborneNear = FALSE]
    BY <1>6, <2>1 DEF Landing
  <2>4. u \in Tracks
    <3>1. PICK w : w = [v EXCEPT !.landings = 0]
      OBVIOUS
    <3>2. w \in Tracks
      BY <2>2, <3>1, CountSet, ZeroCount
    <3>3. u = [w EXCEPT !.airborneNear = FALSE]
      BY <2>3, <3>1
    <3> QED
      BY <3>2, <3>3 DEF Tracks
  <2>5. /\ u.lastSeen = v.lastSeen /\ u.takeoffs = v.takeoffs /\ u.approaches = v.approaches
        /\ u.last = v.last /\ u.landings = 0 /\ u.approaching = v.approaching
    BY <2>2, <2>3 DEF Tracks
  <2>6. DueAlert(t, t.landings, o, "landing", now)
    <3>1. t.landings + 1 >= Consecutive
      BY <1>1, <1>6 DEF Consecutive
    <3> QED
      BY <1>4, <1>6, <3>1 DEF DueAlert
  <2> QED
    BY <1>2, <1>6, <2>2, <2>4, <2>5, <2>6 DEF Counted
<1> QED
  BY <1>3, <1>5, <1>6

\* Nothing is counted while an approach is announced or cools down.
Idling(t, now) == t.approaches # 0 => ~t.approaching /\ Cooled(t, "approach", now)

\* What the approach counts and announces.
Approached(u, t, o, now) ==
  /\ u.lastSeen = t.lastSeen
  /\ u.takeoffs = t.takeoffs /\ u.landings = t.landings
  /\ u.last["takeoff"] = t.last["takeoff"] /\ u.last["landing"] = t.last["landing"]
  /\ \/ u.last["approach"] = t.last["approach"]
     \/ u.last["approach"] = now /\ DueAlert(t, t.approaches, o, "approach", now)
  /\ Counted(t.approaches, u.approaches, o, "approach")
  /\ Idling(u, now)
  /\ Away(o) /\ t.phase # "takeoff" => u.phase \in {"", "landing"}

LEMMA ApproachStep ==
  ASSUME NEW t \in Tracks, NEW o \in Observations, NEW now \in Nat, o.position, Idling(t, now)
  PROVE  Approach(t, o, now) \in Tracks /\ Approached(Approach(t, o, now), t, o, now)
<1> DEFINE u == Approach(t, o, now)
           outside == o.nm > ActivityRadius
           rests == t.approaching \/ ~Cooled(t, "approach", now)
           misses == o.nm > ApproachRadius \/ ~o.approaching
           waits == t.approaches + 1 < Consecutive
<1> USE DEF Approached
<1>1. t.approaches \in 0..Consecutive /\ o.nm \in Nat
  BY DEF Tracks, Observations
<1>11. t.phase \in Kinds \cup {""}
  BY DEF Tracks
<1>2. Away(o) => ~o.ground /\ outside
  BY DEF Away
<1>3. ASSUME u = [t EXCEPT !.approaches = 0], ~Away(o)
      PROVE  /\ u \in Tracks /\ u.lastSeen = t.lastSeen
             /\ u.takeoffs = t.takeoffs /\ u.landings = t.landings /\ u.last = t.last
             /\ u.approaches = 0
  <2>1. u \in Tracks
    <3> HIDE DEF u
    <3>1. [t EXCEPT !.approaches = 0] \in Tracks
      BY CountSet, ZeroCount
    <3> QED
      BY <1>3, <3>1
  <2> QED
    BY <1>3, <2>1 DEF Tracks
<1>4. CASE o.ground
  <2>1. u = [t EXCEPT !.approaches = 0]
    BY <1>4 DEF Approach, ApproachOf
  <2> QED
    BY <1>2, <1>3, <1>4, <2>1 DEF Counted, Idling
<1>5. CASE ~o.ground /\ outside
  <2>1. PICK p : p = IF t.phase = "approach" THEN "" ELSE t.phase
    OBVIOUS
  <2>2. u = [t EXCEPT !.approaching = FALSE, !.approaches = 0, !.phase = p]
    BY <1>5, <2>1 DEF Approach, ApproachOf
  <2>3. p \in Kinds \cup {""}
    BY <1>11, <2>1
  <2>4. u \in Tracks
    <3>1. PICK w : w = [t EXCEPT !.approaches = 0]
      OBVIOUS
    <3>2. w \in Tracks
      BY <3>1, CountSet, ZeroCount
    <3>3. PICK x : x = [w EXCEPT !.approaching = FALSE]
      OBVIOUS
    <3>4. x \in Tracks
      BY <3>2, <3>3 DEF Tracks
    <3>5. u = [x EXCEPT !.phase = p]
      BY <2>2, <3>1, <3>3 DEF Tracks
    <3> QED
      BY <2>3, <3>4, <3>5 DEF Tracks
  <2>5. /\ u.lastSeen = t.lastSeen /\ u.takeoffs = t.takeoffs /\ u.landings = t.landings
        /\ u.last = t.last /\ u.approaches = 0 /\ u.phase = p
    BY <2>2 DEF Tracks
  <2>6. t.phase # "takeoff" => p \in {"", "landing"}
    BY <1>11, <2>1, ThreeKinds
  <2> QED
    BY <2>4, <2>5, <2>6 DEF Counted, Idling
<1>6. CASE ~o.ground /\ ~outside /\ rests
  <2>1. u = t
    BY <1>6 DEF Approach, ApproachOf
  <2>2. t.approaches = 0
    BY <1>6 DEF Idling
  <2> QED
    BY <1>2, <1>6, <2>1, <2>2 DEF Counted, Idling
<1>7. CASE ~o.ground /\ ~outside /\ ~rests /\ misses
  <2>1. u = [t EXCEPT !.approaches = 0]
    BY <1>7 DEF Approach, ApproachOf
  <2> QED
    BY <1>2, <1>3, <1>7, <2>1 DEF Counted, Idling
<1>8. ~o.ground /\ ~misses => Fits(o, "approach")
  <2>2. ~(o.nm > ApproachRadius) => o.nm <= ApproachRadius
    BY <1>1 DEF ApproachRadius
  <2>1. ~misses => o.nm <= ApproachRadius
    BY <2>2, Zenon
  <2> QED
    BY <2>1 DEF Fits
<1>9. CASE ~o.ground /\ ~outside /\ ~rests /\ ~misses /\ waits
  <2>1. PICK n : n = t.approaches + 1
    OBVIOUS
  <2>2. u = [t EXCEPT !.approaches = n]
    BY <1>9, <2>1 DEF Approach, ApproachOf
  <2>3. n \in 0..Consecutive /\ n <= t.approaches + 1
    <3>1. t.approaches + 1 < Consecutive
      BY <1>9, Zenon
    <3> QED
      BY <1>1, <2>1, <3>1 DEF Consecutive
  <2>4. u \in Tracks
    BY <2>2, <2>3 DEF Tracks
  <2>5. /\ u.lastSeen = t.lastSeen /\ u.takeoffs = t.takeoffs /\ u.landings = t.landings
        /\ u.last = t.last /\ u.approaches = n /\ u.approaching = t.approaching
    BY <2>2 DEF Tracks
  <2>6. Idling(u, now)
    BY <1>9, <2>5 DEF Idling, Cooled
  <2>7. Counted(t.approaches, u.approaches, o, "approach")
    BY <1>8, <1>9, <2>3, <2>5 DEF Counted
  <2> QED
    BY <1>2, <1>9, <2>4, <2>5, <2>6, <2>7
<1>10. CASE ~o.ground /\ ~outside /\ ~rests /\ ~misses /\ ~waits
  <2>1. PICK v : v = Announce(t, "approach", now)
    OBVIOUS
  <2>7. v \in Tracks /\ Announced(v, t, "approach", now)
    BY <2>1, AnnounceStep, ThreeKinds
  <2>2. /\ v \in Tracks /\ v.last["approach"] = now
        /\ v.last["takeoff"] = t.last["takeoff"] /\ v.last["landing"] = t.last["landing"]
        /\ v.lastSeen = t.lastSeen /\ v.takeoffs = t.takeoffs /\ v.landings = t.landings
    BY <2>7, ThreeKinds DEF Announced
  <2>3. u = [v EXCEPT !.approaches = 0]
    BY <1>10, <2>1 DEF Approach, ApproachOf
  <2>4. u \in Tracks
    <3> HIDE DEF u
    <3>1. [v EXCEPT !.approaches = 0] \in Tracks
      BY <2>2, CountSet, ZeroCount
    <3> QED
      BY <2>3, <3>1
  <2>5. /\ u.lastSeen = v.lastSeen /\ u.takeoffs = v.takeoffs /\ u.landings = v.landings
        /\ u.last = v.last /\ u.approaches = 0
    BY <2>2, <2>3 DEF Tracks
  <2>6. DueAlert(t, t.approaches, o, "approach", now)
    <3>2. ~(t.approaches + 1 < Consecutive)
      BY <1>10, Zenon
    <3>1. t.approaches + 1 >= Consecutive
      BY <1>1, <3>2 DEF Consecutive
    <3> QED
      BY <1>8, <1>10, <3>1 DEF DueAlert
  <2> QED
    BY <1>2, <1>10, <2>2, <2>4, <2>5, <2>6 DEF Counted, Idling
<1> QED
  BY <1>4, <1>5, <1>6, <1>7, <1>9, <1>10
CountOf(t, kind) ==
  IF kind = "takeoff" THEN t.takeoffs ELSE IF kind = "landing" THEN t.landings ELSE t.approaches
Base(old) == IF old = NoTrack THEN NewTrack ELSE old

\* What an observation makes of a track.
Follows(u, t, o, now) ==
  /\ u.lastSeen = now
  /\ \A k \in Kinds :
       \/ u.last[k] = t.last[k]
       \/ u.last[k] = now /\ DueAlert(t, CountOf(t, k), o, k, now)
  /\ \A k \in Kinds : Counted(CountOf(t, k), CountOf(u, k), o, k)
  /\ Idling(u, now)
  /\ Away(o) => u.phase \in {"", "landing"}

LEMMA CountOfKinds ==
  ASSUME NEW t
  PROVE  /\ CountOf(t, "takeoff") = t.takeoffs
         /\ CountOf(t, "landing") = t.landings
         /\ CountOf(t, "approach") = t.approaches
  BY DEF CountOf

\* Whether an alert of a kind is due depends on the last of that kind only.
LEMMA DueAlike ==
  ASSUME NEW t, NEW s, NEW n, NEW o, NEW kind, NEW now, t.last[kind] = s.last[kind]
  PROVE  DueAlert(t, n, o, kind, now) <=> DueAlert(s, n, o, kind, now)
  BY DEF DueAlert, Cooled

LEMMA TrackedFollows ==
  ASSUME NEW old \in Tracks \cup {NoTrack}, NEW o \in Observations, NEW now \in Nat,
         Idling(Base(old), now)
  PROVE  Tracked(old, o, now) \in Tracks /\ Follows(Tracked(old, o, now), Base(old), o, now)
<1>1. PICK b : b = Base(old)
  OBVIOUS
<1>2. b \in Tracks
  BY <1>1, NewTrackType DEF Base
<1>3. PICK t : t = [b EXCEPT !.lastSeen = now]
  OBVIOUS
<1>4. t \in Tracks
  BY <1>2, <1>3 DEF Tracks
<1>5. /\ t.lastSeen = now /\ t.last = b.last /\ t.takeoffs = b.takeoffs
      /\ t.landings = b.landings /\ t.approaches = b.approaches /\ t.approaching = b.approaching
  BY <1>2, <1>3 DEF Tracks
<1>6. Idling(t, now)
  BY <1>1, <1>5 DEF Idling, Cooled
<1>7. CASE ~o.position
  <2>1. PICK v : v = [t EXCEPT !.approaches = 0]
    OBVIOUS
  <2>2. PICK w : w = [v EXCEPT !.takeoffs = 0]
    OBVIOUS
  <2>3. PICK u : u = [w EXCEPT !.landings = 0]
    OBVIOUS
  <2>4. v \in Tracks
    BY <1>4, <2>1, CountSet, ZeroCount
  <2>5. w \in Tracks
    BY <2>2, <2>4, CountSet, ZeroCount
  <2>6. u \in Tracks
    BY <2>3, <2>5, CountSet, ZeroCount
  <2>7. Tracked(old, o, now) = u
    <3>1. t = [(IF old = NoTrack THEN NewTrack ELSE old) EXCEPT !.lastSeen = now]
      BY <1>1, <1>3 DEF Base
    <3>2. u = [t EXCEPT !.approaches = 0, !.takeoffs = 0, !.landings = 0]
      BY <1>4, <2>1, <2>2, <2>3 DEF Tracks
    <3> QED
      BY <1>7, <3>1, <3>2 DEF Tracked
  <2>8. /\ u.lastSeen = now /\ u.last = b.last /\ u.takeoffs = 0 /\ u.landings = 0
        /\ u.approaches = 0
    BY <1>4, <1>5, <2>1, <2>2, <2>3 DEF Tracks
  <2>9. Follows(u, b, o, now)
    <3>1. \A k \in Kinds : Counted(CountOf(b, k), CountOf(u, k), o, k)
      BY <2>8 DEF CountOf, Counted
    <3>2. ~Away(o)
      BY <1>7 DEF Away
    <3>3. Idling(u, now)
      BY <2>8 DEF Idling
    <3> QED
      BY <2>8, <3>1, <3>2, <3>3 DEF Follows
  <2> QED
    BY <1>1, <2>6, <2>7, <2>9
<1>8. CASE o.position
  <2>1. PICK p : p = PhaseAt(t.phase, o)
    OBVIOUS
  <2>2. p \in Kinds \cup {""} /\ (Away(o) => p # "takeoff")
    BY <1>4, <2>1 DEF PhaseAt, Away, Tracks
  <2>3. PICK g : g = (t.groundNear \/ (o.ground /\ o.nm <= GroundRadius))
    OBVIOUS
  <2>4. PICK h : h = (t.airborneNear \/ (~o.ground /\ o.nm <= 5 /\ o.low))
    OBVIOUS
  <2>5. g \in BOOLEAN /\ h \in BOOLEAN
    BY <2>3, <2>4
  <2>6. PICK q : q = [t EXCEPT !.phase = p, !.groundNear = g, !.airborneNear = h]
    OBVIOUS
  <2>7. q \in Tracks
    BY <1>4, <2>2, <2>5, <2>6 DEF Tracks
  <2>8. /\ q.lastSeen = now /\ q.last = b.last /\ q.takeoffs = b.takeoffs
        /\ q.landings = b.landings /\ q.approaches = b.approaches
        /\ q.approaching = b.approaching /\ q.phase = p
    BY <1>4, <1>5, <2>6 DEF Tracks
  <2>9. PICK d : d = Departure(q, o, now)
    OBVIOUS
  <2>10a. d \in Tracks /\ Departed(d, q, o, now)
    BY <1>8, <2>7, <2>9, DepartureStep
  <2>10. /\ d \in Tracks /\ d.lastSeen = q.lastSeen
         /\ d.landings = q.landings /\ d.approaches = q.approaches
         /\ d.last["landing"] = q.last["landing"] /\ d.last["approach"] = q.last["approach"]
         /\ \/ d.last["takeoff"] = q.last["takeoff"]
            \/ d.last["takeoff"] = now /\ DueAlert(q, q.takeoffs, o, "takeoff", now)
         /\ Counted(q.takeoffs, d.takeoffs, o, "takeoff")
         /\ d.approaching => q.approaching
         /\ Away(o) => d.phase = q.phase
    BY <2>10a DEF Departed
  <2>11. PICK l : l = Landing(d, o, now)
    OBVIOUS
  <2>12a. l \in Tracks /\ Landed(l, d, o, now)
    BY <1>8, <2>10, <2>11, LandingStep
  <2>12. /\ l \in Tracks /\ l.lastSeen = d.lastSeen
         /\ l.takeoffs = d.takeoffs /\ l.approaches = d.approaches
         /\ l.last["takeoff"] = d.last["takeoff"] /\ l.last["approach"] = d.last["approach"]
         /\ \/ l.last["landing"] = d.last["landing"]
            \/ l.last["landing"] = now /\ DueAlert(d, d.landings, o, "landing", now)
         /\ Counted(d.landings, l.landings, o, "landing")
         /\ l.approaching => d.approaching
         /\ Away(o) => l.phase = d.phase
    BY <2>12a DEF Landed
  <2>13. Idling(l, now)
    <3>1. l.approaches = b.approaches /\ l.last["approach"] = b.last["approach"]
      BY <2>8, <2>10, <2>12
    <3>2. l.approaching => b.approaching
      BY <2>8, <2>10, <2>12, Zenon
    <3>3. Idling(b, now)
      BY <1>1
    <3> QED
      BY <3>1, <3>2, <3>3 DEF Idling, Cooled
  <2>14. PICK u : u = Approach(l, o, now)
    OBVIOUS
  <2>15a. u \in Tracks /\ Approached(u, l, o, now)
    BY <1>8, <2>12, <2>13, <2>14, ApproachStep
  <2>15. /\ u \in Tracks /\ u.lastSeen = l.lastSeen
         /\ u.takeoffs = l.takeoffs /\ u.landings = l.landings
         /\ u.last["takeoff"] = l.last["takeoff"] /\ u.last["landing"] = l.last["landing"]
         /\ \/ u.last["approach"] = l.last["approach"]
            \/ u.last["approach"] = now /\ DueAlert(l, l.approaches, o, "approach", now)
         /\ Counted(l.approaches, u.approaches, o, "approach")
         /\ Idling(u, now)
         /\ Away(o) /\ l.phase # "takeoff" => u.phase \in {"", "landing"}
    BY <2>15a DEF Approached
  <2>16. Tracked(old, o, now) = u
    <3>1. t = [(IF old = NoTrack THEN NewTrack ELSE old) EXCEPT !.lastSeen = now]
      BY <1>1, <1>3 DEF Base
    <3>2. q = [t EXCEPT !.phase = PhaseAt(@, o),
                        !.groundNear = @ \/ (o.ground /\ o.nm <= GroundRadius),
                        !.airborneNear = @ \/ (~o.ground /\ o.nm <= 5 /\ o.low)]
      BY <2>1, <2>3, <2>4, <2>6
    <3> QED
      BY <1>8, <2>9, <2>11, <2>14, <3>1, <3>2 DEF Tracked
  <2>17. u.lastSeen = now
    BY <2>8, <2>10, <2>12, <2>15
  <2>18. ASSUME NEW k \in Kinds
         PROVE  \/ u.last[k] = b.last[k]
                \/ u.last[k] = now /\ DueAlert(b, CountOf(b, k), o, k, now)
    <3>1. CASE k = "takeoff"
      <4>1. u.last["takeoff"] = d.last["takeoff"] /\ q.last["takeoff"] = b.last["takeoff"]
        BY <2>8, <2>12, <2>15
      <4>2. DueAlert(q, q.takeoffs, o, "takeoff", now) => DueAlert(b, CountOf(b, "takeoff"), o, "takeoff", now)
        BY <2>8, <4>1, CountOfKinds, DueAlike
      <4>3. \/ u.last["takeoff"] = b.last["takeoff"]
            \/ u.last["takeoff"] = now /\ DueAlert(q, q.takeoffs, o, "takeoff", now)
        BY <2>10, <4>1
      <4> QED
        BY <3>1, <4>2, <4>3
    <3>2. CASE k = "landing"
      <4>1. u.last["landing"] = l.last["landing"] /\ d.last["landing"] = b.last["landing"]
        BY <2>8, <2>10, <2>15
      <4>2. DueAlert(d, d.landings, o, "landing", now) => DueAlert(b, CountOf(b, "landing"), o, "landing", now)
        BY <2>8, <2>10, <4>1, CountOfKinds, DueAlike
      <4>3. \/ u.last["landing"] = b.last["landing"]
            \/ u.last["landing"] = now /\ DueAlert(d, d.landings, o, "landing", now)
        BY <2>12, <4>1
      <4> QED
        BY <3>2, <4>2, <4>3
    <3>3. CASE k = "approach"
      <4>1. l.last["approach"] = b.last["approach"]
        BY <2>8, <2>10, <2>12
      <4>2. DueAlert(l, l.approaches, o, "approach", now) => DueAlert(b, CountOf(b, "approach"), o, "approach", now)
        BY <2>8, <2>10, <2>12, <4>1, CountOfKinds, DueAlike
      <4>3. \/ u.last["approach"] = b.last["approach"]
            \/ u.last["approach"] = now /\ DueAlert(l, l.approaches, o, "approach", now)
        BY <2>15, <4>1
      <4> QED
        BY <3>3, <4>2, <4>3
    <3> QED
      BY <3>1, <3>2, <3>3, ThreeKinds
  <2>19. ASSUME NEW k \in Kinds
         PROVE  Counted(CountOf(b, k), CountOf(u, k), o, k)
    <3>1. CASE k = "takeoff"
      BY <2>8, <2>10, <2>12, <2>15, <3>1, CountOfKinds
    <3>2. CASE k = "landing"
      BY <2>8, <2>10, <2>12, <2>15, <3>2, CountOfKinds
    <3>3. CASE k = "approach"
      BY <2>8, <2>10, <2>12, <2>15, <3>3, CountOfKinds
    <3> QED
      BY <3>1, <3>2, <3>3, ThreeKinds
  <2>20. Away(o) => u.phase \in {"", "landing"}
    BY <2>2, <2>8, <2>10, <2>12, <2>15, Zenon
  <2>21. Follows(u, b, o, now)
    BY <2>15, <2>17, <2>18, <2>19, <2>20 DEF Follows
  <2> QED
    BY <1>1, <2>15, <2>16, <2>21
<1> QED
  BY <1>7, <1>8
-----------------------------------------------------------------------------
(* A track and its history.                                                *)

\* The observations kept of a track after one more.
Extended(seq, o) == (IF Len(seq) = Consecutive THEN Tail(seq) ELSE seq) \o <<o>>

LEMMA ThreeInARow == Consecutive \in Nat /\ Consecutive >= 1
  BY DEF Consecutive

\* One observation after seq, of which the first is cut or not.
IsExtended(ext, seq, o, cut) ==
  /\ ext \in Seq(Observations) /\ ext # <<>>
  /\ Len(ext) = Len(seq) + 1 - cut /\ Len(ext) <= Consecutive
  /\ ext[Len(ext)] = o
  /\ \A j \in 1..(Len(ext) - 1) : ext[j] = seq[j + cut]

LEMMA ExtendedStep ==
  ASSUME NEW seq \in Seq(Observations), NEW o \in Observations, Len(seq) <= Consecutive,
         NEW cut \in Nat, cut = IF Len(seq) = Consecutive THEN 1 ELSE 0
  PROVE  IsExtended(Extended(seq, o), seq, o, cut)
<1>1. PICK r : r = IF Len(seq) = Consecutive THEN Tail(seq) ELSE seq
  OBVIOUS
<1>2. /\ r \in Seq(Observations) /\ Len(r) = Len(seq) - cut /\ Len(r) < Consecutive
      /\ \A j \in 1..Len(r) : r[j] = seq[j + cut]
  <2>1. CASE Len(seq) = Consecutive
    <3>1. cut = 1 /\ r = Tail(seq) /\ seq # <<>>
      BY <1>1, <2>1, ThreeInARow
    <3>2. /\ Tail(seq) \in Seq(Observations) /\ Len(Tail(seq)) = Len(seq) - 1
          /\ \A j \in 1..Len(Tail(seq)) : Tail(seq)[j] = seq[j + 1]
      BY <3>1, HeadTailProperties
    <3> QED
      BY <2>1, <3>1, <3>2, ThreeInARow
  <2>2. CASE Len(seq) # Consecutive
    <3>1. cut = 0 /\ r = seq
      BY <1>1, <2>2
    <3>2. Len(seq) \in Nat
      OBVIOUS
    <3> QED
      BY <2>2, <3>1, <3>2, ThreeInARow
  <2> QED
    BY <2>1, <2>2
<1>3. PICK ext : ext = Append(r, o)
  OBVIOUS
<1>4. Extended(seq, o) = ext
  <2>1. r \o <<o>> = Append(r, o)
    BY <1>2, AppendIsConcat
  <2> QED
    BY <1>1, <1>3, <2>1 DEF Extended
<1>5. /\ ext \in Seq(Observations) /\ ext # <<>> /\ Len(ext) = Len(r) + 1
      /\ \A j \in 1..Len(r) : ext[j] = r[j]
      /\ ext[Len(r) + 1] = o
  <2>1. r \in Seq(Observations) /\ ext = Append(r, o)
    BY <1>2, <1>3
  <2>2. /\ Append(r, o) \in Seq(Observations) /\ Append(r, o) # <<>>
        /\ Len(Append(r, o)) = Len(r) + 1
        /\ \A j \in 1..Len(r) : Append(r, o)[j] = r[j]
        /\ Append(r, o)[Len(r) + 1] = o
    BY <2>1, AppendProperties
  <2> QED
    BY <2>1, <2>2, Zenon
<1>6. Len(r) \in Nat /\ Len(seq) \in Nat
  BY <1>2
<1>7. Len(ext) = Len(seq) + 1 - cut /\ Len(ext) <= Consecutive /\ ext[Len(ext)] = o
  BY <1>2, <1>5, <1>6, ThreeInARow
<1>8. ASSUME NEW j \in 1..(Len(ext) - 1) PROVE ext[j] = seq[j + cut]
  <2>1. j \in 1..Len(r)
    BY <1>5, <1>6
  <2> QED
    BY <1>2, <1>5, <2>1
<1> QED
  BY <1>4, <1>5, <1>7, <1>8 DEF IsExtended

\* A streak grows by an observation that fits, and the third in a row makes
\* all that is kept fit.
LEMMA StreakStep ==
  ASSUME NEW seq \in Seq(Observations), NEW o \in Observations, Len(seq) <= Consecutive,
         NEW kind, NEW n \in 0..Consecutive, Streak(seq, n, kind),
         NEW m \in 0..Consecutive
  PROVE  /\ Counted(n, m, o, kind) => Streak(Extended(seq, o), m, kind)
         /\ Fits(o, kind) /\ n + 1 >= Consecutive =>
              /\ Len(Extended(seq, o)) = Consecutive
              /\ \A j \in 1..Consecutive : Fits(Extended(seq, o)[j], kind)
<1>1. PICK ext : ext = Extended(seq, o)
  OBVIOUS
<1>2. PICK cut \in Nat : cut = IF Len(seq) = Consecutive THEN 1 ELSE 0
  OBVIOUS
<1>3. /\ ext \in Seq(Observations) /\ ext # <<>>
      /\ Len(ext) = Len(seq) + 1 - cut /\ Len(ext) <= Consecutive
      /\ ext[Len(ext)] = o
      /\ \A j \in 1..(Len(ext) - 1) : ext[j] = seq[j + cut]
  <2>1. IsExtended(Extended(seq, o), seq, o, cut)
    BY <1>2, ExtendedStep
  <2> QED
    BY <1>1, <2>1 DEF IsExtended
<1>4. PICK c \in Nat : c = Len(seq)
  OBVIOUS
<1>5. PICK e \in Nat : e = Len(ext)
  <2>1. Len(ext) \in Nat
    BY <1>3, LenProperties
  <2> QED
    BY <2>1
<1>6. /\ e = c + 1 - cut /\ e <= Consecutive /\ c <= Consecutive
      /\ c = Consecutive => cut = 1
      /\ c # Consecutive => cut = 0
  <2>1. Len(ext) = Len(seq) + 1 - cut /\ Len(ext) <= Consecutive
    BY <1>3
  <2> QED
    BY <1>2, <1>4, <1>5, <2>1
<1>7. n <= c /\ \A j \in 1..c : j > c - n => Fits(seq[j], kind)
  BY <1>4 DEF Streak
<1>8. ASSUME NEW j \in 1..(e - 1), j + cut > c - n PROVE Fits(ext[j], kind)
  <2>1. j + cut \in 1..c
    BY <1>6, ThreeInARow
  <2>2. Fits(seq[j + cut], kind)
    BY <1>7, <1>8, <2>1
  <2> QED
    BY <1>3, <1>5, <2>2
<1>9. ASSUME Counted(n, m, o, kind) PROVE Streak(ext, m, kind)
  <2>1. CASE m = 0
    BY <1>3, <1>5, <2>1 DEF Streak
  <2>2. CASE m # 0
    <3>1. Fits(o, kind) /\ m <= n + 1
      BY <1>9, <2>2 DEF Counted
    <3>2. m <= e
      BY <1>6, <1>7, <3>1, ThreeInARow
    <3>3. ASSUME NEW j \in 1..e, j > e - m PROVE Fits(ext[j], kind)
      <4>1. CASE j = e
        BY <1>3, <1>5, <3>1, <4>1
      <4>2. CASE j # e
        <5>1. j \in 1..(e - 1) /\ j + cut > c - n
          BY <1>6, <3>1, <3>3, <4>2, ThreeInARow
        <5> QED
          BY <1>8, <5>1
      <4> QED
        BY <4>1, <4>2
    <3> QED
      BY <1>5, <3>2, <3>3 DEF Streak
  <2> QED
    BY <2>1, <2>2
<1>10. ASSUME Fits(o, kind), n + 1 >= Consecutive
       PROVE  Len(ext) = Consecutive /\ \A j \in 1..Consecutive : Fits(ext[j], kind)
  <2>1. e = Consecutive
    BY <1>6, <1>7, <1>10, ThreeInARow
  <2>2. ASSUME NEW j \in 1..Consecutive PROVE Fits(ext[j], kind)
    <3>1. CASE j = e
      BY <1>3, <1>5, <1>10, <3>1
    <3>2. CASE j # e
      <4>1. j \in 1..(e - 1) /\ j + cut > c - n
        BY <1>6, <1>7, <1>10, <2>1, <3>2, ThreeInARow
      <4> QED
        BY <1>8, <4>1
    <3> QED
      BY <3>1, <3>2
  <2> QED
    BY <1>5, <2>1, <2>2
<1> QED
  BY <1>1, <1>9, <1>10
\* A movement that is announced is a cooldown after the last one of its kind
\* and the third observation in a row that fits.
Announces(mv, after, seq) ==
  \A k \in Kinds : after[k] \notin {0, mv[k]} =>
    /\ mv[k] # 0 => after[k] - mv[k] >= Cooldown
    /\ Len(seq) = Consecutive
    /\ \A x \in Range(seq) : Fits(x, k)

Remembers(u, mv, now) == [k \in Kinds |-> IF u.last[k] = now THEN now ELSE mv[k]]

\* A track that is made anew starts where a removed one left off.
LEMMA BasePair ==
  ASSUME NEW old \in Tracks \cup {NoTrack}, NEW mv \in [Kinds -> Nat],
         NEW seq \in Seq(Observations), NEW now \in Nat, PairOK(old, mv, seq, now)
  PROVE  Base(old) \in Tracks /\ AlertsOK(Base(old), mv, now) /\ CountsOK(Base(old), seq)
<1>1. CASE old = NoTrack
  <2>1. PICK b : b = NewTrack
    OBVIOUS
  <2>2. Base(old) = b /\ b \in Tracks
    BY <1>1, <2>1, NewTrackType DEF Base
  <2>3. /\ b.takeoffs = 0 /\ b.landings = 0 /\ b.approaches = 0 /\ b.lastSeen = 0
        /\ b.last = NoAlerts
    BY <2>1 DEF NewTrack
  <2>4. seq = <<>> /\ \A k \in Kinds : mv[k] = 0 \/ now - mv[k] >= Cooldown
    BY <1>1 DEF PairOK, GoneOK
  <2>5. AlertsOK(b, mv, now)
    BY <2>3, <2>4, NoAlertsType DEF AlertsOK
  <2>6. ASSUME NEW kind PROVE Streak(seq, 0, kind)
    BY <2>4 DEF Streak
  <2>7. Len(seq) <= Consecutive
    BY <2>4, ThreeInARow
  <2>8. CountsOK(b, seq)
    BY <2>3, <2>6, <2>7 DEF CountsOK
  <2> QED
    BY <2>2, <2>5, <2>8
<1>2. CASE old # NoTrack
  <2>1. Base(old) = old /\ old \in Tracks
    BY <1>2 DEF Base
  <2>2. AlertsOK(old, mv, now) /\ CountsOK(old, seq)
    BY <1>2 DEF PairOK, TrackOK
  <2> QED
    BY <2>1, <2>2
<1> QED
  BY <1>1, <1>2

\* What a track remembers stays so as time passes.
LEMMA CooledLater ==
  ASSUME NEW b \in Tracks, NEW mv \in [Kinds -> Nat], NEW seq, NEW before \in Nat,
         NEW now \in Nat, before <= now, AlertsOK(b, mv, before), CountsOK(b, seq)
  PROVE  Idling(b, now) /\ AlertsOK(b, mv, now)
<1>1. /\ b.lastSeen \in Nat /\ b.lastSeen <= before
      /\ \A k \in Kinds : b.last[k] \in Nat /\ mv[k] \in Nat
  BY DEF AlertsOK, Tracks
<1>2. b.last["approach"] \in Nat
  BY <1>1, ThreeKinds
<1>3. ASSUME b.approaches # 0 PROVE ~b.approaching /\ Cooled(b, "approach", now)
  <2>1. b.last["approach"] = 0 \/ b.lastSeen - b.last["approach"] >= Cooldown
    BY <1>3 DEF CountsOK
  <2>2. b.last["approach"] = 0 \/ now - b.last["approach"] >= Cooldown
    BY <1>1, <1>2, <2>1, Parameters
  <2>3. ~b.approaching
    BY <1>3 DEF CountsOK
  <2> QED
    BY <2>2, <2>3 DEF Cooled
<1>4. ASSUME NEW k \in Kinds, mv[k] = 0 \/ before - mv[k] >= Cooldown
      PROVE  mv[k] = 0 \/ now - mv[k] >= Cooldown
  BY <1>1, <1>4, Parameters
<1>5. AlertsOK(b, mv, now)
  <2>1. b.lastSeen <= now
    BY <1>1
  <2> QED
    BY <1>4, <2>1 DEF AlertsOK
<1> QED
  BY <1>3, <1>5 DEF Idling

LEMMA UpdatedPair ==
  ASSUME NEW old \in Tracks \cup {NoTrack}, NEW o \in Observations, NEW now \in Nat,
         NEW before \in Nat, before <= now, NEW mv \in [Kinds -> Nat],
         NEW seq \in Seq(Observations), PairOK(old, mv, seq, before),
         NEW u, u = Tracked(old, o, now)
  PROVE  /\ u \in Tracks
         /\ Remembers(u, mv, now) \in [Kinds -> Nat]
         /\ Extended(seq, o) \in Seq(Observations)
         /\ PairOK(u, Remembers(u, mv, now), Extended(seq, o), now)
         /\ Announces(mv, Remembers(u, mv, now), Extended(seq, o))
<1>1. PICK b : b = Base(old)
  OBVIOUS
<1>2. b \in Tracks /\ AlertsOK(b, mv, before) /\ CountsOK(b, seq)
  BY <1>1, BasePair
<1>3. Idling(b, now) /\ AlertsOK(b, mv, now)
  BY <1>2, CooledLater
<1>4. u \in Tracks /\ Follows(u, b, o, now)
  BY <1>1, <1>3, TrackedFollows
<1>5. PICK after : after = Remembers(u, mv, now)
  OBVIOUS
<1>6. PICK ext : ext = Extended(seq, o)
  OBVIOUS
<1>7. Len(seq) <= Consecutive
  BY <1>2 DEF CountsOK
<1>8. ext \in Seq(Observations) /\ ext # <<>> /\ Len(ext) <= Consecutive /\ ext[Len(ext)] = o
  <2>1. PICK cut \in Nat : cut = IF Len(seq) = Consecutive THEN 1 ELSE 0
    OBVIOUS
  <2>2. IsExtended(Extended(seq, o), seq, o, cut)
    BY <1>7, <2>1, ExtendedStep
  <2> QED
    BY <1>6, <2>2 DEF IsExtended
<1>9. ASSUME NEW k \in Kinds
      PROVE  /\ CountOf(b, k) \in 0..Consecutive /\ CountOf(u, k) \in 0..Consecutive
             /\ Streak(seq, CountOf(b, k), k)
             /\ b.last[k] \in Nat /\ u.last[k] \in Nat
             /\ after[k] = IF u.last[k] = now THEN now ELSE mv[k]
  <2>1. /\ b.takeoffs \in 0..Consecutive /\ b.landings \in 0..Consecutive
        /\ b.approaches \in 0..Consecutive
        /\ u.takeoffs \in 0..Consecutive /\ u.landings \in 0..Consecutive
        /\ u.approaches \in 0..Consecutive
    BY <1>2, <1>4 DEF Tracks
  <2>2. CountOf(b, k) \in 0..Consecutive /\ CountOf(u, k) \in 0..Consecutive
    BY <2>1 DEF CountOf
  <2>3. Streak(seq, CountOf(b, k), k)
    BY <1>2, ThreeKinds, CountOfKinds, Zenon DEF CountsOK
  <2>4. b.last[k] \in Nat /\ u.last[k] \in Nat
    BY <1>2, <1>4 DEF Tracks
  <2>5. after[k] = IF u.last[k] = now THEN now ELSE mv[k]
    BY <1>5 DEF Remembers
  <2> QED
    BY <2>2, <2>3, <2>4, <2>5
<1>10. after \in [Kinds -> Nat]
  BY <1>5 DEF Remembers
<1>11. ASSUME NEW k \in Kinds PROVE Streak(ext, CountOf(u, k), k)
  <2>1. Counted(CountOf(b, k), CountOf(u, k), o, k)
    BY <1>4 DEF Follows
  <2> QED
    BY <1>6, <1>7, <1>9, <2>1, StreakStep
<1>12. ASSUME NEW k \in Kinds, after[k] \notin {0, mv[k]}
       PROVE  /\ mv[k] # 0 => after[k] - mv[k] >= Cooldown
              /\ Len(ext) = Consecutive
              /\ \A x \in Range(ext) : Fits(x, k)
  <2>1. after[k] = now /\ u.last[k] = now /\ now # 0 /\ now # mv[k] /\ mv[k] \in Nat
    BY <1>9, <1>12
  <2>2. /\ b.last[k] # 0 => mv[k] = b.last[k]
        /\ b.last[k] = 0 => mv[k] = 0 \/ now - mv[k] >= Cooldown
    BY <1>3 DEF AlertsOK
  <2>3. u.last[k] # b.last[k]
    BY <2>1, <2>2
  <2>4. DueAlert(b, CountOf(b, k), o, k, now)
    BY <1>4, <2>3 DEF Follows
  <2>5. /\ b.last[k] = 0 \/ now - b.last[k] >= Cooldown
        /\ Fits(o, k) /\ CountOf(b, k) + 1 >= Consecutive
    BY <2>4 DEF DueAlert, Cooled
  <2>6. mv[k] # 0 => after[k] - mv[k] >= Cooldown
    BY <2>1, <2>2, <2>5
  <2>7. Len(ext) = Consecutive /\ \A j \in 1..Consecutive : Fits(ext[j], k)
    BY <1>6, <1>7, <1>9, <2>5, StreakStep
  <2>8. \A x \in Range(ext) : Fits(x, k)
    BY <1>8, <2>7 DEF Range
  <2> QED
    BY <2>6, <2>7, <2>8
<1>13. AlertsOK(u, after, now)
  <2>1. u.lastSeen = now
    BY <1>4 DEF Follows
  <2>2. ASSUME NEW k \in Kinds
        PROVE  /\ u.last[k] <= now
               /\ u.last[k] # 0 => after[k] = u.last[k]
               /\ u.last[k] = 0 => after[k] = 0 \/ now - after[k] >= Cooldown
    <3>1. /\ b.last[k] <= now
          /\ b.last[k] # 0 => mv[k] = b.last[k]
          /\ b.last[k] = 0 => mv[k] = 0 \/ now - mv[k] >= Cooldown
      <4>1. b.last[k] <= b.lastSeen /\ b.lastSeen <= now /\ b.lastSeen \in Nat
        BY <1>2, <1>3 DEF AlertsOK, Tracks
      <4>2. b.last[k] <= now
        BY <1>9, <4>1
      <4> QED
        BY <1>3, <4>2 DEF AlertsOK
    <3>2. u.last[k] = b.last[k] \/ u.last[k] = now
      BY <1>4 DEF Follows
    <3>3. CASE u.last[k] = now
      <4>1. after[k] = now
        BY <1>9, <3>3
      <4> QED
        BY <3>3, <4>1
    <3>4. CASE u.last[k] # now
      <4>1. after[k] = mv[k] /\ u.last[k] = b.last[k]
        BY <1>9, <3>2, <3>4
      <4> QED
        BY <3>1, <4>1
    <3> QED
      BY <3>3, <3>4
  <2> QED
    BY <2>1, <2>2 DEF AlertsOK
<1>14. CountsOK(u, ext)
  <2>1. /\ Streak(ext, u.takeoffs, "takeoff") /\ Streak(ext, u.landings, "landing")
        /\ Streak(ext, u.approaches, "approach")
    BY <1>11, ThreeKinds, CountOfKinds, Zenon
  <2>2. Idling(u, now) /\ u.lastSeen = now
    BY <1>4 DEF Follows
  <2>3. u.approaches # 0 =>
          ~u.approaching /\ (u.last["approach"] = 0 \/ u.lastSeen - u.last["approach"] >= Cooldown)
    BY <2>2 DEF Idling, Cooled
  <2> QED
    BY <1>8, <2>1, <2>3 DEF CountsOK
<1>15. PhaseOK(u, ext)
  BY <1>4, <1>8 DEF PhaseOK, Follows
<1>16. PairOK(u, after, ext, now)
  BY <1>4, <1>13, <1>14, <1>15 DEF PairOK, TrackOK
<1>17. Announces(mv, after, ext)
  BY <1>12 DEF Announces
<1> QED
  BY <1>4, <1>5, <1>6, <1>8, <1>10, <1>16, <1>17

\* A track that is not updated stays as it is, or has cooled down when it is
\* removed for its age.
LEMMA KeptPair ==
  ASSUME NEW t \in Tracks \cup {NoTrack}, NEW mv \in [Kinds -> Nat],
         NEW seq \in Seq(Observations), NEW before \in Nat, NEW now \in Nat, before <= now,
         PairOK(t, mv, seq, before)
  PROVE  PairOK(t, mv, seq, now)
<1>1. CASE t = NoTrack
  <2>1. seq = <<>> /\ \A k \in Kinds : mv[k] = 0 \/ before - mv[k] >= Cooldown
    BY <1>1 DEF PairOK, GoneOK
  <2>2. \A k \in Kinds : mv[k] = 0 \/ now - mv[k] >= Cooldown
    BY <2>1, Parameters
  <2> QED
    BY <1>1, <2>1, <2>2 DEF PairOK, GoneOK
<1>2. CASE t # NoTrack
  <2>1. AlertsOK(t, mv, before) /\ CountsOK(t, seq) /\ PhaseOK(t, seq) /\ t \in Tracks
    BY <1>2 DEF PairOK, TrackOK
  <2>2. AlertsOK(t, mv, now)
    BY <2>1, CooledLater
  <2> QED
    BY <1>2, <2>1, <2>2 DEF PairOK, TrackOK
<1> QED
  BY <1>1, <1>2

LEMMA StalePair ==
  ASSUME NEW t \in Tracks, NEW mv \in [Kinds -> Nat], NEW seq, NEW before \in Nat,
         NEW now \in Nat, before <= now, PairOK(t, mv, seq, before),
         now - t.lastSeen > StaleAfter
  PROVE  PairOK(NoTrack, mv, <<>>, now)
<1>1. t # NoTrack
  BY NoTrackAssumption
<1>2. AlertsOK(t, mv, before)
  BY <1>1 DEF PairOK, TrackOK
<1>3. ASSUME NEW k \in Kinds PROVE mv[k] = 0 \/ now - mv[k] >= Cooldown
  <2>1. /\ t.last[k] <= t.lastSeen
        /\ t.last[k] # 0 => mv[k] = t.last[k]
        /\ t.last[k] = 0 => mv[k] = 0 \/ before - mv[k] >= Cooldown
    BY <1>2 DEF AlertsOK
  <2>2. t.last[k] \in Nat /\ t.lastSeen \in Nat /\ mv[k] \in Nat
    BY DEF Tracks
  <2> QED
    BY <2>1, <2>2, Parameters, SMTT(20)
<1> QED
  BY <1>3 DEF PairOK, GoneOK
-----------------------------------------------------------------------------
(* The movement monitors, step by step.                                    *)

Moves ==
  \A i \in Ids, a \in Aircraft : Announces(moved[i][a], moved'[i][a], recent'[i][a])

LEMMA NoMove ==
  ASSUME NEW mv, NEW after, NEW seq, \A k \in Kinds : after[k] \in {0, mv[k]}
  PROVE  Announces(mv, after, seq)
  BY DEF Announces

LEMMA Used ==
  ASSUME MovementOK, NEW i \in Ids, InUse(i), changes' \in Nat, changes <= changes'
  PROVE  InUse(i)'
<1>1. changes \in Nat
  BY DEF MovementOK, MovementType
<1> QED
  BY <1>1, Parameters DEF InUse, Ids

\* Steps that leave the monitors alone.
LEMMA Unmoved ==
  ASSUME MovementOK, UNCHANGED <<deployment, movementVars>>,
         clock' \in Nat, clock <= clock', changes' \in Nat, changes <= changes'
  PROVE  MovementOK' /\ Moves
<1> USE DEF movementVars
<1>1. MovementType'
  BY DEF MovementOK, MovementType
<1>2. RegistryOK'
  <2>1. ASSUME NEW f \in Feeders PROVE InUse(registry[f])'
    <3>1. registry[f] \in Ids /\ InUse(registry[f]) /\ registry'[f] = registry[f]
      BY DEF MovementOK, MovementType, RegistryOK
    <3>2. PICK i \in Ids : i = registry[f]
      BY <3>1
    <3>3. InUse(i)'
      BY <3>1, <3>2, Used
    <3> QED
      BY <3>1, <3>2, <3>3 DEF InUse
  <2>2. ASSUME NEW i \in Ids, NEW a \in Aircraft, ~InUse(i)'
        PROVE  moved'[i][a] = NoAlerts /\ recent'[i][a] = <<>>
    <3>1. ~InUse(i)
      BY <2>2, Used
    <3> QED
      BY <3>1 DEF MovementOK, RegistryOK
  <2> QED
    BY <2>1, <2>2 DEF RegistryOK
<1>3. HistoryOK'
  <2> SUFFICES ASSUME NEW i \in Ids, NEW a \in Aircraft
               PROVE  PairOK(heap[i].tracks[a], moved[i][a], recent[i][a], clock')
    BY DEF HistoryOK
  <2>1. /\ heap[i].tracks[a] \in Tracks \cup {NoTrack} /\ moved[i][a] \in [Kinds -> Nat]
        /\ recent[i][a] \in Seq(Observations) /\ clock \in Nat
    BY DEF MovementOK, MovementType, Monitor
  <2>2. PairOK(heap[i].tracks[a], moved[i][a], recent[i][a], clock)
    BY DEF MovementOK, HistoryOK
  <2> QED
    BY <2>1, <2>2, KeptPair
<1>4. Moves
  <2> SUFFICES ASSUME NEW i \in Ids, NEW a \in Aircraft
               PROVE  Announces(moved[i][a], moved'[i][a], recent'[i][a])
    BY DEF Moves
  <2> QED
    BY NoMove
<1> QED
  BY <1>1, <1>2, <1>3, <1>4 DEF MovementOK

\* Steps that take tracks away, with what is remembered of them.
LEMMA Dropped ==
  ASSUME MovementOK, MovementType', clock' = clock, changes <= changes',
         \A f \in Feeders : InUse(registry[f])',
         \A i \in Ids, a \in Aircraft :
           \/ /\ heap'[i].tracks[a] = heap[i].tracks[a]
              /\ moved'[i][a] = moved[i][a] /\ recent'[i][a] = recent[i][a]
           \/ /\ heap'[i].tracks[a] = NoTrack
              /\ moved'[i][a] = NoAlerts /\ recent'[i][a] = <<>>
  PROVE  MovementOK' /\ Moves
<1>1. RegistryOK'
  <2>1. ASSUME NEW i \in Ids, NEW a \in Aircraft, ~InUse(i)'
        PROVE  moved'[i][a] = NoAlerts /\ recent'[i][a] = <<>>
    <3>1. changes' \in Nat
      BY DEF MovementType
    <3>2. ~InUse(i)
      BY <2>1, <3>1, Used
    <3>3. moved[i][a] = NoAlerts /\ recent[i][a] = <<>>
      BY <3>2 DEF MovementOK, RegistryOK
    <3> QED
      BY <3>3
  <2> QED
    BY <2>1 DEF RegistryOK
<1>2. HistoryOK'
  <2> SUFFICES ASSUME NEW i \in Ids, NEW a \in Aircraft
               PROVE  PairOK(heap'[i].tracks[a], moved'[i][a], recent'[i][a], clock)
    BY DEF HistoryOK
  <2>1. PairOK(heap[i].tracks[a], moved[i][a], recent[i][a], clock)
    BY DEF MovementOK, HistoryOK
  <2>2. PairOK(NoTrack, NoAlerts, <<>>, clock)
    BY NothingIsGone
  <2> QED
    BY <2>1, <2>2
<1>3. Moves
  <2> SUFFICES ASSUME NEW i \in Ids, NEW a \in Aircraft
               PROVE  Announces(moved[i][a], moved'[i][a], recent'[i][a])
    BY DEF Moves
  <2>1. \A k \in Kinds : moved'[i][a][k] \in {0, moved[i][a][k]}
    BY NoAlertsType
  <2> QED
    BY <2>1, NoMove
<1> QED
  BY <1>1, <1>2, <1>3 DEF MovementOK

LEMMA RegisterMoves ==
  ASSUME MovementOK, NEW f \in Feeders, NEW center \in Centers, Register(f, center)
  PROVE  MovementOK' /\ Moves
<1>1. PICK n : n = Cardinality(Feeders) + changes + 1
  OBVIOUS
<1>2. changes \in Nat /\ changes' = changes + 1 /\ changes < MaxChanges
  BY DEF MovementOK, MovementType, Register
<1>3. n \in Ids /\ ~InUse(n)
  BY <1>1, <1>2, Parameters DEF Ids, InUse
<1>4. /\ registry' = [registry EXCEPT ![f] = n]
      /\ heap' = [heap EXCEPT ![n] = NewMovementMonitor(center)]
      /\ moved' = moved /\ recent' = recent /\ clock' = clock /\ deployment' = deployment
  BY <1>1 DEF Register
<1>5. PICK m : m = NewMovementMonitor(center)
  OBVIOUS
<1>6. m \in Monitor /\ \A a \in Aircraft : m.tracks[a] = NoTrack
  <2>1. center \in Configs
    BY DEF Configs
  <2> QED
    BY <1>5, <2>1, NewMonitorType
<1>7. MovementType'
  <2>1. heap' \in [Ids -> Monitor]
    BY <1>4, <1>5, <1>6 DEF MovementOK, MovementType
  <2>2. registry' \in [Feeders -> Ids]
    BY <1>3, <1>4 DEF MovementOK, MovementType
  <2>3. changes' \in Nat
    BY <1>2
  <2> QED
    BY <1>4, <2>1, <2>2, <2>3 DEF MovementOK, MovementType
<1>8. ASSUME NEW g \in Feeders PROVE InUse(registry[g])'
  <2>1. CASE g = f
    <3>1. registry'[g] = n
      BY <1>4, <2>1 DEF MovementOK, MovementType
    <3> QED
      BY <1>1, <1>2, <3>1, Parameters DEF InUse
  <2>2. CASE g # f
    <3>1. registry'[g] = registry[g]
      BY <1>4, <2>2 DEF MovementOK, MovementType
    <3>2. registry[g] \in Ids /\ InUse(registry[g])
      BY DEF MovementOK, MovementType, RegistryOK
    <3>3. PICK i \in Ids : i = registry[g]
      BY <3>2
    <3>4. changes' \in Nat /\ changes <= changes'
      BY <1>2
    <3>5. InUse(i)'
      BY <3>2, <3>3, <3>4, Used
    <3> QED
      BY <3>1, <3>3, <3>5 DEF InUse
  <2> QED
    BY <2>1, <2>2
<1>9. ASSUME NEW i \in Ids, NEW a \in Aircraft
      PROVE  \/ /\ heap'[i].tracks[a] = heap[i].tracks[a]
                /\ moved'[i][a] = moved[i][a] /\ recent'[i][a] = recent[i][a]
             \/ /\ heap'[i].tracks[a] = NoTrack
                /\ moved'[i][a] = NoAlerts /\ recent'[i][a] = <<>>
  <2>1. CASE i = n
    <3>1. heap'[i] = m
      BY <1>3, <1>4, <1>5, <2>1 DEF MovementOK, MovementType
    <3>2. moved[i][a] = NoAlerts /\ recent[i][a] = <<>>
      BY <1>3, <2>1 DEF MovementOK, RegistryOK
    <3> QED
      BY <1>4, <1>6, <3>1, <3>2
  <2>2. CASE i # n
    <3>1. heap'[i] = heap[i]
      BY <1>4, <2>2 DEF MovementOK, MovementType
    <3> QED
      BY <1>4, <3>1
  <2> QED
    BY <2>1, <2>2
<1>10. changes <= changes'
  BY <1>2
<1> QED
  BY <1>4, <1>7, <1>8, <1>9, <1>10, Dropped

LEMMA PruneMoves ==
  ASSUME MovementOK, NEW p \in Pollers, NEW i \in Ids, PruneOldest(p, i)
  PROVE  MovementOK' /\ Moves
<1>1. clock' = clock /\ deployment' = deployment /\ changes' = changes /\ clock \in Nat
      /\ changes \in Nat
  BY DEF PruneOldest, MovementOK, MovementType
<1>2. CASE UNCHANGED movementVars
  BY <1>1, <1>2, Unmoved
<1>3. ASSUME NEW a \in Held(heap[i]),
             heap' = [heap EXCEPT ![i].tracks[a] = NoTrack],
             moved' = [moved EXCEPT ![i][a] = NoAlerts],
             recent' = [recent EXCEPT ![i][a] = <<>>], registry' = registry
      PROVE  MovementOK' /\ Moves
  <2>1. a \in Aircraft
    BY DEF Held
  <2>2. PICK ts : ts = [heap[i].tracks EXCEPT ![a] = NoTrack]
    OBVIOUS
  <2>3. PICK m : m = [heap[i] EXCEPT !.tracks = ts]
    OBVIOUS
  <2>4. heap[i] \in Monitor /\ heap[i].tracks \in [Aircraft -> Tracks \cup {NoTrack}]
    BY DEF MovementOK, MovementType, Monitor
  <2>5. /\ ts \in [Aircraft -> Tracks \cup {NoTrack}] /\ ts[a] = NoTrack
        /\ \A b \in Aircraft \ {a} : ts[b] = heap[i].tracks[b]
    BY <2>1, <2>2, <2>4
  <2>6. m \in Monitor /\ m.tracks = ts
    BY <2>3, <2>4, <2>5 DEF Monitor
  <2>7. heap' = [heap EXCEPT ![i] = m]
    BY <1>3, <2>2, <2>3, <2>4 DEF Monitor, MovementOK, MovementType
  <2>8. MovementType'
    <3>1. heap' \in [Ids -> Monitor]
      BY <2>6, <2>7 DEF MovementOK, MovementType
    <3>2. moved' \in [Ids -> [Aircraft -> [Kinds -> Nat]]]
      BY <1>3, <2>1, NoAlertsType DEF MovementOK, MovementType
    <3>3. recent' \in [Ids -> [Aircraft -> Seq(Observations)]]
      <4>1. <<>> \in Seq(Observations)
        OBVIOUS
      <4> QED
        BY <1>3, <2>1, <4>1 DEF MovementOK, MovementType
    <3> QED
      BY <1>1, <1>3, <3>1, <3>2, <3>3 DEF MovementOK, MovementType
  <2>9. ASSUME NEW j \in Ids, NEW b \in Aircraft
        PROVE  \/ /\ heap'[j].tracks[b] = heap[j].tracks[b]
                  /\ moved'[j][b] = moved[j][b] /\ recent'[j][b] = recent[j][b]
               \/ /\ heap'[j].tracks[b] = NoTrack
                  /\ moved'[j][b] = NoAlerts /\ recent'[j][b] = <<>>
    <3>1. CASE j = i /\ b = a
      <4>1. heap'[j].tracks[b] = NoTrack
        BY <2>5, <2>6, <2>7, <3>1 DEF MovementOK, MovementType
      <4>2. moved'[j][b] = NoAlerts /\ recent'[j][b] = <<>>
        BY <1>3, <2>1, <3>1 DEF MovementOK, MovementType
      <4> QED
        BY <4>1, <4>2
    <3>2. CASE ~(j = i /\ b = a)
      <4>1. heap'[j].tracks[b] = heap[j].tracks[b]
        BY <2>5, <2>6, <2>7, <3>2 DEF MovementOK, MovementType
      <4>2. moved'[j][b] = moved[j][b] /\ recent'[j][b] = recent[j][b]
        BY <1>3, <2>1, <3>2 DEF MovementOK, MovementType
      <4> QED
        BY <4>1, <4>2
    <3> QED
      BY <3>1, <3>2
  <2>10. \A g \in Feeders : InUse(registry[g])'
    BY <1>1, <1>3 DEF MovementOK, RegistryOK, InUse
  <2>11. changes <= changes'
    BY <1>1
  <2> QED
    BY <1>1, <2>8, <2>9, <2>10, <2>11, Dropped
<1> QED
  BY <1>2, <1>3 DEF PruneOldest

LEMMA RestartMoves ==
  ASSUME MovementOK, Restart
  PROVE  MovementOK' /\ Moves
<1>1. /\ heap' = [i \in Ids |-> NewMovementMonitor(heap[i].config)]
      /\ moved' = [i \in Ids |-> [a \in Aircraft |-> NoAlerts]]
      /\ recent' = [i \in Ids |-> [a \in Aircraft |-> <<>>]]
      /\ clock' = clock /\ deployment' = deployment /\ registry' = registry
      /\ changes' = changes + 1 /\ changes \in Nat
  BY DEF Restart, MovementOK, MovementType
<1>2. ASSUME NEW i \in Ids
      PROVE  heap'[i] \in Monitor /\ \A a \in Aircraft : heap'[i].tracks[a] = NoTrack
  <2>1. PICK c \in Configs : c = heap[i].config
    BY DEF MovementOK, MovementType, Monitor
  <2>2. heap'[i] = NewMovementMonitor(c)
    BY <1>1, <2>1
  <2>3. /\ NewMovementMonitor(c) \in Monitor
        /\ \A a \in Aircraft : NewMovementMonitor(c).tracks[a] = NoTrack
    BY NewMonitorType
  <2> QED
    BY <2>2, <2>3
<1>3. MovementType'
  <2>1. heap' \in [Ids -> Monitor]
    BY <1>1, <1>2
  <2>2. moved' \in [Ids -> [Aircraft -> [Kinds -> Nat]]]
    BY <1>1, NoAlertsType
  <2>3. recent' \in [Ids -> [Aircraft -> Seq(Observations)]]
    BY <1>1
  <2>4. changes' \in Nat
    BY <1>1
  <2> QED
    BY <1>1, <2>1, <2>2, <2>3, <2>4 DEF MovementOK, MovementType
<1>4. changes <= changes' /\ changes' \in Nat
  BY <1>1
<1>5. ASSUME NEW g \in Feeders PROVE InUse(registry[g])'
  <2>1. registry[g] \in Ids /\ InUse(registry[g])
    BY DEF MovementOK, MovementType, RegistryOK
  <2>2. PICK i \in Ids : i = registry[g]
    BY <2>1
  <2>3. InUse(i)'
    BY <1>4, <2>1, <2>2, Used
  <2> QED
    BY <1>1, <2>2, <2>3 DEF InUse
<1>6. ASSUME NEW i \in Ids, NEW a \in Aircraft
      PROVE  heap'[i].tracks[a] = NoTrack /\ moved'[i][a] = NoAlerts /\ recent'[i][a] = <<>>
  BY <1>1, <1>2
<1> QED
  BY <1>1, <1>3, <1>4, <1>5, <1>6, Dropped

\* What Evaluate of the i-th monitor, which is m, does when it has room for
\* the aircraft admitted.
Evaluated(i, m, aircraft, now, admitted) ==
    LET updated == (Observed(aircraft) \cap Held(m)) \cup admitted
        stale == {a \in Held(m) \ updated : now - m.tracks[a].lastSeen > StaleAfter}
        after == [a \in Aircraft |->
          IF a \in updated THEN Tracked(m.tracks[a], aircraft[a], now)
          ELSE IF a \in stale THEN NoTrack ELSE m.tracks[a]]
    IN
    /\ heap' = [heap EXCEPT ![i] = Advanced(m, now, after)]
    /\ moved' = [moved EXCEPT ![i] = [a \in Aircraft |->
         IF a \in updated THEN [k \in Kinds |-> IF after[a].last[k] = now THEN now ELSE @[a][k]]
         ELSE @[a]]]
    /\ recent' = [recent EXCEPT ![i] = [a \in Aircraft |->
         IF a \in updated
         THEN (IF Len(@[a]) = Consecutive THEN Tail(@[a]) ELSE @[a]) \o <<aircraft[a]>>
         ELSE IF a \in stale THEN <<>> ELSE @[a]]]
    /\ UNCHANGED registry

\* A snapshot: the tracks it updates, those it removes for their age, and the
\* others.
LEMMA EvaluateMoves ==
  ASSUME MovementOK, NEW f \in Feeders, NEW now \in Nat, clock <= now,
         NEW aircraft \in [Aircraft -> Observations \cup {NotSeen}],
         EvaluateMovement(f, aircraft, now), clock' = now,
         deployment' = deployment, changes' = changes
  PROVE  MovementOK' /\ Moves
<1>1. PICK i \in Ids : i = registry[f]
  BY DEF MovementOK, MovementType
<1>2. PICK m \in Monitor : m = heap[i]
  BY DEF MovementOK, MovementType
<1>3. m.tracks \in [Aircraft -> Tracks \cup {NoTrack}] /\ clock \in Nat /\ changes \in Nat
  BY DEF MovementOK, MovementType, Monitor
<1>4. CASE m.config = NoCenter
  <2>1. UNCHANGED movementVars
    BY <1>1, <1>2, <1>4 DEF EvaluateMovement
  <2> QED
    BY <1>3, <2>1, Unmoved
<1>5. CASE m.config # NoCenter
  <2>1. PICK room : room = IF Cardinality(Held(m)) >= MaxTracks THEN 0
                           ELSE MaxTracks - Cardinality(Held(m))
    OBVIOUS
  <2>2. PICK new : new = Observed(aircraft) \ Held(m)
    OBVIOUS
  <2> DEFINE updatedBy(s) == (Observed(aircraft) \cap Held(m)) \cup s
             staleBy(s) == {a \in Held(m) \ updatedBy(s) : now - m.tracks[a].lastSeen > StaleAfter}
             afterBy(s) == [a \in Aircraft |->
               IF a \in updatedBy(s) THEN Tracked(m.tracks[a], aircraft[a], now)
               ELSE IF a \in staleBy(s) THEN NoTrack ELSE m.tracks[a]]
  <2>3. PICK admitted \in kSubset(IF room < Cardinality(new) THEN room ELSE Cardinality(new), new) :
          Evaluated(i, m, aircraft, now, admitted)
    <3>1. CASE heap[registry[f]].config # NoCenter
      <4> DEFINE kept == Held(heap[registry[f]])
                 place == IF Cardinality(kept) >= MaxTracks THEN 0 ELSE MaxTracks - Cardinality(kept)
                 fresh == Observed(aircraft) \ kept
      <4>1. \E s \in kSubset(IF place < Cardinality(fresh) THEN place ELSE Cardinality(fresh), fresh) :
              Evaluated(registry[f], heap[registry[f]], aircraft, now, s)
        BY <3>1, Zenon DEF EvaluateMovement, Evaluated
      <4>2. place = room /\ fresh = new
        BY <1>1, <1>2, <2>1, <2>2
      <4> HIDE DEF place, fresh
      <4> QED
        BY <1>1, <1>2, <4>1, <4>2
    <3> QED
      BY <1>1, <1>2, <1>5, <3>1
  <2>3a. /\ heap' = [heap EXCEPT ![i] = Advanced(m, now, afterBy(admitted))]
          /\ moved' = [moved EXCEPT ![i] = [a \in Aircraft |->
               IF a \in updatedBy(admitted)
               THEN [k \in Kinds |-> IF afterBy(admitted)[a].last[k] = now THEN now ELSE @[a][k]]
               ELSE @[a]]]
          /\ recent' = [recent EXCEPT ![i] = [a \in Aircraft |->
               IF a \in updatedBy(admitted)
               THEN (IF Len(@[a]) = Consecutive THEN Tail(@[a]) ELSE @[a]) \o <<aircraft[a]>>
               ELSE IF a \in staleBy(admitted) THEN <<>> ELSE @[a]]]
          /\ UNCHANGED registry
    BY <2>3 DEF Evaluated
  <2>4. PICK updated : updated = updatedBy(admitted)
    OBVIOUS
  <2>5. PICK stale : stale = staleBy(admitted)
    OBVIOUS
  <2>6. PICK after : after = afterBy(admitted)
    OBVIOUS
  <2>7. updated \subseteq Observed(aircraft)
    <3>1. admitted \subseteq new
      BY <2>3 DEF kSubset
    <3> QED
      BY <2>2, <2>4, <3>1
  <2>8. ASSUME NEW a \in updated PROVE a \in Aircraft /\ aircraft[a] \in Observations
    BY <2>7 DEF Observed
  <2>9. ASSUME NEW a \in stale
        PROVE  a \in Aircraft /\ m.tracks[a] \in Tracks /\ now - m.tracks[a].lastSeen > StaleAfter
    <3>1. a \in Held(m) /\ now - m.tracks[a].lastSeen > StaleAfter
      BY <2>5
    <3>2. a \in Aircraft /\ m.tracks[a] # NoTrack
      BY <3>1 DEF Held
    <3> QED
      BY <1>3, <3>1, <3>2
  <2>10. after = [a \in Aircraft |->
           IF a \in updated THEN Tracked(m.tracks[a], aircraft[a], now)
           ELSE IF a \in stale THEN NoTrack ELSE m.tracks[a]]
    BY <2>4, <2>5, <2>6
  <2> HIDE DEF updatedBy, staleBy, afterBy
  <2>11. PICK mv : mv = [a \in Aircraft |->
           IF a \in updated THEN Remembers(after[a], moved[i][a], now) ELSE moved[i][a]]
    OBVIOUS
  <2>12. PICK rc : rc = [a \in Aircraft |->
           IF a \in updated THEN Extended(recent[i][a], aircraft[a])
           ELSE IF a \in stale THEN <<>> ELSE recent[i][a]]
    OBVIOUS
  <2>13. /\ heap' = [heap EXCEPT ![i] = Advanced(m, now, after)]
         /\ moved' = [moved EXCEPT ![i] = mv]
         /\ recent' = [recent EXCEPT ![i] = rc]
         /\ registry' = registry
    <3>1. moved' = [moved EXCEPT ![i] = mv]
      BY <2>3a, <2>4, <2>6, <2>11 DEF Remembers
    <3>2. recent' = [recent EXCEPT ![i] = rc]
      BY <2>3a, <2>4, <2>5, <2>12 DEF Extended
    <3> QED
      BY <2>3a, <2>6, <3>1, <3>2
  <2>14. ASSUME NEW a \in Aircraft
         PROVE  /\ m.tracks[a] \in Tracks \cup {NoTrack} /\ moved[i][a] \in [Kinds -> Nat]
                /\ recent[i][a] \in Seq(Observations)
                /\ PairOK(m.tracks[a], moved[i][a], recent[i][a], clock)
    <3>1. moved[i][a] \in [Kinds -> Nat] /\ recent[i][a] \in Seq(Observations)
      BY DEF MovementOK, MovementType
    <3>2. PairOK(heap[i].tracks[a], moved[i][a], recent[i][a], clock)
      BY DEF MovementOK, HistoryOK
    <3> QED
      BY <1>2, <1>3, <3>1, <3>2
  <2>15. ASSUME NEW a \in Aircraft
         PROVE  /\ after[a] \in Tracks \cup {NoTrack} /\ mv[a] \in [Kinds -> Nat]
                /\ rc[a] \in Seq(Observations)
                /\ PairOK(after[a], mv[a], rc[a], now)
                /\ Announces(moved[i][a], mv[a], rc[a])
    <3>1. CASE a \in updated
      <4>1. PICK o \in Observations : o = aircraft[a]
        BY <2>8, <3>1
      <4>2. PICK u : u = Tracked(m.tracks[a], o, now)
        OBVIOUS
      <4>3. after[a] = u
        BY <2>10, <3>1, <4>1, <4>2
      <4>4. mv[a] = Remembers(u, moved[i][a], now) /\ rc[a] = Extended(recent[i][a], o)
        BY <2>11, <2>12, <3>1, <4>1, <4>3
      <4>5. /\ u \in Tracks
            /\ Remembers(u, moved[i][a], now) \in [Kinds -> Nat]
            /\ Extended(recent[i][a], o) \in Seq(Observations)
            /\ PairOK(u, Remembers(u, moved[i][a], now), Extended(recent[i][a], o), now)
            /\ Announces(moved[i][a], Remembers(u, moved[i][a], now), Extended(recent[i][a], o))
        <5>1. PICK old \in Tracks \cup {NoTrack} : old = m.tracks[a]
          BY <2>14
        <5>2. PICK mv0 \in [Kinds -> Nat] : mv0 = moved[i][a]
          BY <2>14
        <5>3. PICK seq \in Seq(Observations) : seq = recent[i][a]
          BY <2>14
        <5>4. PICK before \in Nat : before = clock
          BY <1>3
        <5>5. before <= now /\ PairOK(old, mv0, seq, before) /\ u = Tracked(old, o, now)
          BY <2>14, <4>2, <5>1, <5>2, <5>3, <5>4
        <5>6. /\ u \in Tracks
              /\ Remembers(u, mv0, now) \in [Kinds -> Nat]
              /\ Extended(seq, o) \in Seq(Observations)
              /\ PairOK(u, Remembers(u, mv0, now), Extended(seq, o), now)
              /\ Announces(mv0, Remembers(u, mv0, now), Extended(seq, o))
          BY <5>5, UpdatedPair
        <5> QED
          BY <5>2, <5>3, <5>6
      <4> QED
        BY <4>3, <4>4, <4>5
    <3>2. CASE a \notin updated /\ a \in stale
      <4>1. after[a] = NoTrack /\ mv[a] = moved[i][a] /\ rc[a] = <<>>
        BY <2>10, <2>11, <2>12, <3>2
      <4>2. PairOK(NoTrack, moved[i][a], <<>>, now)
        BY <1>3, <2>9, <2>14, <3>2, StalePair
      <4>3. Announces(moved[i][a], mv[a], rc[a])
        BY <4>1, NoMove
      <4>4. rc[a] \in Seq(Observations)
        BY <4>1
      <4> QED
        BY <2>14, <4>1, <4>2, <4>3, <4>4
    <3>3. CASE a \notin updated /\ a \notin stale
      <4>1. after[a] = m.tracks[a] /\ mv[a] = moved[i][a] /\ rc[a] = recent[i][a]
        BY <2>10, <2>11, <2>12, <3>3
      <4>2. PairOK(m.tracks[a], moved[i][a], recent[i][a], now)
        BY <1>3, <2>14, KeptPair
      <4>3. Announces(moved[i][a], mv[a], rc[a])
        BY <4>1, NoMove
      <4> QED
        BY <2>14, <4>1, <4>2, <4>3
    <3> QED
      BY <3>1, <3>2, <3>3
  <2>16. /\ after \in [Aircraft -> Tracks \cup {NoTrack}]
         /\ mv \in [Aircraft -> [Kinds -> Nat]]
         /\ rc \in [Aircraft -> Seq(Observations)]
    <3>1. after = [a \in Aircraft |-> after[a]]
      BY <2>10
    <3>2. mv = [a \in Aircraft |-> mv[a]]
      BY <2>11
    <3>3. rc = [a \in Aircraft |-> rc[a]]
      BY <2>12
    <3> QED
      BY <2>15, <3>1, <3>2, <3>3
  <2>17. PICK n : n = Advanced(m, now, after)
    OBVIOUS
  <2>18. n \in Monitor /\ n.tracks = after
    <3>1. PICK x : x = [m EXCEPT !.lastAt = now]
      OBVIOUS
    <3>2. x \in Monitor
      BY <3>1 DEF Monitor
    <3>3. n = [x EXCEPT !.tracks = after]
      BY <2>17, <3>1 DEF Advanced
    <3> QED
      BY <2>16, <3>2, <3>3 DEF Monitor
  <2>19. MovementType'
    <3>1. heap' \in [Ids -> Monitor]
      BY <2>13, <2>17, <2>18 DEF MovementOK, MovementType
    <3>2. moved' \in [Ids -> [Aircraft -> [Kinds -> Nat]]]
      BY <2>13, <2>16 DEF MovementOK, MovementType
    <3>3. recent' \in [Ids -> [Aircraft -> Seq(Observations)]]
      BY <2>13, <2>16 DEF MovementOK, MovementType
    <3> QED
      BY <2>13, <3>1, <3>2, <3>3 DEF MovementOK, MovementType
  <2>20. /\ heap'[i].tracks = after /\ moved'[i] = mv /\ recent'[i] = rc
         /\ \A j \in Ids \ {i} : heap'[j] = heap[j] /\ moved'[j] = moved[j] /\ recent'[j] = recent[j]
    BY <2>13, <2>17, <2>18 DEF MovementOK, MovementType
  <2>21. RegistryOK'
    <3>1. InUse(i)
      BY <1>1 DEF MovementOK, RegistryOK
    <3>2. ASSUME NEW j \in Ids, NEW a \in Aircraft, ~InUse(j)'
          PROVE  moved'[j][a] = NoAlerts /\ recent'[j][a] = <<>>
      <4>1. ~InUse(j) /\ j # i
        BY <3>1, <3>2 DEF InUse
      <4> QED
        BY <2>20, <4>1 DEF MovementOK, RegistryOK
    <3>3. \A g \in Feeders : InUse(registry[g])'
      BY <2>13 DEF MovementOK, RegistryOK, InUse
    <3> QED
      BY <3>2, <3>3 DEF RegistryOK
  <2>22. ASSUME NEW j \in Ids, NEW a \in Aircraft
         PROVE  /\ PairOK(heap'[j].tracks[a], moved'[j][a], recent'[j][a], now)
                /\ Announces(moved[j][a], moved'[j][a], recent'[j][a])
    <3>1. CASE j = i
      BY <2>15, <2>20, <3>1
    <3>2. CASE j # i
      <4>1. heap'[j] = heap[j] /\ moved'[j] = moved[j] /\ recent'[j] = recent[j]
        BY <2>20, <3>2
      <4>2. /\ heap[j].tracks[a] \in Tracks \cup {NoTrack} /\ moved[j][a] \in [Kinds -> Nat]
            /\ recent[j][a] \in Seq(Observations)
        BY DEF MovementOK, MovementType, Monitor
      <4>3. PairOK(heap[j].tracks[a], moved[j][a], recent[j][a], clock)
        BY DEF MovementOK, HistoryOK
      <4>4. PairOK(heap[j].tracks[a], moved[j][a], recent[j][a], now)
        BY <1>3, <4>2, <4>3, KeptPair
      <4>5. Announces(moved[j][a], moved'[j][a], recent'[j][a])
        BY <4>1, NoMove
      <4> QED
        BY <4>1, <4>4, <4>5
    <3> QED
      BY <3>1, <3>2
  <2> QED
    BY <2>19, <2>21, <2>22 DEF MovementOK, HistoryOK, Moves
<1> QED
  BY <1>4, <1>5

-----------------------------------------------------------------------------
(* Health, sightings and the reference.                                    *)

\* A recovery that is announced had two healthy samples.
Recovers ==
  \A f \in Feeders, s \in Sources :
    outage'[f][s] = "recovered" /\ outage[f][s] # "recovered" => healthy'[f][s] = 2

LEMMA HealthStep ==
  ASSUME HealthOK, NEW f \in Feeders, NEW sample, EvaluateHealth(f, sample)
  PROVE  HealthOK' /\ Recovers
<1> DEFINE after == [s \in Sources |-> Sampled(sources[f][s], sample[s])]
           alert == [s \in Sources |-> HealthAlert(sources[f][s], after[s], sample[s])]
           out == [s \in Sources |-> IF sample[s] = "disabled" THEN "none"
                                     ELSE IF alert[s] # "none" THEN alert[s] ELSE outage[f][s]]
           fit == [s \in Sources |-> IF sample[s] = "healthy"
                                     THEN (IF healthy[f][s] = 2 THEN 2 ELSE healthy[f][s] + 1) ELSE 0]
<1>1. /\ sources' = [sources EXCEPT ![f] = after]
      /\ outage' = [outage EXCEPT ![f] = out]
      /\ healthy' = [healthy EXCEPT ![f] = fit]
  BY DEF EvaluateHealth
<1>2. ASSUME NEW s \in Sources
      PROVE  /\ after[s] \in [offline : BOOLEAN, samples : 0..1]
             /\ fit[s] \in 0..2 /\ after[s].samples <= fit[s]
             /\ alert[s] \in OutageAlerts /\ out[s] \in OutageAlerts
             /\ out[s] = "recovered" /\ outage[f][s] # "recovered" => fit[s] = 2
  <2>1. PICK state \in [offline : BOOLEAN, samples : 0..1] : state = sources[f][s]
    BY DEF HealthOK
  <2>2. PICK n \in 0..2 : n = healthy[f][s]
    BY DEF HealthOK
  <2>3. state.samples <= n
    BY <2>1, <2>2 DEF HealthOK
  <2>4. PICK x : x = Sampled(state, sample[s])
    OBVIOUS
  <2>5. PICK k : k = IF sample[s] = "healthy" THEN (IF n = 2 THEN 2 ELSE n + 1) ELSE 0
    OBVIOUS
  <2>6. /\ x \in [offline : BOOLEAN, samples : 0..1] /\ k \in 0..2 /\ x.samples <= k
        /\ HealthAlert(state, x, sample[s]) \in OutageAlerts
        /\ HealthAlert(state, x, sample[s]) = "recovered" => k = 2
    BY <2>3, <2>4, <2>5, SampledStep
  <2>7. /\ after[s] = x /\ fit[s] = k /\ alert[s] = HealthAlert(state, x, sample[s])
    BY <2>1, <2>2, <2>4, <2>5
  <2>8. outage[f][s] \in OutageAlerts
    BY DEF HealthOK
  <2>9. /\ out[s] = IF sample[s] = "disabled" THEN "none"
                    ELSE IF alert[s] # "none" THEN alert[s] ELSE outage[f][s]
    OBVIOUS
  <2> HIDE DEF after, alert, out, fit
  <2>10. out[s] \in OutageAlerts
    BY <2>6, <2>7, <2>8, <2>9 DEF OutageAlerts
  <2>11. out[s] = "recovered" /\ outage[f][s] # "recovered" => alert[s] = "recovered"
    BY <2>9
  <2> QED
    BY <2>6, <2>7, <2>10, <2>11
<1>3. /\ after = [s \in Sources |-> after[s]] /\ out = [s \in Sources |-> out[s]]
      /\ fit = [s \in Sources |-> fit[s]]
  OBVIOUS
<1> HIDE DEF after, alert, out, fit
<1>4. /\ after \in [Sources -> [offline : BOOLEAN, samples : 0..1]]
      /\ out \in [Sources -> OutageAlerts] /\ fit \in [Sources -> 0..2]
  BY <1>2, <1>3
<1>5. /\ sources' \in [Feeders -> [Sources -> [offline : BOOLEAN, samples : 0..1]]]
      /\ outage' \in [Feeders -> [Sources -> OutageAlerts]]
      /\ healthy' \in [Feeders -> [Sources -> 0..2]]
  BY <1>1, <1>4 DEF HealthOK
<1>6. ASSUME NEW g \in Feeders, NEW s \in Sources
      PROVE  /\ sources'[g][s].samples <= healthy'[g][s]
             /\ outage'[g][s] = "recovered" /\ outage[g][s] # "recovered" => healthy'[g][s] = 2
  <2>1. CASE g = f
    <3>1. sources'[g] = after /\ outage'[g] = out /\ healthy'[g] = fit
      BY <1>1, <2>1 DEF HealthOK
    <3> QED
      BY <1>2, <2>1, <3>1
  <2>2. CASE g # f
    <3>1. sources'[g] = sources[g] /\ outage'[g] = outage[g] /\ healthy'[g] = healthy[g]
      BY <1>1, <2>2 DEF HealthOK
    <3> QED
      BY <3>1 DEF HealthOK
  <2> QED
    BY <2>1, <2>2
<1> QED
  BY <1>5, <1>6 DEF HealthOK, Recovers

LEMMA HealthRestart ==
  ASSUME HealthOK, Restart
  PROVE  HealthOK' /\ Recovers
<1>1. ASSUME NEW s
      PROVE  Restore(s) \in [offline : BOOLEAN, samples : 0..1] /\ Restore(s).samples = 0
  <2>1. Known \in [offline : BOOLEAN, samples : 0..1] /\ Known.samples = 0
    BY DEF Known
  <2>2. ASSUME NEW b \in BOOLEAN
        PROVE  /\ [Known EXCEPT !.offline = b] \in [offline : BOOLEAN, samples : 0..1]
               /\ [Known EXCEPT !.offline = b].samples = 0
    BY DEF Known
  <2>3. PICK newest : newest = {n \in 1..Len(events) : events[n][3] = s}
    OBVIOUS
  <2>4. PICK b \in BOOLEAN : b = (events[Max(newest)][4] = "offline")
    OBVIOUS
  <2>5. Restore(s) = IF newest = {} THEN Known ELSE [Known EXCEPT !.offline = b]
    BY <2>3, <2>4 DEF Restore
  <2> QED
    BY <2>1, <2>2, <2>5
<1>2. ASSUME NEW f \in Feeders, NEW s \in Sources
      PROVE  /\ sources'[f][s] \in [offline : BOOLEAN, samples : 0..1]
             /\ sources'[f][s].samples = 0 /\ healthy'[f][s] = 0
             /\ outage'[f][s] \in {"unsaved", outage[f][s]}
  <2>1. Known \in [offline : BOOLEAN, samples : 0..1] /\ Known.samples = 0
    BY DEF Known
  <2>2. sources'[f][s] = IF f = Local THEN Restore(s) ELSE Known
    BY DEF Restart, Unsaved
  <2>3. healthy'[f][s] = 0 /\ outage'[f][s] \in {"unsaved", outage[f][s]}
    BY DEF Restart, Unsaved
  <2> QED
    BY <1>1, <2>1, <2>2, <2>3
<1>3. sources' = [f \in Feeders |-> [s \in Sources |-> sources'[f][s]]]
  BY DEF Restart, Unsaved
<1>4. /\ outage' = [f \in Feeders |-> [s \in Sources |-> outage'[f][s]]]
      /\ healthy' = [f \in Feeders |-> [s \in Sources |-> healthy'[f][s]]]
  BY DEF Restart, Unsaved
<1>5. \A f \in Feeders, s \in Sources : outage[f][s] \in OutageAlerts
  BY DEF HealthOK
<1>6. sources' \in [Feeders -> [Sources -> [offline : BOOLEAN, samples : 0..1]]]
  BY <1>2, <1>3
<1>7. outage' \in [Feeders -> [Sources -> OutageAlerts]] /\ healthy' \in [Feeders -> [Sources -> 0..2]]
  <2>1. \A f \in Feeders, s \in Sources : outage'[f][s] \in OutageAlerts
    BY <1>2, <1>5 DEF OutageAlerts
  <2>2. \A f \in Feeders, s \in Sources : healthy'[f][s] \in 0..2
    BY <1>2
  <2>3. outage' \in [Feeders -> [Sources -> OutageAlerts]]
    BY <1>4, <2>1
  <2>4. healthy' \in [Feeders -> [Sources -> 0..2]]
    BY <1>4, <2>2
  <2> QED
    BY <2>3, <2>4
<1> QED
  BY <1>2, <1>6, <1>7 DEF HealthOK, Recovers

\* A recovery that is announced was found by a poll of the outage.
Answered ==
  \A f \in Feeders, s \in Sources :
    outage'[f][s] = "recovered" /\ outage[f][s] # "recovered" => answers[f][s] > 0

\* Observer calls that are over the part that looks at the snapshot.
JobsKept ==
  /\ DOMAIN job' = Pollers
  /\ \A p \in Pollers : job'[p] = job[p] \/ job'[p].stage \notin {"health", "frame"}

LEMMA PollingKept ==
  ASSUME PollingOK, health' = health, sources' = sources, answers' = answers, JobsKept
  PROVE  PollingOK'
<1>1. ASSUME NEW f \in Feeders, NEW s \in Sources PROVE Unanswered(f, s)'
  <2>1. \A p \in Pollers : Waiting(p, f, s)' => Waiting(p, f, s)
    BY DEF JobsKept, Waiting
  <2> QED
    BY <2>1 DEF PollingOK, Unanswered
<1>2. ASSUME NEW p \in Pollers, job'[p].stage \in {"health", "frame"} PROVE job'[p] = job[p]
  BY <1>2 DEF JobsKept
<1> QED
  BY <1>1, <1>2 DEF PollingOK, JobsKept

\* What a sample does to the outage of a source.
LEMMA SampledOutage ==
  ASSUME NEW state \in [offline : BOOLEAN, samples : 0..1], NEW status
  PROVE  LET after == Sampled(state, status)
             alert == HealthAlert(state, after, status)
         IN  /\ after.offline /\ after.samples = 1 =>
                  state.offline /\ state.samples = 0 /\ status = "healthy"
             /\ alert = "offline" => ~state.offline
             /\ after.offline /\ alert # "offline" => state.offline
             /\ alert = "recovered" =>
                  state.offline /\ state.samples = 1 /\ status = "healthy"
<1> DEFINE after == Sampled(state, status)
           alert == HealthAlert(state, after, status)
<1>1. ~Known.offline
  BY DEF Known
<1>2. CASE status = "disabled"
  <2>1. after = Known
    BY <1>2 DEF Sampled
  <2> QED
    BY <1>1, <1>2, <2>1 DEF HealthAlert
<1>3. CASE status = "offline"
  <2>1. after = [offline |-> TRUE, samples |-> 0]
    BY <1>3 DEF Sampled
  <2> QED
    BY <1>3, <2>1 DEF HealthAlert
<1>4. CASE status = "healthy" /\ state.offline
  <2>1. after = IF state.samples + 1 >= 2 THEN Known ELSE [state EXCEPT !.samples = @ + 1]
    <3>1. status # "disabled" /\ status # "offline"
      BY <1>4
    <3> QED
      BY <1>4, <3>1, Zenon DEF Sampled
  <2>2. CASE state.samples = 1
    BY <1>1, <1>4, <2>1, <2>2 DEF HealthAlert
  <2>3. CASE state.samples = 0
    <3>1. after = [state EXCEPT !.samples = @ + 1]
      BY <2>1, <2>3
    <3>2. after.offline
      BY <1>4, <3>1
    <3> QED
      BY <1>4, <2>3, <3>2 DEF HealthAlert
  <2> QED
    BY <2>2, <2>3
<1>5. CASE status = "healthy" /\ ~state.offline
  <2>1. after = state
    BY <1>5 DEF Sampled
  <2> QED
    BY <1>5, <2>1 DEF HealthAlert
<1>6. CASE status \notin {"disabled", "offline", "healthy"}
  <2>1. after = [state EXCEPT !.samples = 0]
    BY <1>6 DEF Sampled
  <2>2. after.offline = state.offline /\ after.samples = 0
    BY <2>1
  <2> QED
    BY <1>6, <2>2 DEF HealthAlert
<1> QED
  BY <1>2, <1>3, <1>4, <1>5, <1>6

\* The monitor samples what a poller found.
LEMMA PollingObserved ==
  ASSUME HealthOK, PollingOK, NEW p \in Pollers, ObserveHealth(p)
  PROVE  PollingOK' /\ Answered
<1>1. PICK f \in Feeders : f = FeederOf[p]
  BY PollerAssumption
<1>2. PICK sample : sample = job[p].sample
  OBVIOUS
<1> DEFINE after(s) == Sampled(sources[f][s], sample[s])
           alert(s) == HealthAlert(sources[f][s], after(s), sample[s])
<1>3. /\ job[p].stage = "health" /\ health' = health
      /\ EvaluateHealth(f, sample)
  BY <1>1, <1>2 DEF ObserveHealth
<1>4. /\ DOMAIN job' = Pollers /\ \A q \in Pollers \ {p} : job'[q] = job[q]
      /\ job'[p].stage # "health"
      /\ job'[p].stage = "frame" => job'[p].snap = job[p].snap
  <2>1. \/ job' = [job EXCEPT ![p] = Idle]
        \/ job' = [job EXCEPT ![p] = [stage |-> "frame", snap |-> job[p].snap,
                                      alerts |-> FeederEvents(f, sample)]]
    BY <1>1, <1>2 DEF ObserveHealth
  <2>2. CASE job' = [job EXCEPT ![p] = Idle]
    BY <2>2 DEF PollingOK, Idle
  <2>3. CASE job' = [job EXCEPT ![p] = [stage |-> "frame", snap |-> job[p].snap,
                                        alerts |-> FeederEvents(f, sample)]]
    BY <2>3 DEF PollingOK
  <2> QED
    BY <2>1, <2>2, <2>3
<1>5. ASSUME NEW s \in Sources
      PROVE  /\ sources'[f][s] = after(s)
             /\ outage'[f][s] = IF sample[s] = "disabled" THEN "none"
                                ELSE IF alert(s) # "none" THEN alert(s) ELSE outage[f][s]
             /\ answers'[f][s] =
                  CASE alert(s) = "offline" -> (IF health[f][s] = "healthy" THEN 1 ELSE 0)
                    [] alert(s) # "offline" /\ ~after(s).offline -> 0
                    [] OTHER -> answers[f][s]
             /\ answers'[f][s] \in 0..2
  <2>1. /\ sources'[f] = [x \in Sources |-> after(x)]
        /\ outage'[f] = [x \in Sources |-> IF sample[x] = "disabled" THEN "none"
                                ELSE IF alert(x) # "none" THEN alert(x) ELSE outage[f][x]]
        /\ answers'[f] = [x \in Sources |->
                  CASE alert(x) = "offline" -> (IF health[f][x] = "healthy" THEN 1 ELSE 0)
                    [] alert(x) # "offline" /\ ~after(x).offline -> 0
                    [] OTHER -> answers[f][x]]
    BY <1>3 DEF EvaluateHealth, HealthOK, PollingOK
  <2>2. answers[f][s] \in 0..2
    BY DEF PollingOK
  <2> HIDE DEF after, alert
  <2>3. answers'[f][s] =
          CASE alert(s) = "offline" -> (IF health[f][s] = "healthy" THEN 1 ELSE 0)
            [] alert(s) # "offline" /\ ~after(s).offline -> 0
            [] OTHER -> answers[f][s]
    BY <2>1, Zenon
  <2>4. answers'[f][s] \in {0, 1, answers[f][s]}
    BY <2>3
  <2> QED
    BY <2>1, <2>2, <2>3, <2>4
<1>6. ASSUME NEW g \in Feeders \ {f}
      PROVE  sources'[g] = sources[g] /\ outage'[g] = outage[g] /\ answers'[g] = answers[g]
  BY <1>3 DEF EvaluateHealth, HealthOK, PollingOK
<1>11. PICK fit :
          /\ fit = [s \in Sources |->
                CASE alert(s) = "offline" -> (IF health[f][s] = "healthy" THEN 1 ELSE 0)
                  [] alert(s) # "offline" /\ ~after(s).offline -> 0
                  [] OTHER -> answers[f][s]]
          /\ answers' = [answers EXCEPT ![f] = fit]
  BY <1>3 DEF EvaluateHealth
<1>7. ASSUME NEW s \in Sources
      PROVE  /\ sources[f][s] \in [offline : BOOLEAN, samples : 0..1]
             /\ after(s).offline /\ after(s).samples = 1 =>
                  sources[f][s].offline /\ sources[f][s].samples = 0 /\ sample[s] = "healthy"
             /\ alert(s) = "offline" => ~sources[f][s].offline
             /\ after(s).offline /\ alert(s) # "offline" => sources[f][s].offline
             /\ alert(s) = "recovered" =>
                  sources[f][s].offline /\ sources[f][s].samples = 1 /\ sample[s] = "healthy"
  <2>1. PICK state \in [offline : BOOLEAN, samples : 0..1] : state = sources[f][s]
    BY DEF HealthOK
  <2> QED
    BY <2>1, SampledOutage
<1> HIDE DEF after, alert
<1>8. ASSUME NEW g \in Feeders, NEW s \in Sources PROVE Unanswered(g, s)'
  <2>1. CASE g # f
    <3>1. \A q \in Pollers : Waiting(q, g, s)' => Waiting(q, g, s)
      BY <1>1, <1>4, <2>1 DEF Waiting
    <3> QED
      BY <1>3, <1>6, <2>1, <3>1 DEF PollingOK, Unanswered
  <2>2. CASE g = f
    <3> SUFFICES ASSUME after(s).offline, answers'[f][s] = 0
                 PROVE  /\ health[f][s] # "healthy"
                        /\ after(s).samples = 1 => \A q \in Pollers : ~Waiting(q, f, s)'
      BY <1>3, <1>5, <2>2 DEF Unanswered
    <3>1. CASE alert(s) = "offline"
      <4>1. health[f][s] # "healthy"
        BY <1>5, <3>1
      <4>2. after(s).samples # 1
        BY <1>7, <3>1
      <4> QED
        BY <4>1, <4>2
    <3>2. CASE alert(s) # "offline"
      <4>1. answers[f][s] = 0 /\ sources[f][s].offline
        BY <1>5, <1>7, <3>2
      <4>2. health[f][s] # "healthy"
        BY <4>1 DEF PollingOK, Unanswered
      <4>3. ASSUME after(s).samples = 1, NEW q \in Pollers, Waiting(q, f, s)' PROVE FALSE
        <5>1. q # p /\ job'[q] = job[q]
          BY <1>4, <4>3 DEF Waiting
        <5>2. job[q].stage = "health" /\ job[q].sample[s] = "healthy" /\ FeederOf[q] = f
          BY <4>3, <5>1 DEF Waiting
        <5>3. sample[s] = "healthy"
          BY <1>7, <4>3
        <5>4. s \notin Polls[q]
          BY <4>2, <5>2 DEF PollingOK
        <5>5. s \notin Polls[p]
          BY <1>1, <1>2, <1>3, <4>2, <5>3 DEF PollingOK
        <5> QED
          BY <1>1, <5>1, <5>2, <5>4, <5>5, PollerAssumption
      <4> QED
        BY <4>2, <4>3
    <3> QED
      BY <3>1, <3>2
  <2> QED
    BY <2>1, <2>2
<1>9. Answered
  <2> SUFFICES ASSUME NEW g \in Feeders, NEW s \in Sources,
                      outage'[g][s] = "recovered", outage[g][s] # "recovered"
               PROVE  answers[g][s] # 0
    BY DEF Answered, PollingOK
  <2>1. g = f
    BY <1>6
  <2>2. alert(s) = "recovered"
    BY <1>5, <2>1
  <2>3. sources[f][s].offline /\ sources[f][s].samples = 1 /\ sample[s] = "healthy"
    BY <1>7, <2>2
  <2>4. Waiting(p, f, s)
    BY <1>1, <1>2, <1>3, <2>3 DEF Waiting
  <2> QED
    BY <2>1, <2>3, <2>4 DEF PollingOK, Unanswered
<1>10. answers' \in [Feeders -> [Sources -> 0..2]]
  <2>1. fit = [s \in Sources |-> fit[s]]
    BY <1>11
  <2>2. answers'[f] = fit
    BY <1>11 DEF PollingOK
  <2>3. fit \in [Sources -> 0..2]
    BY <1>5, <2>1, <2>2
  <2> QED
    BY <1>11, <2>3 DEF PollingOK
<1>12. ASSUME NEW q \in Pollers, job'[q].stage \in {"health", "frame"}, job'[q].snap.fetched
       PROVE  job'[q].snap.aircraft \in [Aircraft -> Observations \cup {NotSeen}]
  <2>1. job[q].stage \in {"health", "frame"} /\ job'[q].snap = job[q].snap
    BY <1>3, <1>4, <1>12
  <2> QED
    BY <1>12, <2>1 DEF PollingOK
<1>13. ASSUME NEW q \in Pollers, job'[q].stage = "health", NEW s \in Polls[q], s \in Sources
       PROVE  job'[q].sample[s] = health'[FeederOf[q]][s]
  <2>1. job[q].stage = "health" /\ job'[q] = job[q]
    BY <1>4, <1>13
  <2> QED
    BY <1>3, <1>13, <2>1 DEF PollingOK
<1>14. DOMAIN health' = Feeders
  BY <1>3 DEF PollingOK
<1> QED
  BY <1>4, <1>8, <1>9, <1>10, <1>12, <1>13, <1>14 DEF PollingOK

\* A poller publishes what it found.
LEMMA PollingPublished ==
  ASSUME HealthOK, PollingOK, deployment \in Deployments, NEW p \in Pollers,
         NEW snap \in deployment.snapshots[p], NEW gap, Publish(p, snap, gap)
  PROVE  PollingOK' /\ Answered
<1>1. PICK f \in Feeders : f = FeederOf[p]
  BY PollerAssumption
<1>2. PICK known : known = [s \in Sources |->
        IF s \in DOMAIN snap.health THEN snap.health[s] ELSE health[f][s]]
  OBVIOUS
<1>12. PICK all : all = Learned(f, snap.health)
  OBVIOUS
<1>13. all = [health EXCEPT ![f] = known] /\ all[f] = known
  BY <1>1, <1>2, <1>12 DEF Learned, PollingOK
<1>3. health' = [health EXCEPT ![f] = known] /\ health'[f] = known
  BY <1>1, <1>12, <1>13 DEF Publish
<1>4. /\ sources' = sources /\ outage' = outage
      /\ job' = [job EXCEPT ![p] = [stage |-> "health", sample |-> known, snap |-> snap]]
      /\ answers' = [answers EXCEPT ![f] = [s \in Sources |->
           IF sources[f][s].offline /\ s \in DOMAIN snap.health /\ known[s] = "healthy"
           THEN (IF answers[f][s] = 2 THEN 2 ELSE answers[f][s] + 1) ELSE answers[f][s]]]
  <2>1. /\ sources' = sources /\ outage' = outage
        /\ job' = [job EXCEPT ![p] = [stage |-> "health", sample |-> all[f], snap |-> snap]]
    BY <1>1, <1>12 DEF Publish
  <2>2. answers' = [answers EXCEPT ![f] = [s \in Sources |->
           IF sources[f][s].offline /\ s \in DOMAIN snap.health /\ all[f][s] = "healthy"
           THEN (IF answers[f][s] = 2 THEN 2 ELSE answers[f][s] + 1) ELSE answers[f][s]]]
    BY <1>1, <1>12 DEF Publish
  <2> QED
    BY <1>13, <2>1, <2>2
<1>5. /\ DOMAIN health' = Feeders /\ DOMAIN job' = Pollers
      /\ answers' \in [Feeders -> [Sources -> 0..2]]
      /\ \A g \in Feeders \ {f} : health'[g] = health[g] /\ answers'[g] = answers[g]
  BY <1>3, <1>4 DEF PollingOK
<1>6. /\ job'[p].stage = "health" /\ job'[p].sample = known /\ job'[p].snap = snap
      /\ \A q \in Pollers \ {p} : job'[q] = job[q]
  BY <1>4 DEF PollingOK
<1>7. DOMAIN snap.health \subseteq Polls[p]
      /\ (snap.fetched => snap.aircraft \in [Aircraft -> Observations \cup {NotSeen}])
  OBVIOUS
<1>8. ASSUME NEW q \in Pollers, job'[q].stage = "health",
             NEW s \in Polls[q], s \in Sources
      PROVE  job'[q].sample[s] = health'[FeederOf[q]][s]
  <2>1. CASE q = p
    BY <1>1, <1>3, <1>6, <2>1
  <2>2. CASE q # p
    <3>1. job[q].stage = "health" /\ job'[q] = job[q]
      BY <1>6, <1>8, <2>2
    <3>2. job'[q].sample[s] = health[FeederOf[q]][s]
      BY <1>8, <3>1 DEF PollingOK
    <3>3. CASE FeederOf[q] = f
      <4>1. s \notin Polls[p]
        BY <1>1, <1>8, <2>2, <3>3, PollerAssumption
      <4>2. s \notin DOMAIN snap.health
        BY <1>7, <4>1
      <4>3. known[s] = health[f][s]
        BY <1>2, <1>8, <4>2
      <4> QED
        BY <1>3, <3>2, <3>3, <4>3
    <3>4. CASE FeederOf[q] # f
      BY <1>5, <3>2, <3>4, PollerAssumption
    <3> QED
      BY <3>3, <3>4
  <2> QED
    BY <2>1, <2>2
<1>9. ASSUME NEW g \in Feeders, NEW s \in Sources PROVE Unanswered(g, s)'
  <2>1. CASE g # f
    <3>1. \A q \in Pollers : Waiting(q, g, s)' => Waiting(q, g, s)
      BY <1>1, <1>6, <2>1 DEF Waiting
    <3> QED
      BY <1>4, <1>5, <2>1, <3>1 DEF PollingOK, Unanswered
  <2>2. CASE g = f
    <3> SUFFICES ASSUME sources[f][s].offline, answers'[f][s] = 0
                 PROVE  /\ known[s] # "healthy"
                        /\ sources[f][s].samples = 1 => \A q \in Pollers : ~Waiting(q, f, s)'
      BY <1>3, <1>4, <2>2 DEF Unanswered
    <3>1. answers[f][s] \in 0..2
      BY DEF PollingOK
    <3>2. answers'[f][s] =
            IF sources[f][s].offline /\ s \in DOMAIN snap.health /\ known[s] = "healthy"
            THEN (IF answers[f][s] = 2 THEN 2 ELSE answers[f][s] + 1) ELSE answers[f][s]
      BY <1>4 DEF PollingOK
    <3>3. answers[f][s] = 0 /\ ~(s \in DOMAIN snap.health /\ known[s] = "healthy")
      BY <3>1, <3>2
    <3>4. health[f][s] # "healthy"
      BY <3>3 DEF PollingOK, Unanswered
    <3>5. known[s] # "healthy"
      BY <1>2, <3>3, <3>4
    <3>6. \A q \in Pollers : Waiting(q, f, s)' => Waiting(q, f, s)
      BY <1>6, <3>5 DEF Waiting
    <3> QED
      BY <3>3, <3>5, <3>6 DEF PollingOK, Unanswered
  <2> QED
    BY <2>1, <2>2
<1>10. ASSUME NEW q \in Pollers, job'[q].stage \in {"health", "frame"}, job'[q].snap.fetched
       PROVE  job'[q].snap.aircraft \in [Aircraft -> Observations \cup {NotSeen}]
  BY <1>6, <1>7, <1>10 DEF PollingOK
<1>11. Answered
  BY <1>4 DEF Answered
<1> QED
  BY <1>5, <1>8, <1>9, <1>10, <1>11 DEF PollingOK

LEMMA PollingRestart ==
  ASSUME HealthOK, PollingOK, Restart
  PROVE  PollingOK' /\ Answered
<1>1. /\ DOMAIN health' = Feeders /\ DOMAIN job' = Pollers
      /\ \A p \in Pollers : job'[p].stage = "idle"
      /\ \A f \in Feeders, s \in Sources : health'[f][s] = "unknown"
  BY DEF Restart, Unpolled, Idle
<1>2. answers' \in [Feeders -> [Sources -> 0..2]]
  BY DEF Restart
<1>3. \A f \in Feeders, s \in Sources : Unanswered(f, s)'
  BY <1>1 DEF Unanswered, Waiting
<1>4. Answered
  BY DEF Answered, Restart, Unsaved, HealthOK
<1> QED
  BY <1>1, <1>2, <1>3, <1>4 DEF PollingOK

LEMMA SightingsStep ==
  ASSUME SightingsOK, NEW aircraft, EvaluateInteresting(aircraft), forgotten' = forgotten
  PROVE  SightingsOK'
<1>1. PICK fresh : fresh = Interesting(aircraft)
  OBVIOUS
<1>2. fresh \subseteq Aircraft /\ \A a \in fresh : a \notin seen
  BY <1>1 DEF Interesting
<1>3. /\ seen' = seen \cup fresh
      /\ sighted' = [a \in Aircraft |-> IF a \in fresh THEN sighted[a] + 1 ELSE sighted[a]]
  BY <1>1 DEF EvaluateInteresting, Marked
<1> QED
  BY <1>2, <1>3 DEF SightingsOK

LEMMA SightingsRestart ==
  ASSUME SightingsOK, Restart
  PROVE  SightingsOK'
  BY DEF SightingsOK, Restart

LEMMA ReferenceSteps ==
  ASSUME ReferenceOK
  PROVE  /\ Release => ReferenceOK'
         /\ Restart => ReferenceOK'
         /\ \A told, again \in BOOLEAN : RefreshBegin(told, again) => ReferenceOK'
         /\ \A fetched, stores \in BOOLEAN : RefreshEnd(fetched, stores) => ReferenceOK'
<1> USE DEF ReferenceOK
<1>1. Release => ReferenceOK'
  BY DEF Release
<1>2. Restart => ReferenceOK'
  BY DEF Restart
<1>3. ASSUME NEW told \in BOOLEAN, NEW again \in BOOLEAN, RefreshBegin(told, again)
      PROVE  ReferenceOK'
  <2>1. PICK h : h = HashOf(again)
    OBVIOUS
  <2>2. h \in Nat /\ h <= latest
    BY <2>1 DEF HashOf, Unknown
  <2>3. PICK forced : forced = (refresh.stage = "start" \/ reference.version = 0)
    OBVIOUS
  <2>4. /\ refresh' = [stage |-> "idle"] \/ refresh' = [stage |-> "fetching", hash |-> h, forced |-> forced]
        /\ latest' = latest /\ reference' = reference
    BY <1>3, <2>1, <2>3 DEF RefreshBegin
  <2>5. refresh'.stage = "fetching" => refresh'.hash = h
    BY <2>4
  <2> QED
    BY <2>2, <2>4, <2>5
<1>4. ASSUME NEW fetched \in BOOLEAN, NEW stores \in BOOLEAN, RefreshEnd(fetched, stores)
      PROVE  ReferenceOK'
  <2>1. /\ refresh'.stage # "fetching" /\ latest' = latest
        /\ refresh.hash \in Nat /\ refresh.hash <= latest
    BY <1>4 DEF RefreshEnd
  <2>2. reference' = [hash |-> refresh.hash, version |-> latest] \/ reference' = reference
    BY <1>4 DEF RefreshEnd
  <2> QED
    BY <2>1, <2>2
<1> QED
  BY <1>1, <1>2, <1>3, <1>4

\* A call that prunes does not look at its snapshot any more.
LEMMA PrunesOn ==
  ASSUME PollingOK, NEW p \in Pollers, NEW i \in Ids, PruneOldest(p, i)
  PROVE  JobsKept
<1> DEFINE next(over, progress) ==
        IF over = 0 THEN Idle
        ELSE IF job[p].left # {i}
        THEN [job[p] EXCEPT !.over = over, !.left = @ \ {i}, !.progress = progress]
        ELSE IF progress
        THEN [job[p] EXCEPT !.over = over, !.left = job[p].all, !.progress = FALSE]
        ELSE Idle
<1>1. job[p].stage = "prune"
  BY DEF PruneOldest
<1>2. ASSUME NEW over, NEW progress
      PROVE  next(over, progress).stage \in {"idle", "prune"}
  BY <1>1 DEF Idle
<1>3. \/ job' = [job EXCEPT ![p] = next(job[p].over, job[p].progress)]
      \/ job' = [job EXCEPT ![p] = next(Remaining(job[p]), TRUE)]
  BY DEF PruneOldest
<1> HIDE DEF next
<1>4. PICK new : job' = [job EXCEPT ![p] = new] /\ new.stage \in {"idle", "prune"}
  BY <1>2, <1>3
<1> QED
  BY <1>4 DEF JobsKept, PollingOK

-----------------------------------------------------------------------------
(* Every step.                                                             *)

StepOK == /\ HealthOK' /\ PollingOK' /\ SightingsOK' /\ ReferenceOK' /\ MovementOK'
          /\ Moves /\ Recovers /\ Answered

\* What a step that does not touch a part leaves of it.
LEMMA Frames ==
  ASSUME IInv
  PROVE  /\ UNCHANGED healthVars => HealthOK' /\ Recovers
         /\ UNCHANGED healthVars /\ JobsKept => PollingOK' /\ Answered
         /\ UNCHANGED <<interestingVars, forgotten>> => SightingsOK'
         /\ UNCHANGED <<latest, reference, refresh>> => ReferenceOK'
         /\ UNCHANGED <<clock, deployment, changes, movementVars>> => MovementOK' /\ Moves
<1>1. UNCHANGED healthVars => HealthOK' /\ Recovers
  BY DEF IInv, HealthOK, Recovers, healthVars
<1>5. UNCHANGED healthVars /\ JobsKept => PollingOK' /\ Answered
  BY PollingKept DEF IInv, Answered, healthVars
<1>2. UNCHANGED <<interestingVars, forgotten>> => SightingsOK'
  BY DEF IInv, SightingsOK, interestingVars
<1>3. UNCHANGED <<latest, reference, refresh>> => ReferenceOK'
  BY DEF IInv, ReferenceOK
<1>4. ASSUME UNCHANGED <<clock, deployment, changes, movementVars>> PROVE MovementOK' /\ Moves
  <2>1. MovementOK /\ clock \in Nat /\ changes \in Nat
    BY DEF IInv, MovementOK, MovementType
  <2>2. clock' \in Nat /\ clock <= clock' /\ changes' \in Nat /\ changes <= changes'
    BY <1>4, <2>1
  <2> QED
    BY <1>4, <2>1, <2>2, Unmoved
<1> QED
  BY <1>1, <1>2, <1>3, <1>4, <1>5

LEMMA PublishStep ==
  ASSUME IInv, NEW p \in Pollers, NEW gap \in deployment.gaps \cup {0},
         NEW snap \in deployment.snapshots[p], Publish(p, snap, gap)
  PROVE  StepOK
<1>1. HealthOK /\ PollingOK /\ SightingsOK /\ ReferenceOK /\ MovementOK
  BY DEF IInv
<1>2. deployment \in Deployments /\ clock \in Nat /\ changes \in Nat
  BY <1>1 DEF MovementOK, MovementType
<1>3. gap \in Nat
  BY <1>2
<1>4. /\ clock' = clock + gap /\ deployment' = deployment /\ changes' = changes
      /\ UNCHANGED <<sources, outage, healthy, interestingVars, forgotten, planeAlertVars,
                     movementVars>>
  BY DEF Publish
<1>5. HealthOK' /\ Recovers
  BY <1>1, <1>4 DEF HealthOK, Recovers
<1>6. PollingOK' /\ Answered
  BY <1>1, <1>2, PollingPublished
<1>7. ReferenceOK' /\ SightingsOK'
  BY <1>4, Frames DEF planeAlertVars
<1>8. MovementOK' /\ Moves
  <2>1. clock' \in Nat /\ clock <= clock' /\ changes' \in Nat /\ changes <= changes'
    BY <1>2, <1>3, <1>4
  <2> QED
    BY <1>1, <1>4, <2>1, Unmoved
<1> QED
  BY <1>5, <1>6, <1>7, <1>8 DEF StepOK

LEMMA ObserveHealthStep ==
  ASSUME IInv, NEW p \in Pollers, ObserveHealth(p)
  PROVE  StepOK
<1>1. HealthOK /\ PollingOK /\ SightingsOK /\ ReferenceOK /\ MovementOK
  BY DEF IInv
<1>2. EvaluateHealth(FeederOf[p], job[p].sample) /\ FeederOf[p] \in Feeders
  BY PollerAssumption DEF ObserveHealth
<1>3. HealthOK' /\ Recovers
  BY <1>1, <1>2, HealthStep
<1>4. PollingOK' /\ Answered
  BY <1>1, PollingObserved
<1>5. UNCHANGED <<interestingVars, forgotten>> /\ UNCHANGED <<latest, reference, refresh>>
      /\ UNCHANGED <<clock, deployment, changes, movementVars>>
  BY DEF ObserveHealth, planeAlertVars
<1> QED
  BY <1>3, <1>4, <1>5, Frames DEF StepOK

LEMMA ObserveFrameStep ==
  ASSUME IInv, NEW p \in Pollers, ObserveFrame(p)
  PROVE  StepOK
<1>1. HealthOK /\ PollingOK /\ SightingsOK /\ ReferenceOK /\ MovementOK
  BY DEF IInv
<1>2. clock \in Nat /\ clock <= clock /\ changes \in Nat
  BY <1>1 DEF MovementOK, MovementType
<1>3. PICK snap : snap = job[p].snap
  OBVIOUS
<1>4. PICK f \in Feeders : f = FeederOf[p]
  BY PollerAssumption
<1>5. /\ clock' = clock /\ deployment' = deployment /\ changes' = changes /\ forgotten' = forgotten
      /\ UNCHANGED <<health, sources, healthy, answers>>
      /\ UNCHANGED <<latest, reference, refresh>>
  BY DEF ObserveFrame, planeAlertVars
<1>6. JobsKept
  <2>1. \/ job' = [job EXCEPT ![p] = [stage |-> "count", left |-> Monitored, total |-> 0]]
        \/ job' = [job EXCEPT ![p] = Idle]
    BY DEF ObserveFrame
  <2> QED
    BY <1>1, <2>1 DEF JobsKept, PollingOK, Idle
<1>10. /\ outage' = [g \in Feeders |-> [s \in Sources |-> outage'[g][s]]]
       /\ \A g \in Feeders, s \in Sources : outage'[g][s] \in {"unsaved", outage[g][s]}
  <2>1. PICK writes : outage' = Unsaved(writes)
    BY DEF ObserveFrame
  <2> QED
    BY <2>1 DEF Unsaved
<1>7. HealthOK' /\ Recovers /\ PollingOK' /\ Answered /\ ReferenceOK'
  <2>1. outage' \in [Feeders -> [Sources -> OutageAlerts]]
    <3>1. \A g \in Feeders, s \in Sources : outage'[g][s] \in OutageAlerts
      BY <1>1, <1>10 DEF HealthOK, OutageAlerts
    <3> QED
      BY <1>10, <3>1
  <2>2. Recovers /\ Answered
    BY <1>10 DEF Recovers, Answered
  <2>3. HealthOK'
    BY <1>1, <1>5, <2>1 DEF HealthOK
  <2>4. PollingOK'
    BY <1>1, <1>5, <1>6, PollingKept
  <2> QED
    BY <1>5, <2>2, <2>3, <2>4, Frames
<1>8. CASE snap.fetched
  <2>1. PICK aircraft \in [Aircraft -> Observations \cup {NotSeen}] : aircraft = snap.aircraft
    <3>1. job[p].stage = "frame"
      BY DEF ObserveFrame
    <3> QED
      BY <1>1, <1>3, <1>8, <3>1 DEF PollingOK
  <2>2. EvaluateInteresting(aircraft) /\ EvaluateMovement(f, aircraft, clock)
    BY <1>3, <1>4, <1>8, <2>1 DEF ObserveFrame
  <2>3. SightingsOK'
    BY <1>1, <1>5, <2>2, SightingsStep
  <2>4. MovementOK' /\ Moves
    BY <1>1, <1>2, <1>5, <2>2, EvaluateMoves
  <2> QED
    BY <1>7, <2>3, <2>4 DEF StepOK
<1>9. CASE ~snap.fetched
  <2>1. UNCHANGED <<interestingVars, movementVars>>
    BY <1>3, <1>9 DEF ObserveFrame
  <2> QED
    BY <1>5, <1>7, <2>1, Frames DEF StepOK
<1> QED
  BY <1>8, <1>9

LEMMA StepInv == IInv /\ [Next]_vars => IInv' /\ StepOK
<1> SUFFICES ASSUME IInv, [Next]_vars PROVE StepOK
  BY DEF StepOK, IInv
<1>1. HealthOK /\ PollingOK /\ SightingsOK /\ ReferenceOK /\ MovementOK
  BY DEF IInv
<1>2. clock \in Nat /\ changes \in Nat
  BY <1>1 DEF MovementOK, MovementType
<1>13. job' = job => JobsKept
  BY <1>1 DEF JobsKept, PollingOK
<1>3. ASSUME NEW p \in Pollers, NEW gap \in deployment.gaps \cup {0},
             NEW snap \in deployment.snapshots[p], Publish(p, snap, gap)
      PROVE  StepOK
  BY <1>3, PublishStep
<1>14. ASSUME NEW p \in Pollers, ObserveHealth(p) \/ ObserveFrame(p) PROVE StepOK
  BY <1>14, ObserveHealthStep, ObserveFrameStep
<1>4. ASSUME NEW p \in Pollers, NEW i \in Ids, StateLen(p, i) PROVE StepOK
  <2>1. JobsKept
    <3> DEFINE total == job[p].total + Cardinality(Held(heap[i]))
               new == IF job[p].left # {i}
                      THEN [job[p] EXCEPT !.left = @ \ {i}, !.total = total]
                      ELSE IF total <= MaxTracksGlobal THEN Idle
                      ELSE [stage |-> "prune", over |-> total - MaxTracksGlobal, all |-> Monitored,
                            left |-> Monitored, progress |-> FALSE]
    <3>1. job[p].stage = "count" /\ job' = [job EXCEPT ![p] = new]
      BY <1>4 DEF StateLen
    <3> HIDE DEF total
    <3>2. new.stage \in {"count", "idle", "prune"}
      BY <3>1 DEF Idle
    <3> HIDE DEF new
    <3>3. job'[p] = new /\ \A q \in Pollers \ {p} : job'[q] = job[q]
      BY <1>1, <3>1 DEF PollingOK
    <3>4. DOMAIN job' = Pollers
      BY <1>1, <3>1 DEF PollingOK
    <3> QED
      BY <3>2, <3>3, <3>4 DEF JobsKept
  <2>2. UNCHANGED healthVars /\ UNCHANGED <<interestingVars, forgotten>>
        /\ UNCHANGED <<latest, reference, refresh>>
        /\ UNCHANGED <<clock, deployment, changes, movementVars>>
    BY <1>4 DEF StateLen, planeAlertVars
  <2> QED
    BY <2>1, <2>2, Frames DEF StepOK
<1>5. ASSUME NEW p \in Pollers, NEW i \in Ids, PruneOldest(p, i) PROVE StepOK
  <2>1. MovementOK' /\ Moves
    BY <1>1, <1>5, PruneMoves
  <2>2. UNCHANGED healthVars /\ UNCHANGED <<interestingVars, forgotten>>
        /\ UNCHANGED <<latest, reference, refresh>>
    BY <1>5 DEF PruneOldest, planeAlertVars
  <2>3. JobsKept
    BY <1>1, <1>5, PrunesOn
  <2> QED
    BY <2>1, <2>2, <2>3, Frames DEF StepOK
<1>6. ASSUME NEW f \in Feeders, NEW c \in Centers, Register(f, c) PROVE StepOK
  <2>1. MovementOK' /\ Moves
    BY <1>1, <1>6, RegisterMoves
  <2>2. UNCHANGED healthVars /\ UNCHANGED <<interestingVars, forgotten>>
        /\ UNCHANGED <<latest, reference, refresh>> /\ job' = job
    BY <1>6 DEF Register, planeAlertVars
  <2> QED
    BY <1>13, <2>1, <2>2, Frames DEF StepOK
<1>7. CASE Release
  <2>1. ReferenceOK'
    BY <1>1, <1>7, ReferenceSteps
  <2>2. UNCHANGED healthVars /\ UNCHANGED <<interestingVars, forgotten>> /\ job' = job
        /\ UNCHANGED <<deployment, movementVars>> /\ clock' = clock /\ changes' = changes + 1
    BY <1>7 DEF Release
  <2>3. clock' \in Nat /\ clock <= clock' /\ changes' \in Nat /\ changes <= changes'
    BY <1>2, <2>2
  <2>4. MovementOK' /\ Moves
    BY <1>1, <2>2, <2>3, Unmoved
  <2> QED
    BY <1>13, <2>1, <2>2, <2>4, Frames DEF StepOK
<1>8. ASSUME NEW told \in BOOLEAN, NEW again \in BOOLEAN, RefreshBegin(told, again) PROVE StepOK
  <2>1. ReferenceOK'
    BY <1>1, <1>8, ReferenceSteps
  <2>2. UNCHANGED healthVars /\ UNCHANGED <<interestingVars, forgotten>> /\ job' = job
        /\ UNCHANGED <<clock, deployment, changes, movementVars>>
    BY <1>8 DEF RefreshBegin
  <2> QED
    BY <1>13, <2>1, <2>2, Frames DEF StepOK
<1>9. ASSUME NEW fetched \in BOOLEAN, NEW stores \in BOOLEAN, RefreshEnd(fetched, stores)
      PROVE  StepOK
  <2>1. ReferenceOK'
    BY <1>1, <1>9, ReferenceSteps
  <2>2. UNCHANGED healthVars /\ UNCHANGED <<interestingVars, forgotten>> /\ job' = job
        /\ UNCHANGED <<clock, deployment, changes, movementVars>>
    BY <1>9 DEF RefreshEnd
  <2> QED
    BY <1>13, <2>1, <2>2, Frames DEF StepOK
<1>10. CASE Write
  BY <1>10, <1>13, Frames DEF StepOK, Write, planeAlertVars
<1>11. CASE Restart
  BY <1>1, <1>11, HealthRestart, PollingRestart, SightingsRestart, ReferenceSteps, RestartMoves
     DEF StepOK
<1>12. CASE UNCHANGED vars
  <2>1. UNCHANGED healthVars /\ UNCHANGED <<interestingVars, forgotten>>
        /\ UNCHANGED <<latest, reference, refresh>> /\ job' = job
        /\ UNCHANGED <<clock, deployment, changes, movementVars>>
    BY <1>12 DEF vars, planeAlertVars
  <2> QED
    BY <1>13, <2>1, Frames DEF StepOK
<1> QED
  BY <1>3, <1>4, <1>5, <1>6, <1>7, <1>8, <1>9, <1>10, <1>11, <1>12, <1>14 DEF Next

\* Every reachable state satisfies the inductive invariant: the types, and how
\* each monitor's state is tied to the history the properties speak of.
THEOREM Invariance == Spec => []IInv
  BY InitInv, StepInv, PTL DEF Spec

\* No aircraft of the reference list is announced again by another feeder or a
\* later snapshot, except as often as a restart lost its sighting
\* (InterestingMonitor.Evaluate, Restore).
THEOREM InterestingIsAnnouncedOnce == Spec => []InterestingAnnouncedOnce
<1>1. IInv => InterestingAnnouncedOnce
  BY DEF IInv, SightingsOK, InterestingAnnouncedOnce
<1> QED
  BY Invariance, <1>1, PTL

\* The stored hash is never that of a version newer than what is stored, so a
\* reference that is out of date is fetched (Loader.FetchRecords).
THEOREM OutdatedReferenceIsFetched == Spec => []OutdatedReferenceFetched
<1>1. IInv => OutdatedReferenceFetched
  BY DEF IInv, ReferenceOK, OutdatedReferenceFetched
<1> QED
  BY Invariance, <1>1, PTL

\* What is listed as departing or approaching was not last observed in the air
\* beyond the activity radius (Evaluate, Activity).
THEOREM ActivityStaysNearby == Spec => []ActivityIsNearby
<1>1. IInv => ActivityIsNearby
  <2> SUFFICES ASSUME IInv, NEW i \in Monitored, NEW a \in Activity(heap[i]),
                      Away(Last(recent[i][a]))
               PROVE  heap[i].tracks[a].phase = "landing"
    BY DEF ActivityIsNearby, Away
  <2>1. i \in Ids
    BY DEF IInv, MovementOK, MovementType, Monitored
  <2>2. a \in Aircraft /\ heap[i].tracks[a] # NoTrack /\ heap[i].tracks[a].phase # ""
    BY DEF Activity, Held
  <2>3. PairOK(heap[i].tracks[a], moved[i][a], recent[i][a], clock)
    BY <2>1, <2>2 DEF IInv, MovementOK, HistoryOK
  <2>4. PhaseOK(heap[i].tracks[a], recent[i][a])
    BY <2>2, <2>3 DEF PairOK, TrackOK
  <2>5. Last(recent[i][a]) = recent[i][a][Len(recent[i][a])]
    BY DEF Last
  <2> QED
    BY <2>2, <2>4, <2>5 DEF PhaseOK
<1> QED
  BY Invariance, <1>1, PTL

\* A recovery is only announced at the second healthy sample in a row, and
\* not without a poll that found the source healthy during the outage, however
\* the two pollers of a feeder publish (FeederMonitor.Evaluate, Run).
THEOREM RecoveryStaysStable == Spec => RecoveryIsStable
<1>1. IInv /\ [Next]_vars =>
        [\A f \in Feeders, s \in Sources :
           outage'[f][s] = "recovered" /\ outage[f][s] # "recovered"
             => healthy'[f][s] = 2 /\ answers[f][s] > 0]_vars
  BY StepInv DEF StepOK, Recovers, Answered
<1> QED
  BY Invariance, <1>1, PTL DEF Spec, RecoveryIsStable

\* Two alerts of a kind for an aircraft are a cooldown apart, whatever happens
\* to the track in between but a restart and the bounds (Evaluate).
THEOREM MovementCooldownIsKept == Spec => MovementCooldownKept
<1>1. IInv /\ [Next]_vars =>
        [\A i \in Ids, a \in Aircraft, k \in Kinds :
           moved[i][a][k] # 0 /\ moved'[i][a][k] \notin {0, moved[i][a][k]}
             => moved'[i][a][k] - moved[i][a][k] >= Cooldown]_vars
  BY StepInv DEF StepOK, Moves, Announces
<1> QED
  BY Invariance, <1>1, PTL DEF Spec, MovementCooldownKept

\* A movement is announced when the last three observations fit it
\* (evaluateDeparture, evaluateLanding, evaluateApproach).
THEOREM ObservationsAreConsecutive == Spec => ThreeConsecutiveObservations
<1>1. IInv /\ [Next]_vars =>
        [\A i \in Ids, a \in Aircraft, k \in Kinds :
           moved'[i][a][k] \notin {0, moved[i][a][k]}
             => /\ Len(recent'[i][a]) = Consecutive
                /\ \A o \in Range(recent'[i][a]) : Fits(o, k)]_vars
  BY StepInv DEF StepOK, Moves, Announces
<1> QED
  BY Invariance, <1>1, PTL DEF Spec, ThreeConsecutiveObservations
=============================================================================
