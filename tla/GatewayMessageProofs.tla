------------------------ MODULE GatewayMessageProofs ------------------------
(***************************************************************************)
(* Proofs about what Gateway shows, for any users, cards, finite set of    *)
(* schedules, configurations and limits: PendingKeysMatchJobs,             *)
(* AlertCooldownKept and PostedOnce.  They rest on the invariants that     *)
(* GatewayProofs proves of the sessions, the cases and the outbox.         *)
(*                                                                         *)
(* The argument follows a job from where it is enqueued to the record of   *)
(* its message.  Jobs are of four forms, one per alert and in order        *)
(* (QueueInv), so what was posted of a job in hand is known only to its    *)
(* own lane (AlertsInv); a message that is recorded has its mark, so that  *)
(* no later job can be about the same (RecordsInv); and the message of a   *)
(* card that the bot has not lost is the bound one, which is edited rather *)
(* than posted again (CardInv).                                            *)
(***************************************************************************)
EXTENDS GatewayProofs

USE LimitAssumption DEF LimitAssumption

-----------------------------------------------------------------------------
(* Jobs, messages and records.                                             *)

\* A lane has a job, and the jobs that are queued or running.
Busy(l) == lanes[l].phase \notin {"poll", "wait"}
Active == {lanes[l].job : l \in {x \in Lanes : Busy(x)}} \cup UNION {ToSet(queue[c]) : c \in Channels}

\* A job of each kind: what it is about, under which key, in which channel.
AlertForm(j) ==
  /\ j.key \in AlertKeys \cup EmergencyKeys
  /\ j.chan = IF j.key \in EmergencyKeys THEN "emergency" ELSE "alert"
  /\ j.subject = <<"alert", j.subject[2]>> /\ j.subject[2] \in Nat /\ j.subject[2] < submitted
TestForm(j) ==
  /\ j.key = "test" /\ j.chan = "interaction" /\ j.attempts = 1
  /\ j.subject = <<"test", j.subject[2]>> /\ j.subject[2] \in Nat /\ j.subject[2] < changes
ReportForm(j) ==
  /\ j.key = <<"report", j.key[2], PeriodStart(j.at)>> /\ j.subject = j.key
  /\ j.chan = "report" /\ j.at \in Nat /\ j.at <= clock
CardForm(j) ==
  /\ j.key = <<"card", j.key[2]>> /\ j.subject = j.key /\ j.key[2] \in Cards
  /\ j.chan = IF j.key[2] = "dashboard" THEN "dashboard" ELSE "report"

JobForm(j) ==
  /\ j \in Jobs
  /\ j.kind = "alert" => AlertForm(j)
  /\ j.kind = "test" => TestForm(j)
  /\ j.kind = "report" => ReportForm(j)
  /\ j.kind = "card" => CardForm(j)

PhasesOf(kind) ==
  CASE kind \in {"alert", "test"} -> {"run", "post"}
    [] kind = "report" -> {"run", "post", "record"}
    [] kind = "card" -> {"run", "edit", "post", "record"}

\* Every job is one of those, in its place.
Placed ==
  /\ submitted \in Nat /\ changes \in Nat
  /\ \A j \in Active : JobForm(j)
  /\ \A c \in Channels : \A j \in ToSet(queue[c]) : j.chan = c
  /\ \A l \in Lanes :
       IF Busy(l) THEN lanes[l].job.chan \in Serves(l) /\ lanes[l].phase \in PhasesOf(lanes[l].job.kind)
       ELSE lanes[l].job = NoJob

\* No two alerts have one number.
OneOfEach ==
  \A j, k \in Active : j.kind = "alert" /\ k.kind = "alert" /\ j.subject = k.subject => j = k

\* What is queued behind a job of its channel is a later one, and what
\* coalesces has another key.
Before(j, k) ==
  /\ j.kind = k.kind /\ j.kind \in {"alert", "test"} => j.subject[2] < k.subject[2]
  /\ j.kind = k.kind /\ j.kind = "report" => j.at <= k.at
  /\ j.chan \in Deduplicated => j.key # k.key

InOrder ==
  \A c \in Channels :
    /\ \A i, k \in DOMAIN queue[c] : i < k => Before(queue[c][i], queue[c][k])
    /\ \A l \in Lanes : Busy(l) /\ lanes[l].job.chan = c =>
         \A i \in DOMAIN queue[c] : Before(lanes[l].job, queue[c][i])

KeysPending == pending = Coalescing(Active)

\* A report in hand is of a period that was not reported.
ReportsDue ==
  /\ "digest" \in DOMAIN lastRun /\ \A s \in DOMAIN lastRun : lastRun[s] \in Nat
  /\ \A j \in Active : j.kind = "report" =>
       j.key[2] \in DOMAIN lastRun /\ lastRun[j.key[2]] < PeriodStart(j.at)

QueueInv == Placed /\ OneOfEach /\ InOrder /\ KeysPending /\ ReportsDue

\* The messages of each kind, and the spacing that the nonces give.
Posted ==
  \A m \in DOMAIN messages :
    /\ messages[m].posted \in Nat /\ messages[m].posted <= clock /\ messages[m].at \in Int
    /\ messages[m].subject[1] \in {"alert", "test", "report", "card", "log"}
    /\ messages[m].key \in AlertKeys => messages[m].subject[1] = "alert"
    /\ messages[m].subject[1] # "card" => messages[m].nonce = messages[m].subject
    /\ messages[m].subject[1] = "card" =>
         messages[m].nonce[1] \in Cards /\ messages[m].subject = <<"card", messages[m].nonce[1]>>
    /\ messages[m].subject[1] = "alert" =>
         messages[m].subject[2] \in Nat /\ messages[m].subject[2] < submitted
    /\ messages[m].subject[1] = "test" =>
         messages[m].subject[2] \in Nat /\ messages[m].subject[2] < changes
    /\ messages[m].subject[1] = "report" => messages[m].subject[3] \in Int

Spaced ==
  \A m, n \in DOMAIN messages :
    m < n /\ messages[m].nonce = messages[n].nonce =>
      messages[n].posted - messages[m].posted >= NonceWindow

Lost(m) == m \in unrecorded \cup forgotten

\* What was posted of an alert in hand the bot does not know of; it will know
\* of no later one before it is done with this one.
AlertsInHand ==
  /\ \A c \in Channels : \A j \in ToSet(queue[c]) :
       j.kind \in {"alert", "test"} => ~HasPosted(j.subject)
  /\ \A l \in Lanes : Busy(l) /\ lanes[l].job.kind = "test" =>
       lanes[l].attempt = 0 /\ ~HasPosted(lanes[l].job.subject)
  /\ \A l \in Lanes : Busy(l) /\ lanes[l].job.kind = "alert" =>
       \A m \in DOMAIN messages : messages[m].subject = lanes[l].job.subject =>
         /\ messages[m].key = lanes[l].job.key /\ messages[m].at = lanes[l].job.at
         /\ m \in unrecorded
         /\ \A n \in DOMAIN messages : m < n /\ messages[n].key = lanes[l].job.key
              /\ messages[n].key \in AlertKeys => messages[n].subject = lanes[l].job.subject

\* An alert about to be posted is a cooldown after the last delivered one,
\* and that one is after every alert that the bot knows of.
Delivered ==
  /\ \A k \in DOMAIN delivered : delivered[k] \in Int
  /\ \A l \in Lanes :
       lanes[l].phase = "post" /\ lanes[l].job.kind = "alert" /\ lanes[l].job.key \in AlertKeys
         /\ lanes[l].job.key \in DOMAIN delivered =>
       lanes[l].job.at - delivered[lanes[l].job.key] >= Cooldown
  /\ \A m \in DOMAIN messages : messages[m].key \in AlertKeys /\ ~Lost(m) =>
       /\ messages[m].key \in DOMAIN delivered
       /\ messages[m].at <= delivered[messages[m].key]

\* A message about to be recorded is the last of its subject; a card's need not be.
LastOf(m, subject) ==
  /\ m \in DOMAIN messages /\ messages[m].subject = subject
  /\ \A n \in DOMAIN messages : messages[n].subject = subject => n <= m
Recording ==
  /\ \A l \in Lanes : lanes[l].phase = "record" /\ lanes[l].job.kind = "report" =>
       LastOf(lanes[l].msg, lanes[l].job.subject)
  /\ \A l \in Lanes : lanes[l].phase = "record" /\ lanes[l].job.kind = "card" =>
       /\ lanes[l].msg \in DOMAIN messages
       /\ messages[lanes[l].msg].subject = lanes[l].job.subject
  /\ courier.phase = "mark" => LastOf(courier.msg, <<"log", Row>>)

\* A report that is recorded was marked; a log entry that is, is not due.
ReportsMarked ==
  \A m \in DOMAIN messages : messages[m].subject[1] = "report" /\ m \notin unrecorded =>
    /\ messages[m].subject[2] \in DOMAIN lastRun
    /\ messages[m].subject[3] <= lastRun[messages[m].subject[2]]

Entered(c) ==
  /\ c \in DOMAIN outbox => outbox[c].delivered
  /\ courier.phase # "rest" => c \notin ToSet(courier.logs)
  /\ c \in DOMAIN cases => cases[c].status # "pending"
LogsMarked ==
  /\ \A i, k \in DOMAIN courier.logs : i # k => courier.logs[i] # courier.logs[k]
  /\ \A m \in DOMAIN messages : messages[m].subject[1] = "log" /\ m \notin unrecorded =>
       Entered(messages[m].subject[2])

\* All but the last message of a subject are unrecorded.
Superseded ==
  \A m, n \in DOMAIN messages :
    m < n /\ messages[m].subject = messages[n].subject /\ messages[m].subject[1] # "card" =>
      m \in unrecorded

-----------------------------------------------------------------------------
(* Periods.                                                                *)

LEMMA PeriodFacts ==
  ASSUME NEW t \in Int
  PROVE  PeriodStart(t) \in Int /\ PeriodStart(t) <= t /\ t < PeriodStart(t) + PeriodLength
<1>1. /\ t \div PeriodLength \in Int
      /\ PeriodLength * (t \div PeriodLength) <= t
      /\ t < PeriodLength * (t \div PeriodLength) + PeriodLength
  BY OutboundAssumption DEF OutboundAssumption
<1>2. PICK q \in Int : q = t \div PeriodLength
  BY <1>1
<1>3. PeriodStart(t) = q * PeriodLength /\ PeriodLength \in Int
  BY <1>2, OutboundAssumption DEF PeriodStart, OutboundAssumption
<1>4. q * PeriodLength = PeriodLength * q /\ PeriodLength * q \in Int
  BY <1>3
<1> QED
  BY <1>1, <1>2, <1>3, <1>4

\* A later period starts after the moment.
LEMMA PeriodsApart ==
  ASSUME NEW a \in Int, NEW b \in Int, a <= b, PeriodStart(a) # PeriodStart(b)
  PROVE  a < PeriodStart(b)
<1>1. PICK q \in Int : q = a \div PeriodLength
  BY OutboundAssumption DEF OutboundAssumption
<1>2. PICK r \in Int : r = b \div PeriodLength
  BY OutboundAssumption DEF OutboundAssumption
<1>3. PICK p \in Nat \ {0} : p = PeriodLength
  BY OutboundAssumption DEF OutboundAssumption
<1>4. PeriodStart(a) = q * p /\ PeriodStart(b) = r * p
  BY <1>1, <1>2, <1>3 DEF PeriodStart
<1>5. a < q * p + p /\ q * p <= a /\ b < r * p + p /\ r * p <= b
  BY <1>3, <1>4, PeriodFacts
<1>6. q # r
  BY <1>4
<1>7. CASE q < r
  <2>1. (q + 1) * p <= r * p
    BY <1>3, <1>7
  <2>2. (q + 1) * p = q * p + p
    BY <1>3
  <2> QED
    BY <1>4, <1>5, <2>1, <2>2, <1>3
<1>8. CASE r < q
  <2>1. (r + 1) * p <= q * p
    BY <1>3, <1>8
  <2>2. (r + 1) * p = r * p + p
    BY <1>3
  <2> QED
    BY <1>5, <2>1, <2>2, <1>3
<1> QED
  BY <1>6, <1>7, <1>8

-----------------------------------------------------------------------------
(* Jobs in their places.                                                   *)

LEMMA ServesApart ==
  ASSUME NEW l \in Lanes, NEW m \in Lanes, NEW c, c \in Serves(l), c \in Serves(m)
  PROVE  l = m
BY DEF Lanes, Serves

LEMMA ActivePlaces ==
  ASSUME NEW j
  PROVE  j \in Active <=> \/ \E l \in Lanes : Busy(l) /\ lanes[l].job = j
                          \/ \E c \in Channels : j \in ToSet(queue[c])
BY DEF Active

\* A job of a channel is in its queue or in the lane that serves it.
LEMMA ChannelPlaces ==
  ASSUME Placed, NEW j \in Active
  PROVE  \/ j.chan \in Channels /\ j \in ToSet(queue[j.chan])
         \/ \E l \in Lanes : Busy(l) /\ lanes[l].job = j /\ j.chan \in Serves(l)
BY ActivePlaces DEF Placed

LEMMA NotMember ==
  ASSUME NEW s, NEW x, x \notin ToSet(s)
  PROVE  \A i \in DOMAIN s : s[i] # x
BY DEF ToSet

\* The fields of a job.
LEMMA JobFields ==
  ASSUME NEW j \in Jobs
  PROVE  /\ j.kind \in {"alert", "test", "report", "card"} /\ j.key \in JobKeys
         /\ j.chan \in Channels /\ j.at \in Int /\ j.attempts \in {1, MaxAttempts}
BY DEF Jobs

\* What is counted only grows, so a job keeps its form.
Grows ==
  /\ clock' \in Nat /\ clock <= clock'
  /\ submitted' \in Nat /\ submitted <= submitted'
  /\ changes' \in Nat /\ changes <= changes'

LEMMA FormStays ==
  ASSUME clock \in Nat, Placed, Grows, NEW j, JobForm(j)
  PROVE  JobForm(j)'
<1>0. submitted \in Nat /\ changes \in Nat
  BY DEF Placed
<1>1. AlertForm(j) => AlertForm(j)'
  <2>1. j.subject[2] \in Nat /\ j.subject[2] < submitted => j.subject[2] < submitted'
    BY <1>0 DEF Grows
  <2> QED
    BY <2>1 DEF AlertForm
<1>2. TestForm(j) => TestForm(j)'
  <2>1. j.subject[2] \in Nat /\ j.subject[2] < changes => j.subject[2] < changes'
    BY <1>0 DEF Grows
  <2> QED
    BY <2>1 DEF TestForm
<1>3. ReportForm(j) => ReportForm(j)'
  <2>1. j.at \in Nat /\ j.at <= clock => j.at <= clock'
    BY DEF Grows
  <2> QED
    BY <2>1 DEF ReportForm, PeriodStart
<1>4. CardForm(j) => CardForm(j)'
  BY DEF CardForm
<1> QED
  BY <1>1, <1>2, <1>3, <1>4 DEF JobForm

-----------------------------------------------------------------------------
(* What a step can do to the jobs, and that it keeps them in order.        *)

\* Every job stays in its place.
SameJobs ==
  /\ UNCHANGED <<queue, pending>>
  /\ \A l \in Lanes :
       /\ lanes'[l].job = lanes[l].job /\ (Busy(l)' <=> Busy(l))
       /\ Busy(l) => lanes'[l].phase \in PhasesOf(lanes[l].job.kind)

\* A lane that was free takes the first job of a channel.
Takes(l, c) ==
  /\ l \in Lanes /\ c \in Channels /\ c \in Serves(l) /\ ~Busy(l) /\ queue[c] # <<>>
  /\ queue' = [queue EXCEPT ![c] = Tail(@)] /\ UNCHANGED pending
  /\ \E x : lanes' = [lanes EXCEPT ![l] = x] /\ x.job = Head(queue[c]) /\ x.phase = "run"

\* A lane is done with its job.
Ends(l) == l \in Lanes /\ Busy(l) /\ Over(l) /\ UNCHANGED queue

\* New jobs of one channel, each later than what is there.
Later(c, new) ==
  /\ \A i \in DOMAIN new : new[i].chan = c
  /\ \A i, k \in DOMAIN new : i < k => Before(new[i], new[k])
  /\ \A j \in Active : j.chan = c => \A i \in DOMAIN new : Before(j, new[i])
  /\ \A i \in DOMAIN new : new[i].kind = "alert" =>
       /\ DOMAIN new = {i}
       /\ \A j \in Active : j.kind = "alert" => j.subject # new[i].subject
Appends(c, new) ==
  /\ IsSequence(new) /\ c \in Channels /\ Later(c, new)
  /\ \A i \in DOMAIN new : JobForm(new[i])'
  /\ queue' = [queue EXCEPT ![c] = @ \o new]
  /\ pending' = pending \cup Coalescing(ToSet(new))
  /\ UNCHANGED lanes

\* The newest job of the dashboard.
Replaces(job) ==
  /\ job.kind = "card" /\ job.chan = "dashboard" /\ JobForm(job)'
  /\ queue' = [queue EXCEPT !["dashboard"] = <<job>>] /\ UNCHANGED <<pending, lanes>>

\* Nothing is left.
Empties ==
  /\ queue' = [c \in Channels |-> <<>>] /\ pending' = {}
  /\ lanes' = [l \in Lanes |-> Polling]

LEMMA JobFormKind ==
  ASSUME NEW j, JobForm(j)
  PROVE  j.kind \in {"alert", "test", "report", "card"} /\ j.chan \in Channels /\ j # NoJob
<1>1. j \in Jobs
  BY DEF JobForm
<1>2. NoJob \notin Jobs
  BY KeyAssumption DEF KeyAssumption
<1> QED
  BY <1>1, <1>2, JobFields

LEMMA PollingLane == Polling.phase = "poll" /\ Polling.job = NoJob
BY DEF Polling

-----------------------------------------------------------------------------
(* Nothing moves.                                                          *)

LEMMA SameActive ==
  ASSUME SameJobs
  PROVE  Active' = Active
<1>1. /\ \A l \in Lanes : (Busy(l)' <=> Busy(l)) /\ lanes'[l].job = lanes[l].job
      /\ queue' = queue
  BY DEF SameJobs
<1>2. ASSUME NEW j
      PROVE  \/ \E m \in Lanes : Busy(m) /\ lanes[m].job = j
             \/ \E d \in Channels : j \in ToSet(queue[d])
             <=>
             \/ \E m \in Lanes : Busy(m)' /\ lanes'[m].job = j
             \/ \E d \in Channels : j \in ToSet(queue'[d])
  BY <1>1
<1>3. \A j : j \in Active' <=> j \in Active
  BY <1>2 DEF Active
<1> QED
  BY <1>3

LEMMA SamePlaced ==
  ASSUME clock \in Nat, Placed, Grows, SameJobs
  PROVE  Placed'
<1>1. Active' = Active /\ queue' = queue
  BY SameActive DEF SameJobs
<1>2. \A j \in Active' : JobForm(j)'
  BY <1>1, FormStays DEF Placed
<1>3. ASSUME NEW l \in Lanes
      PROVE  IF Busy(l)' THEN lanes'[l].job.chan \in Serves(l)
                                /\ lanes'[l].phase \in PhasesOf(lanes'[l].job.kind)
             ELSE lanes'[l].job = NoJob
  <2>1. /\ lanes'[l].job = lanes[l].job /\ (Busy(l)' <=> Busy(l))
        /\ Busy(l) => lanes'[l].phase \in PhasesOf(lanes[l].job.kind)
    BY DEF SameJobs
  <2>2. IF Busy(l) THEN lanes[l].job.chan \in Serves(l) ELSE lanes[l].job = NoJob
    BY DEF Placed
  <2> QED
    BY <2>1, <2>2
<1>4. \A c \in Channels : \A j \in ToSet(queue'[c]) : j.chan = c
  BY <1>1 DEF Placed
<1> QED
  BY <1>2, <1>3, <1>4 DEF Placed, Grows

LEMMA SameOrder ==
  ASSUME InOrder, SameJobs
  PROVE  InOrder'
<1>1. \A l \in Lanes : (Busy(l)' <=> Busy(l)) /\ lanes'[l].job = lanes[l].job
  BY DEF SameJobs
<1>2. queue' = queue
  BY DEF SameJobs
<1> QED
  BY <1>1, <1>2 DEF InOrder, Before

LEMMA SameStep ==
  ASSUME clock \in Nat, Placed, OneOfEach, InOrder, KeysPending, Grows, SameJobs
  PROVE  Placed' /\ OneOfEach' /\ InOrder' /\ KeysPending' /\ Active' = Active
<1>1. Active' = Active /\ pending' = pending
  BY SameActive DEF SameJobs
<1>2. OneOfEach'
  BY <1>1 DEF OneOfEach
<1>3. KeysPending'
  BY <1>1 DEF KeysPending, Coalescing
<1> QED
  BY <1>1, <1>2, <1>3, SamePlaced, SameOrder

-----------------------------------------------------------------------------
(* A lane takes a job.                                                     *)

LEMMA TakesFacts ==
  ASSUME QueueOK, LanesOK, Placed, NEW l, NEW c, Takes(l, c)
  PROVE  /\ l \in Lanes /\ c \in Channels /\ c \in Serves(l) /\ ~Busy(l)
         /\ lanes'[l].job = queue[c][1] /\ lanes'[l].phase = "run" /\ Busy(l)'
         /\ \A m \in Lanes \ {l} : lanes'[m] = lanes[m]
         /\ \A d \in Channels \ {c} : queue'[d] = queue[d]
         /\ IsSequence(queue[c]) /\ Len(queue[c]) \in Nat \ {0}
         /\ DOMAIN queue[c] = 1..Len(queue[c]) /\ DOMAIN queue'[c] = 1..(Len(queue[c]) - 1)
         /\ \A i \in 1..(Len(queue[c]) - 1) : queue'[c][i] = queue[c][i + 1]
<1>1. PICK x : lanes' = [lanes EXCEPT ![l] = x] /\ x.job = Head(queue[c]) /\ x.phase = "run"
  BY DEF Takes
<1>2. l \in Lanes /\ c \in Channels /\ c \in Serves(l) /\ ~Busy(l) /\ queue[c] # <<>>
  BY DEF Takes
<1>3. PICK s : s = queue[c]
  OBVIOUS
<1>4. IsSequence(s) /\ s # <<>>
  BY <1>2, <1>3 DEF QueueOK
<1>5. /\ Len(s) \in Nat \ {0} /\ DOMAIN s = 1..Len(s)
      /\ DOMAIN Tail(s) = 1..(Len(s) - 1)
      /\ \A i \in 1..(Len(s) - 1) : Tail(s)[i] = s[i + 1]
      /\ Head(s) = s[1]
  BY <1>4, TailFacts
<1>6. PICK t : t = Tail(s)
  OBVIOUS
<1>7. queue' = [queue EXCEPT ![c] = t]
  BY <1>3, <1>6 DEF Takes
<1>8. queue'[c] = t /\ \A d \in Channels \ {c} : queue'[d] = queue[d]
  BY <1>2, <1>7 DEF QueueOK
<1>9. lanes'[l] = x /\ \A m \in Lanes \ {l} : lanes'[m] = lanes[m]
  BY <1>1, <1>2 DEF LanesOK
<1>10. Busy(l)'
  BY <1>1, <1>9 DEF Busy
<1> QED
  BY <1>1, <1>2, <1>3, <1>4, <1>5, <1>6, <1>8, <1>9, <1>10

LEMMA TakesMembers ==
  ASSUME QueueOK, LanesOK, Placed, NEW l, NEW c, Takes(l, c)
  PROVE  /\ \A j : j \in ToSet(queue[c]) <=> j = lanes'[l].job \/ j \in ToSet(queue'[c])
         /\ \A d \in Channels : ToSet(queue'[d]) \subseteq ToSet(queue[d])
<1>1. /\ c \in Channels
      /\ lanes'[l].job = queue[c][1]
      /\ \A d \in Channels \ {c} : queue'[d] = queue[d]
      /\ Len(queue[c]) \in Nat \ {0}
      /\ DOMAIN queue[c] = 1..Len(queue[c]) /\ DOMAIN queue'[c] = 1..(Len(queue[c]) - 1)
      /\ \A i \in 1..(Len(queue[c]) - 1) : queue'[c][i] = queue[c][i + 1]
  BY TakesFacts
<1>2. PICK n \in Nat \ {0} : n = Len(queue[c])
  BY <1>1
<1>20. PICK s, t : s = queue[c] /\ t = queue'[c]
  OBVIOUS
<1>3. DOMAIN s = 1..n /\ DOMAIN t = 1..(n - 1) /\ \A i \in 1..(n - 1) : t[i] = s[i + 1]
  BY <1>1, <1>2, <1>20
<1>4. ASSUME NEW j \in ToSet(s) PROVE j = s[1] \/ j \in ToSet(t)
  <2>1. PICK i \in DOMAIN s : s[i] = j
    BY DEF ToSet
  <2>2. CASE i = 1
    BY <2>1, <2>2
  <2>3. CASE i # 1
    <3>1. i - 1 \in DOMAIN t /\ i - 1 \in 1..(n - 1) /\ (i - 1) + 1 = i
      BY <1>3, <2>1, <2>3
    <3>2. t[i - 1] = j
      BY <1>3, <2>1, <3>1
    <3> QED
      BY <3>1, <3>2 DEF ToSet
  <2> QED
    BY <2>2, <2>3
<1>5. s[1] \in ToSet(s)
  <2>1. 1 \in DOMAIN s
    BY <1>2, <1>20, <1>3
  <2> QED
    BY <2>1 DEF ToSet
<1>6. ASSUME NEW j \in ToSet(t) PROVE j \in ToSet(s)
  <2>1. PICK i \in DOMAIN t : t[i] = j
    BY DEF ToSet
  <2>2. i + 1 \in DOMAIN s /\ s[i + 1] = j
    BY <1>3, <2>1
  <2> QED
    BY <2>2 DEF ToSet
<1> QED
  BY <1>1, <1>2, <1>20, <1>4, <1>5, <1>6

LEMMA TakesActive ==
  ASSUME QueueOK, LanesOK, Placed, NEW l, NEW c, Takes(l, c)
  PROVE  Active' = Active
<1>1. /\ l \in Lanes /\ c \in Channels /\ ~Busy(l) /\ Busy(l)'
      /\ \A m \in Lanes \ {l} : lanes'[m] = lanes[m]
      /\ \A d \in Channels \ {c} : queue'[d] = queue[d]
  BY TakesFacts
<1>2. \A j : j \in ToSet(queue[c]) <=> j = lanes'[l].job \/ j \in ToSet(queue'[c])
  BY TakesMembers
<1>3. \A m \in Lanes \ {l} : (Busy(m)' <=> Busy(m)) /\ lanes'[m].job = lanes[m].job
  BY <1>1 DEF Busy
<1>4. ASSUME NEW j
      PROVE  \/ \E m \in Lanes : Busy(m) /\ lanes[m].job = j
             \/ \E d \in Channels : j \in ToSet(queue[d])
             <=>
             \/ \E m \in Lanes : Busy(m)' /\ lanes'[m].job = j
             \/ \E d \in Channels : j \in ToSet(queue'[d])
  BY <1>1, <1>2, <1>3
<1>5. \A j : j \in Active' <=> j \in Active
  BY <1>4 DEF Active
<1> QED
  BY <1>5

LEMMA TakesPlaced ==
  ASSUME clock \in Nat, QueueOK, LanesOK, Placed, Grows, NEW l, NEW c, Takes(l, c)
  PROVE  Placed'
<1>1. /\ l \in Lanes /\ c \in Channels /\ c \in Serves(l) /\ ~Busy(l) /\ Busy(l)'
      /\ lanes'[l].phase = "run"
      /\ \A m \in Lanes \ {l} : lanes'[m] = lanes[m]
  BY TakesFacts
<1>2. lanes'[l].job \in ToSet(queue[c]) /\ \A d \in Channels : ToSet(queue'[d]) \subseteq ToSet(queue[d])
  BY TakesMembers
<1>3. Active' = Active
  BY TakesActive
<1>4. \A j \in Active' : JobForm(j)'
  BY <1>3, FormStays DEF Placed
<1>5. lanes'[l].job \in Active /\ lanes'[l].job.chan = c
  BY <1>1, <1>2, ActivePlaces DEF Placed
<1>6. lanes'[l].phase \in PhasesOf(lanes'[l].job.kind)
  <2>1. lanes'[l].job.kind \in {"alert", "test", "report", "card"}
    BY <1>5, JobFormKind DEF Placed
  <2> QED
    BY <1>1, <2>1 DEF PhasesOf
<1>7. ASSUME NEW m \in Lanes
      PROVE  IF Busy(m)' THEN lanes'[m].job.chan \in Serves(m)
                                /\ lanes'[m].phase \in PhasesOf(lanes'[m].job.kind)
             ELSE lanes'[m].job = NoJob
  <2>1. CASE m = l
    BY <1>1, <1>5, <1>6, <2>1
  <2>2. CASE m # l
    <3>1. lanes'[m] = lanes[m] /\ (Busy(m)' <=> Busy(m))
      BY <1>1, <2>2 DEF Busy
    <3>2. IF Busy(m) THEN lanes[m].job.chan \in Serves(m)
                                /\ lanes[m].phase \in PhasesOf(lanes[m].job.kind)
             ELSE lanes[m].job = NoJob
      BY DEF Placed
    <3> QED
      BY <3>1, <3>2
  <2> QED
    BY <2>1, <2>2
<1>8. \A d \in Channels : \A j \in ToSet(queue'[d]) : j.chan = d
  BY <1>2 DEF Placed
<1> QED
  BY <1>4, <1>7, <1>8 DEF Placed, Grows

LEMMA TakesOrder ==
  ASSUME clock \in Nat, QueueOK, LanesOK, Placed, InOrder, NEW l, NEW c, Takes(l, c)
  PROVE  InOrder'
<1>1. /\ l \in Lanes /\ c \in Channels /\ c \in Serves(l) /\ ~Busy(l) /\ Busy(l)'
      /\ lanes'[l].job = queue[c][1]
      /\ \A m \in Lanes \ {l} : lanes'[m] = lanes[m]
      /\ \A d \in Channels \ {c} : queue'[d] = queue[d]
      /\ Len(queue[c]) \in Nat \ {0}
      /\ DOMAIN queue[c] = 1..Len(queue[c]) /\ DOMAIN queue'[c] = 1..(Len(queue[c]) - 1)
      /\ \A i \in 1..(Len(queue[c]) - 1) : queue'[c][i] = queue[c][i + 1]
  BY TakesFacts
<1>2. lanes'[l].job.chan = c
  <2>1. lanes'[l].job \in ToSet(queue[c])
    BY TakesMembers
  <2> QED
    BY <1>1, <2>1 DEF Placed
<1>3. PICK n \in Nat \ {0} : n = Len(queue[c])
  BY <1>1
<1>30. PICK s, t : s = queue[c] /\ t = queue'[c]
  OBVIOUS
<1>4. DOMAIN s = 1..n /\ DOMAIN t = 1..(n - 1) /\ \A i \in 1..(n - 1) : t[i] = s[i + 1]
  BY <1>1, <1>3, <1>30
<1>5. \A i, k \in DOMAIN s : i < k => Before(s[i], s[k])
  BY <1>1, <1>3, <1>30 DEF InOrder
<1>6. \A i \in DOMAIN t : i + 1 \in DOMAIN s /\ t[i] = s[i + 1] /\ 1 \in DOMAIN s /\ 1 < i + 1
  BY <1>3, <1>30, <1>4
<1>7. \A i, k \in DOMAIN t : i < k => i + 1 < k + 1
  BY <1>4
<1>8. \A i, k \in DOMAIN t : i < k => Before(t[i], t[k])
  BY <1>5, <1>6, <1>7
<1>9. \A i \in DOMAIN t : Before(s[1], t[i])
  BY <1>5, <1>6
<1>10. \A m \in Lanes \ {l} : (Busy(m)' <=> Busy(m)) /\ lanes'[m].job = lanes[m].job
  BY <1>1 DEF Busy
<1>11. ASSUME NEW m \in Lanes \ {l} PROVE ~(Busy(m) /\ lanes[m].job.chan = c)
  BY <1>1, ServesApart DEF Placed
<1>12. ASSUME NEW d \in Channels
       PROVE  /\ \A i, k \in DOMAIN queue'[d] : i < k => Before(queue'[d][i], queue'[d][k])
              /\ \A m \in Lanes : Busy(m)' /\ lanes'[m].job.chan = d =>
                   \A i \in DOMAIN queue'[d] : Before(lanes'[m].job, queue'[d][i])
  <2>1. CASE d = c
    BY <1>1, <1>3, <1>30, <1>8, <1>9, <1>10, <1>11, <2>1
  <2>2. CASE d # c
    <3>1. queue'[d] = queue[d]
      BY <1>1, <2>2
    <3>2. \A m \in Lanes : Busy(m)' /\ lanes'[m].job.chan = d => Busy(m) /\ lanes'[m].job = lanes[m].job
      BY <1>2, <1>10, <2>2
    <3> QED
      BY <3>1, <3>2 DEF InOrder
  <2> QED
    BY <2>1, <2>2
<1> QED
  BY <1>12 DEF InOrder, Before

LEMMA TakesStep ==
  ASSUME clock \in Nat, QueueOK, LanesOK, Placed, OneOfEach, InOrder, KeysPending, Grows,
         NEW l, NEW c, Takes(l, c)
  PROVE  Placed' /\ OneOfEach' /\ InOrder' /\ KeysPending' /\ Active' = Active
<1>1. Active' = Active /\ pending' = pending
  BY TakesActive DEF Takes
<1>2. OneOfEach'
  BY <1>1 DEF OneOfEach
<1>3. KeysPending'
  BY <1>1 DEF KeysPending, Coalescing
<1> QED
  BY <1>1, <1>2, <1>3, TakesPlaced, TakesOrder

-----------------------------------------------------------------------------
(* A lane is done with its job.                                            *)

LEMMA EndsFacts ==
  ASSUME QueueOK, LanesOK, Placed, InOrder, NEW l, Ends(l)
  PROVE  /\ l \in Lanes /\ Busy(l) /\ ~Busy(l)' /\ lanes'[l].job = NoJob
         /\ \A m \in Lanes \ {l} : lanes'[m] = lanes[m] /\ (Busy(m)' <=> Busy(m))
         /\ queue' = queue /\ lanes[l].job \in Active /\ lanes[l].job.chan \in Serves(l)
         /\ Active = Active' \cup {lanes[l].job}
         /\ \A j \in Active' : j.chan = lanes[l].job.chan => Before(lanes[l].job, j)
<1>1. /\ l \in Lanes /\ Busy(l) /\ queue' = queue /\ lanes' = [lanes EXCEPT ![l] = Polling]
  BY DEF Ends, Over
<1>2. lanes'[l] = Polling /\ \A m \in Lanes \ {l} : lanes'[m] = lanes[m]
  BY <1>1 DEF LanesOK
<1>3. ~Busy(l)' /\ lanes'[l].job = NoJob
  BY <1>2, PollingLane DEF Busy
<1>4. \A m \in Lanes \ {l} : lanes'[m] = lanes[m] /\ (Busy(m)' <=> Busy(m))
  BY <1>2 DEF Busy
<1>5. lanes[l].job \in Active /\ lanes[l].job.chan \in Serves(l)
  BY <1>1, ActivePlaces DEF Placed
<1>6. ASSUME NEW j
      PROVE  \/ \E m \in Lanes : Busy(m) /\ lanes[m].job = j
             \/ \E d \in Channels : j \in ToSet(queue[d])
             <=>
             \/ \E m \in Lanes : Busy(m)' /\ lanes'[m].job = j
             \/ \E d \in Channels : j \in ToSet(queue'[d])
             \/ j = lanes[l].job
  BY <1>1, <1>3, <1>4
<1>7. \A j : j \in Active <=> (j \in Active' \/ j = lanes[l].job)
  BY <1>6 DEF Active
<1>8. ASSUME NEW j \in Active', j.chan = lanes[l].job.chan
      PROVE  Before(lanes[l].job, j)
  <2>1. \/ \E m \in Lanes : Busy(m)' /\ lanes'[m].job = j
        \/ \E d \in Channels : j \in ToSet(queue'[d])
    BY DEF Active
  <2>2. ASSUME NEW m \in Lanes, Busy(m)', lanes'[m].job = j PROVE FALSE
    <3>1. m # l /\ Busy(m) /\ lanes[m].job = j
      BY <1>3, <1>4, <2>2
    <3>2. j.chan \in Serves(m)
      BY <3>1 DEF Placed
    <3> QED
      BY <1>1, <1>5, <1>8, <3>1, <3>2, ServesApart
  <2>3. PICK d \in Channels : j \in ToSet(queue[d])
    BY <1>1, <2>1, <2>2
  <2>4. d = lanes[l].job.chan
    BY <1>8, <2>3 DEF Placed
  <2>5. PICK i \in DOMAIN queue[d] : queue[d][i] = j
    BY <2>3 DEF ToSet
  <2> QED
    BY <1>1, <2>4, <2>5 DEF InOrder
<1> QED
  BY <1>1, <1>2, <1>3, <1>4, <1>5, <1>7, <1>8

LEMMA EndsStep ==
  ASSUME clock \in Nat, QueueOK, LanesOK, Placed, OneOfEach, InOrder, KeysPending, Grows,
         NEW l, Ends(l)
  PROVE  Placed' /\ OneOfEach' /\ InOrder' /\ KeysPending' /\ Active' \subseteq Active
<1> DEFINE job == lanes[l].job
<1>1. /\ l \in Lanes /\ Busy(l) /\ ~Busy(l)' /\ lanes'[l].job = NoJob
      /\ \A m \in Lanes \ {l} : lanes'[m] = lanes[m] /\ (Busy(m)' <=> Busy(m))
      /\ queue' = queue /\ job \in Active
      /\ Active = Active' \cup {job}
      /\ \A j \in Active' : j.chan = job.chan => Before(job, j)
  BY EndsFacts
<1>2. \A j \in Active' : JobForm(j)'
  BY <1>1, FormStays DEF Placed
<1>3. ASSUME NEW m \in Lanes
      PROVE  IF Busy(m)' THEN lanes'[m].job.chan \in Serves(m)
                                /\ lanes'[m].phase \in PhasesOf(lanes'[m].job.kind)
             ELSE lanes'[m].job = NoJob
  <2>1. CASE m = l
    BY <1>1, <2>1
  <2>2. CASE m # l
    <3>1. IF Busy(m) THEN lanes[m].job.chan \in Serves(m)
                                /\ lanes[m].phase \in PhasesOf(lanes[m].job.kind)
             ELSE lanes[m].job = NoJob
      BY DEF Placed
    <3> QED
      BY <1>1, <2>2, <3>1
  <2> QED
    BY <2>1, <2>2
<1>4. \A d \in Channels : \A j \in ToSet(queue'[d]) : j.chan = d
  BY <1>1 DEF Placed
<1>5. Placed'
  BY <1>2, <1>3, <1>4 DEF Placed, Grows
<1>6. OneOfEach'
  BY <1>1 DEF OneOfEach
<1>7. InOrder'
  <2>1. \A m \in Lanes : Busy(m)' => Busy(m) /\ lanes'[m].job = lanes[m].job
    BY <1>1
  <2> QED
    BY <1>1, <2>1 DEF InOrder, Before
<1>8. pending' = pending \ {<<job.chan, job.key>>}
  BY DEF Ends, Over
<1>9. KeysPending'
  <2> HIDE DEF job
  <2>1. ASSUME NEW j \in Active', j.chan \in Deduplicated
        PROVE  <<j.chan, j.key>> # <<job.chan, job.key>>
    <3>1. j.chan = job.chan => j.key # job.key
      BY <1>1, <2>1 DEF Before
    <3> QED
      BY <3>1
  <2>2. pending = Coalescing(Active)
    BY DEF KeysPending
  <2>3. pending = {<<j.chan, j.key>> : j \in {i \in Active : i.chan \in Deduplicated}}
    BY <2>2 DEF Coalescing
  <2>4. ASSUME NEW x
        PROVE  x \in pending' <=> x \in {<<j.chan, j.key>> : j \in {i \in Active' : i.chan \in Deduplicated}}
    <3>1. x \in pending <=> \E j \in Active : j.chan \in Deduplicated /\ x = <<j.chan, j.key>>
      BY <2>3
    <3>2. (\E j \in Active : j.chan \in Deduplicated /\ x = <<j.chan, j.key>>)
            /\ x # <<job.chan, job.key>>
          <=> \E j \in Active' : j.chan \in Deduplicated /\ x = <<j.chan, j.key>>
      BY <1>1, <2>1
    <3>3. x \in pending' <=> x \in pending /\ x # <<job.chan, job.key>>
      BY <1>8
    <3> QED
      BY <3>1, <3>2, <3>3
  <2>5. pending' = {<<j.chan, j.key>> : j \in {i \in Active' : i.chan \in Deduplicated}}
    BY <2>4
  <2> QED
    BY <2>5 DEF KeysPending, Coalescing
<1> QED
  BY <1>1, <1>5, <1>6, <1>7, <1>9

-----------------------------------------------------------------------------
(* New jobs.                                                               *)

LEMMA ConcatMembers ==
  ASSUME NEW s, IsSequence(s), NEW t, IsSequence(t)
  PROVE  ToSet(s \o t) = ToSet(s) \cup ToSet(t)
<1>1. PICK r, n, m : r = s \o t /\ n = Len(s) /\ m = Len(t)
  OBVIOUS
<1>2. /\ n \in Nat /\ m \in Nat /\ DOMAIN s = 1..n /\ DOMAIN t = 1..m /\ DOMAIN r = 1..(n + m)
      /\ \A i \in 1..(n + m) : r[i] = IF i <= n THEN s[i] ELSE t[i - n]
  BY <1>1, ConcatFacts
<1>3. ASSUME NEW x \in ToSet(r) PROVE x \in ToSet(s) \cup ToSet(t)
  <2>1. PICK i \in DOMAIN r : r[i] = x
    BY DEF ToSet
  <2>2. CASE i <= n
    <3>1. i \in DOMAIN s /\ s[i] = x
      BY <1>2, <2>1, <2>2
    <3> QED
      BY <3>1 DEF ToSet
  <2>3. CASE ~(i <= n)
    <3>1. i - n \in DOMAIN t /\ t[i - n] = x
      BY <1>2, <2>1, <2>3
    <3> QED
      BY <3>1 DEF ToSet
  <2> QED
    BY <2>2, <2>3
<1>4. ASSUME NEW x \in ToSet(s) PROVE x \in ToSet(r)
  <2>1. PICK i \in DOMAIN s : s[i] = x
    BY DEF ToSet
  <2>2. i \in DOMAIN r /\ r[i] = x
    BY <1>2, <2>1
  <2> QED
    BY <2>2 DEF ToSet
<1>5. ASSUME NEW x \in ToSet(t) PROVE x \in ToSet(r)
  <2>1. PICK i \in DOMAIN t : t[i] = x
    BY DEF ToSet
  <2>2. /\ i + n \in DOMAIN r /\ ~(i + n <= n) /\ (i + n) - n = i /\ i + n \in 1..(n + m)
    BY <1>2, <2>1
  <2>3. r[i + n] = t[(i + n) - n]
    BY <1>2, <2>2
  <2>4. r[i + n] = x
    BY <2>1, <2>2, <2>3
  <2> QED
    BY <2>2, <2>4 DEF ToSet
<1> QED
  BY <1>1, <1>3, <1>4, <1>5

LEMMA AppendsFacts ==
  ASSUME QueueOK, LanesOK, Placed, NEW c, NEW new, Appends(c, new)
  PROVE  /\ c \in Channels /\ IsSequence(new) /\ IsSequence(queue[c])
         /\ queue'[c] = queue[c] \o new
         /\ \A d \in Channels \ {c} : queue'[d] = queue[d]
         /\ ToSet(queue'[c]) = ToSet(queue[c]) \cup ToSet(new)
         /\ Active' = Active \cup ToSet(new)
         /\ lanes' = lanes
<1>1. c \in Channels /\ queue' = [queue EXCEPT ![c] = @ \o new] /\ lanes' = lanes /\ IsSequence(new)
  BY DEF Appends
<1>2. IsSequence(queue[c]) /\ DOMAIN queue = Channels
  BY <1>1 DEF QueueOK
<1>3. queue'[c] = queue[c] \o new /\ \A d \in Channels \ {c} : queue'[d] = queue[d]
  BY <1>1, <1>2
<1>4. ToSet(queue'[c]) = ToSet(queue[c]) \cup ToSet(new)
  BY <1>1, <1>2, <1>3, ConcatMembers
<1>5. ASSUME NEW j
      PROVE  \/ \E m \in Lanes : Busy(m)' /\ lanes'[m].job = j
             \/ \E d \in Channels : j \in ToSet(queue'[d])
             <=>
             \/ \E m \in Lanes : Busy(m) /\ lanes[m].job = j
             \/ \E d \in Channels : j \in ToSet(queue[d])
             \/ j \in ToSet(new)
  <2>1. \A m \in Lanes : Busy(m)' <=> Busy(m)
    BY <1>1 DEF Busy
  <2>2. (\E d \in Channels : j \in ToSet(queue'[d])) <=>
        ((\E d \in Channels : j \in ToSet(queue[d])) \/ j \in ToSet(new))
    BY <1>1, <1>3, <1>4
  <2> QED
    BY <1>1, <2>1, <2>2
<1>6. \A j : j \in Active' <=> j \in Active \cup ToSet(new)
  BY <1>5 DEF Active
<1> QED
  BY <1>1, <1>2, <1>3, <1>4, <1>6

LEMMA AppendsOrder ==
  ASSUME QueueOK, LanesOK, Placed, InOrder, NEW c, NEW new, Appends(c, new)
  PROVE  InOrder'
<1>1. /\ c \in Channels /\ IsSequence(new) /\ IsSequence(queue[c])
      /\ queue'[c] = queue[c] \o new
      /\ \A d \in Channels \ {c} : queue'[d] = queue[d]
      /\ lanes' = lanes
  BY AppendsFacts
<1>2. PICK r, s, n, m : r = s \o new /\ s = queue[c] /\ n = Len(s) /\ m = Len(new)
  OBVIOUS
<1>3. /\ n \in Nat /\ m \in Nat /\ DOMAIN s = 1..n /\ DOMAIN new = 1..m /\ DOMAIN r = 1..(n + m)
      /\ \A i \in 1..(n + m) : r[i] = IF i <= n THEN s[i] ELSE new[i - n]
  <2>1. IsSequence(s) /\ IsSequence(new)
    BY <1>1, <1>2
  <2> QED
    BY <1>2, <2>1, ConcatFacts
<1>4. /\ \A i, k \in DOMAIN new : i < k => Before(new[i], new[k])
      /\ \A j \in Active : j.chan = c => \A i \in DOMAIN new : Before(j, new[i])
  BY DEF Appends, Later
<1>5. \A i \in DOMAIN s : s[i] \in Active /\ s[i].chan = c
  <2>1. \A i \in DOMAIN s : s[i] \in ToSet(s)
    BY DEF ToSet
  <2> QED
    BY <1>1, <1>2, <2>1, ActivePlaces DEF Placed
<1>6. \A i, k \in DOMAIN s : i < k => Before(s[i], s[k])
  BY <1>1, <1>2 DEF InOrder
<1>7. \A i \in DOMAIN r : \/ i <= n /\ i \in DOMAIN s /\ r[i] = s[i]
                          \/ ~(i <= n) /\ i - n \in DOMAIN new /\ r[i] = new[i - n]
  BY <1>3
<1>8. ASSUME NEW i \in DOMAIN r, NEW k \in DOMAIN r, i < k PROVE Before(r[i], r[k])
  <2>1. CASE k <= n
    <3>1. i <= n
      BY <1>3, <1>8, <2>1
    <3> QED
      BY <1>6, <1>7, <1>8, <2>1, <3>1
  <2>2. CASE i <= n /\ ~(k <= n)
    BY <1>4, <1>5, <1>7, <2>2
  <2>3. CASE ~(i <= n)
    <3>1. ~(k <= n) /\ i - n < k - n
      BY <1>3, <1>8, <2>3
    <3> QED
      BY <1>4, <1>7, <2>3, <3>1
  <2> QED
    BY <2>1, <2>2, <2>3
<1>9. ASSUME NEW x \in Lanes, Busy(x), lanes[x].job.chan = c, NEW i \in DOMAIN r
      PROVE  Before(lanes[x].job, r[i])
  <2>1. CASE i <= n
    BY <1>1, <1>2, <1>7, <1>9, <2>1 DEF InOrder
  <2>2. CASE ~(i <= n)
    <3>1. lanes[x].job \in Active
      BY <1>9, ActivePlaces
    <3> QED
      BY <1>4, <1>7, <1>9, <2>2, <3>1
  <2> QED
    BY <2>1, <2>2
<1>10. \A x \in Lanes : Busy(x)' <=> Busy(x)
  BY <1>1 DEF Busy
<1>11. ASSUME NEW d \in Channels
       PROVE  /\ \A i, k \in DOMAIN queue'[d] : i < k => Before(queue'[d][i], queue'[d][k])
              /\ \A x \in Lanes : Busy(x)' /\ lanes'[x].job.chan = d =>
                   \A i \in DOMAIN queue'[d] : Before(lanes'[x].job, queue'[d][i])
  <2>1. CASE d = c
    BY <1>1, <1>2, <1>8, <1>9, <1>10, <2>1
  <2>2. CASE d # c
    <3>1. queue'[d] = queue[d]
      BY <1>1, <2>2
    <3> QED
      BY <1>1, <1>10, <3>1 DEF InOrder
  <2> QED
    BY <2>1, <2>2
<1> QED
  BY <1>11 DEF InOrder, Before

LEMMA AppendsStep ==
  ASSUME clock \in Nat, QueueOK, LanesOK, Placed, OneOfEach, InOrder, KeysPending, Grows,
         NEW c, NEW new, Appends(c, new)
  PROVE  /\ Placed' /\ OneOfEach' /\ InOrder' /\ KeysPending'
         /\ Active' = Active \cup ToSet(new)
<1>1. /\ c \in Channels /\ IsSequence(new)
      /\ \A d \in Channels \ {c} : queue'[d] = queue[d]
      /\ ToSet(queue'[c]) = ToSet(queue[c]) \cup ToSet(new)
      /\ Active' = Active \cup ToSet(new)
      /\ lanes' = lanes
  BY AppendsFacts
<1>2. /\ \A i \in DOMAIN new : new[i].chan = c
      /\ \A i \in DOMAIN new : new[i].kind = "alert" =>
           /\ DOMAIN new = {i}
           /\ \A j \in Active : j.kind = "alert" => j.subject # new[i].subject
      /\ \A i \in DOMAIN new : JobForm(new[i])'
  BY DEF Appends, Later
<1>3. \A j \in ToSet(new) : \E i \in DOMAIN new : new[i] = j
  BY DEF ToSet
<1>4. \A j \in Active' : JobForm(j)'
  BY <1>1, <1>2, <1>3, FormStays DEF Placed
<1>5. \A d \in Channels : \A j \in ToSet(queue'[d]) : j.chan = d
  BY <1>1, <1>2, <1>3 DEF Placed
<1>6. Placed'
  BY <1>1, <1>4, <1>5 DEF Placed, Grows, Busy
<1>7. OneOfEach'
  <2>1. ASSUME NEW j \in Active', NEW k \in Active', j.kind = "alert", k.kind = "alert",
               j.subject = k.subject
        PROVE  j = k
    <3>1. CASE j \in Active /\ k \in Active
      BY <2>1, <3>1 DEF OneOfEach
    <3>2. CASE j \in ToSet(new) /\ k \in Active
      <4>1. PICK i \in DOMAIN new : new[i] = j
        BY <1>3, <3>2
      <4> QED
        BY <1>2, <2>1, <3>2, <4>1
    <3>3. CASE j \in Active /\ k \in ToSet(new)
      <4>1. PICK i \in DOMAIN new : new[i] = k
        BY <1>3, <3>3
      <4> QED
        BY <1>2, <2>1, <3>3, <4>1
    <3>4. CASE j \in ToSet(new) /\ k \in ToSet(new)
      <4>1. PICK i \in DOMAIN new : new[i] = j
        BY <1>3, <3>4
      <4>2. PICK n \in DOMAIN new : new[n] = k
        BY <1>3, <3>4
      <4> QED
        BY <1>2, <2>1, <4>1, <4>2
    <3> QED
      BY <1>1, <3>1, <3>2, <3>3, <3>4
  <2> QED
    BY <2>1 DEF OneOfEach
<1>8. KeysPending'
  <2>1. pending' = pending \cup Coalescing(ToSet(new)) /\ pending = Coalescing(Active)
    BY DEF Appends, KeysPending
  <2>2. Coalescing(Active \cup ToSet(new)) = Coalescing(Active) \cup Coalescing(ToSet(new))
    BY DEF Coalescing
  <2>3. pending' = Coalescing(Active \cup ToSet(new))
    BY <2>1, <2>2
  <2> QED
    BY <1>1, <2>3 DEF KeysPending, Coalescing
<1> QED
  BY <1>1, <1>6, <1>7, <1>8, AppendsOrder

\* The jobs of the dashboard's channel are cards, which coalesce nothing there.
LEMMA DashboardJobs ==
  ASSUME NEW j, JobForm(j), j.chan = "dashboard"
  PROVE  j.kind = "card" /\ j.chan \notin Deduplicated
<1>1. j.kind \in {"alert", "test", "report", "card"}
  BY JobFormKind
<1>2. "dashboard" \notin Deduplicated
  BY DEF Deduplicated
<1> QED
  BY <1>1, <1>2 DEF JobForm, AlertForm, TestForm, ReportForm

LEMMA ReplacesFacts ==
  ASSUME QueueOK, LanesOK, Placed, NEW job, Replaces(job)
  PROVE  /\ lanes' = lanes /\ pending' = pending
         /\ queue'["dashboard"] = <<job>>
         /\ \A d \in Channels \ {"dashboard"} : queue'[d] = queue[d]
         /\ ToSet(queue'["dashboard"]) = {job}
         /\ Active' \subseteq Active \cup {job} /\ job \in Active'
         /\ \A j \in Active : j.chan # "dashboard" => j \in Active'
<1>1. /\ lanes' = lanes /\ pending' = pending /\ queue' = [queue EXCEPT !["dashboard"] = <<job>>]
      /\ job.chan = "dashboard"
  BY DEF Replaces
<1>2. DOMAIN queue = Channels /\ "dashboard" \in Channels
  BY DEF QueueOK, Channels
<1>3. PICK s : s = <<job>>
  OBVIOUS
<1>4. ToSet(s) = {job}
  <2>1. DOMAIN s = {1} /\ s[1] = job
    BY <1>3
  <2> QED
    BY <2>1 DEF ToSet
<1>5. queue'["dashboard"] = s /\ \A d \in Channels \ {"dashboard"} : queue'[d] = queue[d]
  BY <1>1, <1>2, <1>3
<1>6. \A m \in Lanes : Busy(m)' <=> Busy(m)
  BY <1>1 DEF Busy
<1>7. ASSUME NEW j
      PROVE  j \in Active' <=>
               \/ \E m \in Lanes : Busy(m)' /\ lanes'[m].job = j
               \/ \E d \in Channels : j \in ToSet(queue'[d])
  BY DEF Active
<1>8. ASSUME NEW j \in Active' PROVE j \in Active \/ j = job
  <2>1. CASE \E m \in Lanes : Busy(m)' /\ lanes'[m].job = j
    BY <1>1, <1>6, <2>1, ActivePlaces
  <2>2. CASE \E d \in Channels : j \in ToSet(queue'[d])
    BY <1>4, <1>5, <2>2, ActivePlaces
  <2> QED
    BY <1>7, <2>1, <2>2
<1>9. ASSUME NEW j \in Active, j.chan # "dashboard" PROVE j \in Active'
  <2>1. CASE \E m \in Lanes : Busy(m) /\ lanes[m].job = j
    BY <1>1, <1>6, <1>7, <2>1
  <2>2. CASE \E d \in Channels : j \in ToSet(queue[d])
    <3>1. PICK d \in Channels : j \in ToSet(queue[d])
      BY <2>2
    <3>2. d # "dashboard"
      BY <1>9, <3>1 DEF Placed
    <3> QED
      BY <1>5, <1>7, <3>1, <3>2
  <2> QED
    BY <2>1, <2>2, ActivePlaces
<1>10. job \in Active'
  BY <1>2, <1>4, <1>5, <1>7
<1> QED
  BY <1>1, <1>3, <1>4, <1>5, <1>8, <1>9, <1>10

LEMMA ReplacesStep ==
  ASSUME clock \in Nat, QueueOK, LanesOK, Placed, OneOfEach, InOrder, KeysPending, Grows,
         NEW job, Replaces(job)
  PROVE  /\ Placed' /\ OneOfEach' /\ InOrder' /\ KeysPending'
         /\ Active' \subseteq Active \cup {job} /\ job.kind = "card"
<1>1. /\ lanes' = lanes /\ pending' = pending
      /\ queue'["dashboard"] = <<job>>
      /\ \A d \in Channels \ {"dashboard"} : queue'[d] = queue[d]
      /\ ToSet(queue'["dashboard"]) = {job}
      /\ Active' \subseteq Active \cup {job} /\ job \in Active'
      /\ \A j \in Active : j.chan # "dashboard" => j \in Active'
  BY ReplacesFacts
<1>2. job.kind = "card" /\ job.chan = "dashboard" /\ JobForm(job)'
  BY DEF Replaces
<1>3. \A j \in Active' : JobForm(j)'
  BY <1>1, <1>2, FormStays DEF Placed
<1>4. \A m \in Lanes : Busy(m)' <=> Busy(m)
  BY <1>1 DEF Busy
<1>5. ASSUME NEW d \in Channels, NEW j \in ToSet(queue'[d]) PROVE j.chan = d
  BY <1>1, <1>2 DEF Placed
<1>6. ASSUME NEW m \in Lanes
      PROVE  IF Busy(m)' THEN lanes'[m].job.chan \in Serves(m)
                                /\ lanes'[m].phase \in PhasesOf(lanes'[m].job.kind)
             ELSE lanes'[m].job = NoJob
  <2>1. IF Busy(m) THEN lanes[m].job.chan \in Serves(m)
                                /\ lanes[m].phase \in PhasesOf(lanes[m].job.kind)
             ELSE lanes[m].job = NoJob
    BY DEF Placed
  <2> QED
    BY <1>1, <1>4, <2>1
<1>7. Placed'
  BY <1>3, <1>5, <1>6 DEF Placed, Grows
<1>8. OneOfEach'
  BY <1>1, <1>2 DEF OneOfEach
<1>9. InOrder'
  <2>1. ASSUME NEW d \in Channels
        PROVE  /\ \A i, k \in DOMAIN queue'[d] : i < k => Before(queue'[d][i], queue'[d][k])
               /\ \A x \in Lanes : Busy(x)' /\ lanes'[x].job.chan = d =>
                    \A i \in DOMAIN queue'[d] : Before(lanes'[x].job, queue'[d][i])
    <3>1. CASE d = "dashboard"
      <4>1. PICK s : s = <<job>>
        OBVIOUS
      <4>2. queue'[d] = s /\ DOMAIN s = {1} /\ s[1] = job
        BY <1>1, <3>1, <4>1
      <4>3. \A i, k \in {1} : ~(i < k)
        OBVIOUS
      <4>4. ASSUME NEW x \in Lanes, Busy(x), lanes[x].job.chan = d PROVE Before(lanes[x].job, job)
        <5>1. JobForm(lanes[x].job)
          BY <4>4, ActivePlaces DEF Placed
        <5>2. lanes[x].job.kind = "card" /\ lanes[x].job.chan \notin Deduplicated
          BY <3>1, <4>4, <5>1, DashboardJobs
        <5> QED
          BY <5>2 DEF Before
      <4> QED
        BY <1>1, <1>4, <4>2, <4>3, <4>4
    <3>2. CASE d # "dashboard"
      <4>1. queue'[d] = queue[d]
        BY <1>1, <3>2
      <4> QED
        BY <1>1, <1>4, <4>1 DEF InOrder
    <3> QED
      BY <3>1, <3>2
  <2> QED
    BY <2>1 DEF InOrder, Before
<1>10. KeysPending'
  <2>1. pending = Coalescing(Active)
    BY DEF KeysPending
  <2>2. "dashboard" \notin Deduplicated
    BY DEF Deduplicated
  <2>3. {j \in Active' : j.chan \in Deduplicated} = {j \in Active : j.chan \in Deduplicated}
    BY <1>1, <1>2, <2>2
  <2>4. pending' = {<<j.chan, j.key>> : j \in {i \in Active' : i.chan \in Deduplicated}}
    BY <1>1, <2>1, <2>3 DEF Coalescing
  <2> QED
    BY <2>4 DEF KeysPending, Coalescing
<1> QED
  BY <1>1, <1>2, <1>7, <1>8, <1>9, <1>10

LEMMA EmptiesStep ==
  ASSUME Grows, Empties
  PROVE  Placed' /\ OneOfEach' /\ InOrder' /\ KeysPending' /\ Active' = {}
<1>1. /\ queue' = [c \in Channels |-> <<>>] /\ pending' = {}
      /\ lanes' = [l \in Lanes |-> Polling]
  BY DEF Empties
<1>2. \A l \in Lanes : ~Busy(l)' /\ lanes'[l].job = NoJob
  BY <1>1, PollingLane DEF Busy
<1>3. \A c \in Channels : DOMAIN queue'[c] = {}
  BY <1>1
<1>4. \A c \in Channels : ToSet(queue'[c]) = {}
  BY <1>3 DEF ToSet
<1>5. \A j : j \notin Active'
  BY <1>2, <1>4 DEF Active
<1>6. Active' = {}
  BY <1>5
<1>7. Placed'
  BY <1>2, <1>4, <1>6 DEF Placed, Grows
<1>8. OneOfEach'
  BY <1>6 DEF OneOfEach
<1>9. InOrder'
  BY <1>2, <1>3 DEF InOrder
<1>10. KeysPending'
  <2>1. {<<j.chan, j.key>> : j \in {i \in Active' : i.chan \in Deduplicated}} = {}
    BY <1>6
  <2> QED
    BY <1>1, <2>1 DEF KeysPending, Coalescing
<1> QED
  BY <1>6, <1>7, <1>8, <1>9, <1>10

-----------------------------------------------------------------------------
(* The producers.                                                          *)

LEMMA OneFacts ==
  ASSUME NEW job
  PROVE  /\ IsSequence(<<job>>) /\ DOMAIN <<job>> = {1} /\ <<job>>[1] = job
         /\ ToSet(<<job>>) = {job}
<1>1. PICK s : s = <<job>>
  OBVIOUS
<1>2. DOMAIN s = 1..1 /\ s[1] = job /\ s = [i \in 1..1 |-> s[i]]
  BY <1>1
<1>3. IsSequence(s)
  BY <1>2, MakeSequence
<1>4. DOMAIN s = {1}
  BY <1>2
<1>5. ToSet(s) = {job}
  BY <1>2, <1>4 DEF ToSet
<1> QED
  BY <1>1, <1>2, <1>3, <1>4, <1>5

LEMMA AppendIsConcat ==
  ASSUME NEW s, IsSequence(s), NEW job
  PROVE  Append(s, job) = s \o <<job>>
<1> DEFINE S == ToSet(s) \cup {job}
<1>1. s \in Seq(ToSet(s))
  BY DEF IsSequence
<1>2. s \in Seq(S)
  BY <1>1
<1> HIDE DEF S
<1>3. job \in S
  BY DEF S
<1> QED
  BY <1>2, <1>3

\* A job that is later than those of its channel, apart from its key.
Newest(job) ==
  /\ \A j \in Active : j.chan = job.chan =>
       /\ j.kind = job.kind /\ j.kind \in {"alert", "test"} => j.subject[2] < job.subject[2]
       /\ j.kind = job.kind /\ j.kind = "report" => j.at <= job.at
  /\ job.kind = "alert" => \A j \in Active : j.kind = "alert" => j.subject # job.subject

LEMMA NewestIsLater ==
  ASSUME NEW job, Newest(job),
         job.chan \in Deduplicated => \A j \in Active : j.chan = job.chan => j.key # job.key
  PROVE  Later(job.chan, <<job>>)
<1>1. PICK s : s = <<job>>
  OBVIOUS
<1>2. DOMAIN s = {1} /\ s[1] = job
  BY <1>1, OneFacts
<1>3. ASSUME NEW j \in Active, j.chan = job.chan PROVE Before(j, job)
  BY <1>3 DEF Newest, Before
<1>4. \A i, k \in DOMAIN s : ~(i < k)
  BY <1>2
<1>5. Later(job.chan, s)
  BY <1>2, <1>3, <1>4 DEF Later, Newest
<1> QED
  BY <1>1, <1>5

LEMMA EnqueueMoves ==
  ASSUME QueueOK, Placed, KeysPending, NEW job, JobForm(job)', Newest(job),
         Becomes(Enqueue(State, job)), UNCHANGED lanes
  PROVE  SameJobs \/ Appends(job.chan, <<job>>) \/ Replaces(job)
<1>1. PICK c : c = job.chan
  OBVIOUS
<1>2. c \in Channels
  <2>1. job \in Jobs
    BY DEF JobForm
  <2> QED
    BY <1>1, <2>1, JobFields
<1>3. \/ queue' = queue /\ pending' = pending
      \/ /\ c \in Deduplicated /\ <<c, job.key>> \notin pending
         /\ queue' = [queue EXCEPT ![c] = Append(@, job)] /\ pending' = pending \cup {<<c, job.key>>}
      \/ /\ c \notin Deduplicated /\ c # "dashboard"
         /\ queue' = [queue EXCEPT ![c] = Append(@, job)] /\ pending' = pending
      \/ c = "dashboard" /\ queue' = [queue EXCEPT !["dashboard"] = <<job>>] /\ pending' = pending
  BY <1>1 DEF Becomes, Enqueue, EnqueueDeduplicated, Appended, State
<1>4. IsSequence(queue[c]) /\ DOMAIN queue = Channels
  BY <1>2 DEF QueueOK
<1>5. Append(queue[c], job) = queue[c] \o <<job>>
  BY <1>4, AppendIsConcat
<1>6. IsSequence(<<job>>) /\ DOMAIN <<job>> = {1} /\ <<job>>[1] = job /\ ToSet(<<job>>) = {job}
  BY OneFacts
<1>7. CASE queue' = queue /\ pending' = pending
  <2>1. \A l \in Lanes : Busy(l)' <=> Busy(l)
    BY DEF Busy
  <2>2. SameJobs
    BY <1>7, <2>1 DEF SameJobs, Placed
  <2> QED
    BY <2>2
<1>8. CASE /\ c \in Deduplicated /\ <<c, job.key>> \notin pending
           /\ queue' = [queue EXCEPT ![c] = Append(@, job)] /\ pending' = pending \cup {<<c, job.key>>}
  <2>1. ASSUME NEW j \in Active, j.chan = c PROVE j.key # job.key
    <3>1. <<j.chan, j.key>> \in pending
      BY <1>8, <2>1 DEF KeysPending, Coalescing
    <3> QED
      BY <1>8, <2>1, <3>1
  <2>2. Later(c, <<job>>)
    BY <1>1, <2>1, NewestIsLater
  <2>3. Coalescing({job}) = {<<c, job.key>>}
    BY <1>1, <1>8 DEF Coalescing
  <2>4. queue' = [queue EXCEPT ![c] = @ \o <<job>>]
    BY <1>5, <1>8
  <2>5. pending' = pending \cup Coalescing(ToSet(<<job>>))
    BY <1>6, <1>8, <2>3
  <2>6. \A i \in DOMAIN <<job>> : JobForm(<<job>>[i])'
    <3>1. PICK s : s = <<job>>
      OBVIOUS
    <3>2. DOMAIN s = {1} /\ s[1] = job
      BY <1>6, <3>1
    <3>3. \A i \in DOMAIN s : JobForm(s[i])'
      BY <3>2
    <3> QED
      BY <3>1, <3>3
  <2> QED
    BY <1>1, <1>2, <1>6, <2>2, <2>4, <2>5, <2>6 DEF Appends
<1>9. CASE /\ c \notin Deduplicated /\ c # "dashboard"
           /\ queue' = [queue EXCEPT ![c] = Append(@, job)] /\ pending' = pending
  <2>2. Later(c, <<job>>)
    BY <1>1, <1>9, NewestIsLater
  <2>3. Coalescing({job}) = {}
    BY <1>1, <1>9 DEF Coalescing
  <2>4. queue' = [queue EXCEPT ![c] = @ \o <<job>>]
    BY <1>5, <1>9
  <2>5. pending' = pending \cup Coalescing(ToSet(<<job>>))
    BY <1>6, <1>9, <2>3
  <2>6. \A i \in DOMAIN <<job>> : JobForm(<<job>>[i])'
    <3>1. PICK s : s = <<job>>
      OBVIOUS
    <3>2. DOMAIN s = {1} /\ s[1] = job
      BY <1>6, <3>1
    <3>3. \A i \in DOMAIN s : JobForm(s[i])'
      BY <3>2
    <3> QED
      BY <3>1, <3>3
  <2> QED
    BY <1>1, <1>2, <1>6, <2>2, <2>4, <2>5, <2>6 DEF Appends
<1>10. CASE c = "dashboard" /\ queue' = [queue EXCEPT !["dashboard"] = <<job>>] /\ pending' = pending
  <2>1. job.kind = "card"
    <3>1. job.kind \in {"alert", "test", "report", "card"}
      <4>1. job \in Jobs
        BY DEF JobForm
      <4> QED
        BY <4>1, JobFields
    <3>2. job.kind = "alert" => job.chan \in {"emergency", "alert"}
      BY DEF JobForm, AlertForm
    <3>3. job.kind = "test" => job.chan = "interaction"
      BY DEF JobForm, TestForm
    <3>4. job.kind = "report" => job.chan = "report"
      BY DEF JobForm, ReportForm
    <3> QED
      BY <1>1, <1>10, <3>1, <3>2, <3>3, <3>4
  <2> QED
    BY <1>1, <1>10, <2>1 DEF Replaces
<1> QED
  BY <1>3, <1>7, <1>8, <1>9, <1>10

\* A new job: of a number that was not used, or of a period that was not reported.
Fresh(j) ==
  /\ j.kind = "alert" => ~(j.subject[2] < submitted)
  /\ j.kind = "test" => ~(j.subject[2] < changes)
  /\ j.kind = "report" => j.key[2] \in DOMAIN lastRun /\ lastRun[j.key[2]] < PeriodStart(j.at)

\* What a producer does.
Produces ==
  /\ \/ SameJobs
     \/ \E c, new : Appends(c, new) /\ \A i \in DOMAIN new : Fresh(new[i])
     \/ \E job : Replaces(job)
  /\ UNCHANGED lanes /\ Grows

LEMMA ProducesOne ==
  ASSUME QueueOK, Placed, KeysPending, NEW job, JobForm(job)', Newest(job), Fresh(job), Grows,
         Becomes(Enqueue(State, job)), UNCHANGED lanes
  PROVE  Produces
<1>1. CASE Appends(job.chan, <<job>>)
  <2>1. PICK s : s = <<job>>
    OBVIOUS
  <2>2. DOMAIN s = {1} /\ s[1] = job
    BY <2>1, OneFacts
  <2>3. Appends(job.chan, s) /\ \A i \in DOMAIN s : Fresh(s[i])
    BY <1>1, <2>1, <2>2
  <2> QED
    BY <2>3 DEF Produces
<1>2. CASE SameJobs
  BY <1>2 DEF Produces
<1>3. CASE Replaces(job)
  BY <1>3 DEF Produces
<1> QED
  BY <1>1, <1>2, <1>3, EnqueueMoves

LEMMA ProducesNone ==
  ASSUME Placed, UNCHANGED <<queue, pending, lanes>>, Grows
  PROVE  Produces
<1>1. \A l \in Lanes : Busy(l)' <=> Busy(l)
  BY DEF Busy
<1>2. SameJobs
  BY <1>1 DEF SameJobs, Placed
<1> QED
  BY <1>2 DEF Produces

LEMMA AlertProduces ==
  ASSUME clock \in Nat, QueueOK, Placed, KeysPending, UNCHANGED clock,
         NEW k \in AlertKeys \cup EmergencyKeys, SubmitAlert(k)
  PROVE  Produces
<1>1. PICK at \in {clock - 1, clock} : Becomes(Enqueue(State,
          Job("alert", k, IF k \in EmergencyKeys THEN "emergency" ELSE "alert",
              <<"alert", submitted>>, at, TRUE)))
  BY DEF SubmitAlert
<1>2. submitted \in Nat /\ submitted' = submitted + 1 /\ changes' = changes /\ changes \in Nat
  BY DEF SubmitAlert, Placed
<1>0. PICK job : job = Job("alert", k, IF k \in EmergencyKeys THEN "emergency" ELSE "alert",
                           <<"alert", submitted>>, at, TRUE)
  OBVIOUS
<1>3. /\ job.kind = "alert" /\ job.key = k /\ job.at = at /\ job.attempts = MaxAttempts
      /\ job.chan = (IF k \in EmergencyKeys THEN "emergency" ELSE "alert")
      /\ job.subject = <<"alert", submitted>> /\ job.subject[2] = submitted
  BY <1>0 DEF Job
<1>4. job \in Jobs
  <2>1. k \in JobKeys /\ job.chan \in Channels
    BY <1>3 DEF JobKeys, Channels
  <2>2. <<"alert", submitted>> \in ({"alert", "test"} \X Nat) \cup OtherKeys
    BY <1>2
  <2>3. at \in Int
    BY <1>1
  <2> QED
    BY <1>0, <1>3, <2>1, <2>2, <2>3 DEF Jobs, Job
<1>5. Becomes(Enqueue(State, job))
  BY <1>0, <1>1
<1>6. JobForm(job)'
  <2>1. AlertForm(job)'
    BY <1>2, <1>3 DEF AlertForm
  <2> QED
    BY <1>3, <1>4, <2>1 DEF JobForm
<1>7. ASSUME NEW j \in Active, j.kind = "alert"
      PROVE  j.subject[2] < job.subject[2] /\ j.subject # job.subject
  <2>1. AlertForm(j)
    BY <1>7 DEF Placed, JobForm
  <2>2. j.subject[2] \in Nat /\ j.subject[2] < submitted
    BY <2>1 DEF AlertForm
  <2>3. j.subject[2] < job.subject[2]
    BY <1>3, <2>2
  <2>4. j.subject[2] # job.subject[2]
    BY <1>2, <1>3, <2>2
  <2> QED
    BY <2>3, <2>4
<1>8. Newest(job) /\ Fresh(job)
  <2>1. ~(submitted < submitted)
    BY <1>2
  <2> QED
    BY <1>3, <1>7, <2>1 DEF Newest, Fresh
<1>9. Grows
  BY <1>2 DEF Grows
<1> QED
  BY <1>5, <1>6, <1>8, <1>9, ProducesOne DEF SubmitAlert

LEMMA TestProduces ==
  ASSUME clock \in Nat, QueueOK, Placed, KeysPending, UNCHANGED clock, SubmitDestinationTest
  PROVE  Produces
<1>2. changes \in Nat /\ changes' = changes + 1 /\ submitted' = submitted /\ submitted \in Nat
  BY DEF SubmitDestinationTest, Placed
<1>0. PICK job : job = Job("test", "test", "interaction", <<"test", changes>>, 0, FALSE)
  OBVIOUS
<1>3. /\ job.kind = "test" /\ job.key = "test" /\ job.at = 0 /\ job.attempts = 1
      /\ job.chan = "interaction"
      /\ job.subject = <<"test", changes>> /\ job.subject[2] = changes
  BY <1>0 DEF Job
<1>4. job \in Jobs
  <2>1. "test" \in JobKeys /\ job.chan \in Channels
    BY <1>3 DEF JobKeys, OtherKeys, Channels
  <2>2. <<"test", changes>> \in ({"alert", "test"} \X Nat) \cup OtherKeys
    BY <1>2
  <2> QED
    BY <1>0, <1>3, <2>1, <2>2 DEF Jobs, Job
<1>5. Becomes(Enqueue(State, job))
  BY <1>0 DEF SubmitDestinationTest
<1>6. JobForm(job)'
  <2>1. TestForm(job)'
    BY <1>2, <1>3 DEF TestForm
  <2> QED
    BY <1>3, <1>4, <2>1 DEF JobForm
<1>7. ASSUME NEW j \in Active, j.kind = "test"
      PROVE  j.subject[2] < job.subject[2]
  <2>1. TestForm(j)
    BY <1>7 DEF Placed, JobForm
  <2> QED
    BY <1>3, <2>1 DEF TestForm
<1>8. Newest(job) /\ Fresh(job)
  <2>1. ~(changes < changes)
    BY <1>2
  <2> QED
    BY <1>3, <1>7, <2>1 DEF Newest, Fresh
<1>9. Grows
  BY <1>2 DEF Grows
<1> QED
  BY <1>5, <1>6, <1>8, <1>9, ProducesOne DEF SubmitDestinationTest

LEMMA CardProduces ==
  ASSUME clock \in Nat, QueueOK, Placed, KeysPending, NEW c \in Cards, Grows,
         Becomes(Enqueue(State, CardJob(c))), UNCHANGED lanes
  PROVE  Produces
<1>1. PICK job : job = CardJob(c)
  OBVIOUS
<1>2. /\ job.kind = "card" /\ job.key = <<"card", c>> /\ job.subject = <<"card", c>>
      /\ job.chan = (IF c = "dashboard" THEN c ELSE "report") /\ job.at = 0
      /\ job.attempts = MaxAttempts
      /\ job = [kind |-> "card", key |-> job.key, chan |-> job.chan, subject |-> job.subject,
                at |-> 0, attempts |-> MaxAttempts]
  BY <1>1 DEF CardJob, Job
<1>3. job.key[2] = c
  BY <1>2
<1>4. job \in Jobs
  <2>1. job.key \in JobKeys /\ job.subject \in ({"alert", "test"} \X Nat) \cup OtherKeys
    BY <1>2 DEF JobKeys, OtherKeys
  <2>2. job.chan \in Channels
    BY <1>2 DEF Channels
  <2> QED
    BY <1>2, <2>1, <2>2 DEF Jobs
<1>5. JobForm(job)'
  <2>1. CardForm(job)'
    BY <1>2, <1>3 DEF CardForm
  <2> QED
    BY <1>2, <1>4, <2>1 DEF JobForm
<1>6. Newest(job) /\ Fresh(job)
  BY <1>2 DEF Newest, Fresh
<1> QED
  BY <1>1, <1>5, <1>6, ProducesOne

\* The report that is due.
LEMMA ReportFacts ==
  ASSUME clock \in Nat, NEW s \in Schedules \cup {"digest"}, NEW job, job = ReportJob(s)
  PROVE  /\ job.kind = "report" /\ job.key = <<"report", s, PeriodStart(clock)>>
         /\ job.key[2] = s /\ job.chan = "report" /\ job.at = clock
         /\ UNCHANGED clock => JobForm(job)'
<1>1. PICK start : start = PeriodStart(clock)
  OBVIOUS
<1>2. job = [kind |-> "report", key |-> <<"report", s, start>>, chan |-> "report",
             subject |-> <<"report", s, start>>, at |-> clock, attempts |-> MaxAttempts]
  BY <1>1 DEF ReportJob, Job
<1>3. start \in Int
  BY <1>1, PeriodFacts
<1>4. job \in Jobs
  <2>1. <<"report", s, start>> \in OtherKeys
    BY <1>3 DEF OtherKeys
  <2> QED
    BY <1>2, <2>1 DEF Jobs, JobKeys, Channels
<1>5. /\ job.kind = "report" /\ job.key = <<"report", s, start>> /\ job.key[2] = s
      /\ job.chan = "report" /\ job.at = clock /\ job.subject = job.key
  BY <1>2
<1>6. ASSUME UNCHANGED clock PROVE JobForm(job)'
  <2>1. job.key = <<"report", job.key[2], PeriodStart(job.at)>>
    BY <1>1, <1>5
  <2>2. ReportForm(job)'
    BY <1>5, <1>6, <2>1 DEF ReportForm, PeriodStart
  <2> QED
    BY <1>4, <1>5, <2>2 DEF JobForm
<1> QED
  BY <1>1, <1>5, <1>6

LEMMA ReportNewest ==
  ASSUME clock \in Nat, Placed, NEW s \in Schedules \cup {"digest"}
  PROVE  Newest(ReportJob(s))
<1>1. ASSUME NEW j \in Active, j.kind = "report" PROVE j.at <= clock
  <2>1. ReportForm(j)
    BY <1>1 DEF Placed, JobForm
  <2> QED
    BY <2>1 DEF ReportForm
<1>2. PICK job : job = ReportJob(s)
  OBVIOUS
<1>3. job.kind = "report" /\ job.at = clock
  BY <1>2, ReportFacts
<1>4. Newest(job)
  BY <1>1, <1>3 DEF Newest
<1> QED
  BY <1>2, <1>4

LEMMA DigestProduces ==
  ASSUME clock \in Nat, QueueOK, Placed, KeysPending, ReportsDue, Grows, UNCHANGED clock,
         EnqueueDueAdminDigest
  PROVE  Produces
<1>1. PICK job : job = ReportJob("digest")
  OBVIOUS
<1>2. job.kind = "report" /\ job.key[2] = "digest" /\ job.at = clock /\ JobForm(job)'
  BY <1>1, ReportFacts
<1>3. Newest(job)
  BY <1>1, ReportNewest
<1>4. Fresh(job)
  BY <1>2 DEF Fresh, EnqueueDueAdminDigest, Due, ReportsDue
<1>5. Becomes(Enqueue(State, job)) /\ UNCHANGED lanes
  BY <1>1 DEF EnqueueDueAdminDigest
<1> QED
  BY <1>2, <1>3, <1>4, <1>5, ProducesOne

\* A set in some order.
LEMMA SetOrder ==
  ASSUME NEW S, IsFiniteSet(S)
  PROVE  /\ Cardinality(S) \in Nat /\ SetToSeq(S) \in [1..Cardinality(S) -> S]
         /\ \A i, k \in 1..Cardinality(S) : SetToSeq(S)[i] = SetToSeq(S)[k] => i = k
<1>1. PICK n \in Nat : ExistsBijection(1..n, S)
  BY FS_NatBijection
<1>2. n = Cardinality(S)
  BY <1>1, FS_CountingElements
<1>3. PICK f \in Bijection(1..n, S) : TRUE
  BY <1>1 DEF ExistsBijection
<1>4. f \in [1..Cardinality(S) -> S] /\ \A a, b \in DOMAIN f : f[a] = f[b] => a = b
  BY <1>2, <1>3 DEF Bijection, Injection, IsInjective
<1>5. \E g \in [1..Cardinality(S) -> S] : IsInjective(g)
  BY <1>4 DEF IsInjective
<1>6. SetToSeq(S) \in [1..Cardinality(S) -> S] /\ IsInjective(SetToSeq(S))
  BY <1>5 DEF SetToSeq
<1> QED
  BY <1>1, <1>2, <1>6 DEF IsInjective

LEMMA ReportsProduce ==
  ASSUME clock \in Nat, QueueOK, Placed, KeysPending, RunsOK, Grows, UNCHANGED clock,
         EnqueueDueReports
  PROVE  Produces
<1> DEFINE due == {s \in DOMAIN lastRun \ {"digest"} : Due(s)}
           fresh == {s \in due : <<"report", ReportJob(s).key>> \notin pending}
           order == SetToSeq(fresh)
           room == Capacity["report"] - Len(queue["report"])
           n == IF room < Cardinality(fresh) THEN room ELSE Cardinality(fresh)
<1>1. /\ queue' = [queue EXCEPT !["report"] = @ \o [i \in 1..n |-> ReportJob(order[i])]]
      /\ pending' = pending \cup {<<"report", ReportJob(order[i]).key>> : i \in 1..n}
      /\ UNCHANGED lanes
  BY DEF EnqueueDueReports
<1>2. IsFiniteSet(fresh) /\ fresh \subseteq Schedules
  <2>1. fresh \in SUBSET Schedules
    BY DEF RunsOK
  <2> QED
    BY <2>1, FS_Subset, OutboundAssumption DEF OutboundAssumption
<1>3. \A s \in fresh : /\ s \in DOMAIN lastRun /\ lastRun[s] < PeriodStart(clock)
                       /\ <<"report", ReportJob(s).key>> \notin pending
  BY DEF Due
<1> HIDE DEF fresh
<1>4. /\ Cardinality(fresh) \in Nat /\ order \in [1..Cardinality(fresh) -> fresh]
      /\ \A i, k \in 1..Cardinality(fresh) : order[i] = order[k] => i = k
  BY <1>2, SetOrder
<1> HIDE DEF order
<1>5. n \in Int /\ n <= Cardinality(fresh)
  <2>1. Len(queue["report"]) \in Nat
    BY SequenceFacts DEF QueueOK, Channels
  <2>2. Capacity["report"] \in Nat
    BY OutboundAssumption DEF OutboundAssumption, Channels
  <2> QED
    BY <1>4, <2>1, <2>2
<1> HIDE DEF n
<1>0. PICK new : new = [i \in 1..n |-> ReportJob(order[i])]
  OBVIOUS
<1>6. \A i \in 1..n : i \in 1..Cardinality(fresh) /\ order[i] \in fresh
  BY <1>4, <1>5
<1>7. DOMAIN new = 1..n /\ new = [i \in 1..n |-> new[i]] /\ \A i \in 1..n : new[i] = ReportJob(order[i])
  BY <1>0
<1>8. IsSequence(new)
  <2>1. CASE n \in Nat
    BY <1>7, <2>1, MakeSequence
  <2>2. CASE n \notin Nat
    <3>1. 1..n = 1..0
      BY <1>5, <2>2
    <3>2. DOMAIN new = 1..0 /\ new = [i \in 1..0 |-> new[i]]
      BY <1>7, <3>1
    <3> QED
      BY <3>2, MakeSequence
  <2> QED
    BY <2>1, <2>2
<1>9. ASSUME NEW i \in DOMAIN new
      PROVE  /\ new[i].kind = "report" /\ new[i].chan = "report" /\ new[i].at = clock
             /\ new[i].key = <<"report", order[i], PeriodStart(clock)>> /\ new[i].key[2] = order[i]
             /\ JobForm(new[i])' /\ Newest(new[i])
  <2>1. order[i] \in Schedules \cup {"digest"} /\ new[i] = ReportJob(order[i])
    BY <1>2, <1>6, <1>7, <1>9
  <2> QED
    BY <2>1, ReportFacts, ReportNewest
<1>10. ASSUME NEW i \in DOMAIN new PROVE Fresh(new[i])
  BY <1>3, <1>6, <1>7, <1>9, <1>10 DEF Fresh
<1>11. ASSUME NEW i \in DOMAIN new, NEW k \in DOMAIN new, i < k PROVE Before(new[i], new[k])
  <2>1. order[i] # order[k]
    <3>1. i \in 1..Cardinality(fresh) /\ k \in 1..Cardinality(fresh) /\ i # k
      BY <1>5, <1>6, <1>7, <1>11
    <3> QED
      BY <1>4, <3>1
  <2>2. new[i].key # new[k].key
    BY <1>9, <2>1
  <2> QED
    BY <1>9, <2>2 DEF Before
<1>12. ASSUME NEW j \in Active, j.chan = "report", NEW i \in DOMAIN new PROVE Before(j, new[i])
  <2>1. <<"report", new[i].key>> \notin pending
    BY <1>3, <1>6, <1>7, <1>12
  <2>2. <<j.chan, j.key>> \in pending
    BY <1>12 DEF KeysPending, Coalescing, Deduplicated
  <2>3. j.key # new[i].key
    BY <1>12, <2>1, <2>2
  <2> QED
    BY <1>9, <1>12, <2>3 DEF Before, Newest
<1>13. Later("report", new)
  BY <1>9, <1>11, <1>12 DEF Later
<1>14. {<<"report", ReportJob(order[i]).key>> : i \in 1..n} = Coalescing(ToSet(new))
  <2>1. ToSet(new) = {new[i] : i \in 1..n}
    BY <1>7 DEF ToSet
  <2>2. \A j \in ToSet(new) : j.chan = "report" /\ j.chan \in Deduplicated
    BY <1>7, <1>9, <2>1 DEF Deduplicated
  <2>3. Coalescing(ToSet(new)) = {<<"report", j.key>> : j \in ToSet(new)}
    BY <2>2 DEF Coalescing
  <2> QED
    BY <1>7, <2>1, <2>3
<1>15. Appends("report", new)
  BY <1>0, <1>1, <1>8, <1>9, <1>13, <1>14 DEF Appends, Channels
<1> QED
  BY <1>1, <1>10, <1>15 DEF Produces

LEMMA OutboundProduces ==
  ASSUME Context, RunsOK, Placed, KeysPending, ReportsDue, config \in Configurations,
         OutboundStep, UNCHANGED clock, ~(\E l \in Lanes : Lane(l))
  PROVE  Produces
<1>0. QueueOK /\ clock \in Nat
  BY DEF Context, JobsOK
<1>1. submitted \in Nat /\ changes \in Nat
  BY DEF Placed
<1>2. ASSUME submitted' = submitted, changes' = changes \/ changes' = changes + 1 PROVE Grows
  BY <1>0, <1>1, <1>2 DEF Grows
<1>3. CASE \E k \in AlertKeys \cup EmergencyKeys : SubmitAlert(k)
  BY <1>0, <1>3, AlertProduces
<1>4. CASE SubmitDestinationTest
  BY <1>0, <1>4, TestProduces
<1>5. CASE \E s \in Schedules : ScheduleReport(s)
  BY <1>2, <1>5, ProducesNone DEF ScheduleReport
<1>6. CASE EnqueueDueReports
  <2>1. Grows
    BY <1>2, <1>6 DEF EnqueueDueReports
  <2> QED
    BY <1>0, <1>6, <2>1, ReportsProduce
<1>7. CASE EnqueueDueAdminDigest
  <2>1. Grows
    BY <1>2, <1>7 DEF EnqueueDueAdminDigest
  <2> QED
    BY <1>0, <1>7, <2>1, DigestProduces
<1>8. CASE \E c \in Cards : RefreshCard(c)
  <2>1. PICK c \in Cards : RefreshCard(c)
    BY <1>8
  <2>2. Grows /\ Becomes(Enqueue(State, CardJob(c))) /\ UNCHANGED lanes
    BY <1>2, <2>1 DEF RefreshCard
  <2> QED
    BY <1>0, <2>2, CardProduces
<1>9. CASE ConfigureAlerts \/ ConfigureGuild
  <2>1. /\ UNCHANGED <<queue, pending, lanes, submitted>>
        /\ changes' = changes + 1
    BY <1>9 DEF ConfigureAlerts, ConfigureGuild
  <2> QED
    BY <1>2, <2>1, ProducesNone
<1>10. CASE \E p \in Purposes : ConfigureChannel(p)
  <2>1. /\ UNCHANGED <<queue, pending, lanes, submitted>>
        /\ changes' = changes \/ changes' = changes + 1
    BY <1>10 DEF ConfigureChannel
  <2> QED
    BY <1>2, <2>1, ProducesNone
<1>11. CASE On("dashboard") /\ ResetDashboard
  <2>1. "dashboard" \in Cards
    BY <1>11, ConfigurationAssumption DEF ConfigurationAssumption, On
  <2>2. Grows /\ Becomes(Enqueue(State, CardJob("dashboard"))) /\ UNCHANGED lanes
    BY <1>2, <1>11 DEF ResetDashboard
  <2> QED
    BY <1>0, <2>1, <2>2, CardProduces
<1> QED
  BY <1>3, <1>4, <1>5, <1>6, <1>7, <1>8, <1>9, <1>10, <1>11 DEF OutboundStep

-----------------------------------------------------------------------------
(* The lanes.                                                              *)

\* The job is tried again.
Retries(l) ==
  /\ UNCHANGED pending /\ lanes[l].attempt + 1 < lanes[l].job.attempts
  /\ lanes' = [lanes EXCEPT ![l] =
       [Polling EXCEPT !.phase = "run", !.job = lanes[l].job, !.attempt = lanes[l].attempt + 1]]

LEMMA FailedCases ==
  ASSUME NEW l \in Lanes, Failed(l)
  PROVE  Over(l) \/ Retries(l)
BY DEF Failed, Retries

\* The job goes on, in another phase.
Continues(l, x) ==
  /\ lanes' = [lanes EXCEPT ![l] = x] /\ UNCHANGED pending
  /\ x.job = lanes[l].job /\ x.phase \in {"run", "edit", "post", "record"}

LEMMA ContinuesSame ==
  ASSUME LanesOK, Placed, NEW l \in Lanes, Busy(l), UNCHANGED queue,
         NEW x, Continues(l, x), x.phase \in PhasesOf(lanes[l].job.kind)
  PROVE  SameJobs
<1>1. lanes'[l] = x /\ \A m \in Lanes \ {l} : lanes'[m] = lanes[m]
  BY DEF Continues, LanesOK
<1>2. ASSUME NEW m \in Lanes
      PROVE  /\ lanes'[m].job = lanes[m].job /\ (Busy(m)' <=> Busy(m))
             /\ Busy(m) => lanes'[m].phase \in PhasesOf(lanes[m].job.kind)
  <2>1. CASE m = l
    <3>1. Busy(m)'
      BY <1>1, <2>1 DEF Busy, Continues
    <3> QED
      BY <1>1, <2>1, <3>1 DEF Continues
  <2>2. CASE m # l
    <3>1. lanes'[m] = lanes[m]
      BY <1>1, <2>2
    <3>2. Busy(m) => lanes[m].phase \in PhasesOf(lanes[m].job.kind)
      BY DEF Placed
    <3> QED
      BY <3>1, <3>2 DEF Busy
  <2> QED
    BY <2>1, <2>2
<1> QED
  BY <1>2 DEF SameJobs, Continues

LEMMA RetriesContinues ==
  ASSUME NEW l \in Lanes, Retries(l)
  PROVE  \E x : /\ Continues(l, x) /\ x.phase = "run" /\ x.attempt = lanes[l].attempt + 1
                /\ lanes[l].attempt + 1 < lanes[l].job.attempts
<1>1. PICK x : x = [Polling EXCEPT !.phase = "run", !.job = lanes[l].job,
                                   !.attempt = lanes[l].attempt + 1]
  OBVIOUS
<1>2. x.job = lanes[l].job /\ x.phase = "run" /\ x.attempt = lanes[l].attempt + 1
  BY <1>1 DEF Polling
<1> QED
  BY <1>1, <1>2 DEF Retries, Continues

LEMMA GoesContinues ==
  ASSUME LanesOK, NEW l \in Lanes, NEW phase \in {"edit", "post", "record"}, NEW m, Goes(l, phase, m)
  PROVE  \E x : /\ Continues(l, x) /\ x.phase = phase /\ x.attempt = lanes[l].attempt /\ x.msg = m
                /\ x.channel = lanes[l].channel
<1> DEFINE x == [lanes[l] EXCEPT !.phase = phase, !.msg = m]
<1>1. lanes' = [lanes EXCEPT ![l] = x] /\ UNCHANGED pending
  BY DEF Goes, LanesOK
<1>2. /\ x.job = lanes[l].job /\ x.phase = phase /\ x.attempt = lanes[l].attempt /\ x.msg = m
      /\ x.channel = lanes[l].channel
  BY DEF LanesOK, LaneFields
<1> HIDE DEF x
<1> QED
  BY <1>1, <1>2 DEF Continues

\* The card's lane knows which message and channel it goes for.
LEMMA UpdateContinues ==
  ASSUME LanesOK, NEW l \in Lanes, UpdateCard(l)
  PROVE  \/ Failed(l) \/ Over(l)
         \/ \E x :
              LET c == lanes[l].job.key[2]
                  channel == settings.channels[PurposeOf(c)]
                  here == bindings[c] # NoMessage /\ bindings[c].channel = channel
              IN  /\ Continues(l, x) /\ x.attempt = lanes[l].attempt /\ x.msg = Shown(c)
                  /\ x.channel = channel /\ Bound(PurposeOf(c))
                  /\ x.phase = IF here THEN "edit" ELSE "post"
<1> DEFINE c == lanes[l].job.key[2]
           channel == settings.channels[PurposeOf(c)]
           here == bindings[c] # NoMessage /\ bindings[c].channel = channel
           phase == IF here THEN "edit" ELSE "post"
           shown == Shown(c)
           x == [lanes[l] EXCEPT !.msg = shown, !.channel = channel, !.phase = phase]
<1>1. CASE Failed(l) \/ Over(l)
  BY <1>1
<1>2. CASE ~(Failed(l) \/ Over(l))
  <2>1. /\ lanes' = [lanes EXCEPT ![l].msg = shown, ![l].channel = channel, ![l].phase = phase]
        /\ UNCHANGED pending /\ Bound(PurposeOf(c))
    BY <1>2 DEF UpdateCard
  <2>2. phase \in {"edit", "post"} /\ phase = (IF here THEN "edit" ELSE "post")
    OBVIOUS
  <2>3. PICK cc, ch, hh : cc = c /\ ch = channel /\ hh = here
    OBVIOUS
  <2> HIDE DEF phase, channel, shown
  <2>4. lanes' = [lanes EXCEPT ![l] = x]
    BY <2>1 DEF LanesOK
  <2>5. /\ x.job = lanes[l].job /\ x.phase = phase /\ x.attempt = lanes[l].attempt /\ x.msg = shown
        /\ x.channel = channel
    BY DEF LanesOK, LaneFields
  <2> HIDE DEF x
  <2>6. Continues(l, x)
    BY <2>1, <2>2, <2>4, <2>5 DEF Continues
  <2>7. /\ Continues(l, x) /\ x.attempt = lanes[l].attempt /\ x.msg = Shown(c)
        /\ x.channel = settings.channels[PurposeOf(c)] /\ Bound(PurposeOf(c))
        /\ x.phase = IF bindings[c] # NoMessage /\ bindings[c].channel = settings.channels[PurposeOf(c)]
                     THEN "edit" ELSE "post"
    BY <2>1, <2>2, <2>5, <2>6 DEF shown, channel
  <2> QED
    BY <2>7
<1> QED
  BY <1>1, <1>2

\* The job in a lane, and where it can go.
LEMMA BusyFacts ==
  ASSUME Placed, NEW l \in Lanes, Busy(l)
  PROVE  /\ lanes[l].job \in Active /\ JobForm(lanes[l].job) /\ lanes[l].job.chan \in Serves(l)
         /\ lanes[l].job.kind \in {"alert", "test", "report", "card"}
         /\ lanes[l].phase \in PhasesOf(lanes[l].job.kind)
         /\ {"run", "post"} \subseteq PhasesOf(lanes[l].job.kind)
         /\ lanes[l].phase = "edit" => lanes[l].job.kind = "card"
         /\ lanes[l].phase = "record" => lanes[l].job.kind \in {"report", "card"}
         /\ lanes[l].job.kind = "card" => PhasesOf(lanes[l].job.kind) = {"run", "edit", "post", "record"}
         /\ lanes[l].job.kind = "report" => PhasesOf(lanes[l].job.kind) = {"run", "post", "record"}
         /\ lanes[l].job.kind \in {"alert", "test"} => PhasesOf(lanes[l].job.kind) = {"run", "post"}
<1>1. PICK job : job = lanes[l].job
  OBVIOUS
<1>2. job \in Active
  BY <1>1, ActivePlaces
<1>3. JobForm(job) /\ job.kind \in {"alert", "test", "report", "card"}
  BY <1>2, JobFormKind DEF Placed
<1>4. job.chan \in Serves(l) /\ lanes[l].phase \in PhasesOf(job.kind)
  BY <1>1 DEF Placed
<1>5. /\ {"run", "post"} \subseteq PhasesOf(job.kind)
      /\ job.kind = "card" => PhasesOf(job.kind) = {"run", "edit", "post", "record"}
      /\ job.kind = "report" => PhasesOf(job.kind) = {"run", "post", "record"}
      /\ job.kind \in {"alert", "test"} => PhasesOf(job.kind) = {"run", "post"}
  BY <1>3 DEF PhasesOf
<1>6. /\ lanes[l].phase = "edit" => job.kind = "card"
      /\ lanes[l].phase = "record" => job.kind \in {"report", "card"}
  BY <1>3, <1>4, <1>5
<1> QED
  BY <1>1, <1>2, <1>3, <1>4, <1>5, <1>6

LEMMA FailedJobs ==
  ASSUME LanesOK, Placed, NEW l \in Lanes, Busy(l), UNCHANGED queue, Over(l) \/ Failed(l)
  PROVE  SameJobs \/ Ends(l)
<1>1. CASE Over(l)
  BY <1>1 DEF Ends
<1>2. CASE Retries(l)
  <2>1. PICK x : Continues(l, x) /\ x.phase = "run"
    BY <1>2, RetriesContinues
  <2>2. x.phase \in PhasesOf(lanes[l].job.kind)
    BY <2>1, BusyFacts
  <2> QED
    BY <2>1, <2>2, ContinuesSame
<1> QED
  BY <1>1, <1>2, FailedCases

LEMMA GoesJobs ==
  ASSUME LanesOK, Placed, NEW l \in Lanes, Busy(l), UNCHANGED queue,
         NEW phase \in {"edit", "post", "record"}, phase \in PhasesOf(lanes[l].job.kind),
         NEW m, Goes(l, phase, m)
  PROVE  SameJobs
<1>1. PICK x : Continues(l, x) /\ x.phase = phase
  BY GoesContinues
<1> QED
  BY <1>1, ContinuesSame

LEMMA LaneJobs ==
  ASSUME LanesOK, Placed, NEW l \in Lanes, Lane(l)
  PROVE  SameJobs \/ (\E c : Takes(l, c)) \/ Ends(l)
<1> DEFINE Goal == SameJobs \/ (\E c : Takes(l, c)) \/ Ends(l)
<1>0. SUFFICES Goal
  OBVIOUS
<1> HIDE DEF Goal
<1>1. ASSUME NEW c \in Channels, c \in Serves(l), lanes[l].phase \in {"poll", "wait"}, Take(l, c)
      PROVE  Goal
  <2> DEFINE x == [Polling EXCEPT !.phase = "run", !.job = Head(queue[c])]
  <2>1. lanes' = [lanes EXCEPT ![l] = x]
    BY <1>1 DEF Take
  <2>2. x.job = Head(queue[c]) /\ x.phase = "run"
    BY DEF Polling
  <2> HIDE DEF x
  <2>3. Takes(l, c)
    BY <1>1, <2>1, <2>2 DEF Takes, Take, Busy
  <2> QED
    BY <2>3 DEF Goal
<1>2. CASE /\ lanes[l].phase = "poll" /\ UNCHANGED <<queue, pending>>
           /\ lanes' = [lanes EXCEPT ![l].phase = "wait"]
  <2> DEFINE x == [lanes[l] EXCEPT !.phase = "wait"]
  <2>1. lanes' = [lanes EXCEPT ![l] = x] /\ x.phase = "wait" /\ x.job = lanes[l].job
    BY <1>2 DEF LanesOK, LaneFields
  <2> HIDE DEF x
  <2>2. lanes'[l] = x /\ \A m \in Lanes \ {l} : lanes'[m] = lanes[m]
    BY <2>1 DEF LanesOK
  <2>3. ASSUME NEW m \in Lanes
        PROVE  /\ lanes'[m].job = lanes[m].job /\ (Busy(m)' <=> Busy(m))
               /\ Busy(m) => lanes'[m].phase \in PhasesOf(lanes[m].job.kind)
    <3>1. CASE m = l
      BY <1>2, <2>1, <2>2, <3>1 DEF Busy
    <3>2. CASE m # l
      <4>1. lanes'[m] = lanes[m]
        BY <2>2, <3>2
      <4>2. Busy(m) => lanes[m].phase \in PhasesOf(lanes[m].job.kind)
        BY DEF Placed
      <4> QED
        BY <4>1, <4>2 DEF Busy
    <3> QED
      BY <3>1, <3>2
  <2>4. SameJobs
    BY <1>2, <2>3 DEF SameJobs
  <2> QED
    BY <2>4 DEF Goal
<1>3. CASE TakeJob(l)
  <2>1. CASE lanes[l].phase = "poll" /\ l # "background" /\ Take(l, l)
    <3>1. l \in Channels /\ l \in Serves(l)
      BY <2>1 DEF Lanes, Channels, Serves
    <3> QED
      BY <1>1, <2>1, <3>1
  <2>2. CASE lanes[l].phase = "poll" /\ l = "background" /\ Take(l, "dashboard")
    <3>1. "dashboard" \in Channels /\ "dashboard" \in Serves(l)
      BY <2>2 DEF Channels, Serves
    <3> QED
      BY <1>1, <2>2, <3>1
  <2>3. CASE lanes[l].phase = "wait" /\ \E c \in Serves(l) : Take(l, c)
    <3>1. PICK c \in Serves(l) : Take(l, c)
      BY <2>3
    <3>2. c \in Channels
      BY <3>1 DEF Lanes, Channels, Serves
    <3> QED
      BY <1>1, <2>3, <3>1, <3>2
  <2> QED
    BY <1>2, <1>3, <2>1, <2>2, <2>3 DEF TakeJob
<1>4. ASSUME Busy(l), UNCHANGED queue, Over(l) \/ Failed(l) PROVE Goal
  BY <1>4, FailedJobs DEF Goal
<1>5. ASSUME Busy(l), UNCHANGED queue, NEW m, Goes(l, "post", m) PROVE Goal
  <2>1. "post" \in PhasesOf(lanes[l].job.kind)
    BY <1>5, BusyFacts
  <2> QED
    BY <1>5, <2>1, GoesJobs DEF Goal
<1>6. CASE SendAlert(l) \/ SendTest(l) \/ SendReport(l)
  <2>1. Busy(l) /\ UNCHANGED queue
    BY <1>6 DEF SendAlert, SendTest, SendReport, Running, InJob, Busy
  <2>2. Over(l) \/ Failed(l) \/ Goes(l, "post", NoMessage)
    BY <1>6 DEF SendAlert, SendTest, SendReport
  <2> QED
    BY <1>4, <1>5, <2>1, <2>2
<1>7. CASE UpdateCard(l)
  <2>1. Busy(l) /\ UNCHANGED queue /\ lanes[l].job.kind = "card"
    BY <1>7 DEF UpdateCard, Running, InJob, Busy
  <2>2. CASE Over(l) \/ Failed(l)
    BY <1>4, <2>1, <2>2
  <2>3. CASE ~(Over(l) \/ Failed(l))
    <3>1. PICK x : Continues(l, x) /\ x.phase \in {"edit", "post"}
      BY <1>7, <2>3, UpdateContinues
    <3>2. x.phase \in PhasesOf(lanes[l].job.kind)
      BY <2>1, <3>1, BusyFacts
    <3> QED
      BY <2>1, <3>1, <3>2, ContinuesSame DEF Goal
  <2> QED
    BY <2>2, <2>3
<1>8. CASE EditCard(l)
  <2>1. Busy(l) /\ UNCHANGED queue
    BY <1>8 DEF EditCard, InJob, Busy
  <2>2. Over(l) \/ Failed(l) \/ Goes(l, "post", lanes[l].msg)
    BY <1>8 DEF EditCard
  <2> QED
    BY <1>4, <1>5, <2>1, <2>2
<1>9. CASE Post(l)
  <2>1. Busy(l) /\ UNCHANGED queue
    BY <1>9 DEF Post, InJob, Busy
  <2>2. CASE Over(l) \/ Failed(l)
    BY <1>4, <2>1, <2>2
  <2>3. CASE lanes[l].job.kind \in {"card", "report"} /\ Goes(l, "record", PostedAs(NonceOf(l)))
    <3>1. "record" \in PhasesOf(lanes[l].job.kind)
      BY <2>1, <2>3, BusyFacts
    <3> QED
      BY <2>1, <2>3, <3>1, GoesJobs DEF Goal
  <2> QED
    BY <1>9, <2>2, <2>3 DEF Post
<1>10. CASE MarkRun(l) \/ BindCard(l)
  <2>1. Busy(l) /\ UNCHANGED queue
    BY <1>10 DEF MarkRun, BindCard, InJob, Busy
  <2>2. Over(l) \/ Failed(l)
    BY <1>10 DEF MarkRun, BindCard
  <2> QED
    BY <1>4, <2>1, <2>2
<1> QED
  BY <1>3, <1>6, <1>7, <1>8, <1>9, <1>10 DEF Lane

LEMMA ConfigStays ==
  ASSUME [Next]_vars
  PROVE  UNCHANGED config
BY DEF Next, Tick, Crash, InOutbound, InModeration, vars

LEMMA ClockGrows ==
  ASSUME clock \in Nat, [Next]_vars
  PROVE  clock' \in Nat /\ clock <= clock'
<1>1. clock' = clock \/ clock' = clock + 1
  BY NextCases DEF Tick, Crash, vars
<1> QED
  BY <1>1

\* What a step does to the jobs.
LEMMA JobMoves ==
  ASSUME Context, RunsOK, Placed, KeysPending, ReportsDue, config \in Configurations, [Next]_vars
  PROVE  /\ Grows
         /\ \/ SameJobs
            \/ \E l, c : Takes(l, c)
            \/ \E l : Ends(l)
            \/ \E c, new : Appends(c, new) /\ \A i \in DOMAIN new : Fresh(new[i])
            \/ \E job : Replaces(job)
            \/ Empties
<1>0. clock \in Nat /\ LanesOK /\ submitted \in Nat /\ changes \in Nat
  BY DEF Context, JobsOK, Placed
<1>1. CASE OutboundStep /\ UNCHANGED clock /\ ~(\E l \in Lanes : Lane(l))
  BY <1>1, OutboundProduces DEF Produces
<1>2. CASE (\E l \in Lanes : Lane(l)) /\ UNCHANGED clock
  <2>1. PICK l \in Lanes : Lane(l)
    BY <1>2
  <2>2. UNCHANGED <<submitted, changes>>
    BY <2>1 DEF Lane, TakeJob, Take, SendAlert, SendTest, SendReport, UpdateCard, EditCard, Post,
                MarkRun, BindCard, InJob
  <2>3. Grows
    BY <1>0, <1>2, <2>2 DEF Grows
  <2> QED
    BY <1>0, <2>1, <2>3, LaneJobs
<1>3. CASE UNCHANGED outboundVars /\ clock' \in Nat /\ clock <= clock'
  <2>1. UNCHANGED <<queue, pending, lanes, submitted, changes>>
    BY <1>3 DEF outboundVars
  <2>2. Grows
    BY <1>0, <1>3, <2>1 DEF Grows
  <2>3. \A l \in Lanes : Busy(l)' <=> Busy(l)
    BY <2>1 DEF Busy
  <2>4. SameJobs
    BY <2>1, <2>3 DEF SameJobs, Placed
  <2> QED
    BY <2>2, <2>4
<1>4. CASE Crash
  <2>1. UNCHANGED <<clock, submitted, changes>> /\ Empties
    BY <1>4 DEF Crash, OutboundLost, Empties
  <2>2. Grows
    BY <1>0, <2>1 DEF Grows
  <2> QED
    BY <2>1, <2>2
<1> QED
  BY <1>0, <1>1, <1>2, <1>3, <1>4, NextCases, ClockGrows DEF Tick, vars

\* The jobs stay as they should, and those that come are new.
LEMMA JobsKept ==
  ASSUME Context, RunsOK, QueueInv, config \in Configurations, [Next]_vars
  PROVE  /\ Placed' /\ OneOfEach' /\ InOrder' /\ KeysPending' /\ Grows
         /\ \A j \in Active' : j \in Active \/ Fresh(j)
<1>0. /\ clock \in Nat /\ QueueOK /\ LanesOK
      /\ Placed /\ OneOfEach /\ InOrder /\ KeysPending /\ ReportsDue
  BY DEF Context, JobsOK, QueueInv
<1>1. Grows
  BY <1>0, JobMoves
<1>2. CASE SameJobs
  BY <1>0, <1>1, <1>2, SameStep
<1>3. CASE \E l, c : Takes(l, c)
  BY <1>0, <1>1, <1>3, TakesStep
<1>4. CASE \E l : Ends(l)
  BY <1>0, <1>1, <1>4, EndsStep
<1>5. CASE \E c, new : Appends(c, new) /\ \A i \in DOMAIN new : Fresh(new[i])
  <2>1. PICK c, new : Appends(c, new) /\ \A i \in DOMAIN new : Fresh(new[i])
    BY <1>5
  <2>2. Placed' /\ OneOfEach' /\ InOrder' /\ KeysPending' /\ Active' = Active \cup ToSet(new)
    BY <1>0, <1>1, <2>1, AppendsStep
  <2>3. \A j \in ToSet(new) : Fresh(j)
    BY <2>1 DEF ToSet
  <2> QED
    BY <1>1, <2>2, <2>3
<1>6. CASE \E job : Replaces(job)
  <2>1. PICK job : Replaces(job)
    BY <1>6
  <2>2. /\ Placed' /\ OneOfEach' /\ InOrder' /\ KeysPending'
        /\ Active' \subseteq Active \cup {job} /\ job.kind = "card"
    BY <1>0, <1>1, <2>1, ReplacesStep
  <2>3. Fresh(job)
    BY <2>2 DEF Fresh
  <2> QED
    BY <1>1, <2>2, <2>3
<1>7. CASE Empties
  BY <1>1, <1>7, EmptiesStep
<1> QED
  BY <1>0, <1>2, <1>3, <1>4, <1>5, <1>6, <1>7, JobMoves

\* What is in hand of a schedule that was marked is of a later period.
LEMMA MarkedBehind ==
  ASSUME Context, QueueInv, NEW l \in Lanes, MarkRun(l), ~UNCHANGED lastRun
  PROVE  /\ DOMAIN lastRun' = DOMAIN lastRun
         /\ lanes[l].job.at \in Nat
         /\ \A s \in DOMAIN lastRun :
              lastRun'[s] = IF s = lanes[l].job.key[2] THEN lanes[l].job.at ELSE lastRun[s]
         /\ \A j \in Active' : j \in Active /\ (j.kind = "report" /\ j.key[2] = lanes[l].job.key[2] =>
              lanes[l].job.at < PeriodStart(j.at))
<1>0. QueueOK /\ LanesOK /\ Placed /\ InOrder
  BY DEF Context, JobsOK, QueueInv
<1>1. /\ lastRun' = [lastRun EXCEPT ![lanes[l].job.key[2]] = lanes[l].job.at]
      /\ Over(l) /\ UNCHANGED queue /\ Busy(l) /\ lanes[l].job.kind = "report"
  BY DEF MarkRun, InJob, Busy
<1>2. Ends(l)
  BY <1>1 DEF Ends
<1>3. PICK job : job = lanes[l].job
  OBVIOUS
<1>4. /\ job \in Active /\ Active = Active' \cup {job}
      /\ \A j \in Active' : j.chan = job.chan => Before(job, j)
  BY <1>0, <1>2, <1>3, EndsFacts
<1>5. ReportForm(job)
  BY <1>0, <1>1, <1>3, <1>4 DEF Placed, JobForm
<1>6. job.at \in Nat /\ job.chan = "report" /\ job.key = <<"report", job.key[2], PeriodStart(job.at)>>
  BY <1>5 DEF ReportForm
<1>7. ASSUME NEW j \in Active', j.kind = "report", j.key[2] = job.key[2]
      PROVE  job.at < PeriodStart(j.at)
  <2>1. ReportForm(j)
    BY <1>0, <1>4, <1>7 DEF Placed, JobForm
  <2>2. j.at \in Nat /\ j.chan = "report" /\ j.key = <<"report", j.key[2], PeriodStart(j.at)>>
    BY <2>1 DEF ReportForm
  <2>3. Before(job, j)
    BY <1>4, <1>6, <2>2
  <2>4. job.at <= j.at /\ job.key # j.key
    BY <1>1, <1>3, <1>6, <1>7, <2>3 DEF Before, Deduplicated
  <2>5. PeriodStart(job.at) # PeriodStart(j.at)
    BY <1>6, <1>7, <2>2, <2>4
  <2> QED
    BY <1>6, <2>2, <2>4, <2>5, PeriodsApart
<1> QED
  BY <1>1, <1>3, <1>4, <1>6, <1>7

LEMMA ReportsDueStep ==
  ASSUME Context, RunsOK, QueueInv, config \in Configurations, [Next]_vars
  PROVE  ReportsDue'
<1>0. LanesOK /\ ReportsDue /\ Placed /\ clock \in Nat
  BY DEF Context, JobsOK, QueueInv
<1>1. \A j \in Active' : j \in Active \/ Fresh(j)
  BY JobsKept
<1>2. \A j \in Active' : j.kind = "report" =>
        j.key[2] \in DOMAIN lastRun /\ lastRun[j.key[2]] < PeriodStart(j.at)
  BY <1>0, <1>1 DEF ReportsDue, Fresh
<1>3. ASSUME "digest" \in DOMAIN lastRun', \A s \in DOMAIN lastRun' : lastRun'[s] \in Nat,
             \A j \in Active' : j.kind = "report" =>
               j.key[2] \in DOMAIN lastRun' /\ lastRun'[j.key[2]] < PeriodStart(j.at)
      PROVE  ReportsDue'
  BY <1>3 DEF ReportsDue, PeriodStart
<1>4. CASE UNCHANGED lastRun
  BY <1>0, <1>2, <1>3, <1>4 DEF ReportsDue
<1>5. CASE \E s \in Schedules : ScheduleReport(s)
  <2>1. PICK s \in Schedules : ScheduleReport(s)
    BY <1>5
  <2>2. /\ DOMAIN lastRun' = DOMAIN lastRun \cup {s} /\ lastRun'[s] = clock
        /\ \A t \in DOMAIN lastRun : lastRun'[t] = lastRun[t]
    BY <2>1, ScheduleFacts
  <2>3. \A t \in DOMAIN lastRun' : lastRun'[t] \in Nat
    BY <1>0, <2>2 DEF ReportsDue
  <2> QED
    BY <1>0, <1>2, <1>3, <2>2, <2>3 DEF ReportsDue
<1>6. CASE (\E l \in Lanes : MarkRun(l)) /\ ~UNCHANGED lastRun
  <2>1. PICK l \in Lanes : MarkRun(l)
    BY <1>6
  <2>2. PICK job : job = lanes[l].job
    OBVIOUS
  <2>3. /\ DOMAIN lastRun' = DOMAIN lastRun /\ job.at \in Nat
        /\ \A s \in DOMAIN lastRun : lastRun'[s] = IF s = job.key[2] THEN job.at ELSE lastRun[s]
        /\ \A j \in Active' : j.kind = "report" /\ j.key[2] = job.key[2] => job.at < PeriodStart(j.at)
    BY <1>6, <2>1, <2>2, MarkedBehind
  <2>4. \A t \in DOMAIN lastRun' : lastRun'[t] \in Nat
    BY <1>0, <2>3 DEF ReportsDue
  <2>5. \A j \in Active' : j.kind = "report" => lastRun'[j.key[2]] < PeriodStart(j.at)
    BY <1>2, <2>3
  <2> QED
    BY <1>0, <1>2, <1>3, <2>3, <2>4, <2>5 DEF ReportsDue
<1> QED
  BY <1>0, <1>4, <1>5, <1>6, RunCases

LEMMA QueueInvStep ==
  ASSUME Context, RunsOK, QueueInv, config \in Configurations, [Next]_vars
  PROVE  QueueInv'
BY JobsKept, ReportsDueStep DEF QueueInv

-----------------------------------------------------------------------------
(* The keys that coalesce.                                                 *)

\* An image that tells its arguments apart has as many members.
LEMMA SameNumber ==
  ASSUME NEW S, IsFiniteSet(S), NEW f, DOMAIN f = S, \A x, y \in S : f[x] = f[y] => x = y
  PROVE  /\ IsFiniteSet({f[x] : x \in S})
         /\ Cardinality({f[x] : x \in S}) = Cardinality(S)
<1> DEFINE T == {f[x] : x \in S}
           g == [x \in S |-> f[x]]
<1>1. g \in [S -> T] /\ (\A x, y \in S : g[x] = g[y] => x = y) /\ \A t \in T : \E x \in S : g[x] = t
  OBVIOUS
<1> HIDE DEF g
<1>2. g \in Bijection(S, T)
  BY <1>1 DEF Bijection, Injection, Surjection, IsInjective
<1>3. ExistsBijection(S, T)
  BY <1>2 DEF ExistsBijection
<1> HIDE DEF T
<1>4. IsFiniteSet(T) /\ Cardinality(T) = Cardinality(S)
  BY <1>3, FS_Bijection
<1> QED
  BY <1>4 DEF T

LEMMA Apart ==
  ASSUME NEW S, IsFiniteSet(S), NEW T, IsFiniteSet(T), S \cap T = {}
  PROVE  IsFiniteSet(S \cup T) /\ Cardinality(S \cup T) = Cardinality(S) + Cardinality(T)
<1>1. IsFiniteSet(S \cup T) /\ Cardinality(S \cup T) = Cardinality(S) + Cardinality(T) - Cardinality(S \cap T)
  BY FS_Union
<1>2. Cardinality(S \cap T) = 0
  BY FS_EmptySet
<1>3. Cardinality(S) \in Nat /\ Cardinality(T) \in Nat
  BY FS_CardinalityType
<1> QED
  BY <1>1, <1>2, <1>3

\* The keys that are queued in a channel: as many as jobs.
QueuedKeys(c) == {<<c, queue[c][i].key>> : i \in DOMAIN queue[c]}

LEMMA QueuedNumber ==
  ASSUME QueueOK, InOrder, Placed, NEW c \in Deduplicated
  PROVE  /\ IsFiniteSet(QueuedKeys(c)) /\ Cardinality(QueuedKeys(c)) = Len(queue[c])
         /\ Len(queue[c]) \in Nat
<1>1. PICK s : s = queue[c]
  OBVIOUS
<1>2. c \in Channels
  BY DEF Deduplicated, Channels
<1>3. IsSequence(s)
  BY <1>1, <1>2 DEF QueueOK
<1>4. Len(s) \in Nat /\ DOMAIN s = 1..Len(s)
  BY <1>3, SequenceFacts
<1>5. PICK n \in Nat : n = Len(s)
  BY <1>4
<1> DEFINE f == [i \in 1..n |-> <<c, s[i].key>>]
<1>6. \A i \in 1..n : s[i].chan = c
  <2>1. \A i \in 1..n : s[i] \in ToSet(s)
    BY <1>4, <1>5 DEF ToSet
  <2> QED
    BY <1>1, <1>2, <2>1 DEF Placed
<1>7. \A i, k \in 1..n : i < k => s[i].key # s[k].key
  <2>1. \A i, k \in 1..n : i < k => Before(s[i], s[k])
    BY <1>1, <1>2, <1>4, <1>5 DEF InOrder
  <2> QED
    BY <1>6, <2>1 DEF Before
<1>8. \A i, k \in 1..n : f[i] = f[k] => i = k
  <2>1. ASSUME NEW i \in 1..n, NEW k \in 1..n, s[i].key = s[k].key PROVE i = k
    <3>1. ~(i < k) /\ ~(k < i)
      BY <1>7, <2>1
    <3> QED
      BY <3>1
  <2> QED
    BY <2>1
<1>9. IsFiniteSet(1..n) /\ Cardinality(1..n) = n
  <2>1. IsFiniteSet(1..n) /\ Cardinality(1..n) = IF 1 > n THEN 0 ELSE n - 1 + 1
    BY FS_Interval
  <2> QED
    BY <2>1
<1>10. QueuedKeys(c) = {f[i] : i \in 1..n}
  BY <1>1, <1>4, <1>5 DEF QueuedKeys
<1>11. DOMAIN f = 1..n
  OBVIOUS
<1> HIDE DEF f
<1>12. IsFiniteSet({f[i] : i \in 1..n}) /\ Cardinality({f[i] : i \in 1..n}) = Cardinality(1..n)
  BY <1>8, <1>9, <1>11, SameNumber
<1> QED
  BY <1>1, <1>5, <1>9, <1>10, <1>12

\* The lanes with a job that coalesces others.
Coalescers == {l \in Lanes : lanes[l].job # NoJob /\ lanes[l].job.chan \in Deduplicated}
RunningKeys == {<<lanes[l].job.chan, lanes[l].job.key>> : l \in Coalescers}

LEMMA RunningFacts ==
  ASSUME Placed, NEW l \in Lanes
  PROVE  /\ Busy(l) <=> lanes[l].job # NoJob
         /\ Busy(l) => lanes[l].job.chan \in Serves(l) /\ lanes[l].job.chan \in Channels
BY BusyFacts, JobFormKind DEF Placed

LEMMA RunningNumber ==
  ASSUME Placed
  PROVE  IsFiniteSet(RunningKeys) /\ Cardinality(RunningKeys) = Cardinality(Coalescers)
<1> DEFINE f == [l \in Coalescers |-> <<lanes[l].job.chan, lanes[l].job.key>>]
<1>1. \A l, m \in Coalescers : f[l] = f[m] => l = m
  <2>1. ASSUME NEW l \in Coalescers, NEW m \in Coalescers, lanes[l].job.chan = lanes[m].job.chan
        PROVE  l = m
    <3>1. l \in Lanes /\ m \in Lanes /\ lanes[l].job # NoJob /\ lanes[m].job # NoJob
      BY DEF Coalescers
    <3>2. lanes[l].job.chan \in Serves(l) /\ lanes[m].job.chan \in Serves(m)
      BY <3>1, RunningFacts
    <3> QED
      BY <2>1, <3>1, <3>2, ServesApart
  <2> QED
    BY <2>1
<1>2. IsFiniteSet(Coalescers)
  <2>1. IsFiniteSet(Lanes)
    <3>1. Lanes = ((({} \cup {"emergency"}) \cup {"interaction"}) \cup {"alert"}) \cup {"background"}
      BY DEF Lanes
    <3>2. IsFiniteSet({})
      BY FS_EmptySet
    <3> QED
      BY <3>1, <3>2, FS_AddElement
  <2>2. Coalescers \subseteq Lanes
    BY DEF Coalescers
  <2> QED
    BY <2>1, <2>2, FS_Subset
<1>3. RunningKeys = {f[l] : l \in Coalescers} /\ DOMAIN f = Coalescers
  BY DEF RunningKeys
<1> HIDE DEF f
<1>4. /\ IsFiniteSet({f[l] : l \in Coalescers})
      /\ Cardinality({f[l] : l \in Coalescers}) = Cardinality(Coalescers)
  BY <1>1, <1>2, <1>3, SameNumber
<1> QED
  BY <1>3, <1>4

LEMMA PendingParts ==
  ASSUME QueueInv
  PROVE  /\ pending = RunningKeys \cup QueuedKeys("alert") \cup QueuedKeys("report")
         /\ pending = Coalescing(RunningJobs \cup UNION {ToSet(queue[c]) : c \in Deduplicated})
<1>0. Placed /\ pending = Coalescing(Active) /\ Deduplicated = {"alert", "report"}
  BY DEF QueueInv, KeysPending, Deduplicated
<1>1. ASSUME NEW j
      PROVE  j \in Active /\ j.chan \in Deduplicated <=>
               \/ \E l \in Coalescers : lanes[l].job = j
               \/ \E c \in Deduplicated : j \in ToSet(queue[c])
  <2>1. Deduplicated \subseteq Channels
    BY DEF Deduplicated, Channels
  <2>2. \A l \in Lanes : Busy(l) <=> lanes[l].job # NoJob
    BY <1>0, RunningFacts
  <2>3. \A c \in Channels : \A i \in ToSet(queue[c]) : i.chan = c
    BY <1>0 DEF Placed
  <2> QED
    BY <2>1, <2>2, <2>3, ActivePlaces DEF Coalescers
<1>2. ASSUME NEW c \in Deduplicated
      PROVE  QueuedKeys(c) = {<<j.chan, j.key>> : j \in ToSet(queue[c])}
  <2>1. c \in Channels
    BY DEF Deduplicated, Channels
  <2>2. ToSet(queue[c]) = {queue[c][i] : i \in DOMAIN queue[c]}
    BY DEF ToSet
  <2>3. \A i \in DOMAIN queue[c] : queue[c][i].chan = c
    BY <1>0, <2>1, <2>2 DEF Placed
  <2> QED
    BY <2>2, <2>3 DEF QueuedKeys
<1>3. pending = {<<j.chan, j.key>> : j \in {i \in Active : i.chan \in Deduplicated}}
  BY <1>0 DEF Coalescing
<1> DEFINE R == {lanes[l].job : l \in Coalescers}
           Q == UNION {ToSet(queue[c]) : c \in Deduplicated}
<1>4. {i \in Active : i.chan \in Deduplicated} = R \cup Q
  BY <1>1
<1>5. RunningKeys = {<<j.chan, j.key>> : j \in R}
  BY DEF RunningKeys
<1>6. {<<j.chan, j.key>> : j \in Q} = QueuedKeys("alert") \cup QueuedKeys("report")
  BY <1>0, <1>2
<1>7. pending = RunningKeys \cup QueuedKeys("alert") \cup QueuedKeys("report")
  <2>1. pending = {<<j.chan, j.key>> : j \in R} \cup {<<j.chan, j.key>> : j \in Q}
    BY <1>3, <1>4
  <2> QED
    BY <1>5, <1>6, <2>1
<1>8. {i \in RunningJobs \cup Q : i.chan \in Deduplicated} = R \cup Q
  <2>1. \A j \in Q : j.chan \in Deduplicated
    BY <1>1
  <2>2. R = {i \in RunningJobs : i.chan \in Deduplicated}
    BY DEF RunningJobs, Coalescers
  <2> QED
    BY <2>1, <2>2
<1>9. pending = Coalescing(RunningJobs \cup Q)
  BY <1>3, <1>4, <1>8 DEF Coalescing
<1> QED
  BY <1>7, <1>9

LEMMA KeysMatch ==
  ASSUME QueueOK, QueueInv
  PROVE  PendingKeysMatchJobs
<1>0. Placed /\ InOrder
  BY DEF QueueInv
<1>1. ASSUME NEW c \in Deduplicated PROVE RunningKeys \cap QueuedKeys(c) = {}
  <2>1. ASSUME NEW l \in Coalescers, NEW i \in DOMAIN queue[c],
               <<lanes[l].job.chan, lanes[l].job.key>> = <<c, queue[c][i].key>>
        PROVE  FALSE
    <3>1. lanes[l].job.chan = c /\ lanes[l].job.key = queue[c][i].key /\ c \in Channels
      BY <2>1 DEF Deduplicated, Channels
    <3>2. l \in Lanes /\ Busy(l)
      BY <1>0, RunningFacts DEF Coalescers
    <3>3. Before(lanes[l].job, queue[c][i])
      BY <1>0, <3>1, <3>2 DEF InOrder
    <3> QED
      BY <3>1, <3>3 DEF Before
  <2> QED
    BY <2>1 DEF RunningKeys, QueuedKeys
<1>2. QueuedKeys("alert") \cap QueuedKeys("report") = {}
  <2>1. "alert" # "report"
    OBVIOUS
  <2> QED
    BY <2>1 DEF QueuedKeys
<1>3. "alert" \in Deduplicated /\ "report" \in Deduplicated
  BY DEF Deduplicated
<1>4. /\ IsFiniteSet(RunningKeys) /\ Cardinality(RunningKeys) = Cardinality(Coalescers)
      /\ IsFiniteSet(QueuedKeys("alert")) /\ Cardinality(QueuedKeys("alert")) = Len(queue["alert"])
      /\ IsFiniteSet(QueuedKeys("report")) /\ Cardinality(QueuedKeys("report")) = Len(queue["report"])
  BY <1>0, <1>3, RunningNumber, QueuedNumber
<1> DEFINE both == RunningKeys \cup QueuedKeys("alert")
<1>5. RunningKeys \cap QueuedKeys("alert") = {}
  BY <1>1, <1>3
<1>6. IsFiniteSet(both) /\ Cardinality(both) = Cardinality(RunningKeys) + Cardinality(QueuedKeys("alert"))
  BY <1>4, <1>5, Apart
<1>7. both \cap QueuedKeys("report") = {}
  BY <1>1, <1>2, <1>3
<1> HIDE DEF both
<1>8. Cardinality(both \cup QueuedKeys("report")) = Cardinality(both) + Cardinality(QueuedKeys("report"))
  BY <1>4, <1>6, <1>7, Apart
<1>9. pending = both \cup QueuedKeys("report")
  BY PendingParts DEF both
<1>10. Cardinality(pending) = Cardinality(Coalescers) + Len(queue["alert"]) + Len(queue["report"])
  BY <1>4, <1>6, <1>8, <1>9
<1>11. UNION {[c \in Deduplicated |-> ToSet(queue[c])][d] : d \in Deduplicated}
         = UNION {ToSet(queue[c]) : c \in Deduplicated}
  OBVIOUS
<1>12. pending = Coalescing(RunningJobs \cup UNION {ToSet(queue[c]) : c \in Deduplicated})
  BY PendingParts
<1> QED
  BY <1>10, <1>11, <1>12 DEF PendingKeysMatchJobs, Coalescers

-----------------------------------------------------------------------------
(* The initial state.                                                      *)

JobsInv == config \in Configurations /\ QueueInv

LEMMA InitQueue == Init => JobsInv
<1> SUFFICES ASSUME Init PROVE JobsInv
  OBVIOUS
<1>1. PICK bound : OutboundInit(bound)
  BY DEF Init
<1>2. /\ queue = [c \in Channels |-> <<>>] /\ pending = {} /\ lanes = [l \in Lanes |-> Polling]
      /\ lastRun = [s \in {"digest"} |-> 0] /\ submitted = 0 /\ changes = 0
  BY <1>1 DEF OutboundInit
<1>3. ToSet(<<>>) = {} /\ DOMAIN <<>> = {}
  BY DEF ToSet
<1>4. \A l \in Lanes : ~Busy(l) /\ lanes[l].job = NoJob
  BY <1>2, PollingLane DEF Busy
<1>5. Active = {}
  BY <1>2, <1>3, <1>4 DEF Active
<1>6. Placed
  BY <1>2, <1>3, <1>4, <1>5 DEF Placed
<1>7. OneOfEach /\ KeysPending /\ ReportsDue
  BY <1>2, <1>5 DEF OneOfEach, KeysPending, Coalescing, ReportsDue
<1>8. InOrder
  BY <1>2, <1>3, <1>4 DEF InOrder
<1> QED
  BY <1>6, <1>7, <1>8 DEF QueueInv, JobsInv, Init

(***************************************************************************)
(* Every job that is queued or in a lane is one the producers make, in the *)
(* channel and the lane it belongs to; alerts have one job each, jobs of a *)
(* channel run in the order they were enqueued, the pending keys are those *)
(* of the jobs, and a report in hand is of a period not yet reported       *)
(* (enqueue, release, runLane, enqueueAlert, sendScheduledReport).         *)
(***************************************************************************)
THEOREM JobsInvariance == Spec => []JobsInv
<1>1. IInv /\ JobsInv /\ [Next]_vars => JobsInv'
  <2>1. IInv => Context /\ RunsOK
    BY DEF IInv, Context, TypeOK
  <2> QED
    BY <2>1, QueueInvStep, ConfigStays DEF JobsInv
<1> QED
  BY <1>1, InitQueue, Invariance, PTL DEF Spec

(***************************************************************************)
(* The keys that keep a job from being enqueued twice are those of the     *)
(* jobs queued or running, whatever fails, is refused or crashes: none is  *)
(* left behind, which would block its card or report for good, and none is *)
(* released early (Enqueue, the release of the pending key after a job).   *)
(***************************************************************************)
THEOREM PendingKeysAreThoseOfJobs == Spec => []PendingKeysMatchJobs
<1>1. IInv /\ JobsInv => PendingKeysMatchJobs
  BY KeysMatch DEF IInv, JobsOK, JobsInv
<1> QED
  BY <1>1, JobsInvariance, Invariance, PTL

-----------------------------------------------------------------------------
(* What a step does to the messages.                                       *)

\* A message stays what it is, and does not come to life again.
Keeps ==
  /\ DOMAIN messages \subseteq DOMAIN messages'
  /\ \A m \in DOMAIN messages :
       /\ messages'[m].subject = messages[m].subject /\ messages'[m].key = messages[m].key
       /\ messages'[m].at = messages[m].at /\ messages'[m].channel = messages[m].channel
       /\ messages'[m].nonce = messages[m].nonce /\ messages'[m].posted = messages[m].posted
       /\ messages'[m].live => messages[m].live
Still == Keeps /\ DOMAIN messages' = DOMAIN messages

\* The message that a post gives: one that Discord remembers, or a new one.
Adopted(m, nonce) ==
  /\ m \in DOMAIN messages /\ UNCHANGED messages
  /\ messages[m].nonce = nonce /\ clock - messages[m].posted < NonceWindow
Newer(m, subject, key, at, channel, nonce) ==
  /\ m \notin DOMAIN messages /\ DOMAIN messages' = DOMAIN messages \cup {m}
  /\ \A n \in DOMAIN messages :
       n < m /\ (messages[n].nonce = nonce => ~(clock - messages[n].posted < NonceWindow))
  /\ messages'[m].subject = subject /\ messages'[m].key = key /\ messages'[m].at = at
  /\ messages'[m].channel = channel /\ messages'[m].nonce = nonce /\ messages'[m].posted = clock
Arrives(m, subject, key, at, channel, nonce) ==
  /\ m \in Nat /\ Keeps
  /\ Adopted(m, nonce) \/ Newer(m, subject, key, at, channel, nonce)

LEMMA UnchangedStill == ASSUME UNCHANGED messages PROVE Still
BY DEF Still, Keeps

LEMMA DeleteStill ==
  ASSUME MessageType, NEW t, messages' = AfterDelete(t)
  PROVE  /\ Still
         /\ t \in DOMAIN messages => ~messages'[t].live
         /\ \A m \in DOMAIN messages : m # t => messages'[m] = messages[m]
<1>1. DOMAIN messages' = DOMAIN messages
  BY DEF AfterDelete
<1>2. ASSUME NEW m \in DOMAIN messages
      PROVE  /\ messages'[m].subject = messages[m].subject /\ messages'[m].key = messages[m].key
             /\ messages'[m].at = messages[m].at /\ messages'[m].channel = messages[m].channel
             /\ messages'[m].nonce = messages[m].nonce /\ messages'[m].posted = messages[m].posted
             /\ m = t => ~messages'[m].live
             /\ m # t => messages'[m] = messages[m]
  <2>1. messages[m] = [f \in MessageFields |-> messages[m][f]]
    BY DEF MessageType
  <2>2. messages'[m] = IF m = t THEN [messages[m] EXCEPT !.live = FALSE] ELSE messages[m]
    BY DEF AfterDelete
  <2>3. messages'[m] = [f \in MessageFields |-> IF m = t /\ f = "live" THEN FALSE ELSE messages[m][f]]
    BY <2>1, <2>2
  <2> QED
    BY <2>2, <2>3 DEF MessageFields
<1>3. \A m \in DOMAIN messages : messages'[m].live => messages[m].live
  BY <1>2
<1> QED
  BY <1>1, <1>2, <1>3 DEF Still, Keeps

LEMMA PostArrives ==
  ASSUME MessageType, NEW subject, NEW key, NEW at, NEW channel, NEW nonce,
         messages' = AfterPost(subject, key, at, channel, nonce), NEW m, m = PostedAs(nonce)
  PROVE  Arrives(m, subject, key, at, channel, nonce)
<1>0. m \in Nat
  BY PostedAsType
<1>1. CASE Remembered(nonce) # {}
  <2>1. m \in Remembered(nonce) /\ UNCHANGED messages
    BY <1>1 DEF AfterPost, PostedAs
  <2>2. Adopted(m, nonce)
    BY <2>1 DEF Adopted, Remembered
  <2> QED
    BY <1>0, <2>1, <2>2, UnchangedStill DEF Arrives, Still
<1>2. CASE Remembered(nonce) = {}
  <2> DEFINE new == [subject |-> subject, key |-> key, at |-> at, channel |-> channel,
                     nonce |-> nonce, posted |-> clock, live |-> TRUE]
  <2>1. messages' = Append(messages, new) /\ m = Len(messages) + 1
    BY <1>2 DEF AfterPost, PostedAs
  <2>2. /\ new.subject = subject /\ new.key = key /\ new.at = at /\ new.channel = channel
        /\ new.nonce = nonce /\ new.posted = clock
    OBVIOUS
  <2> HIDE DEF new
  <2>3. IsSequence(messages)
    BY DEF MessageType
  <2>4. /\ m \notin DOMAIN messages /\ DOMAIN messages' = DOMAIN messages \cup {m}
        /\ \A n \in DOMAIN messages : messages'[n] = messages[n]
        /\ messages'[m] = new
    BY <2>1, <2>3, AppendFacts
  <2>5. \A n \in DOMAIN messages : n < m
    <3>1. Len(messages) \in Nat /\ DOMAIN messages = 1..Len(messages)
      BY <2>3, SequenceFacts
    <3> QED
      BY <2>1, <3>1
  <2>6. \A n \in DOMAIN messages : messages[n].nonce = nonce => ~(clock - messages[n].posted < NonceWindow)
    BY <1>2 DEF Remembered
  <2>7. Newer(m, subject, key, at, channel, nonce)
    BY <2>2, <2>4, <2>5, <2>6 DEF Newer
  <2>8. Keeps
    BY <2>4 DEF Keeps
  <2> QED
    BY <1>0, <2>7, <2>8 DEF Arrives
<1> QED
  BY <1>1, <1>2

\* What arrived is the last of its nonce.
LEMMA LastOfNonce ==
  ASSUME clock \in Nat, Spaced, Posted, MessageType,
         NEW m, NEW subject, NEW key, NEW at, NEW channel, NEW nonce,
         Arrives(m, subject, key, at, channel, nonce)
  PROVE  /\ m \in DOMAIN messages' /\ messages'[m].nonce = nonce
         /\ \A n \in DOMAIN messages' : messages'[n].nonce = nonce => n <= m
<1>0. m \in Nat
  BY DEF Arrives
<1>1. CASE Adopted(m, nonce)
  <2>1. /\ m \in DOMAIN messages /\ messages' = messages
        /\ messages[m].nonce = nonce /\ clock - messages[m].posted < NonceWindow
    BY <1>1 DEF Adopted
  <2>2. ASSUME NEW n \in DOMAIN messages, messages[n].nonce = nonce PROVE n <= m
    <3>1. n \in Nat
      BY MessageIndex
    <3>2. CASE m < n
      <4>1. messages[n].posted - messages[m].posted >= NonceWindow
        BY <2>1, <2>2, <3>2 DEF Spaced
      <4>2. messages[n].posted \in Nat /\ messages[n].posted <= clock /\ messages[m].posted \in Nat
        BY <2>1 DEF Posted
      <4>3. NonceWindow \in Nat
        BY KeyAssumption DEF KeyAssumption
      <4> QED
        BY <2>1, <4>1, <4>2, <4>3
    <3> QED
      BY <1>0, <3>1, <3>2
  <2> QED
    BY <2>1, <2>2
<1>2. CASE Newer(m, subject, key, at, channel, nonce)
  <2>1. /\ DOMAIN messages' = DOMAIN messages \cup {m} /\ messages'[m].nonce = nonce
        /\ \A n \in DOMAIN messages : n < m
    BY <1>2 DEF Newer
  <2>2. \A n \in DOMAIN messages : n \in Nat
    BY MessageIndex
  <2> QED
    BY <1>0, <2>1, <2>2
<1> QED
  BY <1>1, <1>2 DEF Arrives

\* A lane's post, with what becomes of the lane and of the bookkeeping.
Delivers(l, m) ==
  Arrives(m, lanes[l].job.subject, lanes[l].job.key, lanes[l].job.at, lanes[l].channel, NonceOf(l))
PostFails(l) == Failed(l) /\ UNCHANGED <<messages, unrecorded, forgotten, delivered>>
PostLost(l, m) ==
  Delivers(l, m) /\ Failed(l) /\ unrecorded' = unrecorded \cup {m} /\ UNCHANGED <<forgotten, delivered>>
PostKept(l, m) ==
  /\ lanes[l].job.kind \in {"card", "report"} /\ Delivers(l, m) /\ Goes(l, "record", m)
  /\ unrecorded' = unrecorded \cup {m} /\ UNCHANGED <<forgotten, delivered>>
PostDone(l, m) ==
  /\ lanes[l].job.kind \in {"alert", "test"} /\ Delivers(l, m) /\ Over(l)
  /\ unrecorded' = unrecorded \ {m}
  /\ IF lanes[l].job.kind = "alert" /\ lanes[l].job.key \notin EmergencyKeys
     THEN MarkDelivered(lanes[l].job) ELSE UNCHANGED <<forgotten, delivered>>

LEMMA PostDelivers ==
  ASSUME MessageType, NEW l \in Lanes, Post(l)
  PROVE  /\ Busy(l) /\ lanes[l].phase = "post" /\ UNCHANGED <<InJob, lastRun, bindings>>
         /\ PostFails(l) \/ \E m : PostLost(l, m) \/ PostKept(l, m) \/ PostDone(l, m)
<1>1. PICK m : m = PostedAs(NonceOf(l))
  OBVIOUS
<1>2. Posts(l) => Delivers(l, m)
  BY <1>1, PostArrives DEF Posts, Delivers
<1>3. Busy(l) /\ lanes[l].phase = "post" /\ UNCHANGED <<InJob, lastRun, bindings>>
  BY DEF Post, Busy
<1> QED
  BY <1>1, <1>2, <1>3 DEF Post, PostFails, PostLost, PostKept, PostDone

\* What markDelivered leaves in the map, and in the record.
LEMMA MarkedFacts ==
  ASSUME NEW job, MarkDelivered(job)
  PROVE  /\ forgotten \subseteq forgotten'
         /\ \A k \in DOMAIN delivered' :
              delivered'[k] = IF k = job.key THEN job.at ELSE delivered[k]
         /\ \A k \in DOMAIN delivered' : k = job.key \/ k \in DOMAIN delivered
         /\ \A m \in DOMAIN messages' :
              messages'[m].key \in DOMAIN delivered \cup {job.key} /\ m \notin forgotten' =>
                messages'[m].key \in DOMAIN delivered'
<1> DEFINE marked == [k \in DOMAIN delivered \cup {job.key} |->
                        IF k = job.key THEN job.at ELSE delivered[k]]
<1>1. PICK kept \in Prunings(marked, job.at) :
        /\ delivered' = [k \in kept |-> marked[k]]
        /\ forgotten' = forgotten \cup
             {m \in DOMAIN messages' : messages'[m].key \in DOMAIN marked \ kept}
  BY DEF MarkDelivered
<1>2. kept \subseteq DOMAIN marked
  BY DEF Prunings
<1>3. DOMAIN marked = DOMAIN delivered \cup {job.key}
  OBVIOUS
<1>4. \A k \in DOMAIN marked : marked[k] = IF k = job.key THEN job.at ELSE delivered[k]
  OBVIOUS
<1> HIDE DEF marked
<1>5. DOMAIN delivered' = kept /\ \A k \in kept : delivered'[k] = marked[k]
  BY <1>1
<1> QED
  BY <1>1, <1>2, <1>3, <1>4, <1>5

-----------------------------------------------------------------------------
(* What a step does to the bookkeeping.                                    *)

\* Nothing is posted, nothing leaves the record of what was lost.
Quiet == Still /\ UNCHANGED <<unrecorded, delivered>> /\ forgotten \subseteq forgotten'

LEMMA UnchangedQuiet ==
  ASSUME UNCHANGED <<discordVars, delivered>>
  PROVE  Quiet
BY UnchangedStill DEF Quiet, discordVars

LEMMA BookKinds ==
  ASSUME MessageType, [Next]_vars
  PROVE  \/ \E l \in Lanes : Post(l) /\ UNCHANGED <<clock, moderationVars>>
         \/ \E l \in Lanes : MarkRun(l) /\ UNCHANGED <<clock, moderationVars>>
         \/ \E l \in Lanes : BindCard(l) /\ UNCHANGED <<clock, moderationVars>>
         \/ SendLog /\ UNCHANGED <<clock, outboundVars>>
         \/ MarkLog /\ UNCHANGED <<clock, outboundVars>>
         \/ Crash
         \/ Quiet
<1>1. CASE UNCHANGED <<clock, moderationVars>> /\ OutboundStep
  <2>1. ASSUME NEW l \in Lanes, Lane(l), ~Post(l), ~MarkRun(l), ~BindCard(l)
        PROVE  Quiet
    <3>1. UNCHANGED <<discordVars, delivered>>
      BY <2>1 DEF Lane, TakeJob, Take, SendAlert, SendTest, SendReport, UpdateCard, EditCard
    <3> QED
      BY <3>1, UnchangedQuiet
  <2>2. CASE ResetDashboard
    <3>1. UNCHANGED <<messages, unrecorded, delivered>> /\ forgotten \subseteq forgotten'
      BY <2>2 DEF ResetDashboard
    <3> QED
      BY <3>1, UnchangedStill DEF Quiet
  <2>3. CASE ~(\E l \in Lanes : Lane(l)) /\ ~ResetDashboard
    <3>1. UNCHANGED <<discordVars, delivered>>
      BY <1>1, <2>3
         DEF OutboundStep, SubmitAlert, SubmitDestinationTest, ScheduleReport, EnqueueDueReports,
             EnqueueDueAdminDigest, RefreshCard, ConfigureAlerts, ConfigureGuild, ConfigureChannel
    <3> QED
      BY <3>1, UnchangedQuiet
  <2> QED
    BY <1>1, <2>1, <2>2, <2>3
<1>2. CASE UNCHANGED <<clock, outboundVars>> /\ InteractionStep
  <2>1. UNCHANGED discordVars
    BY <1>2 DEF InteractionStep, RunAtOnce, OpenView, AskKick, ChangeAccess, AskDeletion,
                SubmitReason, Press
  <2> QED
    BY <1>2, <2>1, UnchangedQuiet DEF outboundVars
<1>3. CASE UNCHANGED <<clock, outboundVars>> /\ HandlerStep
  <2>0. UNCHANGED delivered
    BY <1>3 DEF outboundVars
  <2>1. CASE Act
    <3>1. UNCHANGED messages \/ messages' = AfterDelete(handler.target)
      BY <2>1 DEF Act, DeleteMessage
    <3>2. Still
      BY <3>1, UnchangedStill, DeleteStill
    <3> QED
      BY <2>0, <2>1, <3>2 DEF Act, Quiet
  <2>2. CASE ~Act
    <3>1. UNCHANGED <<messages, unrecorded, forgotten>>
      BY <1>3, <2>2 DEF HandlerStep, PrepareDeletion, Authorise, CreateModerationCase, Check,
                        CompleteModerationCase, DeleteBinding, discordVars
    <3> QED
      BY <2>0, <3>1, UnchangedStill DEF Quiet
  <2> QED
    BY <2>1, <2>2
<1>4. CASE UNCHANGED <<clock, outboundVars>> /\ Cleanup
  BY <1>4, UnchangedQuiet DEF Cleanup, outboundVars
<1>5. CASE UNCHANGED <<clock, outboundVars>> /\ LogDelivery
  <2>1. ASSUME ~SendLog, ~MarkLog PROVE UNCHANGED discordVars
    BY <1>5, <2>1 DEF LogDelivery, LoadLogs, DeferLog, PurgeCases, BindLogChannel
  <2> QED
    BY <1>5, <2>1, UnchangedQuiet DEF outboundVars
<1>6. CASE Tick \/ UNCHANGED vars
  BY <1>6, UnchangedQuiet DEF Tick, vars, outboundVars
<1> QED
  BY <1>1, <1>2, <1>3, <1>4, <1>5, <1>6, NextCases

-----------------------------------------------------------------------------
(* What a step does to the lanes.                                          *)

LEMMA SetLane ==
  ASSUME LanesOK, NEW l \in Lanes, NEW x, lanes' = [lanes EXCEPT ![l] = x]
  PROVE  lanes'[l] = x /\ \A k \in Lanes \ {l} : lanes'[k] = lanes[k]
BY DEF LanesOK

\* How a lane comes by its job, or goes on with it.
Taken(l) ==
  /\ ~Busy(l) /\ \E c \in Channels : c \in Serves(l) /\ lanes'[l].job \in ToSet(queue[c])
  /\ lanes'[l].phase = "run" /\ lanes'[l].attempt = 0 /\ UNCHANGED <<discordVars, delivered>>
Retried(l) ==
  /\ lanes'[l].phase = "run" /\ lanes'[l].attempt = lanes[l].attempt + 1
  /\ lanes[l].attempt + 1 < lanes[l].job.attempts
Sent(l) ==
  /\ lanes[l].phase = "run" /\ (lanes[l].job.kind = "alert" => ~InCooldown(lanes[l].job))
  /\ lanes[l].job.kind # "card"
  /\ lanes'[l].phase = "post" /\ UNCHANGED <<discordVars, delivered>>
Updated(l) ==
  LET c == lanes[l].job.key[2]
      channel == settings.channels[PurposeOf(c)]
      here == bindings[c] # NoMessage /\ bindings[c].channel = channel
  IN  /\ lanes[l].job.kind = "card" /\ Bound(PurposeOf(c))
      /\ lanes'[l].msg = Shown(c) /\ lanes'[l].channel = channel
      /\ lanes'[l].phase = IF here THEN "edit" ELSE "post"
      /\ UNCHANGED <<discordVars, delivered>>
Edited(l) ==
  /\ lanes[l].phase = "edit"
  /\ ~(Live(lanes[l].msg) /\ messages[lanes[l].msg].channel = lanes[l].channel)
  /\ lanes'[l].phase = "post" /\ lanes'[l].channel = lanes[l].channel
  /\ UNCHANGED <<discordVars, delivered>>
Answered(l) ==
  /\ lanes[l].phase = "post" /\ Post(l)
  /\ \E m : PostKept(l, m) /\ lanes'[l].msg = m
  /\ lanes'[l].phase = "record" /\ lanes'[l].channel = lanes[l].channel
GoesOn(l) ==
  /\ Busy(l) /\ lanes'[l].job = lanes[l].job
  /\ Retried(l) \/ (lanes'[l].attempt = lanes[l].attempt /\ (Sent(l) \/ Updated(l) \/ Edited(l) \/ Answered(l)))

LEMMA LaneTakes ==
  ASSUME LanesOK, QueueOK, NEW l \in Lanes, NEW c \in Channels, c \in Serves(l),
         lanes[l].phase \in {"poll", "wait"}, Take(l, c)
  PROVE  Taken(l) /\ \A k \in Lanes \ {l} : lanes'[k] = lanes[k]
<1> DEFINE x == [Polling EXCEPT !.phase = "run", !.job = Head(queue[c])]
<1>1. lanes' = [lanes EXCEPT ![l] = x] /\ queue[c] # <<>> /\ UNCHANGED <<discordVars, delivered>>
  BY DEF Take
<1>2. x.job = Head(queue[c]) /\ x.phase = "run" /\ x.attempt = 0
  BY DEF Polling
<1> HIDE DEF x
<1>3. lanes'[l] = x /\ \A k \in Lanes \ {l} : lanes'[k] = lanes[k]
  BY <1>1, SetLane
<1>4. Head(queue[c]) \in ToSet(queue[c])
  <2>1. PICK s : s = queue[c]
    OBVIOUS
  <2>2. IsSequence(s) /\ s # <<>>
    BY <1>1, <2>1 DEF QueueOK
  <2>3. s \in Seq(ToSet(s))
    BY <2>2 DEF IsSequence
  <2>4. Head(s) \in ToSet(s)
    BY <2>2, <2>3
  <2> QED
    BY <2>1, <2>4
<1>5. ~Busy(l)
  BY DEF Busy
<1> QED
  BY <1>1, <1>2, <1>3, <1>4, <1>5 DEF Taken

LEMMA OverEnds ==
  ASSUME LanesOK, NEW l \in Lanes, Over(l)
  PROVE  ~Busy(l)' /\ \A k \in Lanes \ {l} : lanes'[k] = lanes[k]
<1>1. lanes'[l] = Polling /\ \A k \in Lanes \ {l} : lanes'[k] = lanes[k]
  BY SetLane DEF Over
<1> QED
  BY <1>1, PollingLane DEF Busy

LEMMA FailedGoes ==
  ASSUME LanesOK, NEW l \in Lanes, Over(l) \/ Failed(l)
  PROVE  /\ \A k \in Lanes \ {l} : lanes'[k] = lanes[k]
         /\ ~Busy(l)' \/ (lanes'[l].job = lanes[l].job /\ Retried(l))
<1>1. CASE Over(l)
  BY <1>1, OverEnds
<1>2. CASE Retries(l)
  <2>1. PICK x : /\ Continues(l, x) /\ x.phase = "run" /\ x.attempt = lanes[l].attempt + 1
                 /\ lanes[l].attempt + 1 < lanes[l].job.attempts
    BY <1>2, RetriesContinues
  <2>2. lanes'[l] = x /\ \A k \in Lanes \ {l} : lanes'[k] = lanes[k]
    BY <2>1, SetLane DEF Continues
  <2> QED
    BY <2>1, <2>2 DEF Retried, Continues
<1> QED
  BY <1>1, <1>2, FailedCases

LEMMA GoesTo ==
  ASSUME LanesOK, NEW l \in Lanes, NEW phase \in {"edit", "post", "record"}, NEW m, Goes(l, phase, m)
  PROVE  /\ \A k \in Lanes \ {l} : lanes'[k] = lanes[k]
         /\ lanes'[l].job = lanes[l].job /\ lanes'[l].phase = phase /\ lanes'[l].msg = m
         /\ lanes'[l].attempt = lanes[l].attempt /\ lanes'[l].channel = lanes[l].channel
<1>1. PICK x : /\ Continues(l, x) /\ x.phase = phase /\ x.attempt = lanes[l].attempt /\ x.msg = m
               /\ x.channel = lanes[l].channel
  BY GoesContinues
<1>2. lanes'[l] = x /\ \A k \in Lanes \ {l} : lanes'[k] = lanes[k]
  BY <1>1, SetLane DEF Continues
<1> QED
  BY <1>1, <1>2 DEF Continues

LEMMA LaneMoves ==
  ASSUME MessageType, LanesOK, QueueOK, Placed, NEW l \in Lanes, Lane(l)
  PROVE  /\ \A k \in Lanes \ {l} : lanes'[k] = lanes[k]
         /\ ~Busy(l)' \/ Taken(l) \/ GoesOn(l)
<1> DEFINE Goal == /\ \A k \in Lanes \ {l} : lanes'[k] = lanes[k]
                   /\ ~Busy(l)' \/ Taken(l) \/ GoesOn(l)
<1>0. SUFFICES Goal
  OBVIOUS
<1>1. ASSUME NEW c \in Channels, c \in Serves(l), lanes[l].phase \in {"poll", "wait"}, Take(l, c)
      PROVE  Goal
  BY <1>1, LaneTakes
<1>2. CASE lanes' = [lanes EXCEPT ![l].phase = "wait"]
  <2> DEFINE x == [lanes[l] EXCEPT !.phase = "wait"]
  <2>1. lanes' = [lanes EXCEPT ![l] = x] /\ x.phase = "wait"
    BY <1>2 DEF LanesOK, LaneFields
  <2> HIDE DEF x
  <2>2. lanes'[l] = x /\ \A k \in Lanes \ {l} : lanes'[k] = lanes[k]
    BY <2>1, SetLane
  <2> QED
    BY <2>1, <2>2 DEF Busy
<1>3. CASE TakeJob(l)
  <2>1. CASE lanes[l].phase = "poll" /\ l # "background" /\ Take(l, l)
    <3>1. l \in Channels /\ l \in Serves(l)
      BY <2>1 DEF Lanes, Channels, Serves
    <3> QED
      BY <1>1, <2>1, <3>1
  <2>2. CASE lanes[l].phase = "poll" /\ l = "background" /\ Take(l, "dashboard")
    <3>1. "dashboard" \in Channels /\ "dashboard" \in Serves(l)
      BY <2>2 DEF Channels, Serves
    <3> QED
      BY <1>1, <2>2, <3>1
  <2>3. CASE lanes[l].phase = "wait" /\ \E c \in Serves(l) : Take(l, c)
    <3>1. PICK c \in Serves(l) : Take(l, c)
      BY <2>3
    <3>2. c \in Channels
      BY <3>1 DEF Lanes, Channels, Serves
    <3> QED
      BY <1>1, <2>3, <3>1, <3>2
  <2> QED
    BY <1>2, <1>3, <2>1, <2>2, <2>3 DEF TakeJob
<1>4. ASSUME Busy(l), Over(l) \/ Failed(l) PROVE Goal
  BY <1>4, FailedGoes DEF GoesOn
<1>5. CASE SendAlert(l) \/ SendTest(l) \/ SendReport(l)
  <2>1. /\ Busy(l) /\ UNCHANGED <<discordVars, delivered>> /\ lanes[l].job.kind # "card"
    BY <1>5 DEF SendAlert, SendTest, SendReport, Running, Busy
  <2>2. CASE Over(l) \/ Failed(l)
    BY <1>4, <2>1, <2>2
  <2>3. CASE ~(Over(l) \/ Failed(l))
    <3>1. Goes(l, "post", NoMessage) /\ (Running(l, "alert") => ~InCooldown(lanes[l].job))
      BY <1>5, <2>3 DEF SendAlert, SendTest, SendReport, Running
    <3>2. /\ \A k \in Lanes \ {l} : lanes'[k] = lanes[k]
          /\ lanes'[l].job = lanes[l].job /\ lanes'[l].phase = "post"
          /\ lanes'[l].attempt = lanes[l].attempt
      BY <3>1, GoesTo
    <3>3. lanes[l].phase = "run"
      BY <1>5 DEF SendAlert, SendTest, SendReport, Running
    <3> QED
      BY <2>1, <3>1, <3>2, <3>3 DEF GoesOn, Sent, Running
  <2> QED
    BY <2>2, <2>3
<1>6. CASE UpdateCard(l)
  <2>1. Busy(l) /\ lanes[l].job.kind = "card" /\ UNCHANGED <<discordVars, delivered>>
    BY <1>6 DEF UpdateCard, Running, Busy
  <2>2. CASE Over(l) \/ Failed(l)
    BY <1>4, <2>1, <2>2
  <2>3. CASE ~(Over(l) \/ Failed(l))
    <3> DEFINE c == lanes[l].job.key[2]
               channel == settings.channels[PurposeOf(c)]
               here == bindings[c] # NoMessage /\ bindings[c].channel = channel
    <3>1. PICK x :
               /\ Continues(l, x) /\ x.attempt = lanes[l].attempt /\ x.msg = Shown(c)
               /\ x.channel = channel /\ Bound(PurposeOf(c))
               /\ x.phase = IF here THEN "edit" ELSE "post"
      BY <1>6, <2>3, UpdateContinues
    <3>2. lanes'[l] = x /\ \A k \in Lanes \ {l} : lanes'[k] = lanes[k]
      BY <3>1, SetLane DEF Continues
    <3>3. Updated(l)
      BY <2>1, <3>1, <3>2 DEF Updated
    <3>4. lanes'[l].job = lanes[l].job /\ lanes'[l].attempt = lanes[l].attempt
      BY <3>1, <3>2 DEF Continues
    <3> QED
      BY <2>1, <3>2, <3>3, <3>4 DEF GoesOn
  <2> QED
    BY <2>2, <2>3
<1>7. CASE EditCard(l)
  <2>1. Busy(l) /\ lanes[l].phase = "edit" /\ UNCHANGED <<discordVars, delivered>>
    BY <1>7 DEF EditCard, Busy
  <2>2. CASE Over(l) \/ Failed(l)
    BY <1>4, <2>1, <2>2
  <2>3. CASE ~(Over(l) \/ Failed(l))
    <3>1. /\ ~(Live(lanes[l].msg) /\ messages[lanes[l].msg].channel = lanes[l].channel)
          /\ Goes(l, "post", lanes[l].msg)
      BY <1>7, <2>3 DEF EditCard
    <3>2. /\ \A k \in Lanes \ {l} : lanes'[k] = lanes[k]
          /\ lanes'[l].job = lanes[l].job /\ lanes'[l].phase = "post"
          /\ lanes'[l].attempt = lanes[l].attempt /\ lanes'[l].channel = lanes[l].channel
      BY <3>1, GoesTo
    <3>3. Edited(l)
      BY <2>1, <3>1, <3>2 DEF Edited
    <3> QED
      BY <2>1, <3>2, <3>3 DEF GoesOn
  <2> QED
    BY <2>2, <2>3
<1>8. CASE Post(l)
  <2>1. /\ Busy(l) /\ lanes[l].phase = "post"
        /\ PostFails(l) \/ \E m : PostLost(l, m) \/ PostKept(l, m) \/ PostDone(l, m)
    BY <1>8, PostDelivers
  <2>2. CASE Over(l) \/ Failed(l)
    BY <1>4, <2>1, <2>2
  <2>3. CASE \E m : PostKept(l, m)
    <3>1. PICK m : PostKept(l, m)
      BY <2>3
    <3>2. /\ \A k \in Lanes \ {l} : lanes'[k] = lanes[k]
          /\ lanes'[l].job = lanes[l].job /\ lanes'[l].phase = "record" /\ lanes'[l].msg = m
          /\ lanes'[l].attempt = lanes[l].attempt /\ lanes'[l].channel = lanes[l].channel
      BY <3>1, GoesTo DEF PostKept
    <3>3. Answered(l)
      BY <1>8, <2>1, <3>1, <3>2 DEF Answered
    <3> QED
      BY <2>1, <3>2, <3>3 DEF GoesOn
  <2> QED
    BY <2>1, <2>2, <2>3 DEF PostFails, PostLost, PostDone
<1>9. CASE MarkRun(l) \/ BindCard(l)
  <2>1. Busy(l) /\ (Over(l) \/ Failed(l))
    BY <1>9 DEF MarkRun, BindCard, Busy
  <2> QED
    BY <1>4, <2>1
<1> HIDE DEF Goal
<1> QED
  BY <1>3, <1>5, <1>6, <1>7, <1>8, <1>9 DEF Lane

\* A lane that has a job had it, or takes it from a queue.
LEMMA BusyMoves ==
  ASSUME MessageType, LanesOK, QueueOK, Placed, [Next]_vars, NEW l \in Lanes, Busy(l)'
  PROVE  \/ Busy(l) /\ lanes'[l] = lanes[l]
         \/ Taken(l)
         \/ GoesOn(l) /\ Lane(l)
<1>1. CASE OutboundStep
  <2>1. CASE \E k \in Lanes : Lane(k)
    <3>1. PICK k \in Lanes : Lane(k)
      BY <2>1
    <3>2. /\ \A i \in Lanes \ {k} : lanes'[i] = lanes[i]
          /\ ~Busy(k)' \/ Taken(k) \/ GoesOn(k)
      BY <3>1, LaneMoves
    <3>3. CASE k = l
      BY <3>1, <3>2, <3>3
    <3>4. CASE k # l
      <4>1. lanes'[l] = lanes[l]
        BY <3>2, <3>4
      <4> QED
        BY <4>1 DEF Busy
    <3> QED
      BY <3>3, <3>4
  <2>2. CASE ~(\E k \in Lanes : Lane(k))
    <3>1. UNCHANGED lanes
      BY <1>1, <2>2 DEF OutboundStep, SubmitAlert, SubmitDestinationTest, ScheduleReport,
         EnqueueDueReports, EnqueueDueAdminDigest, RefreshCard, ConfigureAlerts, ConfigureGuild,
         ConfigureChannel, ResetDashboard
    <3> QED
      BY <3>1 DEF Busy
  <2> QED
    BY <2>1, <2>2
<1>2. CASE UNCHANGED lanes
  BY <1>2 DEF Busy
<1>3. CASE Crash
  <2>1. lanes'[l] = Polling
    BY <1>3 DEF Crash, OutboundLost
  <2> QED
    BY <2>1, PollingLane DEF Busy
<1> QED
  BY <1>1, <1>2, <1>3, NextCases DEF Tick, vars, outboundVars

-----------------------------------------------------------------------------
(* What the jobs in hand are about.                                        *)

\* What is queued was queued, or is new.
LEMMA QueuedKept ==
  ASSUME Context, RunsOK, JobsInv, [Next]_vars, NEW c \in Channels, NEW j \in ToSet(queue'[c])
  PROVE  j \in ToSet(queue[c]) \/ Fresh(j)
<1>0. /\ QueueOK /\ LanesOK /\ Placed /\ KeysPending /\ ReportsDue /\ config \in Configurations
  BY DEF Context, JobsOK, JobsInv, QueueInv
<1>1. CASE SameJobs
  BY <1>1 DEF SameJobs
<1>2. CASE \E l, d : Takes(l, d)
  <2>1. \A d \in Channels : ToSet(queue'[d]) \subseteq ToSet(queue[d])
    BY <1>0, <1>2, TakesMembers
  <2> QED
    BY <2>1
<1>3. CASE \E l : Ends(l)
  BY <1>3 DEF Ends
<1>4. CASE \E d, new : Appends(d, new) /\ \A i \in DOMAIN new : Fresh(new[i])
  <2>1. PICK d, new : Appends(d, new) /\ \A i \in DOMAIN new : Fresh(new[i])
    BY <1>4
  <2>2. /\ \A e \in Channels \ {d} : queue'[e] = queue[e]
        /\ ToSet(queue'[d]) = ToSet(queue[d]) \cup ToSet(new)
    BY <1>0, <2>1, AppendsFacts
  <2>3. \A i \in ToSet(new) : Fresh(i)
    BY <2>1 DEF ToSet
  <2>4. CASE c = d
    BY <2>2, <2>3, <2>4
  <2>5. CASE c # d
    <3>1. queue'[c] = queue[c]
      BY <2>2, <2>5
    <3> QED
      BY <3>1
  <2> QED
    BY <2>4, <2>5
<1>5. CASE \E job : Replaces(job)
  <2>1. PICK job : Replaces(job)
    BY <1>5
  <2>2. /\ \A d \in Channels \ {"dashboard"} : queue'[d] = queue[d]
        /\ ToSet(queue'["dashboard"]) = {job} /\ job.kind = "card"
    BY <1>0, <2>1, ReplacesFacts DEF Replaces
  <2>3. Fresh(job)
    BY <2>2 DEF Fresh
  <2>4. CASE c = "dashboard"
    BY <2>2, <2>3, <2>4
  <2>5. CASE c # "dashboard"
    <3>1. queue'[c] = queue[c]
      BY <2>2, <2>5
    <3> QED
      BY <3>1
  <2> QED
    BY <2>4, <2>5
<1>6. CASE Empties
  <2>1. ToSet(queue'[c]) = {}
    BY <1>6 DEF Empties, ToSet
  <2> QED
    BY <2>1
<1> QED
  BY <1>0, <1>1, <1>2, <1>3, <1>4, <1>5, <1>6, JobMoves

LEMMA SubjectKinds ==
  ASSUME NEW j, JobForm(j)
  PROVE  /\ j.subject[1] = j.kind /\ j.kind \in {"alert", "test", "report", "card"}
         /\ j.kind = "test" => j.chan = "interaction"
         /\ j.kind = "report" => j.chan = "report"
<1>0. j.kind \in {"alert", "test", "report", "card"}
  BY JobFormKind
<1>1. CASE j.kind = "alert"
  <2>1. j.subject = <<"alert", j.subject[2]>>
    BY <1>1 DEF JobForm, AlertForm
  <2> QED
    BY <1>1, <2>1
<1>2. CASE j.kind = "test"
  <2>1. j.subject = <<"test", j.subject[2]>> /\ j.chan = "interaction"
    BY <1>2 DEF JobForm, TestForm
  <2> QED
    BY <1>2, <2>1
<1>3. CASE j.kind = "report"
  <2>1. j.key = <<"report", j.key[2], PeriodStart(j.at)>> /\ j.subject = j.key /\ j.chan = "report"
    BY <1>3 DEF JobForm, ReportForm
  <2> QED
    BY <1>3, <2>1
<1>4. CASE j.kind = "card"
  <2>1. j.key = <<"card", j.key[2]>> /\ j.subject = j.key
    BY <1>4 DEF JobForm, CardForm
  <2> QED
    BY <1>4, <2>1
<1> QED
  BY <1>0, <1>1, <1>2, <1>3, <1>4

\* Only an alert has the key of one; it is a watch-like one, in their lane.
LEMMA AlertKeyJobs ==
  ASSUME Placed, ReportsDue, RunsOK, NEW j \in Active, j.key \in AlertKeys
  PROVE  j.kind = "alert" /\ j.chan = "alert" /\ j.key \notin EmergencyKeys
<1>0. JobForm(j) /\ j.at \in Int
  BY JobFields DEF Placed, JobForm
<1>1. j.key \notin EmergencyKeys /\ j.key \notin OtherKeys
  BY KeyAssumption DEF KeyAssumption
<1>2. j.kind # "test"
  BY <1>0, <1>1 DEF JobForm, TestForm, OtherKeys
<1>3. ASSUME j.kind = "report" PROVE FALSE
  <2>1. j.key = <<"report", j.key[2], PeriodStart(j.at)>>
    BY <1>0, <1>3 DEF JobForm, ReportForm
  <2>2. j.key[2] \in Schedules \cup {"digest"}
    BY <1>3 DEF ReportsDue, RunsOK
  <2>3. PeriodStart(j.at) \in Int
    BY <1>0, PeriodFacts
  <2> QED
    BY <1>1, <2>1, <2>2, <2>3 DEF OtherKeys
<1>4. ASSUME j.kind = "card" PROVE FALSE
  <2>1. j.key = <<"card", j.key[2]>> /\ j.key[2] \in Cards
    BY <1>0, <1>4 DEF JobForm, CardForm
  <2> QED
    BY <1>1, <2>1 DEF OtherKeys
<1>5. j.kind = "alert"
  BY <1>0, <1>2, <1>3, <1>4, JobFormKind
<1> QED
  BY <1>0, <1>1, <1>5 DEF JobForm, AlertForm

LEMMA OneAlertLane ==
  ASSUME Placed, NEW l \in Lanes, NEW k \in Lanes, Busy(l), Busy(k),
         lanes[l].job.chan = lanes[k].job.chan
  PROVE  l = k
BY BusyFacts, ServesApart

\* What one lane has in hand, nobody else has.
LEMMA OnlyInHand ==
  ASSUME QueueInv, NEW l \in Lanes, Busy(l)
  PROVE  /\ \A c \in Channels : \A j \in ToSet(queue[c]) :
              j.kind \in {"alert", "test"} => j.subject # lanes[l].job.subject
         /\ \A k \in Lanes \ {l} : Busy(k) /\ lanes[k].job.kind \in {"alert", "test", "report"} =>
              lanes[k].job.subject # lanes[l].job.subject
<1>0. Placed /\ OneOfEach /\ InOrder
  BY DEF QueueInv
<1>1. PICK job : job = lanes[l].job
  OBVIOUS
<1>2. job \in Active /\ JobForm(job) /\ job.subject[1] = job.kind
  BY <1>0, <1>1, BusyFacts, SubjectKinds
<1>3. ASSUME NEW j \in Active, j.kind \in {"alert", "test", "report"}, j.subject = job.subject
      PROVE  j.kind = job.kind /\ j.chan = job.chan
  <2>1. JobForm(j) /\ j.subject[1] = j.kind
    BY <1>0, SubjectKinds DEF Placed
  <2>2. j.kind = job.kind
    BY <1>2, <1>3, <2>1
  <2>3. CASE j.kind = "alert"
    BY <1>0, <1>2, <1>3, <2>2, <2>3 DEF OneOfEach
  <2>4. CASE j.kind \in {"test", "report"}
    BY <1>2, <2>1, <2>2, <2>4, SubjectKinds
  <2> QED
    BY <1>3, <2>2, <2>3, <2>4
<1>4. ASSUME NEW c \in Channels, NEW j \in ToSet(queue[c]), j.kind \in {"alert", "test"},
             j.subject = job.subject
      PROVE  FALSE
  <2>1. j \in Active /\ j.chan = c
    BY <1>0, <1>4, ActivePlaces DEF Placed
  <2>2. j.kind = job.kind /\ job.chan = c
    BY <1>3, <1>4, <2>1
  <2>3. PICK i \in DOMAIN queue[c] : queue[c][i] = j
    BY <1>4 DEF ToSet
  <2>4. Before(job, j)
    BY <1>0, <1>1, <2>2, <2>3 DEF InOrder
  <2>5. job.subject[2] < j.subject[2]
    BY <1>4, <2>2, <2>4 DEF Before
  <2>6. job.subject[2] \in Nat
    BY <1>2, <1>4, <2>2 DEF JobForm, AlertForm, TestForm
  <2> QED
    BY <1>4, <2>5, <2>6
<1>5. ASSUME NEW k \in Lanes \ {l}, Busy(k), lanes[k].job.kind \in {"alert", "test", "report"},
             lanes[k].job.subject = job.subject
      PROVE  FALSE
  <2>1. lanes[k].job \in Active
    BY <1>0, <1>5, BusyFacts
  <2>2. lanes[k].job.chan = job.chan
    BY <1>3, <1>5, <2>1
  <2> QED
    BY <1>0, <1>1, <1>5, <2>2, OneAlertLane
<1> QED
  BY <1>1, <1>4, <1>5

-----------------------------------------------------------------------------
(* The messages, by their kinds.                                           *)

\* A step that posts: what for.
PostsFor(subject, key, at, nonce, m) ==
  \/ SendLog /\ subject = <<"log", Row>> /\ key = NoSession /\ at = clock /\ nonce = subject
       /\ \E channel : Arrives(m, subject, key, at, channel, nonce)
  \/ \E l \in Lanes :
       /\ lanes[l].phase = "post" /\ Busy(l) /\ Delivers(l, m)
       /\ PostLost(l, m) \/ PostKept(l, m) \/ PostDone(l, m)
       /\ subject = lanes[l].job.subject /\ key = lanes[l].job.key /\ at = lanes[l].job.at
       /\ nonce = NonceOf(l)

\* Nothing new is posted, or one message for a job or a log entry.
LEMMA PostKinds ==
  ASSUME MessageType, clock \in Nat, [Next]_vars
  PROVE  \/ Still
         \/ UNCHANGED clock /\ \E subject, key, at, nonce, m : PostsFor(subject, key, at, nonce, m)
<1>1. ASSUME NEW l \in Lanes, Post(l), UNCHANGED clock
      PROVE  Still \/ \E subject, key, at, nonce, m : PostsFor(subject, key, at, nonce, m)
  <2>1. CASE PostFails(l)
    BY <2>1, UnchangedStill DEF PostFails
  <2>2. CASE \E m : PostLost(l, m) \/ PostKept(l, m) \/ PostDone(l, m)
    <3>1. PICK m : PostLost(l, m) \/ PostKept(l, m) \/ PostDone(l, m)
      BY <2>2
    <3>2. Delivers(l, m)
      BY <3>1 DEF PostLost, PostKept, PostDone
    <3>3. lanes[l].phase = "post" /\ Busy(l)
      BY <1>1, PostDelivers
    <3>4. PostsFor(lanes[l].job.subject, lanes[l].job.key, lanes[l].job.at, NonceOf(l), m)
      BY <3>1, <3>2, <3>3 DEF PostsFor
    <3> QED
      BY <3>4
  <2> QED
    BY <1>1, <2>1, <2>2, PostDelivers
<1>2. ASSUME SendLog, UNCHANGED clock
      PROVE  \E subject, key, at, nonce, m : PostsFor(subject, key, at, nonce, m)
  <2>1. PICK e, m : e = <<"log", Row>> /\ m = PostedAs(<<"log", Row>>)
    OBVIOUS
  <2>2. messages' = AfterPost(e, NoSession, clock, "", e) /\ m = PostedAs(e)
    BY <1>2, <2>1 DEF SendLog
  <2>3. Arrives(m, e, NoSession, clock, "", e)
    BY <2>2, PostArrives
  <2>4. PostsFor(e, NoSession, clock, e, m)
    BY <1>2, <2>1, <2>3 DEF PostsFor
  <2> QED
    BY <2>4
<1>3. ASSUME (\E l \in Lanes : MarkRun(l) \/ BindCard(l)) \/ MarkLog \/ Crash PROVE Still
  <2>1. UNCHANGED messages
    BY <1>3 DEF MarkRun, BindCard, MarkLog, Crash
  <2> QED
    BY <2>1, UnchangedStill
<1> QED
  BY <1>1, <1>2, <1>3, BookKinds DEF Quiet

\* What is posted for a job or a log entry, and under which nonce.
LEMMA PostForms ==
  ASSUME Context, QueueInv, RunsOK,
         NEW subject, NEW key, NEW at, NEW nonce, NEW m, PostsFor(subject, key, at, nonce, m)
  PROVE  /\ \E channel : Arrives(m, subject, key, at, channel, nonce)
         /\ at \in Int /\ subject[1] \in {"alert", "test", "report", "card", "log"}
         /\ key \in AlertKeys => subject[1] = "alert"
         /\ subject[1] # "card" => nonce = subject
         /\ subject[1] = "card" => nonce[1] \in Cards /\ subject = <<"card", nonce[1]>>
         /\ subject[1] = "alert" => subject[2] \in Nat /\ subject[2] < submitted
         /\ subject[1] = "test" => subject[2] \in Nat /\ subject[2] < changes
         /\ subject[1] = "report" => subject[3] \in Int
<1>1. CASE SendLog /\ subject = <<"log", Row>> /\ key = NoSession /\ at = clock /\ nonce = subject
             /\ \E channel : Arrives(m, subject, key, at, channel, nonce)
  <2>1. subject[1] = "log"
    BY <1>1
  <2>2. key \notin AlertKeys
    BY <1>1, ConfigurationAssumption DEF ConfigurationAssumption
  <2>3. at \in Int
    BY <1>1 DEF Context
  <2> QED
    BY <1>1, <2>1, <2>2, <2>3
<1>2. ASSUME NEW l \in Lanes, Busy(l), Delivers(l, m),
             subject = lanes[l].job.subject, key = lanes[l].job.key, at = lanes[l].job.at,
             nonce = NonceOf(l)
      PROVE  /\ \E channel : Arrives(m, subject, key, at, channel, nonce)
             /\ at \in Int /\ subject[1] \in {"alert", "test", "report", "card", "log"}
             /\ key \in AlertKeys => subject[1] = "alert"
             /\ subject[1] # "card" => nonce = subject
             /\ subject[1] = "card" => nonce[1] \in Cards /\ subject = <<"card", nonce[1]>>
             /\ subject[1] = "alert" => subject[2] \in Nat /\ subject[2] < submitted
             /\ subject[1] = "test" => subject[2] \in Nat /\ subject[2] < changes
             /\ subject[1] = "report" => subject[3] \in Int
  <2>0. Placed /\ ReportsDue
    BY DEF QueueInv
  <2>1. PICK job : job = lanes[l].job
    OBVIOUS
  <2>2. job \in Active /\ JobForm(job)
    BY <1>2, <2>0, <2>1, BusyFacts
  <2>3. job.subject[1] = job.kind /\ job.kind \in {"alert", "test", "report", "card"}
    BY <2>2, SubjectKinds
  <2>4. job.at \in Int
    BY <2>2, JobFields DEF JobForm
  <2>5. job.key \in AlertKeys => job.kind = "alert"
    BY <2>0, <2>2, AlertKeyJobs
  <2>6. job.kind # "card" => nonce = subject
    BY <1>2, <2>1 DEF NonceOf
  <2>7. ASSUME job.kind = "card" PROVE nonce[1] \in Cards /\ subject = <<"card", nonce[1]>>
    <3>1. job.key = <<"card", job.key[2]>> /\ job.subject = job.key /\ job.key[2] \in Cards
      BY <2>2, <2>7 DEF JobForm, CardForm
    <3>2. nonce[1] = job.key[2]
      BY <1>2, <2>1, <2>7 DEF NonceOf
    <3> QED
      BY <1>2, <2>1, <3>1, <3>2
  <2>8. job.kind = "alert" => job.subject[2] \in Nat /\ job.subject[2] < submitted
    BY <2>2 DEF JobForm, AlertForm
  <2>9. job.kind = "test" => job.subject[2] \in Nat /\ job.subject[2] < changes
    BY <2>2 DEF JobForm, TestForm
  <2>10. ASSUME job.kind = "report" PROVE job.subject[3] \in Int
    <3>1. job.key = <<"report", job.key[2], PeriodStart(job.at)>> /\ job.subject = job.key
      BY <2>2, <2>10 DEF JobForm, ReportForm
    <3>2. job.subject[3] = PeriodStart(job.at)
      BY <3>1
    <3> QED
      BY <2>4, <3>2, PeriodFacts
  <2>11. \E channel : Arrives(m, subject, key, at, channel, nonce)
    BY <1>2 DEF Delivers
  <2> QED
    BY <1>2, <2>1, <2>3, <2>4, <2>5, <2>6, <2>7, <2>8, <2>9, <2>10, <2>11
<1> QED
  BY <1>1, <1>2 DEF PostsFor

\* A message other than a card's has the nonce of its subject, and no other has it.
LEMMA NonceSubjects ==
  ASSUME Posted, NEW m \in DOMAIN messages, NEW x, x[1] \in {"alert", "test", "report", "log"}
  PROVE  messages[m].nonce = x <=> messages[m].subject = x
<1>1. CASE messages[m].subject[1] = "card"
  <2>1. messages[m].nonce[1] \in Cards
    BY <1>1 DEF Posted
  <2>2. messages[m].nonce[1] \in {"dashboard", "leaders"}
    BY <2>1, CardAssumption DEF CardAssumption
  <2> QED
    BY <1>1, <2>2
<1>2. CASE messages[m].subject[1] # "card"
  BY <1>2 DEF Posted
<1> QED
  BY <1>1, <1>2

\* What of a message its kind depends on.
WellPosted(m) ==
  /\ messages[m].posted \in Nat /\ messages[m].posted <= clock /\ messages[m].at \in Int
  /\ messages[m].subject[1] \in {"alert", "test", "report", "card", "log"}
  /\ messages[m].key \in AlertKeys => messages[m].subject[1] = "alert"
  /\ messages[m].subject[1] # "card" => messages[m].nonce = messages[m].subject
  /\ messages[m].subject[1] = "card" =>
       messages[m].nonce[1] \in Cards /\ messages[m].subject = <<"card", messages[m].nonce[1]>>
  /\ messages[m].subject[1] = "alert" =>
       messages[m].subject[2] \in Nat /\ messages[m].subject[2] < submitted
  /\ messages[m].subject[1] = "test" =>
       messages[m].subject[2] \in Nat /\ messages[m].subject[2] < changes
  /\ messages[m].subject[1] = "report" => messages[m].subject[3] \in Int

LEMMA AllWellPosted == Posted <=> \A m \in DOMAIN messages : WellPosted(m)
BY DEF Posted, WellPosted

LEMMA WellPostedStays ==
  ASSUME clock \in Nat, Placed, Grows, Keeps, NEW m \in DOMAIN messages, WellPosted(m)
  PROVE  WellPosted(m)'
<1>0. submitted \in Nat /\ changes \in Nat
  BY DEF Placed
<1>1. /\ messages'[m].subject = messages[m].subject /\ messages'[m].key = messages[m].key
      /\ messages'[m].at = messages[m].at /\ messages'[m].nonce = messages[m].nonce
      /\ messages'[m].posted = messages[m].posted
  BY DEF Keeps
<1>2. messages[m].posted \in Nat /\ messages[m].posted <= clock => messages[m].posted <= clock'
  BY DEF Grows
<1>3. messages[m].subject[2] \in Nat /\ messages[m].subject[2] < submitted =>
        messages[m].subject[2] < submitted'
  BY <1>0 DEF Grows
<1>4. messages[m].subject[2] \in Nat /\ messages[m].subject[2] < changes =>
        messages[m].subject[2] < changes'
  BY <1>0 DEF Grows
<1> QED
  BY <1>1, <1>2, <1>3, <1>4 DEF WellPosted

LEMMA PostedStep ==
  ASSUME Context, RunsOK, JobsInv, Posted, [Next]_vars
  PROVE  Posted'
<1>0. /\ clock \in Nat /\ MessageType /\ Placed /\ QueueInv /\ submitted \in Nat /\ changes \in Nat
      /\ config \in Configurations
  BY DEF Context, JobsInv, QueueInv, Placed
<1>1. Grows
  BY <1>0, JobsKept
<1>2. Keeps => \A m \in DOMAIN messages : WellPosted(m)'
  BY <1>0, <1>1, WellPostedStays, AllWellPosted
<1>3. CASE Still
  <2>1. \A m \in DOMAIN messages' : WellPosted(m)'
    BY <1>2, <1>3 DEF Still
  <2> QED
    BY <2>1 DEF Posted, WellPosted
<1>4. ASSUME UNCHANGED clock,
             NEW subject, NEW key, NEW at, NEW nonce, NEW m, PostsFor(subject, key, at, nonce, m)
      PROVE  Posted'
  <2>1. /\ at \in Int /\ subject[1] \in {"alert", "test", "report", "card", "log"}
        /\ key \in AlertKeys => subject[1] = "alert"
        /\ subject[1] # "card" => nonce = subject
        /\ subject[1] = "card" => nonce[1] \in Cards /\ subject = <<"card", nonce[1]>>
        /\ subject[1] = "alert" => subject[2] \in Nat /\ subject[2] < submitted
        /\ subject[1] = "test" => subject[2] \in Nat /\ subject[2] < changes
        /\ subject[1] = "report" => subject[3] \in Int
    BY <1>0, <1>4, PostForms
  <2>2. PICK channel : Arrives(m, subject, key, at, channel, nonce)
    BY <1>0, <1>4, PostForms
  <2>3. CASE Adopted(m, nonce)
    <3>1. UNCHANGED messages
      BY <2>3 DEF Adopted
    <3> QED
      BY <1>2, <2>2, <3>1 DEF Arrives, Posted, WellPosted
  <2>4. CASE Newer(m, subject, key, at, channel, nonce)
    <3>1. /\ DOMAIN messages' = DOMAIN messages \cup {m}
          /\ messages'[m].subject = subject /\ messages'[m].key = key /\ messages'[m].at = at
          /\ messages'[m].nonce = nonce /\ messages'[m].posted = clock
      BY <2>4 DEF Newer
    <3>2. subject[2] \in Nat /\ subject[2] < submitted => subject[2] < submitted'
      BY <1>0, <1>1 DEF Grows
    <3>3. subject[2] \in Nat /\ subject[2] < changes => subject[2] < changes'
      BY <1>0, <1>1 DEF Grows
    <3>4. messages'[m].posted \in Nat /\ messages'[m].posted <= clock'
      BY <1>0, <1>4, <3>1
    <3>5. WellPosted(m)'
      BY <2>1, <3>1, <3>2, <3>3, <3>4 DEF WellPosted
    <3>6. \A n \in DOMAIN messages' : WellPosted(n)'
      BY <1>2, <2>2, <3>1, <3>5 DEF Arrives
    <3> QED
      BY <3>6 DEF Posted, WellPosted
  <2> QED
    BY <2>2, <2>3, <2>4 DEF Arrives
<1> QED
  BY <1>0, <1>3, <1>4, PostKinds

LEMMA SpacedStep ==
  ASSUME Context, RunsOK, JobsInv, Posted, Spaced, [Next]_vars
  PROVE  Spaced'
<1>0. clock \in Nat /\ MessageType /\ QueueInv
  BY DEF Context, JobsInv
<1>1. ASSUME Keeps, NEW m \in DOMAIN messages, NEW n \in DOMAIN messages,
             m < n, messages'[m].nonce = messages'[n].nonce
      PROVE  messages'[n].posted - messages'[m].posted >= NonceWindow
  BY <1>1 DEF Keeps, Spaced
<1>2. CASE Still
  BY <1>1, <1>2 DEF Still, Spaced
<1>3. ASSUME NEW subject, NEW key, NEW at, NEW nonce, NEW m, PostsFor(subject, key, at, nonce, m)
      PROVE  Spaced'
  <2>2. PICK channel : Arrives(m, subject, key, at, channel, nonce)
    BY <1>0, <1>3, PostForms
  <2>3. CASE Adopted(m, nonce)
    <3>1. UNCHANGED messages
      BY <2>3 DEF Adopted
    <3> QED
      BY <3>1 DEF Spaced
  <2>4. CASE Newer(m, subject, key, at, channel, nonce)
    <3>1. /\ DOMAIN messages' = DOMAIN messages \cup {m} /\ Keeps
          /\ messages'[m].nonce = nonce /\ messages'[m].posted = clock
          /\ \A n \in DOMAIN messages :
               n < m /\ (messages[n].nonce = nonce => ~(clock - messages[n].posted < NonceWindow))
      BY <2>2, <2>4 DEF Newer, Arrives
    <3>2. ASSUME NEW n \in DOMAIN messages, messages[n].nonce = nonce
          PROVE  clock - messages[n].posted >= NonceWindow
      <4>1. messages[n].posted \in Nat /\ NonceWindow \in Nat
        BY KeyAssumption DEF KeyAssumption, Posted
      <4> QED
        BY <1>0, <3>1, <3>2, <4>1
    <3>3. ASSUME NEW a \in DOMAIN messages', NEW b \in DOMAIN messages', a < b,
                 messages'[a].nonce = messages'[b].nonce
          PROVE  messages'[b].posted - messages'[a].posted >= NonceWindow
      <4>0. a \in Nat /\ b \in Nat /\ m \in Nat
        BY <1>0, <2>2, <3>1, MessageIndex DEF Arrives
      <4>1. CASE b = m
        <5>1. a \in DOMAIN messages
          BY <3>1, <3>3, <4>0, <4>1
        <5>2. messages'[a].nonce = messages[a].nonce /\ messages'[a].posted = messages[a].posted
          BY <3>1, <5>1 DEF Keeps
        <5> QED
          BY <3>1, <3>2, <3>3, <4>1, <5>1, <5>2
      <4>2. CASE b # m
        <5>1. b \in DOMAIN messages /\ b < m
          BY <3>1, <3>3, <4>2
        <5>2. a # m
          BY <3>3, <4>0, <5>1
        <5> QED
          BY <1>1, <3>1, <3>3, <5>1, <5>2
      <4> QED
        BY <4>1, <4>2
    <3> QED
      BY <3>3 DEF Spaced
  <2> QED
    BY <2>2, <2>3, <2>4 DEF Arrives
<1> QED
  BY <1>0, <1>2, <1>3, PostKinds

-----------------------------------------------------------------------------
(* What is about to be recorded.                                           *)

\* A nonce tells whose message it is of.
LEMMA NonceOfRecord ==
  ASSUME NEW r, NEW x, r.subject[1] \in {"alert", "test", "report", "card", "log"},
         r.subject[1] # "card" => r.nonce = r.subject,
         r.subject[1] = "card" => r.nonce[1] \in Cards /\ r.subject = <<"card", r.nonce[1]>>
  PROVE  /\ x[1] \in {"alert", "test", "report", "log"} => (r.nonce = x <=> r.subject = x)
         /\ x[1] \in Cards /\ r.nonce = x => r.subject = <<"card", x[1]>>
<1>1. CASE r.subject[1] = "card"
  <2>1. r.nonce[1] \in {"dashboard", "leaders"}
    BY <1>1, CardAssumption DEF CardAssumption
  <2> QED
    BY <1>1, <2>1
<1>2. CASE r.subject[1] # "card"
  <2>1. x[1] \in Cards => x[1] \in {"dashboard", "leaders"}
    BY CardAssumption DEF CardAssumption
  <2> QED
    BY <1>2, <2>1
<1> QED
  BY <1>1, <1>2

\* What is posted for a job in hand is posted by its lane.
LEMMA PostApart ==
  ASSUME Context, QueueInv, NEW subject, NEW key, NEW at, NEW nonce, NEW m,
         PostsFor(subject, key, at, nonce, m),
         NEW l \in Lanes, Busy(l), lanes[l].job.kind \in {"alert", "test", "report"},
         subject = lanes[l].job.subject
  PROVE  /\ lanes[l].phase = "post" /\ Delivers(l, m)
         /\ PostLost(l, m) \/ PostKept(l, m) \/ PostDone(l, m)
         /\ key = lanes[l].job.key /\ at = lanes[l].job.at /\ nonce = NonceOf(l)
<1>0. Placed
  BY DEF QueueInv
<1>1. subject[1] \in {"alert", "test", "report"}
  BY <1>0, BusyFacts, SubjectKinds
<1>2. subject # <<"log", Row>>
  BY <1>1
<1>3. PICK k \in Lanes :
       /\ lanes[k].phase = "post" /\ Busy(k) /\ Delivers(k, m)
       /\ PostLost(k, m) \/ PostKept(k, m) \/ PostDone(k, m)
       /\ subject = lanes[k].job.subject /\ key = lanes[k].job.key /\ at = lanes[k].job.at
       /\ nonce = NonceOf(k)
  BY <1>2 DEF PostsFor
<1>4. lanes[k].job.kind \in {"alert", "test", "report"}
  BY <1>0, <1>1, <1>3, BusyFacts, SubjectKinds
<1>5. k = l
  BY <1>3, <1>4, OnlyInHand
<1> QED
  BY <1>3, <1>5

LEMMA LastStays ==
  ASSUME NEW m, NEW s, LastOf(m, s), Keeps, MessageType, NEW subject, subject # s,
         \/ DOMAIN messages' = DOMAIN messages
         \/ \E n, key, at, channel, nonce : Arrives(n, subject, key, at, channel, nonce)
  PROVE  /\ m \in DOMAIN messages' /\ messages'[m].subject = s
         /\ \A n \in DOMAIN messages' : messages'[n].subject = s => n <= m
<1>1. m \in DOMAIN messages' /\ messages'[m].subject = s
  BY DEF LastOf, Keeps
<1>2. ASSUME NEW n \in DOMAIN messages', messages'[n].subject = s PROVE n <= m
  <2>1. n \in DOMAIN messages
    BY <1>2 DEF Arrives, Adopted, Newer
  <2> QED
    BY <1>2, <2>1 DEF LastOf, Keeps
<1> QED
  BY <1>1, <1>2

\* A message that is about to be recorded stays the last of its subject.
LEMMA LastStaysOf ==
  ASSUME Context, JobsInv, [Next]_vars, NEW m, NEW s, LastOf(m, s),
         \A subject, key, at, nonce, n : PostsFor(subject, key, at, nonce, n) => subject # s
  PROVE  /\ m \in DOMAIN messages' /\ messages'[m].subject = s
         /\ \A n \in DOMAIN messages' : messages'[n].subject = s => n <= m
<1>0. MessageType /\ clock \in Nat
  BY DEF Context
<1>1. CASE Still
  <2>1. <<>> # s \/ <<"x">> # s
    OBVIOUS
  <2> QED
    BY <1>0, <1>1, <2>1, LastStays DEF Still
<1>2. ASSUME NEW subject, NEW key, NEW at, NEW nonce, NEW n, PostsFor(subject, key, at, nonce, n)
      PROVE  /\ m \in DOMAIN messages' /\ messages'[m].subject = s
             /\ \A i \in DOMAIN messages' : messages'[i].subject = s => i <= m
  <2>1. \E channel : Arrives(n, subject, key, at, channel, nonce)
    BY <1>2 DEF PostsFor, Delivers
  <2>2. subject # s /\ Keeps
    BY <1>2, <2>1 DEF Arrives
  <2> QED
    BY <1>0, <2>1, <2>2, LastStays
<1> QED
  BY <1>0, <1>1, <1>2, PostKinds

LEMMA KeepsAlways ==
  ASSUME MessageType, clock \in Nat, [Next]_vars
  PROVE  Keeps
<1>1. ASSUME NEW subject, NEW key, NEW at, NEW nonce, NEW n, PostsFor(subject, key, at, nonce, n)
      PROVE  Keeps
  BY <1>1 DEF PostsFor, Delivers, Arrives
<1> QED
  BY <1>1, PostKinds DEF Still

\* How the log delivery comes to mark an entry.
LEMMA CourierMarks ==
  ASSUME Context, [Next]_vars, courier'.phase = "mark"
  PROVE  \/ UNCHANGED courier /\ ~SendLog
         \/ /\ SendLog /\ courier.phase = "send" /\ courier'.logs = courier.logs
            /\ courier'.msg = PostedAs(<<"log", Row>>)
<1>0. /\ clock \in Nat /\ SessionType /\ CaseType /\ AccessType /\ MessageType /\ OutboxType /\ OutboxOK
  BY DEF Context
<1>1. ASSUME courier.phase # "rest", NextLog PROVE FALSE
  BY <1>0, <1>1, NextLogFacts
<1>2. ~Crash
  BY RestingFacts DEF Crash, ModerationLost
<1>3. ~LoadLogs
  BY <1>0, LoadLogsFacts
<1>4. ~DeferLog /\ ~MarkLog
  BY <1>1 DEF DeferLog, MarkLog
<1>5. CASE SendLog
  <2>1. courier.phase = "send"
    BY <1>5 DEF SendLog
  <2>2. PICK m : m = PostedAs(<<"log", Row>>)
    OBVIOUS
  <2>3. courier' = [courier EXCEPT !.phase = "mark", !.msg = m]
    BY <1>1, <1>5, <2>1, <2>2 DEF SendLog
  <2>4. courier'.logs = courier.logs /\ courier'.msg = m
    BY <1>0, <2>3 DEF OutboxType, Courier
  <2> QED
    BY <1>5, <2>1, <2>2, <2>4
<1> QED
  BY <1>0, <1>2, <1>3, <1>4, <1>5, OutboxCases

LEMMA MarkingStep ==
  ASSUME Context, RunsOK, JobsInv, Posted, Spaced, Recording, [Next]_vars, Posted',
         courier'.phase = "mark"
  PROVE  LastOf(courier.msg, <<"log", Row>>)'
<1>0. clock \in Nat /\ MessageType /\ QueueInv /\ Placed
  BY DEF Context, JobsInv, QueueInv
<1>1. CASE UNCHANGED courier /\ ~SendLog
  <2>1. LastOf(courier.msg, <<"log", Row>>)
    BY <1>1 DEF Recording
  <2>2. ASSUME NEW subject, NEW key, NEW at, NEW nonce, NEW n, PostsFor(subject, key, at, nonce, n)
        PROVE  subject # <<"log", Row>>
    <3>1. PICK k \in Lanes : Busy(k) /\ subject = lanes[k].job.subject
      BY <1>1, <2>2 DEF PostsFor
    <3>2. subject[1] \in {"alert", "test", "report", "card"}
      BY <1>0, <3>1, BusyFacts, SubjectKinds
    <3> QED
      BY <3>2
  <2>3. PICK s : s = <<"log", Row>>
    OBVIOUS
  <2>4. /\ courier.msg \in DOMAIN messages' /\ messages'[courier.msg].subject = s
        /\ \A n \in DOMAIN messages' : messages'[n].subject = s => n <= courier.msg
    BY <2>1, <2>2, <2>3, LastStaysOf
  <2>5. courier'.msg = courier.msg /\ s = <<"log", Row'>>
    BY <1>1, <2>3 DEF Row
  <2> QED
    BY <2>4, <2>5 DEF LastOf
<1>2. CASE /\ SendLog /\ courier.phase = "send" /\ courier'.logs = courier.logs
           /\ courier'.msg = PostedAs(<<"log", Row>>)
  <2>1. PICK s : s = <<"log", Row>>
    OBVIOUS
  <2>2. s = <<"log", Row'>> /\ courier'.msg = PostedAs(s)
    BY <1>2, <2>1 DEF Row
  <2>3. messages' = AfterPost(s, NoSession, clock, "", s)
    BY <1>2, <2>1 DEF SendLog
  <2>4. PICK m : m = courier'.msg
    OBVIOUS
  <2>5. Arrives(m, s, NoSession, clock, "", s)
    BY <1>0, <2>2, <2>3, <2>4, PostArrives
  <2>6. /\ m \in DOMAIN messages' /\ messages'[m].nonce = s
        /\ \A n \in DOMAIN messages' : messages'[n].nonce = s => n <= m
    BY <1>0, <2>5, LastOfNonce
  <2>7. s[1] = "log"
    BY <2>1
  <2>8. \A n \in DOMAIN messages' : messages'[n].nonce = s <=> messages'[n].subject = s
    BY <2>7, NonceOfRecord DEF Posted
  <2> QED
    BY <2>2, <2>4, <2>6, <2>8 DEF LastOf
<1> QED
  BY <1>1, <1>2, CourierMarks

LEMMA RecordingStep ==
  ASSUME Context, RunsOK, JobsInv, Posted, Spaced, Recording, [Next]_vars, Posted', JobsInv'
  PROVE  Recording'
<1>0. clock \in Nat /\ MessageType /\ LanesOK /\ QueueOK /\ QueueInv /\ Placed
  BY DEF Context, JobsOK, JobsInv, QueueInv
<1>1. ASSUME NEW l \in Lanes, lanes'[l].phase = "record"
      PROVE  /\ lanes'[l].job.kind = "report" => LastOf(lanes[l].msg, lanes[l].job.subject)'
             /\ lanes'[l].job.kind = "card" =>
                  /\ lanes'[l].msg \in DOMAIN messages'
                  /\ messages'[lanes'[l].msg].subject = lanes'[l].job.subject
  <2>0. Busy(l)'
    BY <1>1 DEF Busy
  <2>1. CASE Busy(l) /\ lanes'[l] = lanes[l]
    <3>1. ASSUME lanes[l].job.kind = "report" PROVE LastOf(lanes[l].msg, lanes[l].job.subject)'
      <4>1. LastOf(lanes[l].msg, lanes[l].job.subject)
        BY <1>1, <2>1, <3>1 DEF Recording
      <4>2. ASSUME NEW subject, NEW key, NEW at, NEW nonce, NEW n, PostsFor(subject, key, at, nonce, n)
            PROVE  subject # lanes[l].job.subject
        BY <1>0, <1>1, <2>1, <3>1, <4>2, PostApart
      <4>3. PICK m, s : m = lanes[l].msg /\ s = lanes[l].job.subject
        OBVIOUS
      <4>4. /\ m \in DOMAIN messages' /\ messages'[m].subject = s
            /\ \A n \in DOMAIN messages' : messages'[n].subject = s => n <= m
        BY <4>1, <4>2, <4>3, LastStaysOf
      <4> QED
        BY <2>1, <4>3, <4>4 DEF LastOf
    <3>2. ASSUME lanes[l].job.kind = "card"
          PROVE  /\ lanes[l].msg \in DOMAIN messages'
                 /\ messages'[lanes[l].msg].subject = lanes[l].job.subject
      <4>1. lanes[l].msg \in DOMAIN messages /\ messages[lanes[l].msg].subject = lanes[l].job.subject
        BY <1>1, <2>1, <3>2 DEF Recording
      <4> QED
        BY <1>0, <4>1, KeepsAlways DEF Keeps
    <3> QED
      BY <2>1, <3>1, <3>2
  <2>2. CASE Answered(l) /\ Busy(l) /\ lanes'[l].job = lanes[l].job
    <3>1. PICK m : PostKept(l, m) /\ lanes'[l].msg = m
      BY <2>2 DEF Answered
    <3>2. PICK nonce : nonce = NonceOf(l)
      OBVIOUS
    <3>3. Arrives(m, lanes[l].job.subject, lanes[l].job.key, lanes[l].job.at, lanes[l].channel, nonce)
      BY <3>1, <3>2 DEF PostKept, Delivers
    <3>4. /\ m \in DOMAIN messages' /\ messages'[m].nonce = nonce
          /\ \A n \in DOMAIN messages' : messages'[n].nonce = nonce => n <= m
      BY <1>0, <3>3, LastOfNonce
    <3>5. ASSUME lanes[l].job.kind = "report" PROVE LastOf(lanes[l].msg, lanes[l].job.subject)'
      <4>1. nonce = lanes[l].job.subject /\ nonce[1] = "report"
        BY <1>0, <2>2, <3>2, <3>5, BusyFacts, SubjectKinds DEF NonceOf
      <4>2. \A n \in DOMAIN messages' : messages'[n].nonce = nonce <=> messages'[n].subject = nonce
        BY <4>1, NonceOfRecord DEF Posted
      <4> QED
        BY <2>2, <3>1, <3>4, <4>1, <4>2 DEF LastOf
    <3>6. ASSUME lanes[l].job.kind = "card" PROVE messages'[m].subject = lanes[l].job.subject
      <4>1. PICK job : job = lanes[l].job
        OBVIOUS
      <4>2. JobForm(job) /\ job.kind = "card"
        BY <1>0, <2>2, <3>6, <4>1, BusyFacts
      <4>3. job.key = <<"card", job.key[2]>> /\ job.subject = job.key /\ job.key[2] \in Cards
        BY <4>2 DEF JobForm, CardForm
      <4>4. nonce[1] = job.key[2]
        BY <3>2, <4>1, <4>2 DEF NonceOf
      <4>5. PICK r : r = messages'[m]
        OBVIOUS
      <4>6. /\ r.subject[1] \in {"alert", "test", "report", "card", "log"} /\ r.nonce = nonce
            /\ r.subject[1] # "card" => r.nonce = r.subject
            /\ r.subject[1] = "card" => r.nonce[1] \in Cards /\ r.subject = <<"card", r.nonce[1]>>
        BY <3>4, <4>5 DEF Posted
      <4>7. r.subject = <<"card", nonce[1]>>
        BY <4>3, <4>4, <4>6, NonceOfRecord
      <4> QED
        BY <4>1, <4>3, <4>4, <4>5, <4>7
    <3> QED
      BY <2>2, <3>1, <3>4, <3>5, <3>6
  <2>3. ~Taken(l)
    BY <1>1 DEF Taken
  <2>4. ~Retried(l) /\ ~Sent(l) /\ ~Edited(l)
    BY <1>1 DEF Retried, Sent, Edited
  <2>5. ~Updated(l)
    BY <1>1 DEF Updated
  <2> QED
    BY <1>0, <2>0, <2>1, <2>2, <2>3, <2>4, <2>5, BusyMoves DEF GoesOn
<1> QED
  BY <1>1, MarkingStep DEF Recording

-----------------------------------------------------------------------------
(* What was lost, and what comes to be known again.                        *)

MarksAReport(l, m) ==
  /\ MarkRun(l) /\ Busy(l) /\ lanes[l].phase = "record" /\ lanes[l].job.kind = "report"
  /\ m = lanes[l].msg /\ LastOf(m, lanes[l].job.subject) /\ UNCHANGED messages
  /\ lastRun' = [lastRun EXCEPT ![lanes[l].job.key[2]] = lanes[l].job.at]
MarksALog(m) ==
  /\ MarkLog /\ LastOf(m, <<"log", Row>>) /\ UNCHANGED messages
  /\ outbox' = [outbox EXCEPT ![Row].delivered = TRUE] /\ Row \in DOMAIN outbox
BindsACard(l, m) ==
  /\ BindCard(l) /\ Busy(l) /\ lanes[l].phase = "record" /\ lanes[l].job.kind = "card"
  /\ m = lanes[l].msg /\ m \in DOMAIN messages /\ messages[m].subject = lanes[l].job.subject
  /\ UNCHANGED messages
DeliversAll(l, m) == PostDone(l, m) /\ Busy(l) /\ lanes[l].phase = "post"

\* A post that was lost is known again when its job succeeds after all.
LEMMA Unrecord ==
  ASSUME Context, Recording, [Next]_vars, NEW m \in unrecorded, m \notin unrecorded'
  PROVE  \/ \E l \in Lanes : DeliversAll(l, m)
         \/ \E l \in Lanes : MarksAReport(l, m)
         \/ MarksALog(m)
         \/ \E l \in Lanes : BindsACard(l, m)
<1>0. MessageType
  BY DEF Context
<1>1. ASSUME NEW l \in Lanes, Post(l) PROVE DeliversAll(l, m)
  BY <1>0, <1>1, PostDelivers DEF PostFails, PostLost, PostKept, PostDone, DeliversAll
<1>2. ASSUME NEW l \in Lanes, MarkRun(l) PROVE MarksAReport(l, m)
  <2>1. /\ lanes[l].phase = "record" /\ lanes[l].job.kind = "report" /\ UNCHANGED messages
        /\ lastRun' = [lastRun EXCEPT ![lanes[l].job.key[2]] = lanes[l].job.at]
        /\ unrecorded' = unrecorded \ {lanes[l].msg}
    BY <1>2 DEF MarkRun
  <2>2. LastOf(lanes[l].msg, lanes[l].job.subject)
    BY <2>1 DEF Recording
  <2>3. m = lanes[l].msg
    BY <2>1
  <2> QED
    BY <1>2, <2>1, <2>2, <2>3 DEF MarksAReport, Busy
<1>3. CASE MarkLog
  <2>1. /\ courier.phase = "mark" /\ UNCHANGED messages /\ m = courier.msg
        /\ outbox' = [outbox EXCEPT ![Row].delivered = TRUE] /\ Row \in DOMAIN outbox
    BY <1>3 DEF MarkLog
  <2>2. LastOf(courier.msg, <<"log", Row>>)
    BY <2>1 DEF Recording
  <2> QED
    BY <1>3, <2>1, <2>2 DEF MarksALog
<1>4. ASSUME NEW l \in Lanes, BindCard(l) PROVE BindsACard(l, m)
  <2>1. /\ lanes[l].phase = "record" /\ lanes[l].job.kind = "card" /\ UNCHANGED messages
    BY <1>4 DEF BindCard
  <2>2. m = lanes[l].msg
    BY <1>4 DEF BindCard
  <2>3. lanes[l].msg \in DOMAIN messages /\ messages[lanes[l].msg].subject = lanes[l].job.subject
    BY <2>1 DEF Recording
  <2> QED
    BY <1>4, <2>1, <2>2, <2>3 DEF BindsACard, Busy
<1>5. ~SendLog /\ ~Crash /\ ~Quiet
  BY DEF SendLog, Crash, Quiet
<1> QED
  BY <1>0, <1>1, <1>2, <1>3, <1>4, <1>5, BookKinds

\* What was forgotten is known again only when it is bound again.
LEMMA Remember ==
  ASSUME Context, Recording, [Next]_vars, NEW m \in forgotten, m \notin forgotten'
  PROVE  \E l \in Lanes : BindsACard(l, m)
<1>0. MessageType
  BY DEF Context
<1>1. ASSUME NEW l \in Lanes, Post(l) PROVE forgotten \subseteq forgotten'
  BY <1>0, <1>1, PostDelivers, MarkedFacts DEF PostFails, PostLost, PostKept, PostDone
<1>2. ASSUME NEW l \in Lanes, BindCard(l) PROVE BindsACard(l, m)
  <2>1. /\ lanes[l].phase = "record" /\ lanes[l].job.kind = "card" /\ UNCHANGED messages
    BY <1>2 DEF BindCard
  <2>2. m = lanes[l].msg
    BY <1>2 DEF BindCard
  <2>3. lanes[l].msg \in DOMAIN messages /\ messages[lanes[l].msg].subject = lanes[l].job.subject
    BY <2>1 DEF Recording
  <2> QED
    BY <1>2, <2>1, <2>2, <2>3 DEF BindsACard, Busy
<1>3. (\E l \in Lanes : MarkRun(l)) \/ SendLog \/ MarkLog \/ Crash \/ Quiet => forgotten \subseteq forgotten'
  BY DEF MarkRun, SendLog, MarkLog, Crash, OutboundLost, Quiet
<1> QED
  BY <1>0, <1>1, <1>2, <1>3, BookKinds

\* The subject of what is delivered, and that it is the last of it.
LEMMA DeliveredLast ==
  ASSUME Context, QueueInv, Posted, Spaced, NEW l \in Lanes, NEW m \in DOMAIN messages,
         DeliversAll(l, m)
  PROVE  /\ messages[m].subject = lanes[l].job.subject
         /\ messages[m].subject[1] = lanes[l].job.kind /\ lanes[l].job.kind \in {"alert", "test"}
         /\ LastOf(m, messages[m].subject) /\ UNCHANGED messages
<1>0. clock \in Nat /\ MessageType /\ Placed
  BY DEF Context, QueueInv
<1>1. /\ Busy(l) /\ lanes[l].job.kind \in {"alert", "test"} /\ Delivers(l, m)
  BY DEF DeliversAll, PostDone
<1>2. PICK nonce : nonce = NonceOf(l)
  OBVIOUS
<1>3. nonce = lanes[l].job.subject /\ nonce[1] = lanes[l].job.kind
  BY <1>0, <1>1, <1>2, BusyFacts, SubjectKinds DEF NonceOf
<1>4. Arrives(m, lanes[l].job.subject, lanes[l].job.key, lanes[l].job.at, lanes[l].channel, nonce)
  BY <1>1, <1>2 DEF Delivers
<1>5. Adopted(m, nonce)
  BY <1>4 DEF Arrives, Newer
<1>6. /\ UNCHANGED messages /\ messages[m].nonce = nonce
      /\ \A n \in DOMAIN messages' : messages'[n].nonce = nonce => n <= m
  BY <1>0, <1>4, <1>5, LastOfNonce DEF Adopted
<1>7. \A n \in DOMAIN messages : messages[n].nonce = nonce <=> messages[n].subject = nonce
  BY <1>1, <1>3, NonceSubjects
<1> QED
  BY <1>1, <1>3, <1>6, <1>7 DEF LastOf

\* An alert or a test becomes known when its own lane delivers it.
LEMMA AlertUnrecorded ==
  ASSUME Context, QueueInv, Posted, Spaced, Recording, [Next]_vars, NEW m \in DOMAIN messages,
         messages[m].subject[1] \in {"alert", "test"}, m \in unrecorded \cup forgotten,
         ~Lost(m)'
  PROVE  m \in unrecorded /\ \E l \in Lanes : DeliversAll(l, m)
<1>0. Placed
  BY DEF QueueInv
<1>1. ASSUME NEW l \in Lanes, BindsACard(l, m) PROVE FALSE
  BY <1>0, <1>1, BusyFacts, SubjectKinds DEF BindsACard
<1>2. m \notin unrecorded' /\ m \notin forgotten'
  BY DEF Lost
<1>3. m \in unrecorded
  BY <1>1, <1>2, Remember
<1>4. ASSUME NEW l \in Lanes, MarksAReport(l, m) PROVE FALSE
  BY <1>0, <1>4, BusyFacts, SubjectKinds DEF MarksAReport, LastOf
<1>5. ASSUME MarksALog(m) PROVE FALSE
  <2>1. messages[m].subject = <<"log", Row>>
    BY <1>5 DEF MarksALog, LastOf
  <2> QED
    BY <2>1
<1> QED
  BY <1>1, <1>2, <1>3, <1>4, <1>5, Unrecord

\* A message was there, or it is posted in this step.
LEMMA NewMessage ==
  ASSUME MessageType, clock \in Nat, [Next]_vars, NEW n \in DOMAIN messages', n \notin DOMAIN messages
  PROVE  /\ UNCHANGED clock /\ n \in Nat
         /\ \E subject, key, at, nonce, channel :
              PostsFor(subject, key, at, nonce, n) /\ Newer(n, subject, key, at, channel, nonce)
<1>1. ~Still
  BY DEF Still
<1>2. PICK subject, key, at, nonce, m : PostsFor(subject, key, at, nonce, m) /\ UNCHANGED clock
  BY <1>1, PostKinds
<1>3. CASE SendLog
  <2>0. CASE \E channel : Arrives(m, subject, key, at, channel, nonce)
    <3>1. PICK channel : Arrives(m, subject, key, at, channel, nonce)
      BY <2>0
    <3>2. Newer(m, subject, key, at, channel, nonce) /\ m = n /\ m \in Nat
      BY <3>1 DEF Arrives, Adopted, Newer
    <3> QED
      BY <1>2, <3>2
  <2> QED
    BY <1>2, <2>0 DEF PostsFor, Delivers
<1>4. CASE ~SendLog
  <2>1. PICK channel : Arrives(m, subject, key, at, channel, nonce)
    BY <1>2, <1>4 DEF PostsFor, Delivers
  <2>2. Newer(m, subject, key, at, channel, nonce) /\ m = n /\ m \in Nat
    BY <2>1 DEF Arrives, Adopted, Newer
  <2> QED
    BY <1>2, <2>2
<1> QED
  BY <1>3, <1>4

-----------------------------------------------------------------------------
(* Alerts and tests in hand.                                               *)

\* The subject of a new message is that of a job that is running, or a log entry's.
LEMMA NewSubject ==
  ASSUME Context, QueueInv, RunsOK, [Next]_vars, NEW n \in DOMAIN messages', n \notin DOMAIN messages
  PROVE  /\ n \in Nat /\ \A m \in DOMAIN messages : m < n
         /\ DOMAIN messages' = DOMAIN messages \cup {n}
         /\ \/ messages'[n].subject[1] = "log" /\ messages'[n].key \notin AlertKeys /\ SendLog
            \/ \E l \in Lanes :
                 /\ lanes[l].phase = "post" /\ Busy(l) /\ Delivers(l, n)
                 /\ PostLost(l, n) \/ PostKept(l, n) \/ PostDone(l, n)
                 /\ messages'[n].subject = lanes[l].job.subject
                 /\ messages'[n].key = lanes[l].job.key /\ messages'[n].at = lanes[l].job.at
                 /\ messages'[n].nonce = NonceOf(l)
<1>0. MessageType /\ clock \in Nat
  BY DEF Context
<1>1. PICK subject, key, at, nonce, channel :
        PostsFor(subject, key, at, nonce, n) /\ Newer(n, subject, key, at, channel, nonce) /\ n \in Nat
  BY <1>0, NewMessage
<1>2. /\ DOMAIN messages' = DOMAIN messages \cup {n} /\ \A m \in DOMAIN messages : m < n
      /\ messages'[n].subject = subject /\ messages'[n].key = key /\ messages'[n].at = at
      /\ messages'[n].nonce = nonce
  BY <1>1 DEF Newer
<1>3. CASE SendLog /\ subject = <<"log", Row>> /\ key = NoSession
  BY <1>1, <1>2, <1>3, ConfigurationAssumption DEF ConfigurationAssumption
<1>4. CASE \E l \in Lanes :
             /\ lanes[l].phase = "post" /\ Busy(l) /\ Delivers(l, n)
             /\ PostLost(l, n) \/ PostKept(l, n) \/ PostDone(l, n)
             /\ subject = lanes[l].job.subject /\ key = lanes[l].job.key /\ at = lanes[l].job.at
             /\ nonce = NonceOf(l)
  BY <1>1, <1>2, <1>4
<1> QED
  BY <1>1, <1>3, <1>4 DEF PostsFor

LEMMA QueuedUnposted ==
  ASSUME Context, RunsOK, JobsInv, Posted, AlertsInHand, [Next]_vars, JobsInv',
         NEW c \in Channels, NEW j \in ToSet(queue'[c]), j.kind \in {"alert", "test"},
         NEW n \in DOMAIN messages', messages'[n].subject = j.subject
  PROVE  FALSE
<1>0. /\ MessageType /\ clock \in Nat /\ QueueInv /\ Placed /\ Placed'
      /\ submitted \in Nat /\ changes \in Nat
  BY DEF Context, JobsInv, QueueInv, Placed
<1>1. Keeps
  BY <1>0, KeepsAlways
<1>2. CASE n \in DOMAIN messages
  <2>1. messages[n].subject = j.subject
    BY <1>1, <1>2 DEF Keeps
  <2>2. CASE j \in ToSet(queue[c])
    BY <1>2, <2>1, <2>2 DEF AlertsInHand, HasPosted
  <2>3. CASE Fresh(j)
    <3>1. j.subject[1] = j.kind
      <4>1. j \in Active'
        BY DEF Active
      <4>2. JobForm(j)'
        BY <1>0, <4>1 DEF Placed
      <4>3. /\ j.kind = "alert" => j.subject = <<"alert", j.subject[2]>>
            /\ j.kind = "test" => j.subject = <<"test", j.subject[2]>>
        BY <4>2 DEF JobForm, AlertForm, TestForm
      <4> QED
        BY <4>3
    <3> QED
      BY <1>2, <2>1, <2>3, <3>1 DEF Fresh, Posted
  <2> QED
    BY <2>2, <2>3, QueuedKept
<1>3. CASE n \notin DOMAIN messages
  <2>1. \/ messages'[n].subject[1] = "log"
        \/ \E l \in Lanes : Busy(l) /\ messages'[n].subject = lanes[l].job.subject
    BY <1>0, <1>3, NewSubject
  <2>2. j \in Active'
    BY DEF Active
  <2>3. JobForm(j)'
    BY <1>0, <2>2 DEF Placed
  <2>4. /\ j.kind = "alert" => j.subject = <<"alert", j.subject[2]>>
        /\ j.kind = "test" => j.subject = <<"test", j.subject[2]>>
    BY <2>3 DEF JobForm, AlertForm, TestForm
  <2>5. j.subject[1] = j.kind
    BY <2>4
  <2>6. PICK l \in Lanes : Busy(l) /\ j.subject = lanes[l].job.subject
    BY <2>1, <2>5
  <2>7. CASE j \in ToSet(queue[c])
    BY <1>0, <2>6, <2>7, OnlyInHand
  <2>8. CASE Fresh(j)
    <3>1. JobForm(lanes[l].job) /\ lanes[l].job.kind = j.kind
      BY <1>0, <2>5, <2>6, BusyFacts, SubjectKinds
    <3>2. /\ j.kind = "alert" => j.subject[2] < submitted
          /\ j.kind = "test" => j.subject[2] < changes
      BY <2>6, <3>1 DEF JobForm, AlertForm, TestForm
    <3> QED
      BY <2>8, <3>2 DEF Fresh
  <2> QED
    BY <2>7, <2>8, QueuedKept
<1> QED
  BY <1>2, <1>3

LEMMA TestUnposted ==
  ASSUME Context, RunsOK, JobsInv, AlertsInHand, [Next]_vars,
         NEW l \in Lanes, Busy(l)', lanes'[l].job.kind = "test"
  PROVE  /\ lanes'[l].attempt = 0
         /\ \A n \in DOMAIN messages' : messages'[n].subject # lanes'[l].job.subject
<1>0. MessageType /\ clock \in Nat /\ QueueInv /\ Placed /\ LanesOK /\ QueueOK
  BY DEF Context, JobsOK, JobsInv, QueueInv
<1>1. Keeps
  BY <1>0, KeepsAlways
<1>2. CASE Taken(l)
  <2>1. lanes'[l].attempt = 0 /\ UNCHANGED messages
    BY <1>2 DEF Taken, discordVars
  <2>2. PICK c \in Channels : lanes'[l].job \in ToSet(queue[c])
    BY <1>2 DEF Taken
  <2>3. ~HasPosted(lanes'[l].job.subject)
    BY <2>2 DEF AlertsInHand
  <2> QED
    BY <2>1, <2>3 DEF HasPosted
<1>3. ASSUME Busy(l), lanes'[l].job = lanes[l].job PROVE
        lanes[l].attempt = 0 /\ ~HasPosted(lanes[l].job.subject) /\ lanes[l].job.attempts = 1
  <2>1. lanes[l].attempt = 0 /\ ~HasPosted(lanes[l].job.subject)
    BY <1>3 DEF AlertsInHand
  <2>2. JobForm(lanes[l].job) /\ lanes[l].job.kind = "test"
    BY <1>0, <1>3, BusyFacts
  <2> QED
    BY <2>1, <2>2 DEF JobForm, TestForm
<1>4. CASE Busy(l) /\ lanes'[l] = lanes[l]
  <2>1. lanes[l].attempt = 0 /\ ~HasPosted(lanes[l].job.subject) /\ lanes[l].job.attempts = 1
    BY <1>3, <1>4
  <2>2. ASSUME NEW n \in DOMAIN messages', messages'[n].subject = lanes[l].job.subject PROVE FALSE
    <3>1. n \notin DOMAIN messages
      BY <1>1, <2>1, <2>2 DEF Keeps, HasPosted
    <3>2. lanes[l].job.subject[1] = "test"
      BY <1>0, <1>4, BusyFacts, SubjectKinds
    <3>3. PICK k \in Lanes :
            /\ Busy(k) /\ messages'[n].subject = lanes[k].job.subject
            /\ PostLost(k, n) \/ PostKept(k, n) \/ PostDone(k, n)
      BY <1>0, <2>2, <3>1, <3>2, NewSubject
    <3>4. lanes[k].job.kind = "test"
      BY <1>0, <2>2, <3>2, <3>3, BusyFacts, SubjectKinds
    <3>5. k = l
      BY <1>0, <1>4, <2>2, <3>3, <3>4, OnlyInHand
    <3>6. Over(l)
      <4>1. CASE PostLost(l, n)
        <5>1. Failed(l)
          BY <4>1 DEF PostLost
        <5>2. ~(lanes[l].attempt + 1 < lanes[l].job.attempts)
          BY <2>1
        <5> QED
          BY <5>1, <5>2 DEF Failed
      <4>2. CASE PostKept(l, n)
        BY <1>4, <3>4, <3>5, <4>2 DEF PostKept
      <4>3. CASE PostDone(l, n)
        BY <4>3 DEF PostDone
      <4> QED
        BY <3>3, <3>5, <4>1, <4>2, <4>3
    <3> QED
      BY <1>0, <3>6, OverEnds
  <2> QED
    BY <1>4, <2>1, <2>2
<1>5. CASE GoesOn(l)
  <2>1. Busy(l) /\ lanes'[l].job = lanes[l].job
    BY <1>5 DEF GoesOn
  <2>2. lanes[l].attempt = 0 /\ ~HasPosted(lanes[l].job.subject) /\ lanes[l].job.attempts = 1
    BY <1>3, <2>1
  <2>3. ~Retried(l)
    BY <2>2 DEF Retried
  <2>4. ~Answered(l)
    BY <2>1 DEF Answered, PostKept
  <2>5. lanes'[l].attempt = lanes[l].attempt /\ UNCHANGED messages
    BY <1>5, <2>3, <2>4 DEF GoesOn, Sent, Updated, Edited, discordVars
  <2> QED
    BY <2>1, <2>2, <2>5 DEF HasPosted
<1> QED
  BY <1>0, <1>2, <1>4, <1>5, BusyMoves

\* An alert whose job goes on is posted by its own lane, which does not come to know it.
LEMMA OwnPost ==
  ASSUME Context, RunsOK, QueueInv, [Next]_vars, NEW l \in Lanes, Busy(l), Busy(l)',
         lanes'[l].job = lanes[l].job, lanes[l].job.kind = "alert",
         NEW n \in DOMAIN messages', n \notin DOMAIN messages
  PROVE  /\ messages'[n].subject = lanes[l].job.subject =>
              /\ messages'[n].key = lanes[l].job.key /\ messages'[n].at = lanes[l].job.at
              /\ n \in unrecorded'
         /\ messages'[n].key = lanes[l].job.key /\ messages'[n].key \in AlertKeys =>
              messages'[n].subject = lanes[l].job.subject
<1>0. MessageType /\ clock \in Nat /\ Placed /\ LanesOK /\ ReportsDue
  BY DEF Context, JobsOK, QueueInv
<1>1. lanes[l].job \in Active /\ lanes[l].job.subject[1] = "alert"
  BY <1>0, BusyFacts, SubjectKinds
<1>2. CASE messages'[n].subject[1] = "log" /\ messages'[n].key \notin AlertKeys
  BY <1>1, <1>2
<1>3. ASSUME NEW k \in Lanes, lanes[k].phase = "post", Busy(k),
             PostLost(k, n) \/ PostKept(k, n) \/ PostDone(k, n),
             messages'[n].subject = lanes[k].job.subject,
             messages'[n].key = lanes[k].job.key, messages'[n].at = lanes[k].job.at
      PROVE  /\ messages'[n].subject = lanes[l].job.subject =>
                  /\ messages'[n].key = lanes[l].job.key /\ messages'[n].at = lanes[l].job.at
                  /\ n \in unrecorded'
             /\ messages'[n].key = lanes[l].job.key /\ messages'[n].key \in AlertKeys =>
                  messages'[n].subject = lanes[l].job.subject
  <2>1. ASSUME messages'[n].subject = lanes[l].job.subject
        PROVE  /\ messages'[n].key = lanes[l].job.key /\ messages'[n].at = lanes[l].job.at
               /\ n \in unrecorded'
    <3>0. JobForm(lanes[k].job)
      BY <1>0, <1>3, BusyFacts
    <3>1. lanes[k].job.kind = "alert"
      <4>1. lanes[k].job.subject[1] = lanes[k].job.kind
        BY <3>0, SubjectKinds
      <4>2. lanes[k].job.subject = lanes[l].job.subject
        BY <1>3, <2>1
      <4> QED
        BY <1>1, <4>1, <4>2
    <3>2. k = l
      <4>1. Busy(k) /\ lanes[k].job.subject = lanes[l].job.subject
        BY <1>3, <2>1
      <4> QED
        BY <3>1, <4>1, OnlyInHand
    <3>3. ~PostDone(l, n)
      BY <1>0, OverEnds DEF PostDone
    <3>4. PostLost(l, n) \/ PostKept(l, n)
      BY <1>3, <3>2, <3>3
    <3>5. n \in unrecorded'
      BY <3>4 DEF PostLost, PostKept
    <3> QED
      BY <1>3, <3>2, <3>5
  <2>2. ASSUME messages'[n].key = lanes[l].job.key, messages'[n].key \in AlertKeys
        PROVE  messages'[n].subject = lanes[l].job.subject
    <3>1. lanes[k].job \in Active
      BY <1>0, <1>3, BusyFacts
    <3>2. lanes[k].job.chan = "alert" /\ lanes[l].job.chan = "alert"
      BY <1>0, <1>1, <1>3, <2>2, <3>1, AlertKeyJobs
    <3>3. k = l
      BY <1>0, <1>3, <3>2, OneAlertLane
    <3> QED
      BY <1>3, <3>3
  <2> QED
    BY <2>1, <2>2
<1> QED
  BY <1>2, <1>3, NewSubject

LEMMA AlertPosts ==
  ASSUME Context, RunsOK, JobsInv, Posted, Spaced, Recording, AlertsInHand, [Next]_vars, Posted',
         NEW l \in Lanes, Busy(l)', lanes'[l].job.kind = "alert",
         NEW m \in DOMAIN messages', messages'[m].subject = lanes'[l].job.subject
  PROVE  /\ messages'[m].key = lanes'[l].job.key /\ messages'[m].at = lanes'[l].job.at
         /\ m \in unrecorded'
         /\ \A n \in DOMAIN messages' : m < n /\ messages'[n].key = lanes'[l].job.key
              /\ messages'[n].key \in AlertKeys => messages'[n].subject = lanes'[l].job.subject
<1>0. MessageType /\ clock \in Nat /\ QueueInv /\ Placed /\ LanesOK /\ QueueOK
  BY DEF Context, JobsOK, JobsInv, QueueInv
<1>1. Keeps
  BY <1>0, KeepsAlways
<1>2. ~Taken(l)
  <2>1. ASSUME Taken(l) PROVE FALSE
    <3>1. UNCHANGED messages
      BY <2>1 DEF Taken, discordVars
    <3>2. PICK c \in Channels : lanes'[l].job \in ToSet(queue[c])
      BY <2>1 DEF Taken
    <3>3. ~HasPosted(lanes'[l].job.subject)
      BY <3>2 DEF AlertsInHand
    <3> QED
      BY <3>1, <3>3 DEF HasPosted
  <2> QED
    BY <2>1
<1>3. Busy(l) /\ lanes'[l].job = lanes[l].job
  BY <1>0, <1>2, BusyMoves DEF GoesOn
<1>4. lanes[l].job.kind = "alert" /\ lanes[l].job.subject[1] = "alert"
  BY <1>0, <1>3, BusyFacts, SubjectKinds
<1>5. \A n \in DOMAIN messages' : n \notin DOMAIN messages =>
        /\ messages'[n].subject = lanes[l].job.subject =>
             /\ messages'[n].key = lanes[l].job.key /\ messages'[n].at = lanes[l].job.at
             /\ n \in unrecorded'
        /\ messages'[n].key = lanes[l].job.key /\ messages'[n].key \in AlertKeys =>
             messages'[n].subject = lanes[l].job.subject
  BY <1>0, <1>3, <1>4, OwnPost
<1>6. CASE m \in DOMAIN messages
  <2>1. messages[m].subject = lanes[l].job.subject
    BY <1>1, <1>3, <1>6 DEF Keeps
  <2>2. /\ messages[m].key = lanes[l].job.key /\ messages[m].at = lanes[l].job.at /\ m \in unrecorded
        /\ \A n \in DOMAIN messages : m < n /\ messages[n].key = lanes[l].job.key
             /\ messages[n].key \in AlertKeys => messages[n].subject = lanes[l].job.subject
    BY <1>3, <1>4, <1>6, <2>1 DEF AlertsInHand
  <2>3. m \in unrecorded'
    <3>1. ASSUME NEW k \in Lanes, DeliversAll(k, m) PROVE FALSE
      <4>1. messages[m].subject = lanes[k].job.subject /\ lanes[k].job.kind \in {"alert", "test"}
        BY <1>0, <1>6, <3>1, DeliveredLast
      <4>2. k = l
        BY <1>0, <1>3, <2>1, <3>1, <4>1, OnlyInHand DEF DeliversAll
      <4>3. Over(l)
        BY <3>1, <4>2 DEF DeliversAll, PostDone
      <4> QED
        BY <1>0, <4>3, OverEnds
    <3>2. ASSUME NEW k \in Lanes, MarksAReport(k, m) PROVE FALSE
      <4>1. messages[m].subject = lanes[k].job.subject /\ lanes[k].job.kind = "report" /\ Busy(k)
        BY <3>2 DEF MarksAReport, LastOf
      <4> QED
        BY <1>0, <1>4, <2>1, <4>1, BusyFacts, SubjectKinds
    <3>3. ASSUME MarksALog(m) PROVE FALSE
      <4>1. messages[m].subject = <<"log", Row>>
        BY <3>3 DEF MarksALog, LastOf
      <4> QED
        BY <1>4, <2>1, <4>1
    <3>4. ASSUME NEW k \in Lanes, BindsACard(k, m) PROVE FALSE
      <4>1. messages[m].subject = lanes[k].job.subject /\ lanes[k].job.kind = "card" /\ Busy(k)
        BY <3>4 DEF BindsACard
      <4> QED
        BY <1>0, <1>4, <2>1, <4>1, BusyFacts, SubjectKinds
    <3> QED
      BY <2>2, <3>1, <3>2, <3>3, <3>4, Unrecord
  <2>4. ASSUME NEW n \in DOMAIN messages', m < n, messages'[n].key = lanes[l].job.key,
               messages'[n].key \in AlertKeys
        PROVE  messages'[n].subject = lanes[l].job.subject
    <3>1. CASE n \in DOMAIN messages
      BY <1>1, <2>2, <2>4, <3>1 DEF Keeps
    <3>2. CASE n \notin DOMAIN messages
      BY <1>5, <2>4, <3>2
    <3> QED
      BY <3>1, <3>2
  <2>5. messages'[m].key = lanes[l].job.key /\ messages'[m].at = lanes[l].job.at
    BY <1>1, <1>6, <2>2 DEF Keeps
  <2> QED
    BY <1>3, <2>3, <2>4, <2>5
<1>7. CASE m \notin DOMAIN messages
  <2>1. /\ messages'[m].key = lanes[l].job.key /\ messages'[m].at = lanes[l].job.at
        /\ m \in unrecorded'
    BY <1>3, <1>5, <1>7
  <2>2. /\ m \in Nat /\ \A n \in DOMAIN messages : n < m /\ n \in Nat
        /\ DOMAIN messages' = DOMAIN messages \cup {m}
    BY <1>0, <1>7, NewSubject, MessageIndex
  <2>3. \A n \in DOMAIN messages' : ~(m < n)
    BY <2>2
  <2> QED
    BY <1>3, <2>1, <2>3
<1> QED
  BY <1>6, <1>7

LEMMA AlertsInHandStep ==
  ASSUME Context, RunsOK, JobsInv, Posted, Spaced, Recording, AlertsInHand, [Next]_vars,
         Posted', JobsInv'
  PROVE  AlertsInHand'
<1>1. ASSUME NEW c \in Channels, NEW j \in ToSet(queue'[c]), j.kind \in {"alert", "test"},
             HasPosted(j.subject)'
      PROVE  FALSE
  <2>1. PICK n \in DOMAIN messages' : messages'[n].subject = j.subject
    BY <1>1 DEF HasPosted
  <2> QED
    BY <1>1, <2>1, QueuedUnposted
<1>2. ASSUME NEW l \in Lanes, Busy(l)', lanes'[l].job.kind = "test"
      PROVE  lanes'[l].attempt = 0 /\ ~HasPosted(lanes[l].job.subject)'
  BY <1>2, TestUnposted DEF HasPosted
<1>3. ASSUME NEW l \in Lanes, Busy(l)', lanes'[l].job.kind = "alert",
             NEW m \in DOMAIN messages', messages'[m].subject = lanes'[l].job.subject
      PROVE  /\ messages'[m].key = lanes'[l].job.key /\ messages'[m].at = lanes'[l].job.at
             /\ m \in unrecorded'
             /\ \A n \in DOMAIN messages' : m < n /\ messages'[n].key = lanes'[l].job.key
                  /\ messages'[n].key \in AlertKeys => messages'[n].subject = lanes'[l].job.subject
  BY <1>3, AlertPosts
<1>4. (\A c \in Channels : \A j \in ToSet(queue[c]) :
         j.kind \in {"alert", "test"} => ~HasPosted(j.subject))'
  BY <1>1
<1>5. (\A l \in Lanes : Busy(l) /\ lanes[l].job.kind = "test" =>
         lanes[l].attempt = 0 /\ ~HasPosted(lanes[l].job.subject))'
  BY <1>2
<1>6. (\A l \in Lanes : Busy(l) /\ lanes[l].job.kind = "alert" =>
       \A m \in DOMAIN messages : messages[m].subject = lanes[l].job.subject =>
         /\ messages[m].key = lanes[l].job.key /\ messages[m].at = lanes[l].job.at
         /\ m \in unrecorded
         /\ \A n \in DOMAIN messages : m < n /\ messages[n].key = lanes[l].job.key
              /\ messages[n].key \in AlertKeys => messages[n].subject = lanes[l].job.subject)'
  BY <1>3
<1> QED
  BY <1>4, <1>5, <1>6 DEF AlertsInHand

-----------------------------------------------------------------------------
(* The cooldown.                                                           *)

\* How the map of what was delivered changes.
LEMMA DeliveredMoves ==
  ASSUME Context, QueueInv, [Next]_vars
  PROVE  \/ UNCHANGED delivered
         \/ Crash /\ delivered' = <<>>
         \/ \E l \in Lanes : \E m :
              /\ PostDone(l, m) /\ Busy(l) /\ lanes[l].phase = "post" /\ lanes[l].job.kind = "alert"
              /\ lanes[l].job.key \notin EmergencyKeys /\ MarkDelivered(lanes[l].job)
<1>0. MessageType
  BY DEF Context
<1>1. ASSUME NEW l \in Lanes, Post(l)
      PROVE  \/ UNCHANGED delivered
             \/ \E m :
                  /\ PostDone(l, m) /\ Busy(l) /\ lanes[l].phase = "post" /\ lanes[l].job.kind = "alert"
                  /\ lanes[l].job.key \notin EmergencyKeys /\ MarkDelivered(lanes[l].job)
  BY <1>0, <1>1, PostDelivers DEF PostFails, PostLost, PostKept, PostDone
<1>2. (\E l \in Lanes : MarkRun(l) \/ BindCard(l)) \/ Quiet => UNCHANGED delivered
  BY DEF MarkRun, BindCard, Quiet
<1>3. UNCHANGED outboundVars => UNCHANGED delivered
  BY DEF outboundVars
<1>4. Crash => delivered' = <<>>
  BY DEF Crash, OutboundLost
<1> QED
  BY <1>0, <1>1, <1>2, <1>3, <1>4, BookKinds

LEMMA DeliveredTimes ==
  ASSUME Context, QueueInv, Delivered, [Next]_vars, NEW k \in DOMAIN delivered'
  PROVE  delivered'[k] \in Int
<1>0. Placed
  BY DEF QueueInv
<1>1. CASE UNCHANGED delivered
  BY <1>1 DEF Delivered
<1>2. ASSUME delivered' = <<>> PROVE FALSE
  BY <1>2
<1>3. ASSUME NEW l \in Lanes, Busy(l), MarkDelivered(lanes[l].job) PROVE delivered'[k] \in Int
  <2>1. lanes[l].job.at \in Int
    BY <1>0, <1>3, BusyFacts, JobFields DEF JobForm
  <2>2. /\ delivered'[k] = IF k = lanes[l].job.key THEN lanes[l].job.at ELSE delivered[k]
        /\ k = lanes[l].job.key \/ k \in DOMAIN delivered
    BY <1>3, MarkedFacts
  <2> QED
    BY <2>1, <2>2 DEF Delivered
<1> QED
  BY <1>1, <1>2, <1>3, DeliveredMoves

LEMMA SentInTime ==
  ASSUME Context, RunsOK, JobsInv, Delivered, [Next]_vars, NEW l \in Lanes,
         lanes'[l].phase = "post", lanes'[l].job.kind = "alert", lanes'[l].job.key \in AlertKeys,
         lanes'[l].job.key \in DOMAIN delivered'
  PROVE  lanes'[l].job.at - delivered'[lanes'[l].job.key] >= Cooldown
<1>0. MessageType /\ clock \in Nat /\ QueueInv /\ Placed /\ LanesOK /\ QueueOK /\ ReportsDue
  BY DEF Context, JobsOK, JobsInv, QueueInv
<1>1. Busy(l)'
  BY DEF Busy
<1>2. CASE Busy(l) /\ lanes'[l] = lanes[l]
  <2>1. PICK key, at : key = lanes[l].job.key /\ at = lanes[l].job.at
    OBVIOUS
  <2>2. /\ key \in AlertKeys /\ key \in DOMAIN delivered'
        /\ lanes'[l].job.key = key /\ lanes'[l].job.at = at
        /\ lanes[l].phase = "post" /\ lanes[l].job.kind = "alert" /\ Busy(l)
    BY <1>2, <2>1
  <2>3. key \in DOMAIN delivered => at - delivered[key] >= Cooldown
    BY <2>1, <2>2 DEF Delivered
  <2>4. ASSUME UNCHANGED delivered PROVE at - delivered'[key] >= Cooldown
    BY <2>2, <2>3, <2>4
  <2>5. ASSUME delivered' = <<>> PROVE FALSE
    BY <2>2, <2>5
  <2>6. ASSUME NEW k \in Lanes, NEW m, PostDone(k, m), Busy(k), MarkDelivered(lanes[k].job)
        PROVE  at - delivered'[key] >= Cooldown
    <3>1. k # l
      <4>1. ~Busy(k)'
        BY <1>0, <2>6, OverEnds DEF PostDone
      <4> QED
        BY <1>1, <4>1
    <3>2. lanes[k].job.key # key
      <4>1. ASSUME lanes[k].job.key = key PROVE FALSE
        <5>1. lanes[k].job \in Active /\ lanes[l].job \in Active
          BY <1>0, <2>2, <2>6, BusyFacts
        <5>2. lanes[k].job.chan = "alert" /\ lanes[l].job.chan = "alert"
          BY <1>0, <2>1, <2>2, <4>1, <5>1, AlertKeyJobs
        <5> QED
          BY <1>0, <2>2, <2>6, <3>1, <5>2, OneAlertLane
      <4> QED
        BY <4>1
    <3>3. delivered'[key] = delivered[key] /\ key \in DOMAIN delivered
      BY <2>2, <2>6, <3>2, MarkedFacts
    <3> QED
      BY <2>3, <3>3
  <2>7. at - delivered'[key] >= Cooldown
    BY <1>0, <2>4, <2>5, <2>6, DeliveredMoves
  <2> QED
    BY <2>2, <2>7
<1>3. ~Taken(l)
  BY DEF Taken
<1>4. CASE GoesOn(l)
  <2>1. Busy(l) /\ lanes'[l].job = lanes[l].job /\ lanes[l].job.kind = "alert"
    BY <1>4 DEF GoesOn
  <2>2. ~Retried(l) /\ ~Updated(l) /\ ~Answered(l)
    BY <2>1 DEF Retried, Updated, Answered
  <2>3. ~Edited(l)
    BY <1>0, <2>1, BusyFacts DEF Edited
  <2>4. Sent(l)
    BY <1>4, <2>2, <2>3 DEF GoesOn
  <2>5. PICK job : job = lanes[l].job
    OBVIOUS
  <2>6. ~InCooldown(job) /\ UNCHANGED delivered
    BY <2>1, <2>4, <2>5 DEF Sent
  <2>7. job \in Active /\ job.at \in Int
    BY <1>0, <2>1, <2>5, BusyFacts, JobFields DEF JobForm
  <2>8. job.key \notin EmergencyKeys /\ job.key \in DOMAIN delivered
    BY <1>0, <2>1, <2>5, <2>6, <2>7, AlertKeyJobs
  <2>9. ~(job.at - delivered[job.key] < Cooldown)
    BY <2>6, <2>8 DEF InCooldown
  <2>10. delivered[job.key] \in Int /\ Cooldown \in Nat
    BY <2>8, KeyAssumption DEF Delivered, KeyAssumption
  <2>11. job.at - delivered[job.key] >= Cooldown
    BY <2>7, <2>9, <2>10
  <2> QED
    BY <2>1, <2>5, <2>6, <2>11
<1> QED
  BY <1>0, <1>1, <1>2, <1>3, <1>4, BusyMoves

\* Only its lane's delivery makes an alert known: nothing else does.
LEMMA KnownBefore ==
  ASSUME Context, RunsOK, JobsInv, Posted, Spaced, Recording, [Next]_vars,
         NEW m \in DOMAIN messages, messages[m].subject[1] \in {"alert", "test"},
         ~(\E l \in Lanes : DeliversAll(l, m)), ~Lost(m)'
  PROVE  ~Lost(m)
<1>1. QueueInv
  BY DEF JobsInv
<1>2. m \in unrecorded \cup forgotten => \E l \in Lanes : DeliversAll(l, m)
  BY <1>1, AlertUnrecorded
<1> QED
  BY <1>2 DEF Lost

\* What a delivery leaves known of an alert.
LEMMA DoneKnown ==
  ASSUME Context, RunsOK, JobsInv, Posted, Spaced, Recording, AlertsInHand, Delivered,
         [Next]_vars, Posted', NEW l \in Lanes, NEW x, DeliversAll(l, x),
         NEW m \in DOMAIN messages', messages'[m].key \in AlertKeys, ~Lost(m)'
  PROVE  /\ messages'[m].key \in DOMAIN delivered'
         /\ messages'[m].at <= delivered'[messages'[m].key]
<1>0. /\ MessageType /\ clock \in Nat /\ QueueInv /\ Placed /\ ReportsDue
  BY DEF Context, JobsInv, QueueInv
<1>1. /\ PostDone(l, x) /\ Busy(l) /\ lanes[l].phase = "post" /\ Delivers(l, x)
      /\ lanes[l].job.kind \in {"alert", "test"} /\ unrecorded' = unrecorded \ {x}
  BY DEF DeliversAll, PostDone
<1>2. PICK job : job = lanes[l].job
  OBVIOUS
<1>3. job \in Active /\ job.at \in Int /\ job.subject[1] = job.kind
  BY <1>0, <1>1, <1>2, BusyFacts, JobFields, SubjectKinds DEF JobForm
<1>4. messages'[m].subject[1] = "alert" /\ messages'[m].at \in Int
  BY DEF Posted
<1>5. m \notin unrecorded' /\ m \notin forgotten'
  BY DEF Lost
<1>6. Keeps
  BY <1>0, KeepsAlways
<1>7. ASSUME m # x
      PROVE  /\ messages'[m].key \in DOMAIN delivered /\ delivered[messages'[m].key] \in Int
             /\ messages'[m].at <= delivered[messages'[m].key]
  <2>1. m \in DOMAIN messages
    BY <1>1, <1>7 DEF Delivers, Arrives, Adopted, Newer
  <2>2. m \notin unrecorded
    BY <1>1, <1>5, <1>7
  <2>3. forgotten \subseteq forgotten'
    BY <1>1, MarkedFacts DEF PostDone
  <2>4. ~Lost(m)
    BY <1>5, <2>2, <2>3 DEF Lost
  <2>5. messages'[m].key = messages[m].key /\ messages'[m].at = messages[m].at
    BY <1>6, <2>1 DEF Keeps
  <2> QED
    BY <2>1, <2>4, <2>5 DEF Delivered
<1>8. ASSUME m = x
      PROVE  /\ job.kind = "alert" /\ messages'[m].key = job.key /\ messages'[m].at = job.at
             /\ job.key \notin EmergencyKeys
  <2>1. CASE m \in DOMAIN messages
    <3>1. messages[m].subject = job.subject /\ messages[m].subject[1] = job.kind
      BY <1>0, <1>2, <1>8, <2>1, DeliveredLast
    <3>2. messages'[m].subject = messages[m].subject /\ messages'[m].key = messages[m].key
          /\ messages'[m].at = messages[m].at
      BY <1>6, <2>1 DEF Keeps
    <3>3. job.kind = "alert"
      BY <1>4, <3>1, <3>2
    <3>4. messages[m].key = job.key /\ messages[m].at = job.at
      BY <1>1, <1>2, <2>1, <3>1, <3>3 DEF AlertsInHand
    <3>5. job.key \notin EmergencyKeys
      BY <1>0, <1>3, <3>2, <3>4, AlertKeyJobs
    <3> QED
      BY <3>2, <3>3, <3>4, <3>5
  <2>2. CASE m \notin DOMAIN messages
    <3>1. Newer(m, job.subject, job.key, job.at, lanes[l].channel, NonceOf(l))
      BY <1>1, <1>2, <1>8, <2>2 DEF Delivers, Arrives, Adopted
    <3>2. messages'[m].subject = job.subject /\ messages'[m].key = job.key /\ messages'[m].at = job.at
      BY <3>1 DEF Newer
    <3>3. job.kind = "alert"
      BY <1>3, <1>4, <3>2
    <3>4. job.key \notin EmergencyKeys
      BY <1>0, <1>3, <3>2, AlertKeyJobs
    <3> QED
      BY <3>2, <3>3, <3>4
  <2> QED
    BY <2>1, <2>2
<1>9. CASE job.kind = "alert" /\ job.key \notin EmergencyKeys
  <2>1. MarkDelivered(job)
    BY <1>1, <1>2, <1>9 DEF PostDone
  <2>2. /\ \A k \in DOMAIN delivered' :
              delivered'[k] = IF k = job.key THEN job.at ELSE delivered[k]
        /\ \A n \in DOMAIN messages' :
              messages'[n].key \in DOMAIN delivered \cup {job.key} /\ n \notin forgotten' =>
                messages'[n].key \in DOMAIN delivered'
    BY <2>1, MarkedFacts
  <2>3. messages'[m].key \in DOMAIN delivered'
    BY <1>5, <1>7, <1>8, <2>2
  <2>4. CASE m = x
    BY <1>3, <1>8, <2>2, <2>3, <2>4
  <2>5. CASE m # x /\ messages'[m].key # job.key
    BY <1>7, <2>2, <2>3, <2>5
  <2>6. CASE m # x /\ messages'[m].key = job.key
    <3>1. job.at - delivered[job.key] >= Cooldown
      BY <1>1, <1>2, <1>7, <1>9, <2>6 DEF Delivered
    <3>2. messages'[m].at <= job.at
      <4>1. Cooldown \in Nat
        BY KeyAssumption DEF KeyAssumption
      <4>2. delivered[job.key] \in Int /\ messages'[m].at <= delivered[job.key]
        BY <1>7, <2>6
      <4> QED
        BY <1>3, <1>4, <3>1, <4>1, <4>2
    <3> QED
      BY <2>2, <2>3, <2>6, <3>2
  <2> QED
    BY <2>4, <2>5, <2>6
<1>10. CASE ~(job.kind = "alert" /\ job.key \notin EmergencyKeys)
  <2>1. UNCHANGED delivered
    BY <1>1, <1>2, <1>10 DEF PostDone
  <2> QED
    BY <1>7, <1>8, <1>10, <2>1
<1> QED
  BY <1>9, <1>10

LEMMA KnownDelivered ==
  ASSUME Context, RunsOK, JobsInv, Posted, Spaced, Recording, AlertsInHand, Delivered,
         [Next]_vars, Posted',
         NEW m \in DOMAIN messages', messages'[m].key \in AlertKeys, ~Lost(m)'
  PROVE  /\ messages'[m].key \in DOMAIN delivered'
         /\ messages'[m].at <= delivered'[messages'[m].key]
<1>0. MessageType /\ clock \in Nat /\ QueueInv
  BY DEF Context, JobsInv
<1>1. ASSUME NEW l \in Lanes, NEW x, DeliversAll(l, x)
      PROVE  /\ messages'[m].key \in DOMAIN delivered'
             /\ messages'[m].at <= delivered'[messages'[m].key]
  BY <1>1, DoneKnown
<1>2. CASE ~(\E l \in Lanes : \E x : DeliversAll(l, x))
  <2>1. messages'[m].subject[1] = "alert"
    BY DEF Posted
  <2>2. m \notin unrecorded' /\ m \notin forgotten'
    BY DEF Lost
  <2>3. m \in DOMAIN messages
    <3>1. ASSUME m \notin DOMAIN messages PROVE FALSE
      <4>1. PICK l \in Lanes : /\ lanes[l].phase = "post" /\ Busy(l)
                               /\ PostLost(l, m) \/ PostKept(l, m) \/ PostDone(l, m)
        BY <1>0, <2>1, <3>1, NewSubject
      <4> QED
        BY <1>2, <2>2, <4>1 DEF PostLost, PostKept, DeliversAll
    <3> QED
      BY <3>1
  <2>4. /\ messages'[m].subject = messages[m].subject /\ messages'[m].key = messages[m].key
        /\ messages'[m].at = messages[m].at
    BY <1>0, <2>3, KeepsAlways DEF Keeps
  <2>5. ~Lost(m)
    BY <1>2, <2>1, <2>3, <2>4, KnownBefore
  <2>6. messages[m].key \in DOMAIN delivered /\ messages[m].at <= delivered[messages[m].key]
    BY <2>3, <2>4, <2>5 DEF Delivered
  <2>7. ~Crash
    <3>1. ASSUME Crash PROVE FALSE
      <4>1. m \in forgotten'
        BY <2>3, <2>4, <3>1 DEF Crash, OutboundLost
      <4> QED
        BY <2>2, <4>1
    <3> QED
      BY <3>1
  <2>8. UNCHANGED delivered
    BY <1>0, <1>2, <2>7, DeliveredMoves DEF DeliversAll
  <2> QED
    BY <2>4, <2>6, <2>8
<1> QED
  BY <1>1, <1>2

LEMMA DeliveredStep ==
  ASSUME Context, RunsOK, JobsInv, Posted, Spaced, Recording, AlertsInHand, Delivered,
         [Next]_vars, Posted'
  PROVE  Delivered'
<1>0. QueueInv
  BY DEF JobsInv
<1>1. (\A k \in DOMAIN delivered : delivered[k] \in Int)'
  BY <1>0, DeliveredTimes
<1>2. (\A l \in Lanes :
         lanes[l].phase = "post" /\ lanes[l].job.kind = "alert" /\ lanes[l].job.key \in AlertKeys
           /\ lanes[l].job.key \in DOMAIN delivered =>
         lanes[l].job.at - delivered[lanes[l].job.key] >= Cooldown)'
  BY SentInTime
<1>3. (\A m \in DOMAIN messages : messages[m].key \in AlertKeys /\ ~Lost(m) =>
         /\ messages[m].key \in DOMAIN delivered
         /\ messages[m].at <= delivered[messages[m].key])'
  BY KnownDelivered
<1> QED
  BY <1>1, <1>2, <1>3 DEF Delivered

\* A new alert comes a cooldown after every one that is known.
LEMMA NewAlertInTime ==
  ASSUME Context, RunsOK, JobsInv, Posted, Spaced, Recording, AlertsInHand, Delivered,
         [Next]_vars, Posted', NEW n \in DOMAIN messages', n \notin DOMAIN messages,
         NEW m \in DOMAIN messages, messages[m].key = messages'[n].key,
         messages[m].key \in AlertKeys, ~Lost(m)'
  PROVE  messages'[n].at - messages[m].at >= Cooldown
<1>0. MessageType /\ clock \in Nat /\ QueueInv /\ Placed /\ ReportsDue
  BY DEF Context, JobsInv, QueueInv
<1>1. PICK l \in Lanes :
        /\ lanes[l].phase = "post" /\ Busy(l) /\ Delivers(l, n)
        /\ PostLost(l, n) \/ PostKept(l, n) \/ PostDone(l, n)
        /\ messages'[n].key = lanes[l].job.key /\ messages'[n].at = lanes[l].job.at
  BY <1>0, NewSubject
<1>2. PICK job : job = lanes[l].job
  OBVIOUS
<1>3. job \in Active /\ job.at \in Int /\ job.key = messages[m].key /\ messages'[n].at = job.at
  BY <1>0, <1>1, <1>2, BusyFacts, JobFields DEF JobForm
<1>4. job.kind = "alert"
  BY <1>0, <1>3, AlertKeyJobs
<1>5. messages[m].subject[1] = "alert" /\ messages[m].at \in Int
  BY DEF Posted
<1>6. ~Lost(m)
  <2>1. ASSUME NEW k \in Lanes, DeliversAll(k, m) PROVE FALSE
    <3>1. UNCHANGED messages
      BY <1>0, <2>1, DeliveredLast
    <3> QED
      BY <3>1
  <2> QED
    BY <1>5, <2>1, KnownBefore
<1>7. /\ job.key \in DOMAIN delivered /\ messages[m].at <= delivered[job.key]
      /\ delivered[job.key] \in Int
  BY <1>3, <1>6 DEF Delivered
<1>8. job.at - delivered[job.key] >= Cooldown
  BY <1>1, <1>2, <1>3, <1>4, <1>7 DEF Delivered
<1>9. Cooldown \in Nat
  BY KeyAssumption DEF KeyAssumption
<1> QED
  BY <1>3, <1>5, <1>7, <1>8, <1>9

LEMMA CooldownStep ==
  ASSUME Context, RunsOK, JobsInv, Posted, Spaced, Recording, AlertsInHand, Delivered,
         AlertCooldownKept, [Next]_vars, Posted'
  PROVE  AlertCooldownKept'
<1>0. MessageType /\ clock \in Nat /\ QueueInv
  BY DEF Context, JobsInv
<1>1. SUFFICES ASSUME NEW m \in DOMAIN messages', NEW n \in DOMAIN messages', m < n,
                      messages'[m].key = messages'[n].key, messages'[m].key \in AlertKeys, ~Lost(m)'
               PROVE  messages'[n].at - messages'[m].at >= Cooldown
  BY DEF AlertCooldownKept, Lost
<1>2. m \in DOMAIN messages
  <2>1. ASSUME m \notin DOMAIN messages PROVE FALSE
    <3>1. m \in Nat /\ DOMAIN messages' = DOMAIN messages \cup {m} /\ \A k \in DOMAIN messages : k < m
      BY <1>0, <2>1, NewSubject
    <3>2. n \in Nat
      BY <1>0, <3>1, MessageIndex
    <3> QED
      BY <1>1, <3>1, <3>2
  <2> QED
    BY <2>1
<1>3. Keeps
  BY <1>0, KeepsAlways
<1>4. messages[m].key = messages'[m].key /\ messages[m].at = messages'[m].at
      /\ messages[m].key \in AlertKeys
  BY <1>1, <1>2, <1>3 DEF Keeps
<1>5. CASE n \notin DOMAIN messages
  <2>1. messages'[n].at - messages[m].at >= Cooldown
    BY <1>1, <1>2, <1>4, <1>5, NewAlertInTime
  <2> QED
    BY <1>4, <2>1
<1>6. CASE n \in DOMAIN messages
  <2>1. messages'[n].at = messages[n].at /\ messages[n].key = messages[m].key
    BY <1>1, <1>3, <1>4, <1>6 DEF Keeps
  <2>2. messages[m].subject[1] = "alert"
    BY <1>2, <1>4 DEF Posted
  <2>3. ASSUME NEW l \in Lanes, DeliversAll(l, m) PROVE FALSE
    <3>1. /\ messages[m].subject = lanes[l].job.subject /\ lanes[l].job.kind = "alert"
          /\ LastOf(m, messages[m].subject)
      BY <1>0, <1>2, <2>2, <2>3, DeliveredLast
    <3>2. Busy(l)
      BY <2>3 DEF DeliversAll
    <3>3. messages[n].subject = lanes[l].job.subject
      BY <1>1, <1>2, <1>4, <1>6, <2>1, <3>1, <3>2 DEF AlertsInHand
    <3>4. n <= m
      BY <1>6, <3>1, <3>3 DEF LastOf
    <3>5. n \in Nat /\ m \in Nat
      BY <1>0, <1>2, <1>6, MessageIndex
    <3> QED
      BY <1>1, <3>4, <3>5
  <2>4. ~Lost(m)
    BY <1>1, <1>2, <2>2, <2>3, KnownBefore
  <2>5. messages[n].at - messages[m].at >= Cooldown
    BY <1>1, <1>2, <1>4, <1>6, <2>1, <2>4 DEF AlertCooldownKept, Lost
  <2> QED
    BY <1>4, <2>1, <2>5
<1> QED
  BY <1>5, <1>6

AlertsInv == Posted /\ Spaced /\ Recording /\ AlertsInHand /\ Delivered /\ AlertCooldownKept

LEMMA InitAlerts == Init => AlertsInv
<1> SUFFICES ASSUME Init PROVE AlertsInv
  OBVIOUS
<1>1. /\ messages = <<>> /\ lanes = [l \in Lanes |-> Polling] /\ delivered = <<>>
      /\ queue = [c \in Channels |-> <<>>] /\ courier = Resting
  BY DEF Init, DiscordInit, OutboundInit, ModerationInit
<1>2. DOMAIN messages = {} /\ DOMAIN delivered = {} /\ \A c \in Channels : ToSet(queue[c]) = {}
  BY <1>1 DEF ToSet
<1>3. \A l \in Lanes : ~Busy(l) /\ lanes[l].phase = "poll"
  BY <1>1, PollingLane DEF Busy
<1>4. courier.phase = "rest"
  BY <1>1, RestingFacts
<1> QED
  BY <1>2, <1>3, <1>4
     DEF AlertsInv, Posted, Spaced, Recording, AlertsInHand, Delivered, AlertCooldownKept

LEMMA AlertsStep ==
  ASSUME IInv, JobsInv, AlertsInv, [Next]_vars, JobsInv'
  PROVE  AlertsInv'
<1>1. /\ Context /\ RunsOK
  BY DEF IInv, Context, TypeOK
<1>2. Posted /\ Spaced /\ Recording /\ AlertsInHand /\ Delivered /\ AlertCooldownKept
  BY DEF AlertsInv
<1>3. Posted'
  BY <1>1, <1>2, PostedStep
<1>4. Spaced' /\ Recording' /\ AlertsInHand'
  BY <1>1, <1>2, <1>3, SpacedStep, RecordingStep, AlertsInHandStep
<1>5. Delivered' /\ AlertCooldownKept'
  BY <1>1, <1>2, <1>3, DeliveredStep, CooldownStep
<1> QED
  BY <1>3, <1>4, <1>5 DEF AlertsInv

(***************************************************************************)
(* Of an alert that is in hand, nothing the bot knows of was posted; one   *)
(* about to be posted is a cooldown after the last delivered of its key,   *)
(* and that one is not before any that the bot knows of (sendAlert,        *)
(* inCooldown, markDelivered, postWithNonce).                              *)
(***************************************************************************)
THEOREM AlertsInvariance == Spec => []AlertsInv
<1>1. IInv /\ JobsInv /\ JobsInv' /\ AlertsInv /\ [Next]_vars => AlertsInv'
  BY AlertsStep
<1> QED
  BY <1>1, InitAlerts, Invariance, JobsInvariance, PTL DEF Spec

(***************************************************************************)
(* Two alerts of one key that the bot knows it delivered are a cooldown    *)
(* apart, over retries, lost answers and crashes (sendAlert, inCooldown,   *)
(* markDelivered).                                                         *)
(***************************************************************************)
THEOREM CooldownIsKept == Spec => []AlertCooldownKept
<1>1. AlertsInv => AlertCooldownKept
  BY DEF AlertsInv
<1> QED
  BY <1>1, AlertsInvariance, PTL

-----------------------------------------------------------------------------
(* Reports are not posted again.                                           *)

\* The last run of a schedule only grows.
LEMMA RunsGrow ==
  ASSUME Context, RunsOK, QueueInv, [Next]_vars, NEW s \in DOMAIN lastRun
  PROVE  /\ s \in DOMAIN lastRun' /\ lastRun[s] \in Nat /\ lastRun'[s] \in Nat
         /\ lastRun[s] <= lastRun'[s]
<1>0. LanesOK /\ ReportsDue /\ Placed
  BY DEF Context, JobsOK, QueueInv
<1>1. lastRun[s] \in Nat
  BY <1>0 DEF ReportsDue
<1>2. CASE UNCHANGED lastRun
  BY <1>1, <1>2
<1>3. CASE \E t \in Schedules : ScheduleReport(t)
  <2>1. s \in DOMAIN lastRun' /\ lastRun'[s] = lastRun[s]
    BY <1>3, ScheduleFacts
  <2> QED
    BY <1>1, <2>1
<1>4. CASE (\E l \in Lanes : MarkRun(l)) /\ ~UNCHANGED lastRun
  <2>1. PICK l \in Lanes : MarkRun(l)
    BY <1>4
  <2>2. PICK job : job = lanes[l].job
    OBVIOUS
  <2>3. /\ DOMAIN lastRun' = DOMAIN lastRun /\ job.at \in Nat
        /\ \A t \in DOMAIN lastRun : lastRun'[t] = IF t = job.key[2] THEN job.at ELSE lastRun[t]
    BY <1>4, <2>1, <2>2, MarkedBehind
  <2>4. Busy(l) /\ job.kind = "report"
    BY <2>1, <2>2 DEF MarkRun, Busy
  <2>5. lastRun[job.key[2]] < PeriodStart(job.at)
    BY <1>0, <2>2, <2>4, BusyFacts DEF ReportsDue
  <2>6. PeriodStart(job.at) \in Int /\ PeriodStart(job.at) <= job.at
    BY <2>3, PeriodFacts
  <2>7. s = job.key[2] => lastRun[s] <= job.at
    BY <1>1, <2>3, <2>5, <2>6
  <2> QED
    BY <1>1, <2>3, <2>7
<1> QED
  BY <1>0, <1>2, <1>3, <1>4, RunCases

\* A report that is recorded is of no later period than its schedule's last run.
LEMMA ReportIsMarked ==
  ASSUME Context, QueueInv, NEW l \in Lanes, NEW m, MarksAReport(l, m)
  PROVE  /\ messages[m].subject[2] \in DOMAIN lastRun'
         /\ messages[m].subject[3] <= lastRun'[messages[m].subject[2]]
<1>0. Placed /\ ReportsDue
  BY DEF QueueInv
<1>1. PICK job : job = lanes[l].job
  OBVIOUS
<1>2. /\ Busy(l) /\ job.kind = "report" /\ messages[m].subject = job.subject
      /\ lastRun' = [lastRun EXCEPT ![job.key[2]] = job.at]
  BY <1>1 DEF MarksAReport, LastOf
<1>3. job \in Active /\ ReportForm(job)
  BY <1>0, <1>1, <1>2, BusyFacts DEF JobForm
<1>4. job.subject = <<"report", job.key[2], PeriodStart(job.at)>> /\ job.at \in Nat
  BY <1>3 DEF ReportForm
<1>5. job.key[2] \in DOMAIN lastRun
  BY <1>0, <1>2, <1>3 DEF ReportsDue
<1>6. PeriodStart(job.at) <= job.at
  BY <1>4, PeriodFacts
<1>7. /\ messages[m].subject[2] = job.key[2] /\ messages[m].subject[3] = PeriodStart(job.at)
      /\ DOMAIN lastRun' = DOMAIN lastRun /\ lastRun'[job.key[2]] = job.at
  BY <1>2, <1>4, <1>5
<1> QED
  BY <1>5, <1>6, <1>7

LEMMA ReportsMarkedStep ==
  ASSUME Context, RunsOK, JobsInv, Posted, Spaced, Recording, ReportsMarked, [Next]_vars
  PROVE  ReportsMarked'
<1>0. /\ MessageType /\ clock \in Nat /\ QueueInv /\ Placed
  BY DEF Context, JobsInv, QueueInv
<1>1. Keeps
  BY <1>0, KeepsAlways
<1>2. SUFFICES ASSUME NEW m \in DOMAIN messages', messages'[m].subject[1] = "report", m \notin unrecorded'
               PROVE  /\ messages'[m].subject[2] \in DOMAIN lastRun'
                      /\ messages'[m].subject[3] <= lastRun'[messages'[m].subject[2]]
  BY DEF ReportsMarked
<1>3. CASE m \notin DOMAIN messages
  <2>1. PICK l \in Lanes :
          /\ Busy(l) /\ messages'[m].subject = lanes[l].job.subject
          /\ PostLost(l, m) \/ PostKept(l, m) \/ PostDone(l, m)
    BY <1>0, <1>2, <1>3, NewSubject
  <2>2. lanes[l].job.kind = "report"
    BY <1>0, <1>2, <2>1, BusyFacts, SubjectKinds
  <2>3. m \in unrecorded'
    BY <2>1, <2>2 DEF PostLost, PostKept, PostDone
  <2> QED
    BY <1>2, <2>3
<1>4. CASE m \in DOMAIN messages
  <2>1. messages'[m].subject = messages[m].subject
    BY <1>1, <1>4 DEF Keeps
  <2>2. CASE m \notin unrecorded
    <3>1. PICK s, t : s = messages[m].subject[2] /\ t = messages[m].subject[3]
      OBVIOUS
    <3>2. s \in DOMAIN lastRun /\ t <= lastRun[s] /\ t \in Int
      BY <1>2, <1>4, <2>1, <2>2, <3>1 DEF ReportsMarked, Posted
    <3>3. s \in DOMAIN lastRun' /\ lastRun[s] \in Nat /\ lastRun'[s] \in Nat /\ lastRun[s] <= lastRun'[s]
      BY <1>0, <3>2, RunsGrow
    <3>4. t <= lastRun'[s]
      BY <3>2, <3>3
    <3> QED
      BY <2>1, <3>1, <3>3, <3>4
  <2>3. CASE m \in unrecorded
    <3>1. ASSUME NEW l \in Lanes, DeliversAll(l, m) PROVE FALSE
      BY <1>0, <1>2, <1>4, <2>1, <3>1, DeliveredLast
    <3>2. ASSUME NEW l \in Lanes, BindsACard(l, m) PROVE FALSE
      BY <1>0, <1>2, <2>1, <3>2, BusyFacts, SubjectKinds DEF BindsACard
    <3>3. ASSUME MarksALog(m) PROVE FALSE
      <4>1. messages[m].subject = <<"log", Row>>
        BY <3>3 DEF MarksALog, LastOf
      <4> QED
        BY <1>2, <2>1, <4>1
    <3>4. PICK l \in Lanes : MarksAReport(l, m)
      BY <1>2, <2>3, <3>1, <3>2, <3>3, Unrecord
    <3> QED
      BY <1>0, <2>1, <3>4, ReportIsMarked
  <2> QED
    BY <2>2, <2>3
<1> QED
  BY <1>3, <1>4

-----------------------------------------------------------------------------
(* Log entries are not posted again.                                       *)

\* No entry twice.
Distinct(s) == \A i, k \in DOMAIN s : i # k => s[i] # s[k]

LEMMA TailDistinct ==
  ASSUME NEW s \in Seq(Nat), s # <<>>, Distinct(s)
  PROVE  Distinct(Tail(s)) /\ ToSet(Tail(s)) \subseteq ToSet(s) \ {Head(s)}
<1>1. /\ Len(s) \in Nat \ {0} /\ DOMAIN s = 1..Len(s)
      /\ DOMAIN Tail(s) = 1..(Len(s) - 1) /\ \A i \in 1..(Len(s) - 1) : Tail(s)[i] = s[i + 1]
      /\ Head(s) = s[1]
  OBVIOUS
<1>2. PICK t, n : t = Tail(s) /\ n = Len(s)
  OBVIOUS
<1>3. /\ n \in Nat \ {0} /\ DOMAIN s = 1..n /\ DOMAIN t = 1..(n - 1)
      /\ \A i \in 1..(n - 1) : t[i] = s[i + 1]
  BY <1>1, <1>2
<1>4. ASSUME NEW i \in DOMAIN t PROVE i + 1 \in DOMAIN s /\ t[i] = s[i + 1] /\ i \in Nat /\ i # 0
  BY <1>3, <1>4
<1>5. 1 \in DOMAIN s
  BY <1>3
<1>6. ASSUME NEW i \in DOMAIN t PROVE t[i] \in ToSet(s) /\ t[i] # s[1]
  <2>1. i + 1 \in DOMAIN s /\ t[i] = s[i + 1] /\ i + 1 # 1
    BY <1>4, <1>6
  <2> QED
    BY <1>5, <2>1 DEF Distinct, ToSet
<1>7. Distinct(t)
  <2>1. SUFFICES ASSUME NEW i \in DOMAIN t, NEW k \in DOMAIN t, i # k PROVE t[i] # t[k]
    BY DEF Distinct
  <2>2. i + 1 \in DOMAIN s /\ k + 1 \in DOMAIN s /\ i + 1 # k + 1
    BY <1>4, <2>1
  <2> QED
    BY <1>4, <2>2 DEF Distinct
<1> QED
  BY <1>1, <1>2, <1>6, <1>7 DEF ToSet

LEMMA NextLogRest ==
  ASSUME CaseType, OutboxType, OutboxOK, courier.phase # "rest", Distinct(courier.logs),
         NextLog, courier'.phase # "rest"
  PROVE  Distinct(courier'.logs) /\ ToSet(courier'.logs) \subseteq ToSet(courier.logs) \ {Row}
<1>1. courier'.logs = Tail(courier.logs)
  BY DEF NextLog, Resting, OutboxType, Courier
<1>2. courier.logs \in Seq(Nat) /\ courier.logs # <<>>
  BY RowFacts
<1>3. PICK s, t : s = courier.logs /\ t = courier'.logs
  OBVIOUS
<1>4. Distinct(t) /\ ToSet(t) \subseteq ToSet(s) \ {Head(s)}
  BY <1>1, <1>2, <1>3, TailDistinct
<1> QED
  BY <1>3, <1>4 DEF Row, Distinct

LEMMA LoadLogsRest ==
  ASSUME LoadLogs
  PROVE  Distinct(courier'.logs) /\ \A c \in ToSet(courier'.logs) : c \in DOMAIN outbox /\ ~outbox[c].delivered
<1> DEFINE due == {c \in DOMAIN outbox : ~outbox[c].delivered /\ outbox[c].due <= clock}
<1>1. PICK logs \in SetToSeqs(due) :
        courier' = [phase |-> IF logChannel THEN "send" ELSE "defer",
                    logs |-> logs, msg |-> NoMessage, at |-> clock]
  BY DEF LoadLogs
<1>2. courier'.logs = logs
  BY <1>1
<1>3. PICK n : /\ logs \in [1..n -> due] /\ \A i, j \in 1..n : i # j => logs[i] # logs[j]
  BY <1>1 DEF SetToSeqs
<1> QED
  BY <1>2, <1>3 DEF Distinct, ToSet

\* How the batch of the log delivery changes.
LEMMA BatchMoves ==
  ASSUME Context, [Next]_vars, courier'.phase # "rest"
  PROVE  \/ courier.phase # "rest" /\ courier'.logs = courier.logs
         \/ LoadLogs
         \/ courier.phase # "rest" /\ NextLog
<1>1. CASE LoadLogs
  BY <1>1
<1>2. CASE UNCHANGED courier
  BY <1>2
<1>3. ~Crash
  BY CrashFacts, RestingFacts
<1>4. CASE DeferLog
  BY <1>4 DEF DeferLog
<1>5. CASE SendLog
  BY <1>5 DEF SendLog, Context, OutboxType, Courier
<1>6. CASE MarkLog
  BY <1>6 DEF MarkLog
<1> QED
  BY <1>1, <1>2, <1>3, <1>4, <1>5, <1>6, OutboxCases DEF Context

\* What was entered is not due again.
LEMMA EnteredRows ==
  ASSUME Context, HandlerOK, [Next]_vars, NEW c, Entered(c), c \in DOMAIN outbox'
  PROVE  outbox'[c].delivered
<1>0. CaseType /\ OutboxType /\ OutboxOK /\ clock \in Nat /\ MessageType
  BY DEF Context
<1>1. CASE CompleteModerationCase /\ Recorded
  <2>1. handler.case \in DOMAIN cases /\ cases[handler.case].status = "pending"
    BY <1>1 DEF CompleteModerationCase, HandlerOK
  <2>2. c # handler.case
    BY <2>1 DEF Entered
  <2>3. c \in DOMAIN outbox \ Victims /\ outbox'[c] = outbox[c]
    BY <1>0, <1>1, <2>2, RecordedRows
  <2> QED
    BY <2>3 DEF Entered
<1>2. CASE outbox' = outbox
  BY <1>2 DEF Entered
<1>3. CASE DeferLog \/ SendLog
  <2>1. /\ DOMAIN outbox' = DOMAIN outbox
        /\ \A d \in DOMAIN outbox : outbox'[d].delivered = outbox[d].delivered
    BY <1>0, <1>3, DeferredFacts, SendLogRows DEF DeferLog
  <2> QED
    BY <2>1 DEF Entered
<1>4. CASE MarkLog
  <2>1. /\ DOMAIN outbox' = DOMAIN outbox
        /\ outbox' = outbox \/ \A d \in DOMAIN outbox :
             outbox'[d].delivered = IF d = Row THEN TRUE ELSE outbox[d].delivered
    BY <1>0, <1>4, MarkFacts
  <2> QED
    BY <2>1 DEF Entered
<1>5. CASE PurgeCases
  BY <1>0, <1>5, PurgeRows DEF Entered
<1> QED
  BY <1>0, <1>1, <1>2, <1>3, <1>4, <1>5, OutboxCases DEF Context

LEMMA EnteredCases ==
  ASSUME Context, HandlerOK, [Next]_vars, NEW c \in 1..numbered, Entered(c), c \in DOMAIN cases'
  PROVE  cases'[c].status # "pending"
<1>0. CaseType /\ AccessType /\ OutboxType /\ OutboxOK /\ clock \in Nat
  BY DEF Context
<1>1. CASE UNCHANGED cases
  BY <1>1 DEF Entered
<1>2. CASE Opened(numbered + 1)
  <2>1. /\ DOMAIN cases' = DOMAIN cases \cup {numbered + 1} /\ numbered \in Nat
        /\ \A d \in DOMAIN cases : cases'[d] = cases[d]
    BY <1>0, <1>2, OpenedFacts DEF CaseType
  <2>2. c # numbered + 1
    BY <2>1
  <2> QED
    BY <2>1, <2>2 DEF Entered
<1>3. CASE CompleteModerationCase /\ Recorded
  <2>1. handler.phase = "complete"
    BY <1>3 DEF CompleteModerationCase
  <2>2. /\ DOMAIN cases' = DOMAIN cases /\ handler.status \in {"succeeded", "failed"}
        /\ cases'[c].status = IF c = handler.case THEN handler.status ELSE cases[c].status
    BY <1>0, <1>3, <2>1, RecordedFacts
  <2> QED
    BY <2>2 DEF Entered
<1>4. CASE PurgeCases
  BY <1>0, <1>4, PurgeRows DEF Entered
<1> QED
  BY <1>1, <1>2, <1>3, <1>4, CaseCases DEF Context

LEMMA EnteredBatch ==
  ASSUME Context, Distinct(courier.logs), [Next]_vars, NEW c, Entered(c), courier'.phase # "rest"
  PROVE  c \notin ToSet(courier'.logs)
<1>0. CaseType /\ OutboxType /\ OutboxOK
  BY DEF Context
<1>1. PICK s, t : s = courier.logs /\ t = courier'.logs
  OBVIOUS
<1>2. CASE courier.phase # "rest" /\ t = s
  BY <1>1, <1>2 DEF Entered
<1>3. CASE LoadLogs
  <2>1. \A d \in ToSet(t) : d \in DOMAIN outbox /\ ~outbox[d].delivered
    BY <1>1, <1>3, LoadLogsRest
  <2>2. c \notin ToSet(t)
    BY <2>1 DEF Entered
  <2> QED
    BY <1>1, <2>2
<1>4. CASE courier.phase # "rest" /\ NextLog
  <2>1. ToSet(t) \subseteq ToSet(s)
    BY <1>0, <1>1, <1>4, NextLogRest
  <2>2. c \notin ToSet(s)
    BY <1>1, <1>4 DEF Entered
  <2> QED
    BY <1>1, <2>1, <2>2
<1> QED
  BY <1>1, <1>2, <1>3, <1>4, BatchMoves

LEMMA EnteredStays ==
  ASSUME Context, HandlerOK, Distinct(courier.logs), [Next]_vars, NEW c \in 1..numbered, Entered(c)
  PROVE  Entered(c)'
<1>1. c \in DOMAIN outbox' => outbox'[c].delivered
  BY EnteredRows
<1>2. courier'.phase # "rest" => c \notin ToSet(courier'.logs)
  BY EnteredBatch
<1>3. c \in DOMAIN cases' => cases'[c].status # "pending"
  BY EnteredCases
<1>4. PICK s, p : s = courier'.logs /\ p = courier'.phase
  OBVIOUS
<1>5. p # "rest" => c \notin ToSet(s)
  BY <1>2, <1>4
<1> QED
  BY <1>1, <1>3, <1>4, <1>5 DEF Entered, ToSet

LEMMA BatchDistinct ==
  ASSUME Context, Distinct(courier.logs), [Next]_vars
  PROVE  Distinct(courier'.logs)
<1>0. CaseType /\ OutboxType /\ OutboxOK
  BY DEF Context
<1>1. PICK s, t : s = courier.logs /\ t = courier'.logs
  OBVIOUS
<1>2. CASE courier'.phase # "rest"
  <2>1. CASE t = s
    BY <1>1, <2>1 DEF Distinct
  <2>2. CASE LoadLogs
    BY <1>1, <2>2, LoadLogsRest DEF Distinct
  <2>3. CASE courier.phase # "rest" /\ NextLog
    BY <1>0, <1>1, <1>2, <2>3, NextLogRest DEF Distinct
  <2> QED
    BY <1>1, <1>2, <2>1, <2>2, <2>3, BatchMoves
<1>3. CASE courier'.phase = "rest"
  <2>1. CASE UNCHANGED courier
    BY <2>1 DEF Distinct
  <2>2. CASE courier' = Resting
    BY <2>2 DEF Distinct, Resting
  <2>3. CASE NextLog
    <3>1. courier' = Resting \/ courier'.phase = IF courier.phase = "mark" THEN "send" ELSE courier.phase
      BY <2>3 DEF NextLog, OutboxType, Courier, Context
    <3>2. CASE courier.phase = "rest"
      <4>1. ~DeferLog /\ ~SendLog /\ ~MarkLog
        BY <3>2 DEF DeferLog, SendLog, MarkLog
      <4>2. ~LoadLogs
        BY <1>0, <1>3, LoadLogsFacts DEF Context
      <4>3. UNCHANGED courier \/ courier' = Resting
        BY <4>1, <4>2, OutboxCases DEF Context
      <4> QED
        BY <2>1, <2>2, <4>3
    <3> QED
      BY <1>3, <2>2, <3>1, <3>2
  <2>4. ~LoadLogs
    BY <1>0, <1>3, LoadLogsFacts DEF Context
  <2>5. CASE DeferLog \/ MarkLog
    BY <2>3, <2>5 DEF DeferLog, MarkLog
  <2>6. CASE SendLog
    <3>1. NextLog \/ courier'.phase = "mark"
      BY <1>0, <2>6, SendLogRows DEF Context
    <3> QED
      BY <1>3, <2>3, <3>1
  <2> QED
    BY <2>1, <2>2, <2>4, <2>5, <2>6, OutboxCases DEF Context
<1> QED
  BY <1>2, <1>3

\* An entry that is marked is entered.
LEMMA MarkEnters ==
  ASSUME Context, HandlerOK, Distinct(courier.logs), NEW m, MarksALog(m), NEW c, c = Row
  PROVE  messages[m].subject = <<"log", c>> /\ Entered(c)'
<1>0. CaseType /\ OutboxType /\ OutboxOK
  BY DEF Context
<1>1. /\ courier.phase = "mark" /\ NextLog /\ UNCHANGED cases
  BY <1>0, MarkFacts DEF MarksALog
<1>2. c = Row
  OBVIOUS
<1>3. Closed(c) /\ messages[m].subject = <<"log", c>>
  BY <1>0, <1>1, <1>2, RowFacts DEF MarksALog, LastOf
<1>4. c \in DOMAIN outbox' => outbox'[c].delivered
  <2>1. c \in DOMAIN outbox /\ outbox' = [outbox EXCEPT ![c].delivered = TRUE]
    BY <1>2 DEF MarksALog
  <2>2. outbox[c] \in OutboxRow
    BY <1>0, <2>1 DEF OutboxType, OutboxRow
  <2>3. outbox'[c] = [outbox[c] EXCEPT !.delivered = TRUE]
    BY <2>1
  <2> QED
    BY <2>2, <2>3 DEF OutboxRow
<1>5. PICK s, t, p : s = courier.logs /\ t = courier'.logs /\ p = courier'.phase
  OBVIOUS
<1>6. p # "rest" => c \notin ToSet(t)
  <2>1. SUFFICES ASSUME courier'.phase # "rest" PROVE c \notin ToSet(t)
    BY <1>5
  <2>2. ToSet(t) \subseteq ToSet(s) \ {Row}
    BY <1>0, <1>1, <1>5, <2>1, NextLogRest
  <2> QED
    BY <1>2, <2>2
<1>7. c \in DOMAIN cases' => cases'[c].status # "pending"
  BY <1>1, <1>3 DEF Closed
<1>8. /\ c \in DOMAIN outbox' => outbox'[c].delivered
      /\ courier'.phase # "rest" => c \notin ToSet(courier'.logs)
      /\ c \in DOMAIN cases' => cases'[c].status # "pending"
  BY <1>4, <1>5, <1>6, <1>7 DEF ToSet
<1> QED
  BY <1>3, <1>8 DEF Entered, ToSet

LEMMA LogsMarkedStep ==
  ASSUME Context, RunsOK, HandlerOK, LogOK, JobsInv, Posted, Spaced, Recording, LogsMarked, [Next]_vars
  PROVE  LogsMarked'
<1>0. /\ MessageType /\ clock \in Nat /\ QueueInv /\ Placed /\ Distinct(courier.logs)
  BY DEF Context, JobsInv, QueueInv, LogsMarked, Distinct
<1>1. Keeps
  BY <1>0, KeepsAlways
<1>2. \A i, k \in DOMAIN courier'.logs : i # k => courier'.logs[i] # courier'.logs[k]
  BY <1>0, BatchDistinct DEF Distinct
<1>3. ASSUME NEW m \in DOMAIN messages', messages'[m].subject[1] = "log", m \notin unrecorded',
             NEW c, c = messages'[m].subject[2]
      PROVE  Entered(c)'
  <2>1. CASE m \notin DOMAIN messages
    <3>1. SendLog
      <4>1. ASSUME NEW l \in Lanes, Busy(l), messages'[m].subject = lanes[l].job.subject PROVE FALSE
        BY <1>0, <1>3, <4>1, BusyFacts, SubjectKinds
      <4> QED
        BY <1>0, <2>1, <4>1, NewSubject
    <3>2. PICK n, s : n = PostedAs(s) /\ s = <<"log", Row>>
      OBVIOUS
    <3>3. messages' = AfterPost(s, NoSession, clock, "", s) /\ unrecorded' = unrecorded \cup {n}
      BY <3>1, <3>2 DEF SendLog
    <3>4. Arrives(n, s, NoSession, clock, "", s)
      BY <1>0, <3>2, <3>3, PostArrives
    <3>5. m = n
      BY <1>3, <2>1, <3>4 DEF Arrives, Adopted, Newer
    <3> QED
      BY <1>3, <3>3, <3>5
  <2>2. CASE m \in DOMAIN messages
    <3>1. messages'[m].subject = messages[m].subject
      BY <1>1, <2>2 DEF Keeps
    <3>2. CASE m \notin unrecorded
      <4>1. c \in 1..numbered /\ Entered(c)
        BY <1>3, <2>2, <3>1, <3>2 DEF LogsMarked, LogOK
      <4> QED
        BY <1>0, <4>1, EnteredStays
    <3>3. CASE m \in unrecorded
      <4>1. ASSUME NEW l \in Lanes, DeliversAll(l, m) PROVE FALSE
        BY <1>0, <1>3, <2>2, <3>1, <4>1, DeliveredLast
      <4>2. ASSUME NEW l \in Lanes, BindsACard(l, m) PROVE FALSE
        BY <1>0, <1>3, <3>1, <4>2, BusyFacts, SubjectKinds DEF BindsACard
      <4>3. ASSUME NEW l \in Lanes, MarksAReport(l, m) PROVE FALSE
        BY <1>0, <1>3, <3>1, <4>3, BusyFacts, SubjectKinds DEF MarksAReport, LastOf
      <4>4. MarksALog(m)
        BY <1>3, <3>3, <4>1, <4>2, <4>3, Unrecord
      <4>5. PICK d : d = Row
        OBVIOUS
      <4>6. messages[m].subject = <<"log", d>> /\ Entered(d)'
        BY <1>0, <4>4, <4>5, MarkEnters
      <4>7. c = d
        BY <1>3, <3>1, <4>6
      <4> QED
        BY <4>6, <4>7
    <3> QED
      BY <3>2, <3>3
  <2> QED
    BY <2>1, <2>2
<1>4. \A m \in DOMAIN messages' : messages'[m].subject[1] = "log" /\ m \notin unrecorded' =>
        \E c : c = messages'[m].subject[2] /\ Entered(c)'
  BY <1>3
<1> QED
  BY <1>2, <1>4 DEF LogsMarked, Entered

-----------------------------------------------------------------------------
(* A second message of a subject.                                          *)

\* What a new message of a job that is not a card's follows is not known.
LEMMA PostedAgain ==
  ASSUME Context, QueueInv, AlertsInHand, ReportsMarked, Posted,
         NEW l \in Lanes, Busy(l), lanes[l].job.kind # "card",
         NEW m \in DOMAIN messages, messages[m].subject = lanes[l].job.subject
  PROVE  m \in unrecorded
<1>0. Placed /\ ReportsDue
  BY DEF QueueInv
<1>1. PICK job : job = lanes[l].job
  OBVIOUS
<1>2. /\ job.kind \in {"alert", "test", "report", "card"} /\ job \in Active /\ JobForm(job)
      /\ job.subject[1] = job.kind
  BY <1>0, <1>1, BusyFacts, SubjectKinds
<1>3. CASE job.kind = "alert"
  BY <1>1, <1>3 DEF AlertsInHand
<1>4. CASE job.kind = "test"
  <2>1. ~HasPosted(job.subject)
    BY <1>1, <1>4 DEF AlertsInHand
  <2> QED
    BY <1>1, <2>1 DEF HasPosted
<1>5. CASE job.kind = "report"
  <2>1. ReportForm(job)
    BY <1>2, <1>5 DEF JobForm
  <2>2. job.subject = <<"report", job.key[2], PeriodStart(job.at)>> /\ job.at \in Nat
    BY <2>1 DEF ReportForm
  <2>3. job.key[2] \in DOMAIN lastRun /\ lastRun[job.key[2]] < PeriodStart(job.at)
        /\ lastRun[job.key[2]] \in Nat
    BY <1>0, <1>2, <1>5 DEF ReportsDue
  <2>4. messages[m].subject[2] = job.key[2] /\ messages[m].subject[3] = PeriodStart(job.at)
        /\ messages[m].subject[1] = "report"
    BY <1>1, <2>2
  <2>5. PICK s, t : s = lastRun[job.key[2]] /\ t = PeriodStart(job.at)
    OBVIOUS
  <2>6. s < t /\ s \in Int /\ t \in Int
    BY <2>2, <2>3, <2>5, PeriodFacts
  <2>7. ~(t <= s)
    BY <2>6
  <2>8. m \notin unrecorded => t <= s
    BY <2>4, <2>5 DEF ReportsMarked
  <2> QED
    BY <2>7, <2>8
<1> QED
  BY <1>1, <1>2, <1>3, <1>4, <1>5

LEMMA LoggedAgain ==
  ASSUME Context, LogsMarked, SendLog,
         NEW m \in DOMAIN messages, messages[m].subject = <<"log", Row>>
  PROVE  m \in unrecorded
<1>1. courier.phase = "send"
  BY DEF SendLog
<1>2. courier.logs \in Seq(Nat) /\ courier.logs # <<>>
  BY <1>1, RowFacts DEF Context
<1>3. Row \in ToSet(courier.logs)
  <2>1. PICK s : s = courier.logs
    OBVIOUS
  <2>2. Head(s) = s[1] /\ 1 \in DOMAIN s
    BY <1>2, <2>1
  <2> QED
    BY <2>1, <2>2 DEF Row, ToSet
<1>4. ~Entered(Row)
  BY <1>1, <1>3 DEF Entered
<1>5. messages[m].subject[1] = "log" /\ messages[m].subject[2] = Row
  OBVIOUS
<1> QED
  BY <1>4, <1>5 DEF LogsMarked

LEMMA SupersededStep ==
  ASSUME Context, RunsOK, JobsInv, AlertsInv, ReportsMarked, LogsMarked, Superseded, [Next]_vars
  PROVE  Superseded'
<1>0. /\ MessageType /\ clock \in Nat /\ QueueInv /\ Placed
      /\ Posted /\ Spaced /\ Recording /\ AlertsInHand
  BY DEF Context, JobsInv, QueueInv, AlertsInv
<1>1. Keeps
  BY <1>0, KeepsAlways
<1>2. SUFFICES ASSUME NEW m \in DOMAIN messages', NEW n \in DOMAIN messages', m < n,
                      messages'[m].subject = messages'[n].subject, messages'[m].subject[1] # "card"
               PROVE  m \in unrecorded'
  BY DEF Superseded
<1>3. m \in DOMAIN messages
  <2>1. SUFFICES ASSUME m \notin DOMAIN messages PROVE FALSE
    OBVIOUS
  <2>2. m \in Nat /\ (\A k \in DOMAIN messages : k < m) /\ DOMAIN messages' = DOMAIN messages \cup {m}
    BY <1>0, <2>1, NewSubject
  <2>3. n \in DOMAIN messages \/ n = m
    BY <2>2
  <2>4. n \in Nat
    BY <1>0, <2>2, <2>3, MessageIndex
  <2>5. ~(n < m) /\ n # m
    BY <1>2, <2>2, <2>4
  <2> QED
    BY <2>2, <2>3, <2>5
<1>4. messages'[m].subject = messages[m].subject
  BY <1>1, <1>3 DEF Keeps
<1>5. CASE n \in DOMAIN messages
  <2>1. messages[n].subject = messages[m].subject
    BY <1>1, <1>2, <1>4, <1>5 DEF Keeps
  <2>2. m \in unrecorded
    BY <1>2, <1>3, <1>4, <1>5, <2>1 DEF Superseded
  <2>3. m \in Nat /\ n \in Nat /\ ~(n <= m)
    BY <1>0, <1>2, <1>3, <1>5, MessageIndex
  <2>4. ~LastOf(m, messages[m].subject)
    BY <1>5, <2>1, <2>3 DEF LastOf
  <2>5. ASSUME NEW l \in Lanes, DeliversAll(l, m) PROVE FALSE
    BY <1>0, <1>3, <2>4, <2>5, DeliveredLast
  <2>6. ASSUME NEW l \in Lanes, BindsACard(l, m) PROVE FALSE
    BY <1>0, <1>2, <1>4, <2>6, BusyFacts, SubjectKinds DEF BindsACard
  <2>7. ASSUME NEW l \in Lanes, MarksAReport(l, m) PROVE FALSE
    <3>1. LastOf(m, lanes[l].job.subject) /\ messages[m].subject = lanes[l].job.subject
      BY <2>7 DEF MarksAReport, LastOf
    <3> QED
      BY <2>4, <3>1
  <2>8. ASSUME MarksALog(m) PROVE FALSE
    <3>1. LastOf(m, <<"log", Row>>) /\ messages[m].subject = <<"log", Row>>
      BY <2>8 DEF MarksALog, LastOf
    <3> QED
      BY <2>4, <3>1
  <2> QED
    BY <1>0, <2>2, <2>5, <2>6, <2>7, <2>8, Unrecord
<1>6. CASE n \notin DOMAIN messages
  <2>1. CASE SendLog /\ messages'[n].subject[1] = "log"
    <3>1. PICK k, s : k = PostedAs(s) /\ s = <<"log", Row>>
      OBVIOUS
    <3>2. messages' = AfterPost(s, NoSession, clock, "", s) /\ unrecorded' = unrecorded \cup {k}
      BY <2>1, <3>1 DEF SendLog
    <3>3. Arrives(k, s, NoSession, clock, "", s)
      BY <1>0, <3>1, <3>2, PostArrives
    <3>4. messages'[n].subject = s
      BY <1>2, <1>6, <3>3 DEF Arrives, Adopted, Newer
    <3>5. m \in unrecorded
      BY <1>2, <1>3, <1>4, <2>1, <3>1, <3>4, LoggedAgain
    <3> QED
      BY <3>2, <3>5
  <2>2. ASSUME NEW l \in Lanes, Busy(l), messages'[n].subject = lanes[l].job.subject,
               PostLost(l, n) \/ PostKept(l, n) \/ PostDone(l, n)
        PROVE  m \in unrecorded'
    <3>1. messages[m].subject = lanes[l].job.subject
      BY <1>2, <1>4, <2>2
    <3>2. lanes[l].job.kind # "card"
      BY <1>0, <1>2, <1>4, <2>2, <3>1, BusyFacts, SubjectKinds
    <3>3. m \in unrecorded
      BY <1>0, <1>3, <2>2, <3>1, <3>2, PostedAgain
    <3>4. m # n
      BY <1>3, <1>6
    <3> QED
      BY <2>2, <3>3, <3>4 DEF PostLost, PostKept, PostDone
  <2> QED
    BY <1>0, <1>6, <2>1, <2>2, NewSubject
<1> QED
  BY <1>5, <1>6

\* Of the messages other than cards: no second one is posted of one that the
\* bot knows of.
RecordsInv == ReportsMarked /\ LogsMarked /\ Superseded

LEMMA InitRecords == Init => RecordsInv
<1>1. ASSUME Init PROVE messages = <<>> /\ courier.logs = <<>>
  BY <1>1 DEF Init, DiscordInit, ModerationInit, Resting
<1>2. ASSUME Init PROVE DOMAIN messages = {} /\ DOMAIN courier.logs = {}
  BY <1>1, <1>2
<1> QED
  BY <1>2 DEF RecordsInv, ReportsMarked, LogsMarked, Superseded

LEMMA RecordsStep ==
  ASSUME IInv, JobsInv, AlertsInv, RecordsInv, [Next]_vars
  PROVE  RecordsInv'
<1>1. /\ Context /\ RunsOK /\ HandlerOK /\ LogOK
      /\ Posted /\ Spaced /\ Recording
  BY DEF IInv, TypeOK, Context, AlertsInv
<1> QED
  BY <1>1, ReportsMarkedStep, LogsMarkedStep, SupersededStep DEF RecordsInv

(***************************************************************************)
(* A report that is recorded was marked in its schedule, a log entry that  *)
(* is recorded is not due and in no batch, and of two messages of one      *)
(* subject the first is unrecorded (MarkReportScheduleRun,                 *)
(* MarkModerationLogDelivered, sendAlert).                                 *)
(***************************************************************************)
THEOREM RecordsInvariance == Spec => []RecordsInv
<1>1. IInv /\ JobsInv /\ AlertsInv /\ RecordsInv /\ [Next]_vars => RecordsInv'
  BY RecordsStep
<1> QED
  BY <1>1, InitRecords, Invariance, JobsInvariance, AlertsInvariance, PTL DEF Spec

-----------------------------------------------------------------------------
(* What a deletion is about.                                               *)

Deletes(s) == sessions[s].view = "form" \/ sessions[s].kind = "delete"

\* A session that goes on keeps what it is for.
Carried(s) ==
  /\ s \in DOMAIN sessions /\ sessions'[s].target = sessions[s].target
  /\ sessions'[s].view = "form" \/ sessions'[s].kind = "delete" => Deletes(s)

LEMMA RemovedSessions ==
  ASSUME NEW ids, RemoveSessions(ids), NEW s \in DOMAIN sessions'
  PROVE  Carried(s)
<1>1. s \in DOMAIN sessions /\ sessions'[s] = sessions[s]
  BY DEF RemoveSessions
<1> QED
  BY <1>1 DEF Carried, Deletes

LEMMA CreatedSessions ==
  ASSUME NEW u, NEW view, NEW kind, NEW target, NEW ttl,
         Create(u, view, kind, target, ttl) \/ Refuse(u), NEW s \in DOMAIN sessions'
  PROVE  \/ Carried(s)
         \/ /\ sessions'[s].view = view /\ sessions'[s].kind = kind /\ sessions'[s].target = target
<1>1. CASE Refuse(u)
  BY <1>1, RemovedSessions DEF Refuse
<1>2. CASE Create(u, view, kind, target, ttl)
  <2>1. PICK new : new = [user |-> u, view |-> view, kind |-> kind, target |-> target,
                          expires |-> clock + ttl]
    OBVIOUS
  <2>2. sessions' = [i \in (DOMAIN sessions \ Expired(DOMAIN sessions)) \cup {opened + 1} |->
                       IF i = opened + 1 THEN new ELSE sessions[i]]
    BY <1>2, <2>1 DEF Create
  <2>3. \/ s = opened + 1 /\ sessions'[s] = new
        \/ s \in DOMAIN sessions /\ sessions'[s] = sessions[s]
    BY <2>2
  <2> QED
    BY <2>1, <2>3 DEF Carried, Deletes
<1> QED
  BY <1>1, <1>2

\* The deletions that a session is for are of messages that there are.
LEMMA SessionTargets ==
  ASSUME SessionType, [Next]_vars, NEW s \in DOMAIN sessions',
         sessions'[s].view = "form" \/ sessions'[s].kind = "delete"
  PROVE  Carried(s) \/ sessions'[s].target \in DOMAIN messages
<1>1. CASE UNCHANGED sessions
  BY <1>1 DEF Carried, Deletes
<1>2. ASSUME NEW u, OpenView(u) \/ AskKick(u) PROVE Carried(s)
  <2>1. \/ Create(u, "view", "", NoMessage, ViewTTL) \/ Refuse(u)
        \/ Create(u, "confirm", "kick", NoMessage, ConfirmTTL) \/ Refuse(u)
    BY <1>2 DEF OpenView, AskKick
  <2>2. \/ Carried(s)
        \/ sessions'[s].view = "view" /\ sessions'[s].kind = ""
        \/ sessions'[s].view = "confirm" /\ sessions'[s].kind = "kick"
    BY <2>1, CreatedSessions
  <2> QED
    BY <2>2
<1>3. ASSUME NEW u, NEW m \in DOMAIN messages, AskDeletion(u, m)
      PROVE  Carried(s) \/ sessions'[s].target \in DOMAIN messages
  <2>1. Create(u, "form", "delete", m, ConfirmTTL) \/ Refuse(u)
    BY <1>3 DEF AskDeletion
  <2>2. Carried(s) \/ sessions'[s].target = m
    BY <2>1, CreatedSessions
  <2> QED
    BY <2>2
<1>4. CASE InteractionStep
  <2>1. ASSUME NEW u, NEW t, SubmitReason(u, t) \/ Press(u, t) PROVE Carried(s)
    BY <1>1, <2>1, RemovedSessions DEF SubmitReason, Press, sessionVars, Carried, Deletes
  <2>2. ASSUME NEW u, RunAtOnce(u) \/ ChangeAccess(u) PROVE Carried(s)
    BY <2>2 DEF RunAtOnce, ChangeAccess, sessionVars, Carried, Deletes
  <2> QED
    BY <1>2, <1>3, <1>4, <2>1, <2>2 DEF InteractionStep
<1>5. CASE PrepareDeletion
  <2>1. CASE RemoveSessions({handler.session})
    BY <2>1, RemovedSessions
  <2>2. PICK t : t = handler.session
    OBVIOUS
  <2>3. CASE sessions' = [sessions EXCEPT ![t].view = "confirm"]
    <3>1. s \in DOMAIN sessions /\ sessions[s] \in Session
      BY <2>3 DEF SessionType
    <3>2. sessions'[s] = sessions[s] \/ sessions'[s] = [sessions[s] EXCEPT !.view = "confirm"]
      BY <2>3, <3>1
    <3>3. CASE sessions'[s] = sessions[s]
      BY <3>1, <3>3 DEF Carried, Deletes
    <3>4. CASE sessions'[s] = [sessions[s] EXCEPT !.view = "confirm"]
      <4>1. sessions'[s].view = "confirm" /\ sessions'[s].kind = sessions[s].kind
            /\ sessions'[s].target = sessions[s].target
        BY <3>1, <3>4 DEF Session
      <4> QED
        BY <3>1, <4>1 DEF Carried, Deletes
    <3> QED
      BY <3>2, <3>3, <3>4
  <2>4. RemoveSessions({t}) \/ sessions' = [sessions EXCEPT ![t].view = "confirm"] \/ UNCHANGED sessions
    BY <1>5, <2>2 DEF PrepareDeletion
  <2> QED
    BY <1>1, <2>1, <2>2, <2>3, <2>4
<1>6. CASE Authorise
  BY <1>6, RemovedSessions DEF Authorise
<1>7. CASE HandlerStep /\ ~PrepareDeletion /\ ~Authorise
  BY <1>1, <1>7 DEF HandlerStep, CreateModerationCase, Check, Act, CompleteModerationCase,
                    DeleteBinding, sessionVars
<1>8. CASE Cleanup
  BY <1>8, RemovedSessions DEF Cleanup
<1>9. CASE LogDelivery
  BY <1>1, <1>9, LogFacts DEF sessionVars
<1>10. CASE Tick \/ UNCHANGED vars \/ UNCHANGED moderationVars
  BY <1>1, <1>10, QuietFacts
<1>11. ~Crash
  <2>1. ASSUME Crash PROVE DOMAIN sessions' = {}
    BY <2>1, CrashFacts
  <2> QED
    BY <2>1
<1> QED
  BY <1>4, <1>5, <1>6, <1>7, <1>8, <1>9, <1>10, <1>11, NextCases

\* The handler goes on with what it was asked.
SameRequest ==
  handler.phase # "idle" /\ handler'.kind = handler.kind /\ handler'.target = handler.target

\* It begins with the deletion of a message that a session or a person names.
Requested ==
  /\ handler'.phase \in {"prepare", "authorise", "create"}
  /\ handler'.kind = "delete" =>
       \/ handler'.target \in DOMAIN messages
       \/ \E s \in DOMAIN sessions : Deletes(s) /\ handler'.target = sessions[s].target

\* How the request that is handled changes.
RequestMoves ==
  \/ handler'.phase = "idle"
  \/ Requested
  \/ SameRequest /\ handler'.phase = handler.phase /\ handler'.status = handler.status
  \/ SameRequest /\ handler'.phase \in {"create", "check", "recheck", "act"}
  \/ SameRequest /\ handler'.phase = "complete" /\ handler'.status = "failed"
  \/ /\ Act /\ SameRequest /\ handler'.phase = "complete"
     /\ handler.kind = "delete" /\ handler'.status = "succeeded" => messages' = AfterDelete(handler.target)
  \/ /\ SameRequest /\ handler'.phase = "unbind" /\ handler.phase = "complete"
     /\ handler.kind = "delete" /\ handler.status = "succeeded"

LEMMA IdleRequest == Idle.phase = "idle"
BY DEF Idle

LEMMA HandlingRequest ==
  ASSUME NEW u, NEW s, NEW kind, NEW target, NEW phase, handler' = Handling(u, s, kind, target, phase)
  PROVE  handler'.phase = phase /\ handler'.kind = kind /\ handler'.target = target
BY DEF Handling, Idle

LEMMA InteractionRequests ==
  ASSUME SessionType, AccessType, InteractionStep, handler'.phase # "idle"
  PROVE  RequestMoves
<1>1. ASSUME handler' = handler PROVE RequestMoves
  <2>1. handler.phase # "idle"
    BY <1>1
  <2> QED
    BY <1>1, <2>1 DEF RequestMoves, SameRequest
<1>2. ASSUME NEW u, RunAtOnce(u) PROVE RequestMoves
  <2>1. PICK kind \in {"timeout", "warn"} : handler' = Handling(u, NoSession, kind, NoMessage, "create")
    BY <1>2 DEF RunAtOnce
  <2>2. handler'.phase = "create" /\ handler'.kind # "delete"
    BY <2>1, HandlingRequest
  <2> QED
    BY <2>2 DEF RequestMoves, Requested
<1>3. ASSUME NEW u, OpenView(u) \/ AskKick(u) PROVE RequestMoves
  BY <1>1, <1>3 DEF OpenView, AskKick
<1>4. ASSUME NEW u, ChangeAccess(u) PROVE RequestMoves
  <2>1. PICK b : handler' = [handler EXCEPT !.allowed = b]
    BY <1>4 DEF ChangeAccess
  <2>2. /\ handler'.phase = handler.phase /\ handler'.status = handler.status
        /\ handler'.kind = handler.kind /\ handler'.target = handler.target
    BY <2>1 DEF AccessType, Handler
  <2>3. handler.phase # "idle"
    BY <2>2
  <2> QED
    BY <2>2, <2>3 DEF RequestMoves, SameRequest
<1>5. ASSUME NEW u, NEW m \in DOMAIN messages, AskDeletion(u, m) PROVE RequestMoves
  <2>1. handler' = handler \/ handler' = Handling(u, opened + 1, "delete", m, "prepare")
    BY <1>5 DEF AskDeletion
  <2>2. CASE handler' = Handling(u, opened + 1, "delete", m, "prepare")
    <3>1. handler'.phase = "prepare" /\ handler'.target = m
      BY <2>2, HandlingRequest
    <3> QED
      BY <3>1 DEF RequestMoves, Requested
  <2> QED
    BY <1>1, <2>1, <2>2
<1>6. ASSUME NEW u, NEW s, SubmitReason(u, s) PROVE RequestMoves
  <2>1. /\ s \in DOMAIN sessions /\ sessions[s].view = "form"
        /\ handler' = Handling(u, s, "delete", sessions[s].target, "prepare")
    BY <1>6 DEF SubmitReason, Gets
  <2>2. handler'.phase = "prepare" /\ handler'.target = sessions[s].target
    BY <2>1, HandlingRequest
  <2> QED
    BY <2>1, <2>2 DEF RequestMoves, Requested, Deletes
<1>7. ASSUME NEW u, NEW s, Press(u, s) PROVE RequestMoves
  <2>1. \/ handler' = handler
        \/ /\ s \in DOMAIN sessions
           /\ handler' = Handling(u, s, sessions[s].kind, sessions[s].target, "authorise")
    BY <1>7 DEF Press, Gets
  <2>2. CASE /\ s \in DOMAIN sessions
             /\ handler' = Handling(u, s, sessions[s].kind, sessions[s].target, "authorise")
    <3>1. /\ handler'.phase = "authorise" /\ handler'.target = sessions[s].target
          /\ handler'.kind = sessions[s].kind
      BY <2>2, HandlingRequest
    <3> QED
      BY <2>2, <3>1 DEF RequestMoves, Requested, Deletes
  <2> QED
    BY <1>1, <2>1, <2>2
<1> QED
  BY <1>2, <1>3, <1>4, <1>5, <1>6, <1>7 DEF InteractionStep

LEMMA FinishingRequest ==
  ASSUME AccessType, NEW status, handler' = Finishing(status)
  PROVE  /\ handler'.phase = "complete" /\ handler'.status = status
         /\ handler'.kind = handler.kind /\ handler'.target = handler.target
BY DEF Finishing, AccessType, Handler

LEMMA PhaseRequest ==
  ASSUME AccessType, NEW phase, handler' = [handler EXCEPT !.phase = phase]
  PROVE  /\ handler'.phase = phase /\ handler'.kind = handler.kind /\ handler'.target = handler.target
BY DEF AccessType, Handler

LEMMA HandlerRequests ==
  ASSUME AccessType, HandlerStep, handler'.phase # "idle"
  PROVE  RequestMoves
<1>0. handler' # Idle
  BY IdleRequest
<1>1. ~PrepareDeletion /\ ~DeleteBinding
  BY <1>0 DEF PrepareDeletion, DeleteBinding
<1>2. CASE Authorise
  <2>1. handler' = [handler EXCEPT !.phase = "create"] /\ handler.phase = "authorise"
    BY <1>0, <1>2 DEF Authorise
  <2> QED
    BY <2>1, PhaseRequest DEF RequestMoves, SameRequest
<1>3. CASE CreateModerationCase
  <2>1. PICK c, b : handler' = [handler EXCEPT !.phase = "check", !.case = c, !.allowed = b]
    BY <1>0, <1>3 DEF CreateModerationCase
  <2>2. handler.phase = "create"
    BY <1>3 DEF CreateModerationCase
  <2>3. /\ handler'.phase = "check" /\ handler'.kind = handler.kind /\ handler'.target = handler.target
    BY <2>1 DEF AccessType, Handler
  <2> QED
    BY <2>2, <2>3 DEF RequestMoves, SameRequest
<1>4. CASE Check
  <2>0. handler.phase # "idle"
    BY <1>4 DEF Check
  <2>1. \/ handler' = Finishing("failed")
        \/ \E phase \in {"recheck", "act"} : handler' = [handler EXCEPT !.phase = phase]
    BY <1>4 DEF Check
  <2>2. CASE handler' = Finishing("failed")
    BY <2>0, <2>2, FinishingRequest DEF RequestMoves, SameRequest
  <2>3. CASE \E phase \in {"recheck", "act"} : handler' = [handler EXCEPT !.phase = phase]
    BY <2>0, <2>3, PhaseRequest DEF RequestMoves, SameRequest
  <2> QED
    BY <2>1, <2>2, <2>3
<1>5. CASE Act
  <2>0. handler.phase # "idle"
    BY <1>5 DEF Act
  <2>1. \/ handler' = Finishing("failed")
        \/ /\ handler' \in {Finishing("succeeded"), Finishing("failed")}
           /\ handler.kind = "delete" => messages' = AfterDelete(handler.target)
    BY <1>5 DEF Act, DeleteMessage
  <2>2. PICK status \in {"succeeded", "failed"} :
          /\ handler' = Finishing(status)
          /\ status = "succeeded" /\ handler.kind = "delete" => messages' = AfterDelete(handler.target)
    BY <2>1
  <2>3. /\ handler'.phase = "complete" /\ handler'.status = status
        /\ handler'.kind = handler.kind /\ handler'.target = handler.target
    BY <2>2, FinishingRequest
  <2> QED
    BY <1>5, <2>0, <2>2, <2>3 DEF RequestMoves, SameRequest
<1>6. CASE CompleteModerationCase
  <2>1. /\ handler.phase = "complete" /\ handler.kind = "delete" /\ handler.status = "succeeded"
        /\ handler' = [handler EXCEPT !.phase = "unbind"]
    BY <1>0, <1>6 DEF CompleteModerationCase
  <2> QED
    BY <2>1, PhaseRequest DEF RequestMoves, SameRequest
<1> QED
  BY <1>1, <1>2, <1>3, <1>4, <1>5, <1>6 DEF HandlerStep

LEMMA Requests ==
  ASSUME SessionType, AccessType, [Next]_vars
  PROVE  RequestMoves
<1>1. CASE handler'.phase = "idle"
  BY <1>1 DEF RequestMoves
<1>2. CASE handler'.phase # "idle"
  <2>1. CASE handler' = handler
    BY <1>2, <2>1 DEF RequestMoves, SameRequest
  <2>2. CASE InteractionStep
    BY <1>2, <2>2, InteractionRequests
  <2>3. CASE HandlerStep
    BY <1>2, <2>3, HandlerRequests
  <2>4. ~Crash
    BY <1>2, CrashFacts, IdleRequest
  <2>5. CASE Cleanup \/ LogDelivery
    BY <2>1, <2>5, CleanupFacts, LogFacts
  <2>6. CASE Tick \/ UNCHANGED vars \/ UNCHANGED moderationVars
    BY <2>1, <2>6, QuietFacts
  <2> QED
    BY <2>2, <2>3, <2>4, <2>5, <2>6, NextCases
<1> QED
  BY <1>1, <1>2

\* A deletion is of a message that there is; where it succeeded, the message is gone.
DeletionsOK ==
  /\ \A s \in DOMAIN sessions : Deletes(s) => sessions[s].target \in DOMAIN messages
  /\ handler.phase # "idle" /\ handler.kind = "delete" => handler.target \in DOMAIN messages
  /\ handler.phase = "unbind" => handler.kind = "delete"
  /\ handler.phase = "unbind" \/ (handler.phase = "complete" /\ handler.kind = "delete"
                                    /\ handler.status = "succeeded") =>
       ~messages[handler.target].live

LEMMA DeletionsStep ==
  ASSUME Context, DeletionsOK, [Next]_vars
  PROVE  DeletionsOK'
<1>0. SessionType /\ AccessType /\ MessageType /\ clock \in Nat
  BY DEF Context
<1>1. Keeps
  BY <1>0, KeepsAlways
<1>2. DOMAIN messages \subseteq DOMAIN messages'
  BY <1>1 DEF Keeps
<1>3. ASSUME NEW s \in DOMAIN sessions', sessions'[s].view = "form" \/ sessions'[s].kind = "delete"
      PROVE  sessions'[s].target \in DOMAIN messages'
  <2>1. Carried(s) \/ sessions'[s].target \in DOMAIN messages
    BY <1>0, <1>3, SessionTargets
  <2>2. sessions'[s].target \in DOMAIN messages
    BY <1>3, <2>1 DEF Carried, DeletionsOK
  <2> QED
    BY <1>2, <2>2
<1>4. RequestMoves
  BY <1>0, Requests
<1>5. ASSUME handler'.phase # "idle", handler'.kind = "delete"
      PROVE  handler'.target \in DOMAIN messages
  <2>1. CASE Requested
    BY <1>5, <2>1 DEF Requested, DeletionsOK
  <2>2. CASE SameRequest
    BY <1>5, <2>2 DEF SameRequest, DeletionsOK
  <2> QED
    BY <1>4, <1>5, <2>1, <2>2 DEF RequestMoves
<1>6. ASSUME handler'.phase = "unbind" PROVE handler'.kind = "delete"
  <2>1. SameRequest /\ (handler.phase = "unbind" \/ handler.kind = "delete")
    BY <1>4, <1>6 DEF RequestMoves, Requested
  <2> QED
    BY <2>1 DEF SameRequest, DeletionsOK
<1>7. ASSUME NEW t, t = handler'.target, handler'.kind = "delete",
             handler'.phase = "unbind" \/ (handler'.phase = "complete" /\ handler'.status = "succeeded")
      PROVE  ~messages'[t].live
  <2>1. t \in DOMAIN messages
    BY <1>5, <1>7
  <2>2. ASSUME ~messages[t].live PROVE ~messages'[t].live
    BY <1>1, <2>1, <2>2 DEF Keeps
  <2>3. SameRequest
    BY <1>4, <1>7 DEF RequestMoves, Requested
  <2>4. t = handler.target /\ handler.kind = "delete"
    BY <1>7, <2>3 DEF SameRequest
  <2>5. CASE handler'.phase = handler.phase /\ handler'.status = handler.status
    BY <1>7, <2>2, <2>4, <2>5 DEF DeletionsOK
  <2>6. CASE handler'.phase = "complete" /\ messages' = AfterDelete(handler.target)
    <3>1. messages' = AfterDelete(t)
      BY <2>4, <2>6
    <3> QED
      BY <1>0, <2>1, <3>1, DeleteStill
  <2>7. CASE handler'.phase = "unbind" /\ handler.phase = "complete" /\ handler.status = "succeeded"
    BY <2>2, <2>4, <2>7 DEF DeletionsOK
  <2>8. \/ handler'.phase = handler.phase /\ handler'.status = handler.status
        \/ handler'.phase = "complete" /\ messages' = AfterDelete(handler.target)
        \/ handler'.phase = "unbind" /\ handler.phase = "complete" /\ handler.status = "succeeded"
    BY <1>4, <1>7, <2>4 DEF RequestMoves, Requested
  <2> QED
    BY <2>5, <2>6, <2>7, <2>8
<1>8. handler'.phase = "unbind" \/ (handler'.phase = "complete" /\ handler'.kind = "delete"
                                      /\ handler'.status = "succeeded") =>
        ~messages'[handler'.target].live
  BY <1>6, <1>7
<1> QED
  BY <1>2, <1>3, <1>5, <1>6, <1>8 DEF DeletionsOK, Deletes

-----------------------------------------------------------------------------
(* Where cards go.                                                         *)

\* Every purpose that is bound is bound to a channel.
ChannelsOK ==
  /\ "channels" \in DOMAIN settings
  /\ \A p \in DOMAIN settings.channels : settings.channels[p] \in {"c1", "c2"}

LEMMA ChannelsStep ==
  ASSUME ChannelsOK, [Next]_vars
  PROVE  ChannelsOK'
<1>1. CASE UNCHANGED settings
  BY <1>1 DEF ChannelsOK
<1>2. CASE ConfigureAlerts \/ ConfigureGuild
  <2>1. "channels" \in DOMAIN settings' /\ settings'.channels = settings.channels
    <3>1. \/ \E a, b : settings' = [settings EXCEPT !.enabled = a, !.destination = b]
          \/ \E a, b : settings' = [settings EXCEPT !.paused = a, !.muted = b]
      BY <1>2 DEF ConfigureAlerts, ConfigureGuild, UpsertAlertConfig, UpsertGuildSettings
    <3> QED
      BY <3>1 DEF ChannelsOK
  <2>2. PICK s : s = settings'.channels
    OBVIOUS
  <2>3. \A p \in DOMAIN s : s[p] \in {"c1", "c2"}
    BY <2>1, <2>2 DEF ChannelsOK
  <2> QED
    BY <2>1, <2>2, <2>3 DEF ChannelsOK
<1>3. ASSUME NEW p, ConfigureChannel(p) PROVE ChannelsOK'
  <2>0. PICK s : s = settings.channels
    OBVIOUS
  <2>1. CASE settings' = [settings EXCEPT !.channels =
               [q \in DOMAIN @ \cup {p} |-> IF q = p THEN "c1" ELSE @[q]]]
    <3>1. /\ "channels" \in DOMAIN settings'
          /\ settings'.channels = [q \in DOMAIN s \cup {p} |-> IF q = p THEN "c1" ELSE s[q]]
      BY <2>0, <2>1 DEF ChannelsOK
    <3>2. PICK t : t = [q \in DOMAIN s \cup {p} |-> IF q = p THEN "c1" ELSE s[q]]
      OBVIOUS
    <3>3. \A q \in DOMAIN t : t[q] \in {"c1", "c2"}
      BY <2>0, <3>2 DEF ChannelsOK
    <3> QED
      BY <3>1, <3>2, <3>3 DEF ChannelsOK
  <2>2. CASE settings' = [settings EXCEPT !.channels[p] = IF @ = "c1" THEN "c2" ELSE "c1"]
    <3>1. /\ "channels" \in DOMAIN settings'
          /\ settings'.channels = [s EXCEPT ![p] = IF @ = "c1" THEN "c2" ELSE "c1"]
      BY <2>0, <2>2 DEF ChannelsOK
    <3>2. PICK t : t = [s EXCEPT ![p] = IF @ = "c1" THEN "c2" ELSE "c1"]
      OBVIOUS
    <3>3. \A q \in DOMAIN t : t[q] \in {"c1", "c2"}
      BY <2>0, <3>2 DEF ChannelsOK
    <3> QED
      BY <3>1, <3>2, <3>3 DEF ChannelsOK
  <2> QED
    BY <1>3, <2>1, <2>2 DEF ConfigureChannel
<1>4. CASE UNCHANGED outboundVars
  BY <1>1, <1>4 DEF outboundVars
<1>5. CASE OutboundStep
  <2>1. ASSUME NEW l \in Lanes, Lane(l) PROVE UNCHANGED settings
    BY <2>1 DEF Lane, TakeJob, Take, SendAlert, SendTest, SendReport, UpdateCard, EditCard, Post,
                MarkRun, BindCard, InJob
  <2>2. CASE ~(\E l \in Lanes : Lane(l)) /\ ~ConfigureAlerts /\ ~ConfigureGuild
             /\ ~(\E p \in Purposes : ConfigureChannel(p))
    BY <1>1, <1>5, <2>2
       DEF OutboundStep, SubmitAlert, SubmitDestinationTest, ScheduleReport, EnqueueDueReports,
           EnqueueDueAdminDigest, RefreshCard, ResetDashboard
  <2> QED
    BY <1>1, <1>2, <1>3, <2>1, <2>2
<1>6. CASE Tick \/ Crash \/ UNCHANGED vars
  BY <1>1, <1>6 DEF Tick, Crash, OutboundLost, vars, outboundVars
<1> QED
  BY <1>4, <1>5, <1>6, NextCases

LEMMA BindingMoves ==
  ASSUME [Next]_vars
  PROVE  \/ UNCHANGED bindings
         \/ \E l \in Lanes : BindCard(l)
         \/ On("dashboard") /\ ResetDashboard
         \/ DeleteBinding
<1>1. CASE OutboundStep
  <2>1. ASSUME NEW l \in Lanes, Lane(l), ~BindCard(l) PROVE UNCHANGED bindings
    BY <2>1 DEF Lane, TakeJob, Take, SendAlert, SendTest, SendReport, UpdateCard, EditCard, Post,
                MarkRun, discordVars
  <2>2. CASE ~(\E l \in Lanes : Lane(l)) /\ ~(On("dashboard") /\ ResetDashboard)
    BY <1>1, <2>2
       DEF OutboundStep, SubmitAlert, SubmitDestinationTest, ScheduleReport, EnqueueDueReports,
           EnqueueDueAdminDigest, RefreshCard, ConfigureAlerts, ConfigureGuild, ConfigureChannel,
           discordVars
  <2> QED
    BY <2>1, <2>2
<1>2. CASE InteractionStep
  BY <1>2 DEF InteractionStep, RunAtOnce, OpenView, AskKick, ChangeAccess, AskDeletion,
              SubmitReason, Press, discordVars
<1>3. CASE HandlerStep /\ ~DeleteBinding
  BY <1>3 DEF HandlerStep, PrepareDeletion, Authorise, CreateModerationCase, Check, Act,
              CompleteModerationCase, discordVars
<1>4. CASE Cleanup \/ LogDelivery
  BY <1>4 DEF Cleanup, LogDelivery, LoadLogs, DeferLog, SendLog, MarkLog, PurgeCases,
              BindLogChannel, discordVars
<1>5. CASE Tick \/ Crash \/ UNCHANGED vars
  BY <1>5 DEF Tick, Crash, vars, discordVars
<1> QED
  BY <1>1, <1>2, <1>3, <1>4, <1>5, NextCases

-----------------------------------------------------------------------------
(* Which message of a card the bot knows of.                               *)

BindingsOK == bindings \in [Cards -> Bindings \cup {NoMessage}]

\* The one message of a card that is neither lost nor gone is the bound one.
Shows(m, c, channel) ==
  /\ m \in DOMAIN messages /\ messages[m].subject = <<"card", c>> /\ messages[m].live
  /\ messages[m].channel = channel

IsBound(c, m, channel) ==
  bindings[c] # NoMessage /\ bindings[c].msg = m /\ bindings[c].channel = channel

CardsBound ==
  \A c \in Cards : \A m \in DOMAIN messages : \A channel :
    Shows(m, c, channel) /\ ~Lost(m) => IsBound(c, m, channel)

\* What the lane knows of the card it shows: what it edits is bound, and it posts
\* where no message that the bot knows of shows the card.
InHand(x, c) ==
  /\ x.phase \in {"edit", "post", "record"} => x.channel \in {"c1", "c2"}
  /\ x.phase = "edit" => bindings[c] \in {NoMessage, [msg |-> x.msg, channel |-> x.channel]}
  /\ x.phase = "post" => \A m \in DOMAIN messages : Shows(m, c, x.channel) => Lost(m)
  /\ x.phase = "record" =>
       \A m \in DOMAIN messages : Shows(m, c, x.channel) /\ m # x.msg => Lost(m)

CardInHand ==
  \A l \in Lanes : Busy(l) /\ lanes[l].job.kind = "card" => InHand(lanes[l], lanes[l].job.key[2])

CardInv == BindingsOK /\ ChannelsOK /\ CardsBound /\ CardInHand /\ DeletionsOK

LEMMA CardJobs ==
  ASSUME Placed, NEW l \in Lanes, Busy(l), lanes[l].job.kind = "card"
  PROVE  /\ l = "background" /\ lanes[l].job.key[2] \in Cards
         /\ lanes[l].job.subject = <<"card", lanes[l].job.key[2]>>
<1>1. PICK job : job = lanes[l].job
  OBVIOUS
<1>2. JobForm(job) /\ job.chan \in Serves(l)
  BY <1>1, BusyFacts
<1>3. CardForm(job)
  BY <1>1, <1>2 DEF JobForm
<1>4. /\ job.key[2] \in Cards /\ job.key = <<"card", job.key[2]>> /\ job.subject = job.key
      /\ job.chan \in {"dashboard", "report"}
  BY <1>3 DEF CardForm
<1>5. l = "background"
  BY <1>2, <1>4 DEF Serves, Lanes
<1> QED
  BY <1>1, <1>4, <1>5

\* A card's message that was lost is known again only when it is bound.
LEMMA CardKnown ==
  ASSUME Context, QueueInv, Posted, Spaced, Recording, [Next]_vars,
         NEW m \in DOMAIN messages, messages[m].subject[1] = "card", Lost(m), ~Lost(m)'
  PROVE  \E l \in Lanes : BindsACard(l, m)
<1>0. Placed
  BY DEF QueueInv
<1>1. m \notin unrecorded' /\ m \notin forgotten'
  BY DEF Lost
<1>2. ASSUME NEW l \in Lanes, DeliversAll(l, m) PROVE FALSE
  BY <1>2, DeliveredLast
<1>3. ASSUME NEW l \in Lanes, MarksAReport(l, m) PROVE FALSE
  BY <1>0, <1>3, BusyFacts, SubjectKinds DEF MarksAReport, LastOf
<1>4. ASSUME MarksALog(m) PROVE FALSE
  <2>1. messages[m].subject = <<"log", Row>>
    BY <1>4 DEF MarksALog, LastOf
  <2> QED
    BY <2>1
<1>5. CASE m \in unrecorded
  BY <1>1, <1>2, <1>3, <1>4, <1>5, Unrecord
<1>6. CASE m \in forgotten
  BY <1>1, <1>6, Remember
<1> QED
  BY <1>5, <1>6 DEF Lost

\* A new message of a card is not known before it is bound.
LEMMA CardPosted ==
  ASSUME Context, RunsOK, QueueInv, [Next]_vars, NEW n \in DOMAIN messages', n \notin DOMAIN messages,
         messages'[n].subject[1] = "card"
  PROVE  /\ n \in unrecorded'
         /\ \E l \in Lanes : Busy(l) /\ (PostLost(l, n) \/ PostKept(l, n))
<1>0. Placed
  BY DEF QueueInv
<1>1. PICK l \in Lanes :
        /\ Busy(l) /\ messages'[n].subject = lanes[l].job.subject
        /\ PostLost(l, n) \/ PostKept(l, n) \/ PostDone(l, n)
  BY NewSubject
<1>2. lanes[l].job.kind = "card"
  BY <1>0, <1>1, BusyFacts, SubjectKinds
<1> QED
  BY <1>1, <1>2 DEF PostLost, PostKept, PostDone

\* The card is bound to the message that was posted for it.
Binds(l) ==
  LET c == lanes[l].job.key[2]
      old == bindings[c]
  IN  /\ lanes[l].phase = "record" /\ lanes[l].job.kind = "card" /\ UNCHANGED messages
      /\ UpsertMessageBinding(c, lanes[l].msg, lanes[l].channel)
      /\ unrecorded' =
           IF messages[lanes[l].msg].channel = lanes[l].channel
           THEN unrecorded \ {lanes[l].msg} ELSE unrecorded \cup {lanes[l].msg}
      /\ forgotten' = (forgotten \ {lanes[l].msg}) \cup
           (IF old # NoMessage /\ old.channel # lanes[l].channel THEN {old.msg} ELSE {})

LEMMA BindCases ==
  ASSUME NEW l \in Lanes, BindCard(l)
  PROVE  Binds(l) \/ UNCHANGED <<messages, bindings, unrecorded, forgotten>>
BY DEF BindCard, Binds

\* What is bound stays bound unless it is given up or gone.
LEMMA StaysBound ==
  ASSUME DeletionsOK, BindingsOK, NEW c \in Cards, NEW m \in DOMAIN messages,
         NEW channel, IsBound(c, m, channel), messages[m].live, ~Lost(m)',
         UNCHANGED bindings \/ ResetDashboard \/ DeleteBinding
  PROVE  IsBound(c, m, channel)'
<1>1. SUFFICES bindings'[c] = bindings[c]
  BY DEF IsBound
<1>2. CASE UNCHANGED bindings
  BY <1>2
<1>3. CASE ResetDashboard
  <2>1. m \notin forgotten'
    BY DEF Lost
  <2>2. forgotten' = forgotten \cup ({Shown("dashboard")} \ {NoMessage})
    BY <1>3 DEF ResetDashboard
  <2>3. CASE c = "dashboard"
    <3>1. Shown(c) = m
      BY DEF Shown, IsBound
    <3>2. m # NoMessage
      <4>1. bindings[c] \in Bindings
        BY DEF BindingsOK, IsBound
      <4>2. m \in Nat
        BY <4>1 DEF Bindings, IsBound
      <4> QED
        BY <4>2, KeyAssumption DEF KeyAssumption
    <3> QED
      BY <2>1, <2>2, <2>3, <3>1, <3>2
  <2>4. CASE c # "dashboard"
    BY <1>3, <2>4 DEF ResetDashboard, BindingsOK
  <2> QED
    BY <2>3, <2>4
<1>4. CASE DeleteBinding
  <2>1. PICK t : t = handler.target
    OBVIOUS
  <2>2. ~messages[t].live /\ (bindings' = bindings \/ bindings' = Unbound(t))
    BY <1>4, <2>1 DEF DeleteBinding, DeletionsOK
  <2>3. CASE bindings' = Unbound(t)
    <3>1. bindings[c] # [msg |-> t, channel |-> messages[t].channel]
      BY <2>2 DEF IsBound
    <3> QED
      BY <2>3, <3>1 DEF Unbound
  <2> QED
    BY <2>2, <2>3
<1> QED
  BY <1>2, <1>3, <1>4

\* What the lane binds is what it was told was posted.
LEMMA BindsFacts ==
  ASSUME Context, QueueInv, Recording, BindingsOK, CardInHand, NEW l \in Lanes, Binds(l),
         NEW x, x = lanes[l], NEW c, c = x.job.key[2]
  PROVE  /\ Busy(l) /\ x.job.kind = "card" /\ x.phase = "record" /\ c \in Cards /\ x.msg \in DOMAIN messages
         /\ messages[x.msg].subject = <<"card", c>> /\ x.msg \in Nat
         /\ InHand(x, c) /\ UNCHANGED messages
         /\ bindings' = [bindings EXCEPT ![c] = [msg |-> x.msg, channel |-> x.channel]]
         /\ [msg |-> x.msg, channel |-> x.channel] \in Bindings
         /\ \A m \in DOMAIN messages : m # x.msg => (m \in unrecorded' <=> m \in unrecorded)
         /\ \A m \in DOMAIN messages : m # x.msg /\ m \in forgotten => m \in forgotten'
         /\ messages[x.msg].channel # x.channel => x.msg \in unrecorded'
         /\ bindings[c] # NoMessage /\ bindings[c].channel # x.channel => bindings[c].msg \in forgotten'
<1>0. Placed /\ MessageType
  BY DEF QueueInv, Context
<1>1. /\ x.phase = "record" /\ x.job.kind = "card" /\ UNCHANGED messages
      /\ bindings' = [bindings EXCEPT ![c] = [msg |-> x.msg, channel |-> x.channel]]
      /\ unrecorded' = IF messages[x.msg].channel = x.channel
                       THEN unrecorded \ {x.msg} ELSE unrecorded \cup {x.msg}
      /\ forgotten' = (forgotten \ {x.msg}) \cup
           (IF bindings[c] # NoMessage /\ bindings[c].channel # x.channel THEN {bindings[c].msg} ELSE {})
  BY DEF Binds, UpsertMessageBinding
<1>2. Busy(l)
  BY <1>1 DEF Busy
<1>3. c \in Cards /\ x.job.subject = <<"card", c>>
  BY <1>0, <1>1, <1>2, CardJobs
<1>4. x.msg \in DOMAIN messages /\ messages[x.msg].subject = <<"card", c>>
  BY <1>1, <1>3 DEF Recording
<1>5. x.msg \in Nat
  BY <1>0, <1>4, MessageIndex
<1>6. InHand(x, c)
  BY <1>1, <1>2 DEF CardInHand
<1>7. x.channel \in {"c1", "c2"}
  BY <1>1, <1>6 DEF InHand
<1>8. [msg |-> x.msg, channel |-> x.channel] \in Bindings
  BY <1>5, <1>7 DEF Bindings
<1>9. /\ \A m \in DOMAIN messages : m # x.msg => (m \in unrecorded' <=> m \in unrecorded)
      /\ messages[x.msg].channel # x.channel => x.msg \in unrecorded'
  <2>1. CASE messages[x.msg].channel = x.channel
    BY <1>1, <2>1
  <2>2. CASE messages[x.msg].channel # x.channel
    BY <1>1, <2>2
  <2> QED
    BY <2>1, <2>2
<1> QED
  BY <1>1, <1>2, <1>3, <1>4, <1>5, <1>6, <1>8, <1>9

LEMMA BindingsStep ==
  ASSUME Context, QueueInv, Recording, BindingsOK, CardInHand, [Next]_vars
  PROVE  BindingsOK'
<1>1. CASE UNCHANGED bindings
  BY <1>1 DEF BindingsOK
<1>2. ASSUME NEW l \in Lanes, BindCard(l) PROVE BindingsOK'
  <2>1. CASE Binds(l)
    <3>1. PICK x, c : x = lanes[l] /\ c = x.job.key[2]
      OBVIOUS
    <3>2. PICK r : r = [msg |-> x.msg, channel |-> x.channel]
      OBVIOUS
    <3>3. bindings' = [bindings EXCEPT ![c] = r] /\ r \in Bindings
      BY <2>1, <3>1, <3>2, BindsFacts
    <3> QED
      BY <3>3 DEF BindingsOK
  <2> QED
    BY <1>1, <1>2, <2>1, BindCases
<1>3. CASE ResetDashboard
  BY <1>3 DEF ResetDashboard, BindingsOK
<1>4. CASE DeleteBinding
  BY <1>4 DEF DeleteBinding, Unbound, BindingsOK
<1> QED
  BY <1>1, <1>2, <1>3, <1>4, BindingMoves

\* The binding is of what shows the card, in the step that makes it.
LEMMA NewlyBound ==
  ASSUME Context, QueueInv, Recording, BindingsOK, CardInHand, CardsBound, NEW l \in Lanes, Binds(l),
         NEW d \in Cards, NEW m \in DOMAIN messages, NEW channel, Shows(m, d, channel), ~Lost(m)'
  PROVE  IsBound(d, m, channel)'
<1>1. PICK x, c, r : x = lanes[l] /\ c = x.job.key[2] /\ r = [msg |-> x.msg, channel |-> x.channel]
  OBVIOUS
<1>2. /\ c \in Cards /\ messages[x.msg].subject = <<"card", c>> /\ InHand(x, c) /\ x.phase = "record"
      /\ bindings' = [bindings EXCEPT ![c] = r] /\ r \in Bindings
      /\ m # x.msg => (m \in unrecorded' <=> m \in unrecorded)
      /\ m # x.msg /\ m \in forgotten => m \in forgotten'
      /\ messages[x.msg].channel # x.channel => x.msg \in unrecorded'
      /\ bindings[c] # NoMessage /\ bindings[c].channel # x.channel => bindings[c].msg \in forgotten'
  BY <1>1, BindsFacts
<1>3. m \notin unrecorded' /\ m \notin forgotten'
  BY DEF Lost
<1>4. messages[m].subject = <<"card", d>> /\ messages[m].channel = channel
  BY DEF Shows
<1>5. CASE m = x.msg
  <2>1. d = c /\ channel = x.channel
    BY <1>2, <1>3, <1>4, <1>5
  <2>2. bindings'[c] = r /\ r.msg = x.msg /\ r.channel = x.channel /\ r # NoMessage
    BY <1>1, <1>2, KeyAssumption DEF KeyAssumption, BindingsOK
  <2> QED
    BY <1>5, <2>1, <2>2 DEF IsBound
<1>6. CASE m # x.msg
  <2>1. ~Lost(m)
    BY <1>2, <1>3, <1>6 DEF Lost
  <2>2. IsBound(d, m, channel)
    BY <2>1 DEF CardsBound
  <2>3. CASE d = c
    <3>1. channel = x.channel
      BY <1>2, <1>3, <2>2, <2>3 DEF IsBound
    <3>2. Lost(m)
      BY <1>2, <1>6, <2>3, <3>1 DEF InHand
    <3> QED
      BY <2>1, <3>2
  <2>4. CASE d # c
    <3>1. bindings'[d] = bindings[d]
      BY <1>2, <2>4
    <3> QED
      BY <2>2, <3>1 DEF IsBound
  <2> QED
    BY <2>3, <2>4
<1> QED
  BY <1>5, <1>6

LEMMA CardsBoundStep ==
  ASSUME Context, RunsOK, JobsInv, Posted, Spaced, Recording, CardInv, [Next]_vars
  PROVE  CardsBound'
<1>0. /\ MessageType /\ clock \in Nat /\ QueueInv /\ BindingsOK /\ CardInHand /\ CardsBound /\ DeletionsOK
  BY DEF Context, JobsInv, CardInv
<1>1. Keeps
  BY <1>0, KeepsAlways
<1>2. SUFFICES ASSUME NEW c \in Cards, NEW m \in DOMAIN messages', NEW channel,
                      Shows(m, c, channel)', ~Lost(m)'
               PROVE  IsBound(c, m, channel)'
  BY DEF CardsBound
<1>3. /\ messages'[m].subject = <<"card", c>> /\ messages'[m].live /\ messages'[m].channel = channel
      /\ m \notin unrecorded'
  BY <1>2 DEF Shows, Lost
<1>4. m \in DOMAIN messages
  BY <1>0, <1>3, CardPosted
<1>5. Shows(m, c, channel) /\ messages[m].subject[1] = "card" /\ messages[m].live
  BY <1>1, <1>3, <1>4 DEF Keeps, Shows
<1>6. ASSUME NEW l \in Lanes, Binds(l) PROVE IsBound(c, m, channel)'
  BY <1>0, <1>2, <1>4, <1>5, <1>6, NewlyBound
<1>7. CASE ~(\E l \in Lanes : Binds(l))
  <2>1. ASSUME NEW l \in Lanes, BindCard(l)
        PROVE  UNCHANGED <<messages, bindings, unrecorded, forgotten>>
    BY <1>7, <2>1, BindCases
  <2>2. ~Lost(m)
    <3>1. SUFFICES ASSUME Lost(m) PROVE FALSE
      OBVIOUS
    <3>2. PICK l \in Lanes : BindsACard(l, m)
      BY <1>0, <1>2, <1>4, <1>5, <3>1, CardKnown
    <3>3. unrecorded' = unrecorded /\ forgotten' = forgotten
      BY <2>1, <3>2 DEF BindsACard
    <3> QED
      BY <1>2, <3>1, <3>3 DEF Lost
  <2>3. IsBound(c, m, channel)
    BY <1>0, <1>4, <1>5, <2>2 DEF CardsBound
  <2>4. UNCHANGED bindings \/ ResetDashboard \/ DeleteBinding
    BY <2>1, BindingMoves
  <2> QED
    BY <1>0, <1>2, <1>4, <1>5, <2>3, <2>4, StaysBound
<1> QED
  BY <1>6, <1>7

\* The lane that shows cards is where it was: what it knows still holds.
LEMMA InHandStays ==
  ASSUME Context, RunsOK, JobsInv, Posted, Spaced, Recording, CardInv, [Next]_vars,
         NEW l \in Lanes, Busy(l), lanes'[l] = lanes[l], lanes[l].job.kind = "card",
         NEW x, x = lanes[l], NEW c, c = x.job.key[2]
  PROVE  InHand(x, c)'
<1>0. /\ MessageType /\ clock \in Nat /\ QueueInv /\ Placed /\ LanesOK
      /\ BindingsOK /\ CardInHand /\ CardsBound /\ DeletionsOK
  BY DEF Context, JobsOK, JobsInv, QueueInv, CardInv
<1>1. Keeps
  BY <1>0, KeepsAlways
<1>2. InHand(x, c) /\ c \in Cards
  BY <1>0, CardJobs DEF CardInHand
<1>3. ASSUME NEW k \in Lanes, BindCard(k) PROVE FALSE
  <2>1. lanes[k].phase = "record" /\ lanes[k].job.kind = "card" /\ (Over(k) \/ Failed(k))
    BY <1>3 DEF BindCard
  <2>2. Busy(k)
    BY <2>1 DEF Busy
  <2>3. k = l
    BY <1>0, <2>1, <2>2, CardJobs
  <2>4. ~Busy(l)' \/ Retried(l)
    BY <1>0, <2>1, <2>3, FailedGoes
  <2>5. Busy(l)'
    BY DEF Busy
  <2> QED
    BY <2>1, <2>3, <2>4, <2>5 DEF Retried
<1>4. ASSUME x.phase = "edit"
      PROVE  bindings'[c] \in {NoMessage, [msg |-> x.msg, channel |-> x.channel]}
  <2>1. bindings[c] \in {NoMessage, [msg |-> x.msg, channel |-> x.channel]}
    BY <1>2, <1>4 DEF InHand
  <2>2. bindings'[c] = bindings[c] \/ bindings'[c] = NoMessage
    <3>1. CASE UNCHANGED bindings
      BY <3>1
    <3>2. CASE ResetDashboard
      BY <1>0, <1>2, <3>2 DEF ResetDashboard, BindingsOK
    <3>3. CASE DeleteBinding
      BY <1>0, <1>2, <3>3 DEF DeleteBinding, Unbound, BindingsOK
    <3> QED
      BY <1>3, <3>1, <3>2, <3>3, BindingMoves
  <2> QED
    BY <2>1, <2>2
<1>5. ASSUME NEW m \in DOMAIN messages', NEW channel, Shows(m, c, channel)', ~Lost(m)'
      PROVE  m \in DOMAIN messages /\ Shows(m, c, channel) /\ ~Lost(m)
  <2>1. /\ messages'[m].subject = <<"card", c>> /\ messages'[m].live /\ messages'[m].channel = channel
        /\ m \notin unrecorded'
    BY <1>5 DEF Shows, Lost
  <2>2. m \in DOMAIN messages
    BY <1>0, <2>1, CardPosted
  <2>3. Shows(m, c, channel) /\ messages[m].subject[1] = "card"
    BY <1>1, <2>1, <2>2 DEF Keeps, Shows
  <2>4. ASSUME Lost(m) PROVE FALSE
    BY <1>0, <1>3, <1>5, <2>2, <2>3, <2>4, CardKnown DEF BindsACard
  <2> QED
    BY <2>2, <2>3, <2>4
<1>6. ASSUME x.phase = "post", NEW m \in DOMAIN messages', Shows(m, c, x.channel)' PROVE Lost(m)'
  BY <1>2, <1>5, <1>6 DEF InHand
<1>7. ASSUME x.phase = "record", NEW m \in DOMAIN messages', Shows(m, c, x.channel)', m # x.msg
      PROVE  Lost(m)'
  BY <1>2, <1>5, <1>7 DEF InHand
<1>8. x.phase \in {"edit", "post", "record"} => x.channel \in {"c1", "c2"}
  BY <1>2 DEF InHand
<1> QED
  BY <1>4, <1>6, <1>7, <1>8 DEF InHand

\* The card is looked up: what is bound here is edited, else it is posted.
LEMMA UpdatedInHand ==
  ASSUME BindingsOK, ChannelsOK, CardsBound, NEW l \in Lanes, Updated(l),
         NEW c, c = lanes[l].job.key[2], c \in Cards, NEW x, x = lanes'[l]
  PROVE  InHand(x, c)'
<1>1. PICK channel, here : /\ channel = settings.channels[PurposeOf(c)]
                           /\ here = (bindings[c] # NoMessage /\ bindings[c].channel = channel)
  OBVIOUS
<1>2. /\ x.msg = Shown(c) /\ x.channel = channel /\ UNCHANGED <<messages, bindings, unrecorded, forgotten>>
      /\ Bound(PurposeOf(c))
      /\ here => x.phase = "edit"
      /\ ~here => x.phase = "post"
  BY <1>1 DEF Updated, discordVars
<1>3. channel \in {"c1", "c2"}
  BY <1>1, <1>2 DEF ChannelsOK, Bound
<1>4. ASSUME x.phase = "edit" PROVE bindings'[c] = [msg |-> x.msg, channel |-> x.channel]
  <2>1. bindings[c] # NoMessage /\ bindings[c].channel = channel
    BY <1>1, <1>2, <1>4
  <2>2. bindings[c] \in Bindings /\ Shown(c) = bindings[c].msg
    BY <2>1 DEF BindingsOK, Shown
  <2> QED
    BY <1>2, <2>1, <2>2 DEF Bindings
<1>5. ASSUME x.phase = "post", NEW m \in DOMAIN messages, Shows(m, c, x.channel) PROVE Lost(m)
  <2>1. ~(bindings[c] # NoMessage /\ bindings[c].channel = channel)
    BY <1>1, <1>2, <1>5
  <2>2. ~IsBound(c, m, channel)
    BY <2>1 DEF IsBound
  <2> QED
    BY <1>2, <1>5, <2>2 DEF CardsBound
<1>6. ASSUME x.phase = "post", NEW m \in DOMAIN messages', Shows(m, c, x.channel)' PROVE Lost(m)'
  <2>1. Shows(m, c, x.channel) /\ m \in DOMAIN messages
    BY <1>2, <1>6 DEF Shows
  <2>2. Lost(m)
    BY <1>5, <1>6, <2>1
  <2> QED
    BY <1>2, <2>2 DEF Lost
<1>7. x.phase # "record"
  BY <1>2
<1> QED
  BY <1>2, <1>3, <1>4, <1>6, <1>7 DEF InHand

\* What was bound is not there to be edited: the card is posted anew.
LEMMA EditedInHand ==
  ASSUME MessageType, CardsBound, NEW l \in Lanes, Edited(l),
         NEW c, c = lanes[l].job.key[2], c \in Cards, InHand(lanes[l], c), NEW x, x = lanes'[l]
  PROVE  InHand(x, c)'
<1>1. PICK y : y = lanes[l]
  OBVIOUS
<1>2. /\ x.phase = "post" /\ x.channel = y.channel /\ y.phase = "edit"
      /\ ~(Live(y.msg) /\ messages[y.msg].channel = y.channel)
      /\ UNCHANGED <<messages, bindings, unrecorded, forgotten>>
  BY <1>1 DEF Edited, discordVars
<1>3. /\ y.channel \in {"c1", "c2"}
      /\ bindings[c] \in {NoMessage, [msg |-> y.msg, channel |-> y.channel]}
  BY <1>1, <1>2 DEF InHand
<1>4. ASSUME NEW m \in DOMAIN messages, Shows(m, c, y.channel) PROVE Lost(m)
  <2>1. SUFFICES ASSUME IsBound(c, m, y.channel) PROVE FALSE
    BY <1>4 DEF CardsBound
  <2>2. bindings[c] = [msg |-> y.msg, channel |-> y.channel]
    BY <1>3, <2>1 DEF IsBound
  <2>3. m = y.msg
    BY <2>1, <2>2 DEF IsBound
  <2>4. m # NoMessage
    BY MessageIndex, KeyAssumption DEF KeyAssumption
  <2> QED
    BY <1>2, <1>4, <2>3, <2>4 DEF Shows, Live
<1>5. ASSUME NEW m \in DOMAIN messages', Shows(m, c, x.channel)' PROVE Lost(m)'
  <2>1. Shows(m, c, y.channel) /\ m \in DOMAIN messages
    BY <1>2, <1>5 DEF Shows
  <2>2. Lost(m)
    BY <1>4, <2>1
  <2> QED
    BY <1>2, <2>2 DEF Lost
<1> QED
  BY <1>2, <1>3, <1>5 DEF InHand

\* The post was answered: all that shows the card besides, the bot has lost.
LEMMA AnsweredInHand ==
  ASSUME Context, RunsOK, QueueInv, [Next]_vars, NEW l \in Lanes, Answered(l),
         NEW c, c \in Cards, InHand(lanes[l], c), NEW x, x = lanes'[l]
  PROVE  InHand(x, c)'
<1>1. PICK y : y = lanes[l]
  OBVIOUS
<1>2. PICK n : PostKept(l, n) /\ x.msg = n
  BY DEF Answered
<1>3. /\ y.phase = "post" /\ x.phase = "record" /\ x.channel = y.channel
      /\ unrecorded' = unrecorded \cup {n} /\ forgotten' = forgotten /\ Keeps
  BY <1>1, <1>2 DEF Answered, PostKept, Delivers, Arrives
<1>4. /\ x.channel \in {"c1", "c2"}
      /\ \A m \in DOMAIN messages : Shows(m, c, y.channel) => Lost(m)
  BY <1>1, <1>3 DEF InHand
<1>5. ASSUME NEW m \in DOMAIN messages', Shows(m, c, x.channel)' PROVE Lost(m)'
  <2>1. /\ messages'[m].subject = <<"card", c>> /\ messages'[m].live
        /\ messages'[m].channel = y.channel
    BY <1>3, <1>5 DEF Shows
  <2>2. CASE m \in DOMAIN messages
    <3>1. Shows(m, c, y.channel)
      BY <1>3, <2>1, <2>2 DEF Keeps, Shows
    <3>2. Lost(m)
      BY <1>4, <2>2, <3>1
    <3> QED
      BY <1>3, <3>2 DEF Lost
  <2>3. CASE m \notin DOMAIN messages
    <3>1. m \in unrecorded'
      BY <2>1, <2>3, CardPosted
    <3> QED
      BY <3>1 DEF Lost
  <2> QED
    BY <2>2, <2>3
<1> QED
  BY <1>3, <1>4, <1>5 DEF InHand

LEMMA CardInHandStep ==
  ASSUME Context, RunsOK, JobsInv, Posted, Spaced, Recording, CardInv, [Next]_vars
  PROVE  CardInHand'
<1>0. /\ MessageType /\ QueueInv /\ Placed /\ LanesOK /\ QueueOK
      /\ BindingsOK /\ ChannelsOK /\ CardInHand /\ CardsBound
  BY DEF Context, JobsOK, JobsInv, QueueInv, CardInv
<1>1. SUFFICES ASSUME NEW l \in Lanes, Busy(l)', lanes'[l].job.kind = "card",
                      NEW x, x = lanes'[l], NEW c, c = x.job.key[2]
               PROVE  InHand(x, c)'
  BY DEF CardInHand, InHand
<1>2. ASSUME x.phase = "run" PROVE InHand(x, c)'
  BY <1>2 DEF InHand
<1>3. CASE Busy(l) /\ lanes'[l] = lanes[l]
  BY <1>1, <1>3, InHandStays
<1>4. CASE Taken(l)
  BY <1>1, <1>2, <1>4 DEF Taken
<1>5. CASE GoesOn(l) /\ Lane(l)
  <2>1. Busy(l) /\ lanes[l].job = x.job /\ lanes[l].job.kind = "card" /\ c = lanes[l].job.key[2]
    BY <1>1, <1>5 DEF GoesOn
  <2>2. c \in Cards /\ InHand(lanes[l], c)
    BY <1>0, <2>1, CardJobs DEF CardInHand
  <2>3. CASE Retried(l)
    BY <1>1, <1>2, <2>3 DEF Retried
  <2>4. CASE Sent(l)
    BY <2>1, <2>4 DEF Sent
  <2>5. CASE Updated(l)
    BY <1>0, <1>1, <2>1, <2>2, <2>5, UpdatedInHand
  <2>6. CASE Edited(l)
    BY <1>0, <1>1, <2>1, <2>2, <2>6, EditedInHand
  <2>7. CASE Answered(l)
    BY <1>0, <1>1, <2>1, <2>2, <2>7, AnsweredInHand
  <2> QED
    BY <1>5, <2>3, <2>4, <2>5, <2>6, <2>7 DEF GoesOn
<1> QED
  BY <1>0, <1>1, <1>3, <1>4, <1>5, BusyMoves

LEMMA InitCards == Init => CardInv
<1> SUFFICES ASSUME Init PROVE CardInv
  OBVIOUS
<1>1. messages = <<>> /\ lanes = [l \in Lanes |-> Polling] /\ bindings = [c \in Cards |-> NoMessage]
  BY DEF Init, DiscordInit, OutboundInit
<1>2. DOMAIN messages = {}
  BY <1>1
<1>3. \A l \in Lanes : ~Busy(l)
  BY <1>1, PollingLane DEF Busy
<1>4. BindingsOK
  BY <1>1 DEF BindingsOK
<1>5. ChannelsOK
  <2>1. PICK bound : settings = [paused |-> FALSE, muted |-> {}, enabled |-> TRUE, destination |-> FALSE,
                                 channels |-> [p \in bound |-> "c1"]]
    BY DEF Init, OutboundInit
  <2> QED
    BY <2>1 DEF ChannelsOK
<1>6. CardsBound /\ CardInHand
  BY <1>2, <1>3 DEF CardsBound, CardInHand
<1>7. DeletionsOK
  <2>1. sessions = <<>> /\ handler = Idle
    BY DEF Init, ModerationInit
  <2>2. DOMAIN sessions = {} /\ handler.phase = "idle"
    BY <2>1, IdleFacts
  <2> QED
    BY <2>2 DEF DeletionsOK
<1> QED
  BY <1>4, <1>5, <1>6, <1>7 DEF CardInv

LEMMA CardsStep ==
  ASSUME IInv, JobsInv, AlertsInv, CardInv, [Next]_vars
  PROVE  CardInv'
<1>1. /\ Context /\ RunsOK /\ QueueInv /\ Posted /\ Spaced /\ Recording
      /\ BindingsOK /\ ChannelsOK /\ CardInHand /\ DeletionsOK
  BY DEF IInv, TypeOK, Context, AlertsInv, JobsInv, CardInv
<1>2. BindingsOK' /\ ChannelsOK'
  BY <1>1, BindingsStep, ChannelsStep
<1>3. CardsBound'
  BY <1>1, CardsBoundStep
<1>4. CardInHand'
  BY <1>1, CardInHandStep
<1>5. DeletionsOK'
  BY <1>1, DeletionsStep
<1> QED
  BY <1>2, <1>3, <1>4, <1>5 DEF CardInv

(***************************************************************************)
(* The only message of a card, in its channel, that the bot has not lost   *)
(* is the one it bound; where a lane is about to post the card there is    *)
(* none, and what it is about to edit is bound (updateDashboard,           *)
(* UpsertMessageBinding, DeleteMessageBindingByTarget).                    *)
(***************************************************************************)
THEOREM CardsInvariance == Spec => []CardInv
<1>1. IInv /\ JobsInv /\ AlertsInv /\ CardInv /\ [Next]_vars => CardInv'
  BY CardsStep
<1> QED
  BY <1>1, InitCards, Invariance, JobsInvariance, AlertsInvariance, PTL DEF Spec

\* Two messages of a card that the bot knows of would both be the bound one.
LEMMA CardsPostedOnce ==
  ASSUME MessageType, Posted, CardsBound,
         NEW m1 \in DOMAIN messages, NEW m2 \in DOMAIN messages,
         m1 < m2, messages[m1].live, messages[m2].live,
         messages[m1].subject = messages[m2].subject, messages[m1].channel = messages[m2].channel,
         messages[m1].subject[1] = "card"
  PROVE  {m1, m2} \cap (unrecorded \cup forgotten) # {}
<1>1. PICK c : c \in Cards /\ messages[m1].subject = <<"card", c>>
  BY DEF Posted
<1>2. Shows(m1, c, messages[m1].channel) /\ Shows(m2, c, messages[m1].channel)
  BY <1>1 DEF Shows
<1>3. ASSUME ~Lost(m1), ~Lost(m2) PROVE FALSE
  <2>1. IsBound(c, m1, messages[m1].channel) /\ IsBound(c, m2, messages[m1].channel)
    BY <1>1, <1>2, <1>3 DEF CardsBound
  <2>2. m1 = m2
    BY <2>1 DEF IsBound
  <2>3. m1 \in Nat
    BY MessageIndex
  <2> QED
    BY <2>2, <2>3
<1> QED
  BY <1>3 DEF Lost

\* Two messages of anything else: the first is superseded, and a nonce apart.
LEMMA OthersPostedOnce ==
  ASSUME MessageType, Posted, Spaced, Superseded,
         NEW m1 \in DOMAIN messages, NEW m2 \in DOMAIN messages,
         m1 < m2, messages[m1].subject = messages[m2].subject, messages[m1].subject[1] # "card"
  PROVE  m1 \in unrecorded /\ messages[m2].posted - messages[m1].posted >= NonceWindow
<1>1. messages[m1].nonce = messages[m2].nonce
  BY DEF Posted
<1> QED
  BY <1>1 DEF Spaced, Superseded

(***************************************************************************)
(* Nothing is shown twice in a channel unless the bot could not know or    *)
(* record the first message, and then not before Discord forgets its       *)
(* nonce; of two messages of one card the bot has lost one, for any        *)
(* schedules, cards, configurations and limits, whatever fails or crashes  *)
(* (postWithNonce, updateDashboard, sendScheduledReport, sendAlert).       *)
(***************************************************************************)
THEOREM NothingIsPostedTwice == Spec => []PostedOnce
<1>1. IInv /\ AlertsInv /\ RecordsInv /\ CardInv => PostedOnce
  <2> SUFFICES ASSUME IInv, AlertsInv, RecordsInv, CardInv PROVE PostedOnce
    OBVIOUS
  <2>1. MessageType /\ Posted /\ Spaced /\ Superseded /\ CardsBound
    BY DEF IInv, TypeOK, AlertsInv, RecordsInv, CardInv
  <2> QED
    BY <2>1, CardsPostedOnce, OthersPostedOnce DEF PostedOnce
<1> QED
  BY <1>1, Invariance, AlertsInvariance, RecordsInvariance, CardsInvariance, PTL
=============================================================================
