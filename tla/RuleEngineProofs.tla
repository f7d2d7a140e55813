-------------------------- MODULE RuleEngineProofs --------------------------
(***************************************************************************)
(* Proofs about RuleEngine, for any rules, scopes, aircraft, evaluators,   *)
(* workers and bounds.                                                     *)
(*                                                                         *)
(* None of the properties is inductive but StaleRuleStateCleared.  What a  *)
(* reload has read may be out of date while it is installed: LoadedOK.  A  *)
(* cooldown is kept because the record a rule fired with still carries the *)
(* time: AlertedOK.  And the rows agree with memory when nothing is on its *)
(* way because, at any time, the last update on its way to the row of a    *)
(* record says what the record says, unless the writer refused it:         *)
(* Current.  For that, no two goroutines may hold updates of the record    *)
(* (OneHolder), one of the queued updates of a record must be the last     *)
(* (BatchOK), and a rule that has just been added must not have a record   *)
(* yet (NewOK).                                                            *)
(***************************************************************************)
EXTENDS RuleEngine, TLAPS

Keys == (Rules \cup {Emergency}) \X Aircraft
Updates == Keys \X AlertStates

\* The updates a goroutine has not handed to the writer.
Held(t) == IF job[t] = Idle THEN {} ELSE job[t].updates
Holds(t, k) == \E u \in Held(t) : u[1] = k
Queued(n, k) == queue[n][1] = k

\* A batch of updates says one thing of each record.
Single(updates) == \A u, v \in updates : u[1] = v[1] => u = v

JobOK(j) ==
  \/ j = Idle
  \/ /\ j.stage = "save"
     /\ j.updates \subseteq Updates /\ Single(j.updates)
  \/ /\ j.stage = "scope"
     /\ j.index \subseteq Rules /\ j.now \in Nat /\ j.scope \in Scopes
     /\ j.updates \subseteq Updates /\ Single(j.updates)
     /\ \A u \in j.updates : u[1][1] = Emergency

TypeOK ==
  /\ clock \in Nat
  /\ stored \in [Rules -> Statuses]
  /\ token \in BOOLEAN /\ missed \in BOOLEAN /\ disabled \in BOOLEAN
  /\ reload \in [stage : {"idle", "read", "prune"}, loaded : SUBSET Rules,
                 left : SUBSET Scopes]
  /\ index \subseteq Rules
  /\ states \in [Rules \X Aircraft -> Records \cup {NoRecord}]
  /\ emergencies \in [Aircraft -> Records \cup {NoRecord}]
  /\ DOMAIN job = Goroutines /\ \A t \in Goroutines : JobOK(job[t])
  /\ queue \in Seq(Updates)
  /\ rows \in [Keys -> AlertStates \cup {NoRecord}]
  /\ alerted \in [Rules \X Aircraft -> Nat]
  /\ announced \subseteq Aircraft

\* Of the updates of a record that are queued, one is last.
BatchOK ==
  \A k \in Keys : \A n \in DOMAIN queue : Queued(n, k) =>
    \E m \in DOMAIN queue :
      Queued(m, k) /\ \A i \in DOMAIN queue : Queued(i, k) => i <= m

\* What the reload loop has read is what is stored, or it is asked again.
LoadedOK == reload.stage = "read" => ~missed /\ (reload.loaded = Enabled \/ token)

\* The record a rule has fired with carries the time.
AlertedOK ==
  \A k \in Rules \X Aircraft :
    alerted[k] # 0 => states[k] # NoRecord /\ states[k].fired = alerted[k]

\* A rule that is still to be added is in no index and has no record.
NewOK ==
  \A r \in Rules : stored[r] = "new" =>
    /\ r \notin index /\ r \notin reload.loaded
    /\ \A t \in Goroutines : job[t] # Idle /\ job[t].stage = "scope" => r \notin job[t].index
    /\ \A a \in Aircraft : states[<<r, a>>] = NoRecord

\* Only one goroutine holds updates of a record that was not raced for.
OneHolder ==
  \A k \in Keys \ raced : \A t, o \in Goroutines : Holds(t, k) /\ Holds(o, k) => t = o

\* The last update of a record on its way to its row, or the row, unless the
\* writer refused that update.
InJob(k, v) == \E t \in Goroutines : <<k, v>> \in Held(t)
NoJob(k) == \A t \in Goroutines : ~Holds(t, k)
InQueue(k, v) ==
  \E n \in DOMAIN queue : /\ queue[n] = <<k, v>>
                          /\ \A i \in DOMAIN queue : Queued(i, k) => i <= n
NoQueue(k) == \A n \in DOMAIN queue : ~Queued(n, k)
InRows(k, v) == IF rows[k] = NoRecord THEN ~v.active ELSE rows[k] = v
Last(k, v) ==
  \/ InJob(k, v)
  \/ NoJob(k) /\ InQueue(k, v)
  \/ NoJob(k) /\ NoQueue(k) /\ InRows(k, v)
  \/ NoJob(k) /\ k \in dropped

\* The record of k stands and has a row to be written to.
Tracked(k) ==
  /\ Live(k) # NoRecord
  /\ k[1] = Emergency \/ stored[k[1]] \in {"enabled", "disabled"}
Current ==
  ~disabled => \A k \in Keys \ raced : Tracked(k) => Last(k, AlertState(Live(k)))

Persisted == BatchOK /\ NewOK /\ OneHolder /\ Current
IInv ==
  /\ TypeOK /\ ReloadNotLost /\ LoadedOK /\ EmergencyAnnouncedOnce /\ AlertedOK
  /\ StaleRuleStateCleared /\ Persisted

-----------------------------------------------------------------------------
(* Records.                                                                *)

\* What an evaluation at the time now may make of a record of rule r.
Follows(old, new, r, now) ==
  /\ new \in Records \cup {NoRecord}
  /\ old # NoRecord => new # NoRecord
  /\ old # NoRecord /\ new.fired # old.fired =>
       new.active /\ new.fired = now /\ AlertState(new) # AlertState(old)
  /\ old # NoRecord /\ new.active /\ new.fired = now /\ AlertState(new) # AlertState(old) =>
       old.fired = 0 \/ now - old.fired >= Cooldown[r]

LEMMA RecordFields ==
  ASSUME NEW rec \in Records
  PROVE  /\ rec # NoRecord
         /\ rec.active \in BOOLEAN /\ rec.count \in Nat /\ rec.fired \in Nat
         /\ rec.cleared \in Nat /\ rec.at \in Nat
         /\ AlertState(rec) \in AlertStates
         /\ AlertState(rec).active = rec.active /\ AlertState(rec).count = rec.count
         /\ AlertState(rec).fired = rec.fired /\ AlertState(rec).cleared = rec.cleared
<1>1. rec # NoRecord
  BY NoRecordAssumption DEF NoRecordAssumption
<1>2. /\ rec.active \in BOOLEAN /\ rec.count \in Nat /\ rec.fired \in Nat
      /\ rec.cleared \in Nat /\ rec.at \in Nat
  BY DEF Records
<1>3. AlertState(rec) \in AlertStates
  BY <1>2 DEF AlertState, AlertStates
<1> QED
  BY <1>1, <1>2, <1>3 DEF AlertState

LEMMA RecordEq ==
  ASSUME NEW rec \in Records
  PROVE  rec = [active |-> rec.active, count |-> rec.count, fired |-> rec.fired,
                cleared |-> rec.cleared, at |-> rec.at]
  BY DEF Records

\* The forms of a record the evaluation makes.
LEMMA MadeRecord ==
  ASSUME NEW active \in BOOLEAN, NEW count \in Nat, NEW fired \in Nat, NEW cleared \in Nat,
         NEW at \in Nat
  PROVE  [active |-> active, count |-> count, fired |-> fired, cleared |-> cleared,
          at |-> at] \in Records
  BY DEF Records

LEMMA UnchangedFollows ==
  ASSUME NEW old \in Records \cup {NoRecord}, NEW r, NEW now
  PROVE  Follows(old, old, r, now)
  BY DEF Follows

\* A record whose alert has not fired in between.
LEMMA QuietFollows ==
  ASSUME NEW old \in Records, NEW new \in Records, NEW r, NEW now,
         new.fired = old.fired, new.active => AlertState(new) = AlertState(old)
  PROVE  Follows(old, new, r, now)
<1>1. new # NoRecord
  BY RecordFields
<1> QED
  BY <1>1 DEF Follows

LEMMA UnmatchedFollows ==
  ASSUME NEW old \in Records \cup {NoRecord}, NEW r, NEW now \in Nat
  PROVE  Follows(old, Unmatched(old, now), r, now)
<1>1. CASE old = NoRecord
  BY <1>1, UnchangedFollows DEF Unmatched
<1>2. CASE old # NoRecord
  <2>1. old \in Records
    BY <1>2
  <2>2. CASE old.active \/ old.count # 0
    <3> DEFINE new == [active |-> FALSE, count |-> 0, fired |-> old.fired, cleared |-> now,
                       at |-> now]
    <3>1. Unmatched(old, now) = new
      <4>1. Unmatched(old, now) = [old EXCEPT !.at = now, !.active = FALSE, !.count = 0, !.cleared = now]
        BY <1>2, <2>2 DEF Unmatched
      <4> QED
        BY <2>1, <4>1 DEF Records
    <3>2. new \in Records
      BY <2>1, RecordFields, MadeRecord
    <3>3. new.fired = old.fired /\ ~new.active
      OBVIOUS
    <3> HIDE DEF new
    <3> QED
      BY <2>1, <3>1, <3>2, <3>3, QuietFollows
  <2>3. CASE ~(old.active \/ old.count # 0)
    <3> DEFINE new == [active |-> old.active, count |-> old.count, fired |-> old.fired,
                       cleared |-> old.cleared, at |-> now]
    <3>1. Unmatched(old, now) = new
      <4>1. Unmatched(old, now) = [old EXCEPT !.at = now]
        BY <1>2, <2>3 DEF Unmatched
      <4> QED
        BY <2>1, <4>1 DEF Records
    <3>2. new \in Records
      BY <2>1, RecordFields, MadeRecord
    <3>3. new.fired = old.fired /\ AlertState(new) = AlertState(old)
      BY DEF AlertState
    <3> HIDE DEF new
    <3> QED
      BY <2>1, <3>1, <3>2, <3>3, QuietFollows
  <2> QED
    BY <2>2, <2>3
<1> QED
  BY <1>1, <1>2

LEMMA FreshRecord == Fresh \in Records /\ ~Fresh.active /\ Fresh.fired = 0
<1>1. Fresh \in Records
  BY MadeRecord DEF Fresh
<1> QED
  BY <1>1 DEF Fresh

LEMMA CountedRecord ==
  ASSUME NEW rec \in Records, NEW c \in Nat, NEW now \in Nat
  PROVE  [rec EXCEPT !.at = now, !.count = c] =
           [active |-> rec.active, count |-> c, fired |-> rec.fired, cleared |-> rec.cleared,
            at |-> now]
<1>1. PICK x : x = [rec EXCEPT !.at = now]
  OBVIOUS
<1>2. x = [active |-> rec.active, count |-> rec.count, fired |-> rec.fired,
           cleared |-> rec.cleared, at |-> now]
  BY <1>1 DEF Records
<1>3. [rec EXCEPT !.at = now, !.count = c] = [x EXCEPT !.count = c]
  BY <1>1
<1> QED
  BY <1>2, <1>3

LEMMA FiredRecord ==
  ASSUME NEW rec \in Records, NEW b \in BOOLEAN, NEW now \in Nat
  PROVE  [rec EXCEPT !.active = b, !.fired = now] =
           [active |-> b, count |-> rec.count, fired |-> now, cleared |-> rec.cleared,
            at |-> rec.at]
<1>1. PICK x : x = [rec EXCEPT !.active = b]
  OBVIOUS
<1>2. x = [active |-> b, count |-> rec.count, fired |-> rec.fired,
           cleared |-> rec.cleared, at |-> rec.at]
  BY <1>1 DEF Records
<1>3. [rec EXCEPT !.active = b, !.fired = now] = [x EXCEPT !.fired = now]
  BY <1>1
<1> QED
  BY <1>2, <1>3

\* A match counts, and fires when the cooldown has passed.
LEMMA MatchedFollows ==
  ASSUME NEW old \in Records \cup {NoRecord}, NEW r \in Rules, NEW now \in Nat
  PROVE  Follows(old, Matched(old, r, now), r, now) /\ Matched(old, r, now) # NoRecord
<1> DEFINE known == IF old = NoRecord THEN Fresh ELSE old
           c == IF ~known.active /\ known.count < MinimumOf(r) THEN known.count + 1
                ELSE known.count
           counted == [active |-> known.active, count |-> c, fired |-> known.fired,
                       cleared |-> known.cleared, at |-> now]
           fired == [active |-> TRUE, count |-> c, fired |-> now, cleared |-> known.cleared,
                     at |-> now]
<1>1. known \in Records
  BY FreshRecord
<1>2. /\ known.active \in BOOLEAN /\ known.count \in Nat /\ known.fired \in Nat
      /\ known.cleared \in Nat
  <2> HIDE DEF known
  <2> QED
    BY <1>1, RecordFields
<1>3. c \in Nat
  <2> HIDE DEF known
  <2> QED
    BY <1>2
<1>4. [known EXCEPT !.at = now, !.count = c] = counted
  <2> HIDE DEF known, c
  <2> QED
    BY <1>1, <1>3, CountedRecord
<1>5. counted \in Records /\ fired \in Records
  <2> HIDE DEF known, c
  <2> QED
    BY <1>2, <1>3, MadeRecord
<1>6. [counted EXCEPT !.active = TRUE, !.fired = now] = fired
  <2>1. /\ counted.count = c /\ counted.cleared = known.cleared /\ counted.at = now
    OBVIOUS
  <2>2. [counted EXCEPT !.active = TRUE, !.fired = now] =
          [active |-> TRUE, count |-> counted.count, fired |-> now,
           cleared |-> counted.cleared, at |-> counted.at]
    <3> HIDE DEF known, c, counted
    <3> QED
      BY <1>5, FiredRecord
  <2> HIDE DEF known, c
  <2> QED
    BY <2>1, <2>2
<1>7. Matched(old, r, now) = IF CanFire(counted, r, now) THEN fired ELSE counted
  <2>1. Matched(old, r, now) =
          IF CanFire([known EXCEPT !.at = now, !.count = c], r, now)
          THEN [[known EXCEPT !.at = now, !.count = c] EXCEPT !.active = TRUE, !.fired = now]
          ELSE [known EXCEPT !.at = now, !.count = c]
    BY DEF Matched
  <2> HIDE DEF known, c, counted, fired
  <2> QED
    BY <2>1, <1>4, <1>6
<1>8. CASE old = NoRecord
  <2>1. Matched(old, r, now) \in Records
    <3> HIDE DEF known, c, counted, fired
    <3> QED
      BY <1>5, <1>7
  <2> HIDE DEF known, c, counted, fired
  <2> QED
    BY <2>1, <1>8, RecordFields DEF Follows
<1>9. CASE old # NoRecord /\ CanFire(counted, r, now)
  <2>1. Matched(old, r, now) = fired
    BY <1>7, <1>9
  <2>2. old \in Records /\ known = old
    BY <1>9
  <2>3. fired.active = TRUE /\ fired.fired = now
    OBVIOUS
  <2>4. counted.active = old.active /\ counted.fired = old.fired
    BY <2>2
  <2>5. ~old.active /\ (old.fired = 0 \/ now - old.fired >= Cooldown[r])
    <3> HIDE DEF known, c, counted, fired
    <3> QED
      BY <1>9, <2>4 DEF CanFire
  <2>6. AlertState(fired) # AlertState(old)
    <3>1. AlertState(fired).active = TRUE /\ AlertState(old).active = old.active
      BY <2>3 DEF AlertState
    <3> QED
      BY <3>1, <2>5
  <2> HIDE DEF known, c, counted, fired
  <2> QED
    BY <1>5, <2>1, <2>3, <2>5, <2>6, RecordFields DEF Follows
<1>10. CASE old # NoRecord /\ ~CanFire(counted, r, now)
  <2>1. Matched(old, r, now) = counted
    BY <1>7, <1>10
  <2>2. old \in Records /\ known = old
    BY <1>10
  <2>3. counted.fired = old.fired /\ counted.active = old.active
    BY <2>2
  <2>4. old.active => c = old.count
    BY <2>2
  <2>5. old.active => AlertState(counted) = AlertState(old)
    <3> HIDE DEF c
    <3> QED
      BY <2>2, <2>4 DEF AlertState
  <2> HIDE DEF known, c, counted, fired
  <2> QED
    BY <1>5, <2>1, <2>2, <2>3, <2>5, QuietFollows, RecordFields
<1> QED
  BY <1>8, <1>9, <1>10

\* The closing loop only ends what is active.
LEMMA AbsentFollows ==
  ASSUME TypeOK, NEW k \in Rules \X Aircraft, NEW snap, NEW now \in Nat
  PROVE  /\ Follows(states[k], Absent(k, snap, now), k[1], now)
         /\ states[k] = NoRecord => Absent(k, snap, now) = NoRecord
         /\ Kind[k[1]] # "besteffort" /\ Absent(k, snap, now) # NoRecord =>
              ~Absent(k, snap, now).active
<1>1. PICK old \in Records \cup {NoRecord} : old = states[k]
  BY DEF TypeOK
<1>2. CASE old = NoRecord \/ ~old.active \/ (Kind[k[1]] = "besteffort" /\ snap[k[2]] # NotSeen)
  <2>1. Absent(k, snap, now) = old
    BY <1>1, <1>2 DEF Absent
  <2> QED
    BY <1>1, <1>2, <2>1, UnchangedFollows
<1>3. CASE ~(old = NoRecord \/ ~old.active \/ (Kind[k[1]] = "besteffort" /\ snap[k[2]] # NotSeen))
  <2> DEFINE new == [active |-> FALSE, count |-> 0, fired |-> old.fired, cleared |-> now,
                     at |-> old.at]
  <2>1. old \in Records
    BY <1>3
  <2>2. Absent(k, snap, now) = new
    <3>1. Absent(k, snap, now) = [old EXCEPT !.active = FALSE, !.count = 0, !.cleared = now]
      BY <1>1, <1>3 DEF Absent
    <3> QED
      BY <2>1, <3>1 DEF Records
  <2>3. new \in Records
    BY <2>1, RecordFields, MadeRecord
  <2>4. new.fired = old.fired /\ ~new.active
    OBVIOUS
  <2> HIDE DEF new
  <2> QED
    BY <1>1, <1>3, <2>1, <2>2, <2>3, <2>4, QuietFollows
<1> QED
  BY <1>2, <1>3

\* The records recs that an evaluation of scope s with the index idx may leave.
AllFollow(recs, idx, s, now) ==
  /\ recs \in [Rules \X Aircraft -> Records \cup {NoRecord}]
  /\ \A k \in Rules \X Aircraft :
       /\ Follows(states[k], recs[k], k[1], now)
       /\ k[1] \notin idx /\ states[k] = NoRecord => recs[k] = NoRecord
       /\ ScopeOf[k[1]] # s => recs[k] = states[k]

\* It ends those of the rules that are not in the index.
Ended(recs, idx, s) ==
  \A k \in Rules \X Aircraft :
    k[1] \notin idx /\ ScopeOf[k[1]] = s /\ Kind[k[1]] # "besteffort" /\ recs[k] # NoRecord
      => ~recs[k].active

\* The records after the loops of Evaluate.
LEMMA EvaluatedFollows ==
  ASSUME TypeOK, NEW idx, NEW s, NEW snap, NEW now \in Nat,
         NEW recs, recs = EvaluatedStates(idx, s, snap, now)
  PROVE  AllFollow(recs, idx, s, now) /\ Ended(recs, idx, s)
<1>1. \A k \in Rules \X Aircraft : states[k] \in Records \cup {NoRecord} /\ k[1] \in Rules
  BY DEF TypeOK
<1>2. ASSUME NEW k \in Rules \X Aircraft
      PROVE  recs[k] = IF ScopeOf[k[1]] # s THEN states[k]
                       ELSE IF k \notin Touched(idx, s, snap) THEN Absent(k, snap, now)
                       ELSE IF Matches(k, snap[k[2]], seen[s][k[2]], now)
                       THEN Matched(states[k], k[1], now)
                       ELSE Unmatched(states[k], now)
  BY DEF EvaluatedStates
<1>3. ASSUME NEW k \in Rules \X Aircraft
      PROVE  /\ Follows(states[k], recs[k], k[1], now)
             /\ k[1] \notin idx /\ states[k] = NoRecord => recs[k] = NoRecord
             /\ ScopeOf[k[1]] # s => recs[k] = states[k]
             /\ k[1] \notin idx /\ ScopeOf[k[1]] = s /\ Kind[k[1]] # "besteffort"
                  /\ recs[k] # NoRecord => ~recs[k].active
  <2>1. CASE ScopeOf[k[1]] # s
    BY <1>1, <1>2, <2>1, UnchangedFollows
  <2>2. CASE ScopeOf[k[1]] = s /\ k \notin Touched(idx, s, snap)
    <3>1. recs[k] = Absent(k, snap, now)
      BY <1>2, <2>2
    <3> QED
      BY <2>2, <3>1, AbsentFollows
  <2>3. CASE ScopeOf[k[1]] = s /\ k \in Touched(idx, s, snap)
    <3>1. k[1] \in idx
      BY <2>3 DEF Touched
    <3>2. \/ recs[k] = Matched(states[k], k[1], now)
          \/ recs[k] = Unmatched(states[k], now)
      BY <1>2, <2>3
    <3>3. Follows(states[k], recs[k], k[1], now)
      BY <1>1, <3>2, MatchedFollows, UnmatchedFollows
    <3> QED
      BY <2>3, <3>1, <3>3
  <2> QED
    BY <2>1, <2>2, <2>3
<1>4. \A k \in Rules \X Aircraft : recs[k] \in Records \cup {NoRecord}
  BY <1>3 DEF Follows
<1>5. recs = [k \in Rules \X Aircraft |-> recs[k]]
  BY DEF EvaluatedStates
<1>6. recs \in [Rules \X Aircraft -> Records \cup {NoRecord}]
  BY <1>4, <1>5
<1>7. AllFollow(recs, idx, s, now)
  BY <1>3, <1>6 DEF AllFollow
<1>8. Ended(recs, idx, s)
  BY <1>3 DEF Ended
<1> QED
  BY <1>7, <1>8

\* The records after EvaluateEnrichment.
EnrichedStates(j) ==
  [k \in Rules \X Aircraft |->
     IF ~(k[1] \in j.index /\ ScopeOf[k[1]] = j.scope
            /\ Kind[k[1]] = "besteffort" /\ k[2] = j.aircraft) THEN states[k]
     ELSE IF k[1] \in j.found THEN Matched(states[k], k[1], j.now)
     ELSE Unmatched(states[k], j.now)]

LEMMA EnrichedFollows ==
  ASSUME TypeOK, NEW j, j.now \in Nat, NEW recs, recs = EnrichedStates(j)
  PROVE  /\ AllFollow(recs, j.index, j.scope, j.now)
         /\ \A k \in Rules \X Aircraft : k[1] \notin j.index => recs[k] = states[k]
<1>1. \A k \in Rules \X Aircraft : states[k] \in Records \cup {NoRecord} /\ k[1] \in Rules
  BY DEF TypeOK
<1>2. ASSUME NEW k \in Rules \X Aircraft
      PROVE  \/ recs[k] = states[k]
             \/ /\ k[1] \in j.index /\ ScopeOf[k[1]] = j.scope
                /\ \/ recs[k] = Matched(states[k], k[1], j.now)
                   \/ recs[k] = Unmatched(states[k], j.now)
  BY DEF EnrichedStates
<1>3. ASSUME NEW k \in Rules \X Aircraft
      PROVE  /\ Follows(states[k], recs[k], k[1], j.now)
             /\ k[1] \notin j.index => recs[k] = states[k]
             /\ ScopeOf[k[1]] # j.scope => recs[k] = states[k]
  BY <1>1, <1>2, UnchangedFollows, MatchedFollows, UnmatchedFollows, SMTT(20)
<1>4. \A k \in Rules \X Aircraft : recs[k] \in Records \cup {NoRecord}
  BY <1>3 DEF Follows
<1>5. recs = [k \in Rules \X Aircraft |-> recs[k]]
  BY DEF EnrichedStates
<1>6. recs \in [Rules \X Aircraft -> Records \cup {NoRecord}]
  BY <1>4, <1>5
<1>7. AllFollow(recs, j.index, j.scope, j.now)
  BY <1>3, <1>6 DEF AllFollow
<1> QED
  BY <1>3, <1>7

-----------------------------------------------------------------------------
(* Updates on their way.                                                   *)

LEMMA OverlapHas ==
  ASSUME NEW t, NEW U, NEW o \in Goroutines, o # t, NEW k, Holds(o, k), \E u \in U : u[1] = k
  PROVE  k \in Overlap(t, U)
<1>1. job[o] # Idle /\ \E u \in job[o].updates : u[1] = k
  BY DEF Holds, Held
<1> QED
  BY <1>1 DEF Overlap

\* A goroutine takes the updates U of the records it has changed.
LEMMA HandOver ==
  ASSUME OneHolder, Current, NEW t \in Goroutines, NEW U,
         \A o \in Goroutines : o # t => job'[o] = job[o],
         Held(t)' = Held(t) \cup U,
         \A u \in U : ~Holds(t, u[1]),
         raced' = Raced(t, U),
         UNCHANGED <<queue, rows, disabled, dropped>>,
         \A k \in Keys : Tracked(k)' =>
           \/ <<k, AlertState(Live(k))'>> \in U
           \/ /\ Tracked(k) /\ AlertState(Live(k))' = AlertState(Live(k))
              /\ \A u \in U : u[1] # k
  PROVE  OneHolder' /\ Current'
<1>1. \A o \in Goroutines : o # t => Held(o)' = Held(o)
  BY DEF Held
<1>2. \A k : \A o \in Goroutines : Holds(o, k)' <=> Holds(o, k) \/ (o = t /\ \E u \in U : u[1] = k)
  BY <1>1 DEF Holds
<1>3. OneHolder'
  <2> SUFFICES ASSUME NEW k \in Keys \ raced', NEW o1 \in Goroutines, NEW o2 \in Goroutines,
                      Holds(o1, k)', Holds(o2, k)'
               PROVE  o1 = o2
    BY DEF OneHolder
  <2>1. k \notin Overlap(t, U) /\ (k \notin raced \/ \E u \in U : u[1] = k)
    BY DEF Raced
  <2>2. CASE \E u \in U : u[1] = k
    <3>1. ~Holds(t, k)
      BY <2>2
    <3>2. \A o \in Goroutines : o # t => ~Holds(o, k)
      BY <2>1, <2>2, OverlapHas
    <3> QED
      BY <1>2, <3>1, <3>2
  <2>3. CASE ~\E u \in U : u[1] = k
    <3>1. Holds(o1, k) /\ Holds(o2, k)
      BY <1>2, <2>3
    <3> QED
      BY <2>1, <2>3, <3>1 DEF OneHolder
  <2> QED
    BY <2>2, <2>3
<1>4. Current'
  <2> SUFFICES ASSUME ~disabled', NEW k \in Keys \ raced', Tracked(k)'
               PROVE  Last(k, AlertState(Live(k)))'
    BY DEF Current
  <2>1. ~disabled /\ (k \notin raced \/ \E u \in U : u[1] = k)
    BY DEF Raced
  <2>2. PICK v : v = AlertState(Live(k))'
    OBVIOUS
  <2>3. CASE <<k, v>> \in U
    <3>1. InJob(k, v)'
      BY <2>3 DEF InJob
    <3> QED
      BY <2>2, <3>1 DEF Last
  <2>4. CASE /\ Tracked(k) /\ v = AlertState(Live(k))
             /\ \A u \in U : u[1] # k
    <3>1. Last(k, v)
      BY <2>1, <2>4 DEF Current
    <3>2. InJob(k, v) => InJob(k, v)'
      BY <1>1 DEF InJob
    <3>3. NoJob(k) => NoJob(k)'
      BY <1>2, <2>4 DEF NoJob
    <3>4. InQueue(k, v) => InQueue(k, v)'
      BY DEF InQueue, Queued
    <3>5. NoQueue(k) => NoQueue(k)'
      BY DEF NoQueue, Queued
    <3>6. InRows(k, v) => InRows(k, v)'
      BY DEF InRows
    <3>7. Last(k, v)'
      BY <3>1, <3>2, <3>3, <3>4, <3>5, <3>6 DEF Last
    <3> QED
      BY <2>2, <3>7 DEF Last, InJob, InQueue, InRows
  <2> QED
    BY <2>2, <2>3, <2>4
<1> QED
  BY <1>3, <1>4

-----------------------------------------------------------------------------
(* What a step leaves alone keeps what is said of it.                      *)

LEMMA KeepReload ==
  ASSUME ReloadNotLost, LoadedOK, UNCHANGED <<stored, token, reload, missed, index>>
  PROVE  ReloadNotLost' /\ LoadedOK'
  BY DEF ReloadNotLost, LoadedOK, Enabled, BuildIndex, AllWatchRules

LEMMA KeepEmergency ==
  ASSUME EmergencyAnnouncedOnce, UNCHANGED <<announced, emergencies>>
  PROVE  EmergencyAnnouncedOnce'
  BY DEF EmergencyAnnouncedOnce

LEMMA KeepAlerted ==
  ASSUME AlertedOK, UNCHANGED <<alerted, states>>
  PROVE  AlertedOK'
  BY DEF AlertedOK

LEMMA KeepStale ==
  ASSUME StaleRuleStateCleared, UNCHANGED <<states, index>>, settled' \subseteq settled
  PROVE  StaleRuleStateCleared'
  BY DEF StaleRuleStateCleared

LEMMA KeepBatch ==
  ASSUME BatchOK, UNCHANGED queue
  PROVE  BatchOK'
  BY DEF BatchOK, Single, Queued

LEMMA KeepOneHolder ==
  ASSUME OneHolder, UNCHANGED <<job, raced>>
  PROVE  OneHolder'
  BY DEF OneHolder, Holds, Held

\* Records may go while all else stays.
LEMMA KeepCurrent ==
  ASSUME Current, UNCHANGED <<disabled, job, queue, raced, dropped>>,
         \A k \in Keys : Tracked(k)' =>
           /\ Tracked(k) /\ AlertState(Live(k))' = AlertState(Live(k))
           /\ InRows(k, AlertState(Live(k))) => InRows(k, AlertState(Live(k)))'
  PROVE  Current'
<1> SUFFICES ASSUME ~disabled', NEW k \in Keys \ raced', Tracked(k)'
             PROVE  Last(k, AlertState(Live(k)))'
  BY DEF Current
<1>1. PICK v : v = AlertState(Live(k))'
  OBVIOUS
<1>2. Last(k, v)
  BY <1>1 DEF Current
<1>3. InJob(k, v) => InJob(k, v)'
  BY DEF InJob, Held
<1>4. NoJob(k) => NoJob(k)'
  BY DEF NoJob, Holds, Held
<1>5. InQueue(k, v) => InQueue(k, v)'
  BY DEF InQueue, Queued
<1>6. NoQueue(k) => NoQueue(k)'
  BY DEF NoQueue, Queued
<1>7. InRows(k, v) => InRows(k, v)'
  BY <1>1 DEF InRows
<1>8. Last(k, v)'
  BY <1>2, <1>3, <1>4, <1>5, <1>6, <1>7 DEF Last
<1> QED
  BY <1>1, <1>8 DEF Last, InJob, InQueue, InRows

LEMMA KeepJobs ==
  ASSUME DOMAIN job = Goroutines, \A t \in Goroutines : JobOK(job[t]), UNCHANGED job
  PROVE  DOMAIN job' = Goroutines /\ \A t \in Goroutines : JobOK(job'[t])
  OBVIOUS

-----------------------------------------------------------------------------
(* The initial states.                                                     *)

LEMMA InitInv == Init => IInv
<1> SUFFICES ASSUME Init PROVE IInv
  OBVIOUS
<1>1. stored \in [Rules -> Statuses]
  BY StoredAssumption DEF Init, StoredAssumption
<1>2. index \subseteq Rules /\ index = Enabled
  BY DEF Init, Enabled, BuildIndex
<1>3. /\ reload = [stage |-> "idle", loaded |-> {}, left |-> {}] /\ reload.stage = "idle"
      /\ reload.loaded = {}
  BY DEF Init, NotReloading
<1>4. \A t \in Goroutines : job[t] = Idle
  BY DEF Init
<1>5. \A t \in Goroutines : Held(t) = {}
  BY <1>4 DEF Held
<1>6. queue = <<>> /\ DOMAIN queue = {} /\ queue \in Seq(Updates)
  BY DEF Init
<1>7. TypeOK
  <2>1. reload \in [stage : {"idle", "read", "prune"}, loaded : SUBSET Rules, left : SUBSET Scopes]
    BY <1>3
  <2>2. /\ states \in [Rules \X Aircraft -> Records \cup {NoRecord}]
        /\ emergencies \in [Aircraft -> Records \cup {NoRecord}]
        /\ rows \in [Keys -> AlertStates \cup {NoRecord}]
        /\ alerted \in [Rules \X Aircraft -> Nat]
    BY DEF Init, Keys
  <2>3. DOMAIN job = Goroutines /\ \A t \in Goroutines : JobOK(job[t])
    BY <1>4 DEF Init, JobOK
  <2>4. clock \in Nat /\ announced \subseteq Aircraft
    BY DEF Init
  <2>5. token \in BOOLEAN /\ missed \in BOOLEAN /\ disabled \in BOOLEAN
    BY DEF Init
  <2> QED
    BY <1>1, <1>2, <1>6, <2>1, <2>2, <2>3, <2>4, <2>5 DEF TypeOK
<1>8. ReloadNotLost /\ LoadedOK
  BY <1>2, <1>3 DEF ReloadNotLost, LoadedOK
<1>9. EmergencyAnnouncedOnce
  BY DEF Init, EmergencyAnnouncedOnce
<1>10. \A k \in Rules \X Aircraft : states[k] = NoRecord /\ alerted[k] = 0
  BY DEF Init
<1>11. AlertedOK /\ StaleRuleStateCleared
  BY <1>10 DEF AlertedOK, StaleRuleStateCleared
<1>12. BatchOK
  BY <1>6 DEF BatchOK
<1>13. NewOK
  <2>1. \A r \in Rules : stored[r] = "new" => r \notin index
    BY <1>2 DEF Enabled, BuildIndex, AllWatchRules
  <2> QED
    BY <1>3, <1>4, <1>10, <2>1 DEF NewOK
<1>14. OneHolder
  BY <1>5 DEF OneHolder, Holds
<1>15. \A k \in Keys : Live(k) = NoRecord
  <2> SUFFICES ASSUME NEW k \in Keys PROVE Live(k) = NoRecord
    OBVIOUS
  <2>1. k \in Rules \X Aircraft \/ (k[1] = Emergency /\ k[2] \in Aircraft)
    BY DEF Keys
  <2> QED
    BY <1>10, <2>1 DEF Live, Init
<1>16. Current
  BY <1>15 DEF Current, Tracked
<1> QED
  BY <1>7, <1>8, <1>9, <1>11, <1>12, <1>13, <1>14, <1>16 DEF IInv, Persisted

-----------------------------------------------------------------------------
(* The steps of the /watch commands and the reload loop.                   *)

LEMMA WatchesStep ==
  ASSUME IInv, Watches, NEW r \in Rules, NEW x \in {"enabled", "disabled", "deleted"},
         stored[r] # "deleted", stored' = [stored EXCEPT ![r] = x],
         \/ x # "deleted" /\ rows' = rows
         \/ /\ x = "deleted"
            /\ rows' = [k \in DOMAIN rows |-> IF k[1] = r THEN NoRecord ELSE rows[k]]
  PROVE  IInv'
<1> USE DEF IInv
<1>0. /\ token' = TRUE
      /\ UNCHANGED <<clock, reload, missed, index, states, seen, emergencies, job, queue,
                     disabled, alerted, announced, raced, dropped, settled>>
  BY DEF Watches, requestRuleReload
<1>1. /\ stored' \in [Rules -> Statuses] /\ stored'[r] = x
      /\ \A q \in Rules : q # r => stored'[q] = stored[q]
  <2>1. stored \in [Rules -> Statuses] /\ x \in Statuses
    BY DEF TypeOK, Statuses
  <2> QED
    BY <2>1
<1>2. /\ rows' \in [Keys -> AlertStates \cup {NoRecord}]
      /\ \A k \in Keys : k[1] # r \/ x # "deleted" => rows'[k] = rows[k]
  <2>1. rows \in [Keys -> AlertStates \cup {NoRecord}]
    BY DEF TypeOK
  <2> QED
    BY <2>1
<1>3. TypeOK'
  <2>1. DOMAIN job' = Goroutines /\ \A t \in Goroutines : JobOK(job'[t])
    BY <1>0, KeepJobs DEF TypeOK
  <2> QED
    BY <1>0, <1>1, <1>2, <2>1 DEF TypeOK
<1>4. ReloadNotLost' /\ LoadedOK'
  BY <1>0 DEF ReloadNotLost, LoadedOK
<1>5. EmergencyAnnouncedOnce' /\ AlertedOK' /\ StaleRuleStateCleared'
  BY <1>0, KeepEmergency, KeepAlerted, KeepStale
<1>6. BatchOK' /\ OneHolder'
  BY <1>0, KeepBatch, KeepOneHolder DEF Persisted
<1>7. NewOK'
  <2> SUFFICES ASSUME NEW q \in Rules, stored'[q] = "new"
               PROVE  /\ q \notin index' /\ q \notin reload'.loaded
                      /\ \A t \in Goroutines : job'[t] # Idle /\ job'[t].stage = "scope" =>
                           q \notin job'[t].index
                      /\ \A a \in Aircraft : states'[<<q, a>>] = NoRecord
    BY DEF NewOK
  <2>1. stored[q] = "new"
    BY <1>1
  <2> QED
    BY <1>0, <2>1 DEF Persisted, NewOK
<1>8. Current'
  <2> SUFFICES ASSUME NEW k \in Keys, Tracked(k)'
               PROVE  /\ Tracked(k) /\ AlertState(Live(k))' = AlertState(Live(k))
                      /\ InRows(k, AlertState(Live(k))) => InRows(k, AlertState(Live(k)))'
    BY <1>0, KeepCurrent DEF Persisted
  <2>1. Live(k)' = Live(k)
    BY <1>0 DEF Live
  <2>2. AlertState(Live(k))' = AlertState(Live(k))
    BY <2>1 DEF AlertState
  <2>3. CASE k[1] = Emergency
    <3>1. k[1] # r
      BY <2>3, RuleAssumption DEF RuleAssumption
    <3>2. rows'[k] = rows[k]
      BY <1>2, <3>1
    <3> QED
      BY <2>1, <2>2, <2>3, <3>2 DEF Tracked, InRows
  <2>4. CASE k[1] # Emergency
    <3>1. k[1] \in Rules /\ k = <<k[1], k[2]>> /\ k[2] \in Aircraft
      BY <2>4 DEF Keys
    <3>2. stored'[k[1]] \in {"enabled", "disabled"} /\ Live(k) # NoRecord
      BY <2>1, <2>4 DEF Tracked
    <3>3. k[1] # r \/ x # "deleted"
      BY <1>1, <3>2
    <3>4. rows'[k] = rows[k]
      BY <1>2, <3>3
    <3>5. stored[k[1]] # "new"
      BY <2>4, <3>1, <3>2 DEF Persisted, NewOK, Live
    <3>6. stored[k[1]] \in {"enabled", "disabled"}
      BY <1>1, <3>1, <3>2, <3>5 DEF TypeOK, Statuses
    <3> QED
      BY <2>2, <3>2, <3>4, <3>6 DEF Tracked, InRows
  <2> QED
    BY <2>3, <2>4
<1> QED
  BY <1>3, <1>4, <1>5, <1>6, <1>7, <1>8 DEF Persisted

LEMMA HandleWatchStep ==
  ASSUME IInv, NEW r \in Rules, HandleWatch(r)
  PROVE  IInv'
<1>1. /\ Watches /\ stored[r] # "deleted" /\ stored' = [stored EXCEPT ![r] = "enabled"]
      /\ rows' = rows
  BY DEF HandleWatch, CreateWatchRule
<1> QED
  BY <1>1, WatchesStep

LEMMA ChangeWatchStep ==
  ASSUME IInv, NEW r \in Rules, NEW subcommand \in {"enable", "disable", "remove"},
         ChangeWatch(r, subcommand)
  PROVE  IInv'
<1>1. Watches /\ stored[r] # "deleted"
  BY DEF ChangeWatch, DeleteWatchRule, UpdateWatchRule
<1>2. CASE subcommand = "remove"
  <2>1. /\ stored' = [stored EXCEPT ![r] = "deleted"]
        /\ rows' = [k \in DOMAIN rows |-> IF k[1] = r THEN NoRecord ELSE rows[k]]
    BY <1>2 DEF ChangeWatch, DeleteWatchRule
  <2> QED
    BY <1>1, <2>1, WatchesStep
<1>3. CASE subcommand = "enable"
  <2>1. stored' = [stored EXCEPT ![r] = "enabled"] /\ rows' = rows
    BY <1>3 DEF ChangeWatch, UpdateWatchRule
  <2> QED
    BY <1>1, <2>1, WatchesStep
<1>4. CASE subcommand = "disable"
  <2>1. stored' = [stored EXCEPT ![r] = "disabled"] /\ rows' = rows
    BY <1>4 DEF ChangeWatch, UpdateWatchRule
  <2> QED
    BY <1>1, <2>1, WatchesStep
<1> QED
  BY <1>2, <1>3, <1>4

\* The records, the updates and the rows are not touched by a reload's first steps.
LEMMA UntouchedRecords ==
  ASSUME IInv, UNCHANGED <<stored, states, emergencies, job, queue, disabled, rows,
                           raced, dropped>>
  PROVE  /\ BatchOK' /\ OneHolder' /\ Current'
         /\ DOMAIN job' = Goroutines /\ \A t \in Goroutines : JobOK(job'[t])
<1> USE DEF IInv
<1>1. BatchOK' /\ OneHolder'
  BY KeepBatch, KeepOneHolder DEF Persisted
<1>2. \A k \in Keys : Live(k)' = Live(k)
  BY DEF Live
<1>3. \A k \in Keys : AlertState(Live(k))' = AlertState(Live(k))
  BY <1>2 DEF AlertState
<1>4. \A k \in Keys : Tracked(k)' => Tracked(k)
  BY <1>2 DEF Tracked
<1>5. \A k \in Keys : InRows(k, AlertState(Live(k))) => InRows(k, AlertState(Live(k)))'
  BY <1>3 DEF InRows
<1>6. Current'
  BY <1>3, <1>4, <1>5, KeepCurrent DEF Persisted
<1> QED
  BY <1>1, <1>6, KeepJobs DEF TypeOK

LEMMA ReloadReadStep ==
  ASSUME IInv, NEW ok \in BOOLEAN, ReloadRead(ok)
  PROVE  IInv'
<1> USE DEF IInv
<1>0. /\ token /\ reload.stage = "idle" /\ token' = FALSE /\ missed' = ~ok
      /\ reload' = IF ok THEN [NotReloading EXCEPT !.stage = "read", !.loaded = Enabled]
                   ELSE NotReloading
      /\ UNCHANGED <<clock, stored, index, states, seen, emergencies, job, queue,
                     disabled, rows, changes, alerted, announced, raced, dropped, settled>>
  BY DEF ReloadRead
<1>1. Enabled \subseteq Rules /\ Enabled' = Enabled
  BY <1>0 DEF Enabled, BuildIndex, AllWatchRules
<1>2. /\ ok => reload' = [stage |-> "read", loaded |-> Enabled, left |-> {}]
      /\ ~ok => reload' = [stage |-> "idle", loaded |-> {}, left |-> {}]
  BY <1>0 DEF NotReloading
<1>3. /\ reload' \in [stage : {"idle", "read", "prune"}, loaded : SUBSET Rules,
                      left : SUBSET Scopes]
      /\ reload'.loaded \subseteq Enabled
      /\ ok => reload'.stage = "read" /\ reload'.loaded = Enabled
      /\ ~ok => reload'.stage = "idle"
  BY <1>1, <1>2
<1>4. BatchOK' /\ OneHolder' /\ Current'
      /\ DOMAIN job' = Goroutines /\ \A t \in Goroutines : JobOK(job'[t])
  BY <1>0, UntouchedRecords
<1>5. TypeOK'
  <2>1. token' \in BOOLEAN /\ missed' \in BOOLEAN /\ disabled' \in BOOLEAN
    BY <1>0 DEF TypeOK
  <2> QED
    BY <1>0, <1>3, <1>4, <2>1 DEF TypeOK
<1>6. ReloadNotLost' /\ LoadedOK'
  BY <1>0, <1>1, <1>3 DEF ReloadNotLost, LoadedOK
<1>7. EmergencyAnnouncedOnce' /\ AlertedOK' /\ StaleRuleStateCleared'
  BY <1>0, KeepEmergency, KeepAlerted, KeepStale
<1>8. NewOK'
  <2>1. \A r \in Rules : stored'[r] = "new" => r \notin reload'.loaded
    BY <1>0, <1>3 DEF Enabled, BuildIndex, AllWatchRules
  <2> QED
    BY <1>0, <2>1 DEF Persisted, NewOK
<1> QED
  BY <1>4, <1>5, <1>6, <1>7, <1>8 DEF Persisted

LEMMA ReplaceRulesStep ==
  ASSUME IInv, ReplaceRules
  PROVE  IInv'
<1> USE DEF IInv
<1>0. /\ reload.stage = "read" /\ index' = reload.loaded /\ settled' = {}
      /\ reload' = [stage |-> "prune", loaded |-> reload.loaded, left |-> Range(ScopeOf)]
      /\ UNCHANGED <<clock, stored, token, missed, states, seen, emergencies, job,
                     queue, disabled, rows, changes, alerted, announced, raced, dropped>>
  BY DEF ReplaceRules
<1>1. Range(ScopeOf) \subseteq Scopes
  BY RuleAssumption DEF RuleAssumption, Range
<1>2. reload.loaded \subseteq Rules
  BY DEF TypeOK
<1>3. /\ reload' \in [stage : {"idle", "read", "prune"}, loaded : SUBSET Rules,
                      left : SUBSET Scopes]
      /\ reload'.stage = "prune" /\ reload'.loaded = reload.loaded
  BY <1>0, <1>1, <1>2
<1>4. BatchOK' /\ OneHolder' /\ Current'
      /\ DOMAIN job' = Goroutines /\ \A t \in Goroutines : JobOK(job'[t])
  BY <1>0, UntouchedRecords
<1>5. TypeOK'
  BY <1>0, <1>2, <1>3, <1>4 DEF TypeOK
<1>6. ReloadNotLost' /\ LoadedOK'
  <2>1. Enabled' = Enabled
    BY <1>0 DEF Enabled, BuildIndex, AllWatchRules
  <2> QED
    BY <1>0, <1>3, <2>1 DEF ReloadNotLost, LoadedOK
<1>7. EmergencyAnnouncedOnce' /\ AlertedOK'
  BY <1>0, KeepEmergency, KeepAlerted
<1>8. StaleRuleStateCleared'
  BY <1>0 DEF StaleRuleStateCleared
<1>9. NewOK'
  BY <1>0, <1>3 DEF Persisted, NewOK
<1> QED
  BY <1>4, <1>5, <1>6, <1>7, <1>8, <1>9 DEF Persisted

LEMMA ReplacePruneStep ==
  ASSUME IInv, NEW s \in Scopes, ReplacePrune(s)
  PROVE  IInv'
<1> USE DEF IInv
<1>1. PICK gone : gone = {k \in Rules \X Aircraft :
                            ScopeOf[k[1]] = s /\ k[1] \notin reload.loaded}
  OBVIOUS
<1>2. /\ reload.stage = "prune" /\ s \in reload.left
      /\ states' = [k \in DOMAIN states |-> IF k \in gone THEN NoRecord ELSE states[k]]
      /\ alerted' = [k \in DOMAIN alerted |-> IF k \in gone THEN 0 ELSE alerted[k]]
      /\ reload' = IF reload.left = {s} THEN NotReloading ELSE [reload EXCEPT !.left = @ \ {s}]
      /\ UNCHANGED <<clock, stored, token, missed, index, seen, emergencies, job,
                     queue, disabled, rows, changes, announced, raced, dropped, settled>>
  BY <1>1 DEF ReplacePrune
<1>3. /\ reload' \in [stage : {"idle", "read", "prune"}, loaded : SUBSET Rules,
                      left : SUBSET Scopes]
      /\ reload'.stage # "read" /\ reload'.loaded \subseteq reload.loaded
  <2>1. CASE reload.left = {s}
    <3>1. reload' = [stage |-> "idle", loaded |-> {}, left |-> {}]
      BY <1>2, <2>1 DEF NotReloading
    <3> QED
      BY <3>1
  <2>2. CASE reload.left # {s}
    <3>1. reload' = [reload EXCEPT !.left = reload.left \ {s}]
      BY <1>2, <2>2
    <3>2. reload \in [stage : {"idle", "read", "prune"}, loaded : SUBSET Rules,
                      left : SUBSET Scopes]
      BY DEF TypeOK
    <3>3. reload' = [stage |-> reload.stage, loaded |-> reload.loaded, left |-> reload.left \ {s}]
      BY <3>1, <3>2
    <3>4. reload.loaded \subseteq Rules /\ reload.left \ {s} \subseteq Scopes
      BY <3>2
    <3> QED
      BY <1>2, <3>3, <3>4
  <2> QED
    BY <2>1, <2>2
<1>4. /\ states' \in [Rules \X Aircraft -> Records \cup {NoRecord}]
      /\ alerted' \in [Rules \X Aircraft -> Nat]
      /\ \A k \in Rules \X Aircraft :
           \/ states'[k] = NoRecord /\ alerted'[k] = 0
           \/ states'[k] = states[k] /\ alerted'[k] = alerted[k]
  BY <1>2 DEF TypeOK
<1>5. TypeOK'
  <2>1. DOMAIN job' = Goroutines /\ \A t \in Goroutines : JobOK(job'[t])
    BY <1>2, KeepJobs DEF TypeOK
  <2> QED
    BY <1>2, <1>3, <1>4, <2>1 DEF TypeOK
<1>6. ReloadNotLost' /\ LoadedOK'
  BY <1>2, <1>3 DEF ReloadNotLost, LoadedOK, Enabled, BuildIndex, AllWatchRules
<1>7. EmergencyAnnouncedOnce'
  BY <1>2, KeepEmergency
<1>8. AlertedOK'
  BY <1>4 DEF AlertedOK
<1>9. StaleRuleStateCleared'
  BY <1>2, <1>4 DEF StaleRuleStateCleared
<1>10. BatchOK' /\ OneHolder'
  BY <1>2, KeepBatch, KeepOneHolder DEF Persisted
<1>11. NewOK'
  <2>1. \A r \in Rules : \A a \in Aircraft : <<r, a>> \in Rules \X Aircraft
    OBVIOUS
  <2>2. \A r \in Rules : \A a \in Aircraft :
          states[<<r, a>>] = NoRecord => states'[<<r, a>>] = NoRecord
    BY <1>4, <2>1
  <2> QED
    BY <1>2, <1>3, <2>2 DEF Persisted, NewOK
<1>12. Current'
  <2> SUFFICES ASSUME NEW k \in Keys, Tracked(k)'
               PROVE  /\ Tracked(k) /\ AlertState(Live(k))' = AlertState(Live(k))
                      /\ InRows(k, AlertState(Live(k))) => InRows(k, AlertState(Live(k)))'
    BY <1>2, KeepCurrent DEF Persisted
  <2>1. k \in Rules \X Aircraft \/ k[1] = Emergency
    BY DEF Keys
  <2>2. Live(k)' # NoRecord
    BY DEF Tracked
  <2>3. Live(k)' = Live(k)
    BY <1>2, <1>4, <2>1, <2>2 DEF Live
  <2>4. AlertState(Live(k))' = AlertState(Live(k))
    BY <2>3 DEF AlertState
  <2> QED
    BY <1>2, <2>3, <2>4 DEF Tracked, InRows
<1> QED
  BY <1>5, <1>6, <1>7, <1>8, <1>9, <1>10, <1>11, <1>12 DEF Persisted

-----------------------------------------------------------------------------
(* The steps of the writer.                                                *)

\* What the steps that only move updates leave alone.
LEMMA MovedOnly ==
  ASSUME IInv, UNCHANGED <<clock, stored, token, reload, missed, index, states, seen,
                           emergencies, changes, alerted, announced, raced, settled>>
  PROVE  ReloadNotLost' /\ LoadedOK' /\ EmergencyAnnouncedOnce' /\ AlertedOK'
           /\ StaleRuleStateCleared'
  BY KeepReload, KeepEmergency, KeepAlerted, KeepStale DEF IInv

LEMMA SaveStep ==
  ASSUME IInv, NEW t \in Goroutines, Save(t)
  PROVE  IInv'
<1> USE DEF IInv
<1>0. /\ job[t].stage = "save"
      /\ UNCHANGED <<clock, stored, token, reload, missed, index, states, seen,
                     emergencies, disabled, rows, changes, alerted, announced, raced, settled>>
  BY DEF Save
<1>1. job[t] # Idle /\ JobOK(job[t])
  BY <1>0 DEF TypeOK, Idle
<1>2. PICK U : U = job[t].updates /\ U \subseteq Updates /\ Single(U) /\ Held(t) = U
  <2>1. job[t].updates \subseteq Updates /\ Single(job[t].updates)
    BY <1>0, <1>1 DEF JobOK, Idle
  <2> QED
    BY <1>1, <2>1 DEF Held
<1>3. PICK u \in U, accepted \in BOOLEAN :
        /\ queue' = IF accepted THEN Append(queue, u) ELSE queue
        /\ dropped' = IF accepted THEN dropped \ {u[1]} ELSE dropped \cup {u[1]}
        /\ job' = [job EXCEPT ![t] =
             IF U = {u} THEN Idle ELSE [stage |-> "save", updates |-> U \ {u}]]
  BY <1>2 DEF Save
<1>4. PICK k0 : k0 = u[1]
  OBVIOUS
<1>5. /\ k0 \in Keys /\ u \in Updates
      /\ \A w \in U : w[1] = k0 => w = u
  <2>1. u \in Updates
    BY <1>2
  <2>2. u[1] \in Keys
    BY <2>1 DEF Updates
  <2> QED
    BY <1>2, <1>4, <2>1, <2>2 DEF Single
<1>6. /\ DOMAIN job' = Goroutines
      /\ job'[t] = IF U = {u} THEN Idle ELSE [stage |-> "save", updates |-> U \ {u}]
      /\ \A o \in Goroutines : o # t => job'[o] = job[o]
  BY <1>3 DEF TypeOK
<1>7. Held(t)' = U \ {u} /\ JobOK(job'[t]) /\ (job'[t] = Idle \/ job'[t].stage = "save")
  <2>1. CASE U = {u}
    <3>1. job'[t] = Idle
      BY <1>6, <2>1
    <3> QED
      BY <2>1, <3>1 DEF Held, JobOK
  <2>2. CASE U # {u}
    <3>1. PICK j : j = [stage |-> "save", updates |-> U \ {u}]
      OBVIOUS
    <3>2. j.stage = "save" /\ j.updates = U \ {u}
      BY <3>1
    <3>3. j # Idle
      BY <3>2 DEF Idle
    <3>4. job'[t] = j
      BY <1>6, <2>2, <3>1
    <3>5. JobOK(j)
      BY <1>2, <3>2 DEF JobOK, Single
    <3>6. Held(t)' = j.updates
      BY <3>3, <3>4 DEF Held
    <3> QED
      BY <3>2, <3>4, <3>5, <3>6
  <2> QED
    BY <2>1, <2>2
<1>8. /\ \A o \in Goroutines : o # t => Held(o)' = Held(o)
      /\ \A o \in Goroutines : \A k : o # t => (Holds(o, k)' <=> Holds(o, k))
  BY <1>6 DEF Held, Holds
<1>9. Holds(t, k0) /\ ~Holds(t, k0)' /\ \A k : k # k0 => (Holds(t, k)' <=> Holds(t, k))
  <2>1. Holds(t, k0)
    BY <1>2, <1>4 DEF Holds
  <2>2. ~Holds(t, k0)'
    BY <1>5, <1>7 DEF Holds
  <2>3. \A k : k # k0 => (Holds(t, k)' <=> Holds(t, k))
    BY <1>2, <1>4, <1>7 DEF Holds
  <2> QED
    BY <2>1, <2>2, <2>3
<1>10. \A o \in Goroutines : JobOK(job'[o])
  <2>1. \A o \in Goroutines : o # t => JobOK(job'[o])
    BY <1>6 DEF TypeOK
  <2> QED
    BY <1>7, <2>1
<1>11. PICK L \in Nat : L = Len(queue)
  BY DEF TypeOK
<1>12. queue \in Seq(Updates) /\ DOMAIN queue = 1..L
  BY <1>11 DEF TypeOK
<1>13. ASSUME accepted
       PROVE  /\ queue' \in Seq(Updates)
              /\ DOMAIN queue' = 1..(L + 1)
              /\ queue'[L + 1] = u
              /\ \A n \in 1..L : queue'[n] = queue[n]
  <2>1. queue' = Append(queue, u)
    BY <1>3, <1>13
  <2> QED
    BY <1>5, <1>11, <1>12, <2>1
<1>14. ASSUME accepted
       PROVE  /\ \A k : Queued(L + 1, k)' <=> k = k0
              /\ \A n \in 1..L : \A k : Queued(n, k)' <=> Queued(n, k)
  BY <1>4, <1>13, <1>14 DEF Queued
<1>15. TypeOK'
  <2>1. queue' \in Seq(Updates)
    BY <1>3, <1>12, <1>13
  <2> QED
    BY <1>0, <1>6, <1>10, <2>1 DEF TypeOK
<1>16. BatchOK'
  <2>1. CASE ~accepted
    BY <1>3, <2>1, KeepBatch DEF Persisted
  <2>2. CASE accepted
    <3> SUFFICES ASSUME NEW k \in Keys, NEW n \in DOMAIN queue', Queued(n, k)'
                 PROVE  \E m \in DOMAIN queue' :
                          Queued(m, k)' /\ \A i \in DOMAIN queue' : Queued(i, k)' => i <= m
      BY DEF BatchOK
    <3>1. DOMAIN queue' = 1..(L + 1) /\ n \in 1..(L + 1)
      BY <1>13, <2>2
    <3>2. CASE k = k0
      <4>1. Queued(L + 1, k)'
        BY <1>14, <2>2, <3>2
      <4>2. L + 1 \in 1..(L + 1) /\ \A i \in 1..(L + 1) : i <= L + 1
        BY <1>11
      <4> QED
        BY <3>1, <4>1, <4>2
    <3>3. CASE k # k0
      <4>1. ~Queued(L + 1, k)'
        BY <1>14, <2>2, <3>3
      <4>2. n \in 1..L
        <5>1. n # L + 1
          BY <4>1
        <5> QED
          BY <3>1, <5>1
      <4>3. Queued(n, k)
        BY <1>14, <2>2, <4>2
      <4>4. PICK m \in 1..L : Queued(m, k) /\ \A i \in 1..L : Queued(i, k) => i <= m
        BY <1>12, <4>2, <4>3 DEF Persisted, BatchOK
      <4>5. m \in 1..(L + 1) /\ Queued(m, k)'
        BY <1>14, <2>2, <4>4
      <4>6. ASSUME NEW i \in 1..(L + 1), Queued(i, k)' PROVE i <= m
        <5>1. i # L + 1
          BY <4>1, <4>6
        <5>2. i \in 1..L
          BY <5>1
        <5> QED
          BY <1>14, <2>2, <4>4, <4>6, <5>2
      <4> QED
        BY <3>1, <4>5, <4>6
    <3> QED
      BY <3>2, <3>3
  <2> QED
    BY <2>1, <2>2
<1>17. NewOK'
  <2>1. \A o \in Goroutines : job'[o] # Idle /\ job'[o].stage = "scope" => job'[o] = job[o]
    BY <1>6, <1>7
  <2> QED
    BY <1>0, <2>1 DEF Persisted, NewOK
<1>18. OneHolder'
  <2> SUFFICES ASSUME NEW k \in Keys \ raced', NEW o1 \in Goroutines, NEW o2 \in Goroutines,
                      Holds(o1, k)', Holds(o2, k)'
               PROVE  o1 = o2
    BY DEF OneHolder
  <2>1. Holds(o1, k) /\ Holds(o2, k)
    BY <1>8, <1>9
  <2> QED
    BY <1>0, <2>1 DEF Persisted, OneHolder
<1>19. Current'
  <2> SUFFICES ASSUME ~disabled', NEW k \in Keys \ raced', Tracked(k)'
               PROVE  Last(k, AlertState(Live(k)))'
    BY DEF Current
  <2>1. ~disabled /\ k \notin raced /\ Live(k)' = Live(k)
    BY <1>0 DEF Live
  <2>2. PICK v : v = AlertState(Live(k)) /\ v = AlertState(Live(k))'
    BY <2>1 DEF AlertState
  <2>3. Tracked(k)
    BY <1>0, <2>1 DEF Tracked
  <2>4. Last(k, v)
    BY <2>1, <2>2, <2>3 DEF Persisted, Current
  <2>5. Last(k, v)'
    <3>1. CASE k = k0
      <4>1. NoJob(k)'
        BY <1>8, <1>9, <2>1, <3>1 DEF Persisted, OneHolder, NoJob
      <4>2. CASE ~accepted
        <5>1. k \in dropped'
          BY <1>3, <1>4, <3>1, <4>2
        <5> QED
          BY <4>1, <5>1 DEF Last
      <4>3. CASE accepted
        <5>1. InJob(k, v)
          BY <1>9, <2>4, <3>1 DEF Last, NoJob
        <5>2. PICK o \in Goroutines : <<k, v>> \in Held(o)
          BY <5>1 DEF InJob
        <5>3. Holds(o, k)
          BY <5>2 DEF Holds
        <5>4. o = t
          BY <1>9, <2>1, <3>1, <5>3 DEF Persisted, OneHolder
        <5>5. <<k, v>> = u
          BY <1>2, <1>5, <3>1, <5>2, <5>4
        <5>6. queue'[L + 1] = <<k, v>> /\ L + 1 \in DOMAIN queue'
          BY <1>11, <1>13, <4>3, <5>5
        <5>7. \A i \in DOMAIN queue' : i <= L + 1
          BY <1>11, <1>13, <4>3
        <5>8. InQueue(k, v)'
          BY <5>6, <5>7 DEF InQueue
        <5> QED
          BY <4>1, <5>8 DEF Last
      <4> QED
        BY <4>2, <4>3
    <3>2. CASE k # k0
      <4>1. InJob(k, v) => InJob(k, v)'
        <5> SUFFICES ASSUME NEW o \in Goroutines, <<k, v>> \in Held(o)
                     PROVE  <<k, v>> \in Held(o)'
          BY DEF InJob
        <5>1. <<k, v>> # u
          BY <1>4, <3>2
        <5> QED
          BY <1>2, <1>7, <1>8, <5>1
      <4>2. NoJob(k) => NoJob(k)'
        BY <1>8, <1>9, <3>2 DEF NoJob
      <4>3. k \in dropped => k \in dropped'
        BY <1>3, <1>4, <3>2
      <4>4. InRows(k, v) => InRows(k, v)'
        BY <1>0 DEF InRows
      <4>5. (InQueue(k, v) => InQueue(k, v)') /\ (NoQueue(k) => NoQueue(k)')
        <5>1. CASE ~accepted
          <6>1. queue' = queue
            BY <1>3, <5>1
          <6> QED
            BY <6>1 DEF InQueue, NoQueue, Queued
        <5>2. CASE accepted
          <6>1. ~Queued(L + 1, k)'
            BY <1>14, <3>2, <5>2
          <6>2. InQueue(k, v) => InQueue(k, v)'
            <7> SUFFICES ASSUME InQueue(k, v) PROVE InQueue(k, v)'
              OBVIOUS
            <7>1. PICK n \in 1..L : queue[n] = <<k, v>> /\ \A i \in 1..L : Queued(i, k) => i <= n
              BY <1>12 DEF InQueue
            <7>2. n \in 1..(L + 1) /\ queue'[n] = <<k, v>>
              BY <1>13, <5>2, <7>1
            <7>3. ASSUME NEW i \in 1..(L + 1), Queued(i, k)' PROVE i <= n
              <8>1. i # L + 1
                BY <6>1, <7>3
              <8>2. i \in 1..L
                BY <8>1
              <8> QED
                BY <1>14, <5>2, <7>1, <7>3, <8>2
            <7> QED
              BY <1>13, <5>2, <7>2, <7>3 DEF InQueue
          <6>3. NoQueue(k) => NoQueue(k)'
            <7> SUFFICES ASSUME NoQueue(k), NEW i \in 1..(L + 1) PROVE ~Queued(i, k)'
              BY <1>13, <5>2 DEF NoQueue
            <7>1. CASE i = L + 1
              BY <6>1, <7>1
            <7>2. CASE i # L + 1
              <8>1. i \in 1..L
                BY <7>2
              <8> QED
                BY <1>12, <1>14, <5>2, <8>1 DEF NoQueue
            <7> QED
              BY <7>1, <7>2
          <6> QED
            BY <6>2, <6>3
        <5> QED
          BY <5>1, <5>2
      <4> QED
        BY <2>4, <4>1, <4>2, <4>3, <4>4, <4>5 DEF Last
    <3> QED
      BY <3>1, <3>2
  <2> QED
    BY <2>2, <2>5 DEF Last, InJob, InQueue, InRows
<1> QED
  BY <1>0, <1>15, <1>16, <1>17, <1>18, <1>19, MovedOnly DEF Persisted

\* The value ApplyBatch writes to a row: the one of the record's last update.
LEMMA LastWritten ==
  ASSUME TypeOK, NEW k \in Keys, NEW n \in DOMAIN queue, Queued(n, k),
         \A i \in DOMAIN queue : Queued(i, k) => i <= n,
         NEW S, S = {i \in DOMAIN queue : queue[i][1] = k}
  PROVE  Max(S) = n /\ queue[n] = <<k, queue[n][2]>> /\ queue[n][2] \in AlertStates
<1>1. \A i \in DOMAIN queue : i \in S <=> Queued(i, k)
  BY DEF Queued
<1>2. queue \in Seq(Updates) /\ DOMAIN queue \subseteq Nat
  BY DEF TypeOK
<1>3. n \in S /\ \A y \in S : n >= y
  BY <1>1, <1>2
<1>4. \A x \in S : (\A y \in S : x >= y) => x = n
  BY <1>2, <1>3
<1>5. Max(S) = n
  BY <1>3, <1>4 DEF Max
<1>6. queue[n] \in Updates /\ queue[n][1] = k
  BY <1>2 DEF Queued
<1>7. queue[n] = <<k, queue[n][2]>> /\ queue[n][2] \in AlertStates
  BY <1>6 DEF Updates
<1> QED
  BY <1>5, <1>7

LEMMA ApplyBatchStep ==
  ASSUME IInv, ApplyBatch
  PROVE  IInv'
<1> USE DEF IInv
<1> DEFINE keys == {queue[i][1] : i \in DOMAIN queue}
           valid == \A k \in keys : k[1] = Emergency \/ stored[k[1]] \in {"enabled", "disabled"}
           last(k) == queue[Max({n \in DOMAIN queue : queue[n][1] = k})][2]
<1>1. /\ rows' = IF valid THEN [k \in DOMAIN rows |-> IF k \in keys THEN last(k) ELSE rows[k]]
                 ELSE rows
      /\ disabled' = (disabled \/ ~valid)
      /\ queue' = <<>>
      /\ UNCHANGED <<clock, stored, token, reload, missed, index, states, seen,
                     emergencies, job, changes, alerted, announced, raced, dropped, settled>>
  BY DEF ApplyBatch
<1>2. \A k : k \in keys <=> \E n \in DOMAIN queue : Queued(n, k)
  BY DEF Queued
<1>3. ASSUME NEW k \in Keys, NEW n \in DOMAIN queue, Queued(n, k),
             \A i \in DOMAIN queue : Queued(i, k) => i <= n
      PROVE  queue[n] = <<k, last(k)>> /\ last(k) \in AlertStates
  <2>1. PICK S : S = {i \in DOMAIN queue : queue[i][1] = k}
    OBVIOUS
  <2>2. Max(S) = n /\ queue[n] = <<k, queue[n][2]>> /\ queue[n][2] \in AlertStates
    BY <1>3, <2>1, LastWritten
  <2>3. last(k) = queue[Max(S)][2]
    BY <2>1
  <2> HIDE DEF last, keys
  <2> QED
    BY <2>2, <2>3
<1>4. ASSUME NEW k \in Keys, k \in keys
      PROVE  last(k) \in AlertStates
  <2> HIDE DEF last, keys
  <2>1. PICK n \in DOMAIN queue : Queued(n, k) /\ \A i \in DOMAIN queue : Queued(i, k) => i <= n
    BY <1>2, <1>4 DEF Persisted, BatchOK
  <2> QED
    BY <1>3, <2>1
<1> HIDE DEF last, keys, valid
<1>5. /\ rows' \in [Keys -> AlertStates \cup {NoRecord}]
      /\ valid => \A k \in Keys : rows'[k] = IF k \in keys THEN last(k) ELSE rows[k]
  <2>1. rows \in [Keys -> AlertStates \cup {NoRecord}]
    BY DEF TypeOK
  <2> QED
    BY <1>1, <1>4, <2>1
<1>6. disabled' \in BOOLEAN /\ (~disabled' => ~disabled /\ valid)
  BY <1>1
<1>7. queue' \in Seq(Updates) /\ DOMAIN queue' = {}
  BY <1>1
<1>8. TypeOK'
  <2>1. DOMAIN job' = Goroutines /\ \A t \in Goroutines : JobOK(job'[t])
    BY <1>1, KeepJobs DEF TypeOK
  <2>2. UNCHANGED <<clock, stored, token, reload, missed, index, states,
                    emergencies, alerted, announced>>
    BY <1>1
  <2>3. disabled' \in BOOLEAN
    BY <1>6
  <2> QED
    BY <1>5, <1>7, <2>1, <2>2, <2>3 DEF TypeOK
<1>9. BatchOK'
  BY <1>7 DEF BatchOK
<1>10. OneHolder' /\ NewOK'
  <2>1. UNCHANGED <<job, raced, stored, index, reload, states>>
    BY <1>1
  <2> QED
    BY <2>1, KeepOneHolder DEF Persisted, NewOK
<1>11. Current'
  <2> SUFFICES ASSUME ~disabled', NEW k \in Keys \ raced', Tracked(k)'
               PROVE  Last(k, AlertState(Live(k)))'
    BY DEF Current
  <2>1. UNCHANGED <<job, raced, dropped, states, emergencies, stored>>
    BY <1>1
  <2>2. ~disabled /\ valid /\ k \notin raced /\ Live(k)' = Live(k)
    BY <1>6, <2>1 DEF Live
  <2>3. PICK v : v = AlertState(Live(k)) /\ v = AlertState(Live(k))'
    BY <2>2 DEF AlertState
  <2>4. Tracked(k)
    BY <2>1, <2>2 DEF Tracked
  <2>5. Last(k, v)
    BY <2>2, <2>3, <2>4 DEF Persisted, Current
  <2>6. Last(k, v)'
    <3>1. CASE InJob(k, v)
      <4>1. InJob(k, v)'
        BY <2>1, <3>1 DEF InJob, Held
      <4> QED
        BY <4>1 DEF Last
    <3>2. NoJob(k) => NoJob(k)'
      BY <2>1 DEF NoJob, Holds, Held
    <3>3. NoQueue(k)'
      BY <1>7 DEF NoQueue
    <3>4. CASE NoJob(k) /\ InQueue(k, v)
      <4>1. PICK n \in DOMAIN queue : /\ queue[n] = <<k, v>>
                                      /\ \A i \in DOMAIN queue : Queued(i, k) => i <= n
        BY <3>4 DEF InQueue
      <4>2. Queued(n, k)
        BY <4>1 DEF Queued
      <4>3. queue[n] = <<k, last(k)>> /\ last(k) \in AlertStates
        BY <1>3, <4>1, <4>2
      <4>4. last(k) = v
        BY <4>1, <4>3
      <4>5. rows'[k] = v /\ v # NoRecord
        <5>1. k \in keys
          BY <1>2, <4>2
        <5> QED
          BY <1>5, <2>2, <4>3, <4>4, <5>1, NoRecordAssumption DEF NoRecordAssumption
      <4>6. InRows(k, v)'
        BY <4>5 DEF InRows
      <4> QED
        BY <3>2, <3>3, <3>4, <4>6 DEF Last
    <3>5. CASE NoJob(k) /\ NoQueue(k) /\ InRows(k, v)
      <4>1. k \notin keys
        BY <1>2, <3>5 DEF NoQueue
      <4>2. rows'[k] = rows[k]
        BY <1>5, <2>2, <4>1
      <4>3. InRows(k, v)'
        BY <3>5, <4>2 DEF InRows
      <4> QED
        BY <3>2, <3>3, <3>5, <4>3 DEF Last
    <3>6. CASE NoJob(k) /\ k \in dropped
      BY <2>1, <3>2, <3>6 DEF Last
    <3> QED
      BY <2>5, <3>1, <3>4, <3>5, <3>6 DEF Last
  <2> QED
    BY <2>3, <2>6 DEF Last, InJob, InQueue, InRows
<1>12. ReloadNotLost' /\ LoadedOK' /\ EmergencyAnnouncedOnce' /\ AlertedOK'
         /\ StaleRuleStateCleared'
  BY <1>1, MovedOnly
<1> QED
  BY <1>8, <1>9, <1>10, <1>11, <1>12 DEF Persisted

LEMMA PurgeAlertStatesStep ==
  ASSUME IInv, PurgeAlertStates
  PROVE  IInv'
<1> USE DEF IInv
<1> DEFINE stale == {k \in DOMAIN rows : rows[k] # NoRecord /\ ~rows[k].active /\
                       (IF rows[k].cleared # 0 THEN rows[k].cleared ELSE rows[k].fired)
                          + StateRetention < clock}
<1>1. /\ rows' = [k \in DOMAIN rows |-> IF k \in stale THEN NoRecord ELSE rows[k]]
      /\ UNCHANGED <<clock, stored, token, reload, missed, index, states, seen,
                     emergencies, job, queue, disabled, changes, alerted, announced,
                     raced, dropped, settled>>
  BY DEF PurgeAlertStates
<1>2. \A k \in stale : rows[k] # NoRecord /\ ~rows[k].active
  OBVIOUS
<1> HIDE DEF stale
<1>3. /\ rows' \in [Keys -> AlertStates \cup {NoRecord}]
      /\ \A k \in Keys : rows'[k] = rows[k]
                           \/ (rows'[k] = NoRecord /\ rows[k] # NoRecord /\ ~rows[k].active)
  <2>1. rows \in [Keys -> AlertStates \cup {NoRecord}]
    BY DEF TypeOK
  <2>2. rows' \in [Keys -> AlertStates \cup {NoRecord}]
    BY <1>1, <2>1
  <2>3. ASSUME NEW k \in Keys
        PROVE  rows'[k] = rows[k] \/ (rows'[k] = NoRecord /\ k \in stale)
    BY <1>1, <2>1
  <2>4. \A k \in Keys : rows'[k] = rows[k]
                           \/ (rows'[k] = NoRecord /\ rows[k] # NoRecord /\ ~rows[k].active)
    BY <1>2, <2>3, Zenon
  <2> QED
    BY <2>2, <2>4, Zenon
<1>4. TypeOK'
  <2>1. DOMAIN job' = Goroutines /\ \A t \in Goroutines : JobOK(job'[t])
    BY <1>1, KeepJobs DEF TypeOK
  <2> QED
    BY <1>1, <1>3, <2>1 DEF TypeOK
<1>5. BatchOK' /\ OneHolder' /\ NewOK'
  BY <1>1, KeepBatch, KeepOneHolder DEF Persisted, NewOK
<1>6. Current'
  <2> SUFFICES ASSUME NEW k \in Keys, Tracked(k)'
               PROVE  /\ Tracked(k) /\ AlertState(Live(k))' = AlertState(Live(k))
                      /\ InRows(k, AlertState(Live(k))) => InRows(k, AlertState(Live(k)))'
    BY <1>1, KeepCurrent DEF Persisted
  <2>1. Live(k)' = Live(k)
    BY <1>1 DEF Live
  <2>2. PICK v : v = AlertState(Live(k)) /\ v = AlertState(Live(k))'
    BY <2>1 DEF AlertState
  <2>3. InRows(k, v) => InRows(k, v)'
    BY <1>3 DEF InRows
  <2>4. Tracked(k)
    BY <1>1, <2>1 DEF Tracked
  <2> QED
    BY <2>2, <2>3, <2>4 DEF InRows
<1> QED
  BY <1>1, <1>4, <1>5, <1>6, MovedOnly DEF Persisted

-----------------------------------------------------------------------------
(* Restart.                                                                *)

\* A restored record says what its row says.
LEMMA RestoredRecord ==
  ASSUME TypeOK, NEW k \in Keys, Restored(k) # NoRecord
  PROVE  /\ Restored(k) \in Records
         /\ rows[k] # NoRecord /\ AlertState(Restored(k)) = rows[k]
         /\ Restored(k).active = rows[k].active /\ Restored(k).fired = rows[k].fired
         /\ k[1] # Emergency => stored[k[1]] = "enabled"
<1>1. rows[k] # NoRecord /\ (k[1] # Emergency => stored[k[1]] = "enabled")
  BY DEF Restored
<1>2. PICK row \in AlertStates : row = rows[k]
  BY <1>1 DEF TypeOK
<1>3. /\ row.active \in BOOLEAN /\ row.count \in Nat /\ row.fired \in Nat /\ row.cleared \in Nat
      /\ row = [active |-> row.active, count |-> row.count, fired |-> row.fired,
                cleared |-> row.cleared]
  BY DEF AlertStates
<1>4. PICK at \in Nat : at = IF row.fired > row.cleared THEN row.fired ELSE row.cleared
  BY <1>3
<1> DEFINE rec == [active |-> row.active, count |-> row.count, fired |-> row.fired,
                   cleared |-> row.cleared, at |-> at]
<1>5. Restored(k) = rec
  BY <1>1, <1>2, <1>4 DEF Restored
<1>6. rec \in Records
  BY <1>3, MadeRecord
<1>7. AlertState(rec) = row /\ rec.active = row.active /\ rec.fired = row.fired
  BY <1>3 DEF AlertState
<1> HIDE DEF rec
<1> QED
  BY <1>1, <1>2, <1>5, <1>6, <1>7

LEMMA RestartStep ==
  ASSUME IInv, Restart
  PROVE  IInv'
<1> USE DEF IInv
<1>1. /\ index' = Enabled /\ UNCHANGED <<clock, stored, rows>>
      /\ states' = [k \in Rules \X Aircraft |-> Restored(k)]
      /\ emergencies' = [a \in Aircraft |-> Restored(<<Emergency, a>>)]
      /\ job' = [t \in Goroutines |-> Idle]
      /\ queue' = <<>> /\ disabled' = FALSE
      /\ token' = FALSE /\ reload' = NotReloading /\ missed' = FALSE
      /\ alerted' = [k \in DOMAIN alerted |->
           IF rows[k] # NoRecord /\ stored[k[1]] = "enabled" /\ rows[k].fired = alerted[k]
           THEN alerted[k] ELSE 0]
      /\ announced' = {a \in Aircraft : rows[<<Emergency, a>>] # NoRecord
                                          /\ rows[<<Emergency, a>>].active}
      /\ settled' = {}
  BY DEF Restart
<1>2. Enabled \subseteq Rules /\ Enabled' = Enabled
  BY <1>1 DEF Enabled, BuildIndex, AllWatchRules
<1>3. /\ \A k \in Rules \X Aircraft : k \in Keys /\ k[1] # Emergency
      /\ \A a \in Aircraft : <<Emergency, a>> \in Keys
  BY RuleAssumption DEF Keys, RuleAssumption
<1>4. /\ states' \in [Rules \X Aircraft -> Records \cup {NoRecord}]
      /\ emergencies' \in [Aircraft -> Records \cup {NoRecord}]
  <2>1. \A k \in Keys : Restored(k) \in Records \cup {NoRecord}
    BY RestoredRecord
  <2> QED
    BY <1>1, <1>3, <2>1
<1>5. /\ reload' \in [stage : {"idle", "read", "prune"}, loaded : SUBSET Rules,
                      left : SUBSET Scopes]
      /\ reload'.stage = "idle" /\ reload'.loaded = {}
  <2>1. reload' = [stage |-> "idle", loaded |-> {}, left |-> {}]
    BY <1>1 DEF NotReloading
  <2> QED
    BY <2>1
<1>6. alerted' \in [Rules \X Aircraft -> Nat]
  BY <1>1 DEF TypeOK
<1>7. \A t \in Goroutines : job'[t] = Idle /\ Held(t)' = {}
  BY <1>1 DEF Held
<1>8. DOMAIN queue' = {} /\ queue' \in Seq(Updates)
  BY <1>1
<1>9. TypeOK'
  <2>1. DOMAIN job' = Goroutines /\ \A t \in Goroutines : JobOK(job'[t])
    BY <1>1, <1>7 DEF JobOK
  <2>2. token' \in BOOLEAN /\ missed' \in BOOLEAN /\ disabled' \in BOOLEAN
    BY <1>1
  <2>3. announced' \subseteq Aircraft
    BY <1>1
  <2>4. clock' \in Nat /\ stored' \in [Rules -> Statuses] /\ index' \subseteq Rules
        /\ rows' \in [Keys -> AlertStates \cup {NoRecord}]
    BY <1>1, <1>2 DEF TypeOK
  <2> QED
    BY <1>4, <1>5, <1>6, <1>8, <2>1, <2>2, <2>3, <2>4 DEF TypeOK
<1>10. ReloadNotLost' /\ LoadedOK'
  BY <1>1, <1>2, <1>5 DEF ReloadNotLost, LoadedOK
<1>11. EmergencyAnnouncedOnce'
  <2> SUFFICES ASSUME NEW a \in Aircraft
               PROVE  a \in announced' <=> emergencies'[a] # NoRecord /\ emergencies'[a].active
    BY DEF EmergencyAnnouncedOnce
  <2>1. emergencies'[a] = Restored(<<Emergency, a>>) /\ <<Emergency, a>> \in Keys
    BY <1>1, <1>3
  <2>2. a \in announced' <=> rows[<<Emergency, a>>] # NoRecord /\ rows[<<Emergency, a>>].active
    BY <1>1
  <2>3. CASE rows[<<Emergency, a>>] = NoRecord
    <3>1. Restored(<<Emergency, a>>) = NoRecord
      BY <2>3 DEF Restored
    <3> QED
      BY <2>1, <2>2, <2>3, <3>1
  <2>4. CASE rows[<<Emergency, a>>] # NoRecord
    <3>1. Restored(<<Emergency, a>>) # NoRecord
      <4>1. PICK row \in AlertStates : row = rows[<<Emergency, a>>]
        BY <2>1, <2>4 DEF TypeOK
      <4>2. /\ row.active \in BOOLEAN /\ row.count \in Nat /\ row.fired \in Nat
            /\ row.cleared \in Nat
        BY DEF AlertStates
      <4>3. PICK at \in Nat : at = IF row.fired > row.cleared THEN row.fired ELSE row.cleared
        BY <4>2
      <4>4. Restored(<<Emergency, a>>) =
              [active |-> row.active, count |-> row.count, fired |-> row.fired,
               cleared |-> row.cleared, at |-> at]
        BY <2>4, <4>1, <4>3 DEF Restored
      <4> QED
        BY <4>2, <4>4, MadeRecord, NoRecordAssumption DEF NoRecordAssumption
    <3>2. Restored(<<Emergency, a>>).active = rows[<<Emergency, a>>].active
      BY <2>1, <3>1, RestoredRecord
    <3> QED
      BY <2>1, <2>2, <2>4, <3>1, <3>2
  <2> QED
    BY <2>3, <2>4
<1>12. AlertedOK'
  <2> SUFFICES ASSUME NEW k \in Rules \X Aircraft, alerted'[k] # 0
               PROVE  states'[k] # NoRecord /\ states'[k].fired = alerted'[k]
    BY DEF AlertedOK
  <2>1. alerted'[k] = alerted[k] /\ rows[k] # NoRecord /\ stored[k[1]] = "enabled"
          /\ rows[k].fired = alerted[k]
    BY <1>1 DEF TypeOK
  <2>2. states'[k] = Restored(k) /\ k \in Keys
    BY <1>1, <1>3
  <2>3. PICK row \in AlertStates : row = rows[k]
    BY <2>1, <2>2 DEF TypeOK
  <2>4. /\ row.active \in BOOLEAN /\ row.count \in Nat /\ row.fired \in Nat
        /\ row.cleared \in Nat
    BY DEF AlertStates
  <2>5. PICK at \in Nat : at = IF row.fired > row.cleared THEN row.fired ELSE row.cleared
    BY <2>4
  <2>6. Restored(k) = [active |-> row.active, count |-> row.count, fired |-> row.fired,
                       cleared |-> row.cleared, at |-> at]
    BY <2>1, <2>3, <2>5 DEF Restored
  <2>7. Restored(k) # NoRecord
    BY <2>4, <2>6, MadeRecord, NoRecordAssumption DEF NoRecordAssumption
  <2> QED
    BY <2>1, <2>2, <2>7, RestoredRecord
<1>13. StaleRuleStateCleared'
  BY <1>1 DEF StaleRuleStateCleared
<1>14. BatchOK' /\ OneHolder'
  BY <1>7, <1>8 DEF BatchOK, OneHolder, Holds
<1>15. NewOK'
  <2> SUFFICES ASSUME NEW r \in Rules, stored'[r] = "new"
               PROVE  /\ r \notin index' /\ r \notin reload'.loaded
                      /\ \A a \in Aircraft : states'[<<r, a>>] = NoRecord
    BY <1>7 DEF NewOK
  <2>1. stored[r] = "new"
    BY <1>1
  <2>2. r \notin index'
    BY <1>1, <2>1 DEF Enabled, BuildIndex, AllWatchRules
  <2>3. ASSUME NEW a \in Aircraft PROVE states'[<<r, a>>] = NoRecord
    <3>1. <<r, a>> \in Keys /\ r # Emergency
      BY RuleAssumption DEF Keys, RuleAssumption
    <3>2. Restored(<<r, a>>) = NoRecord
      BY <2>1, <3>1, RestoredRecord
    <3> QED
      BY <1>1, <3>2
  <2> QED
    BY <1>5, <2>2, <2>3
<1>16. Current'
  <2> SUFFICES ASSUME NEW k \in Keys, Tracked(k)'
               PROVE  Last(k, AlertState(Live(k)))'
    BY DEF Current
  <2>1. \/ k \in Rules \X Aircraft /\ k[1] # Emergency
        \/ k[1] = Emergency /\ k[2] \in Aircraft /\ k = <<Emergency, k[2]>>
    <3>1. k = <<k[1], k[2]>> /\ k[1] \in Rules \cup {Emergency} /\ k[2] \in Aircraft
      BY DEF Keys
    <3>2. k[1] \in Rules => k \in Rules \X Aircraft
      BY <3>1
    <3> QED
      BY <1>3, <3>1, <3>2
  <2>2. Live(k)' = Restored(k)
    BY <1>1, <2>1 DEF Live
  <2>3. Restored(k) # NoRecord
    BY <2>2 DEF Tracked
  <2>4. rows[k] # NoRecord /\ AlertState(Restored(k)) = rows[k]
    BY <2>3, RestoredRecord
  <2>5. PICK rec : rec = Restored(k)
    OBVIOUS
  <2>6. Live(k)' = rec /\ AlertState(rec) = rows[k]
    BY <2>2, <2>4, <2>5
  <2>7. AlertState(Live(k))' = rows[k]
    BY <2>6 DEF AlertState
  <2>8. PICK v : v = rows[k] /\ v = AlertState(Live(k))'
    BY <2>7
  <2>9. InRows(k, v)'
    BY <1>1, <2>4, <2>8 DEF InRows
  <2>10. NoJob(k)' /\ NoQueue(k)'
    BY <1>7, <1>8 DEF NoJob, Holds, NoQueue
  <2>11. Last(k, v)'
    BY <2>9, <2>10 DEF Last
  <2> QED
    BY <2>8, <2>11 DEF Last, InJob, InQueue, InRows
<1> QED
  BY <1>9, <1>10, <1>11, <1>12, <1>13, <1>14, <1>15, <1>16 DEF Persisted

-----------------------------------------------------------------------------
(* The steps of the evaluators.                                            *)

LEMMA EvaluateEnrichmentStep ==
  ASSUME IInv, NEW w \in Workers, NEW s \in Scopes, NEW a \in Aircraft,
         NEW found, EvaluateEnrichment(w, s, a, found)
  PROVE  IInv'
<1> USE DEF IInv
<1> DEFINE j == [stage |-> "scope", index |-> index, aircraft |-> a, found |-> found,
                 now |-> clock + 1, scope |-> s, updates |-> {}]
<1>1. /\ job[w] = Idle /\ clock' = clock + 1 /\ job' = [job EXCEPT ![w] = j]
      /\ UNCHANGED <<stored, token, reload, missed, index, states, seen,
                     emergencies, queue, disabled, rows, changes, alerted, announced,
                     raced, dropped, settled>>
  BY DEF EvaluateEnrichment
<1>2. /\ j # Idle /\ j.stage = "scope" /\ j.index = index /\ j.updates = {}
      /\ j.now = clock + 1 /\ j.scope = s
  BY DEF Idle
<1>3. JobOK(j)
  BY <1>2 DEF JobOK, TypeOK, Single
<1> HIDE DEF j
<1>4. w \in Goroutines /\ DOMAIN job' = Goroutines /\ job'[w] = j
      /\ \A o \in Goroutines : o # w => job'[o] = job[o]
  BY <1>1 DEF Goroutines, TypeOK
<1>5. TypeOK'
  <2>1. \A t \in Goroutines : JobOK(job'[t])
    BY <1>3, <1>4 DEF TypeOK
  <2>2. clock' \in Nat
    BY <1>1 DEF TypeOK
  <2> QED
    BY <1>1, <1>4, <2>1, <2>2 DEF TypeOK
<1>6. OneHolder' /\ Current'
  <2>1. Held(w) = {} /\ Held(w)' = {}
    BY <1>1, <1>2, <1>4 DEF Held
  <2>2. PICK U : U = {}
    OBVIOUS
  <2>3. Raced(w, U) = raced
    BY <2>2 DEF Raced, Overlap
  <2>4. \A k \in Keys : Tracked(k)' =>
          /\ Tracked(k) /\ AlertState(Live(k))' = AlertState(Live(k))
          /\ \A u \in U : u[1] # k
    BY <1>1, <2>2 DEF Tracked, Live, AlertState
  <2> QED
    BY <1>1, <1>4, <2>1, <2>2, <2>3, <2>4, HandOver DEF Persisted
<1>7. BatchOK' /\ NewOK'
  <2>1. BatchOK'
    BY <1>1, KeepBatch DEF Persisted
  <2>2. NewOK'
    BY <1>1, <1>2, <1>4 DEF Persisted, NewOK
  <2> QED
    BY <2>1, <2>2
<1>8. ReloadNotLost' /\ LoadedOK' /\ EmergencyAnnouncedOnce' /\ AlertedOK' /\ StaleRuleStateCleared'
  BY <1>1, KeepReload, KeepEmergency, KeepAlerted, KeepStale
<1> QED
  BY <1>5, <1>6, <1>7, <1>8 DEF Persisted

\* evaluateEmergency: the record is active exactly while the emergency lasts.
LEMMA EmergencyFollows ==
  ASSUME TypeOK, EmergencyAnnouncedOnce, NEW a \in Aircraft, NEW s, NEW snap, NEW now \in Nat,
         NEW new, new = EmergencyAfter(a, s, snap, now)
  PROVE  /\ new \in Records \cup {NoRecord}
         /\ emergencies[a] # NoRecord => new # NoRecord
         /\ new # NoRecord /\ new.active <=>
              (IF snap[a] = NotSeen THEN a \in announced
               ELSE snap[a].emergency \/ (a \in announced /\ s \notin Authority))
<1>1. PICK old \in Records \cup {NoRecord} : old = emergencies[a]
  BY DEF TypeOK
<1>2. a \in announced <=> old # NoRecord /\ old.active
  BY <1>1 DEF EmergencyAnnouncedOnce
<1>3. CASE snap[a] = NotSeen
  <2>1. new = old
    BY <1>1, <1>3 DEF EmergencyAfter
  <2> QED
    BY <1>1, <1>2, <1>3, <2>1
<1>4. CASE snap[a] # NotSeen /\ ~snap[a].emergency /\ (old = NoRecord \/ s \notin Authority)
  <2>1. new = old
    BY <1>1, <1>4 DEF EmergencyAfter
  <2>2. CASE old = NoRecord
    BY <1>1, <1>2, <1>4, <2>1, <2>2
  <2>3. CASE s \notin Authority
    BY <1>1, <1>2, <1>4, <2>1, <2>3
  <2> QED
    BY <1>4, <2>2, <2>3
<1>5. CASE snap[a] # NotSeen /\ snap[a].emergency /\ (old = NoRecord \/ ~old.active)
  <2>1. new = [active |-> TRUE, count |-> 1, fired |-> now, cleared |-> 0, at |-> now]
    BY <1>1, <1>5 DEF EmergencyAfter
  <2>2. new \in Records
    <3>1. 1 \in Nat /\ 0 \in Nat /\ TRUE \in BOOLEAN
      OBVIOUS
    <3> QED
      BY <2>1, <3>1, MadeRecord
  <2>3. new.active
    BY <2>1
  <2> QED
    BY <1>5, <2>2, <2>3, RecordFields
<1>6. CASE snap[a] # NotSeen /\ snap[a].emergency /\ old # NoRecord /\ old.active
  <2>1. old \in Records
    BY <1>6
  <2>2. new = [old EXCEPT !.at = now]
    BY <1>1, <1>6 DEF EmergencyAfter
  <2>3. new \in Records /\ new.active
    BY <1>6, <2>1, <2>2 DEF Records
  <2> QED
    BY <1>6, <2>3, RecordFields
<1>7. CASE snap[a] # NotSeen /\ ~snap[a].emergency /\ old # NoRecord /\ s \in Authority
  <2>1. old \in Records
    BY <1>7
  <2>2. new = IF old.active
              THEN [old EXCEPT !.active = FALSE, !.count = 0, !.cleared = now, !.at = now]
              ELSE [old EXCEPT !.at = now]
    BY <1>1, <1>7 DEF EmergencyAfter
  <2>3. new \in Records /\ ~new.active
    <3>1. CASE old.active
      <4>1. new = [active |-> FALSE, count |-> 0, fired |-> old.fired, cleared |-> now, at |-> now]
        <5>1. new = [old EXCEPT !.active = FALSE, !.count = 0, !.cleared = now, !.at = now]
          BY <2>2, <3>1
        <5> QED
          BY <2>1, <5>1 DEF Records
      <4>2. new \in Records
        <5>1. 0 \in Nat /\ FALSE \in BOOLEAN /\ old.fired \in Nat
          BY <2>1, RecordFields
        <5> QED
          BY <4>1, <5>1, MadeRecord
      <4>3. ~new.active
        BY <4>1
      <4> QED
        BY <4>2, <4>3
    <3>2. CASE ~old.active
      <4>1. new = [old EXCEPT !.at = now]
        BY <2>2, <3>2
      <4> QED
        BY <2>1, <3>2, <4>1 DEF Records
    <3> QED
      BY <3>1, <3>2
  <2> QED
    BY <1>7, <2>3, RecordFields
<1> QED
  BY <1>3, <1>4, <1>5, <1>6, <1>7

LEMMA EvaluateStep ==
  ASSUME IInv, NEW t \in Threads, NEW snap, NEW prune \in BOOLEAN, Evaluate(t, snap, prune)
  PROVE  IInv'
<1> USE DEF IInv
<1>1. PICK now \in Nat : now = clock + 1
  BY DEF TypeOK
<1>2. PICK s : s = ThreadScope[t]
  OBVIOUS
<1>3. PICK after : after = [a \in Aircraft |-> EmergencyAfter(a, s, snap, now)]
  OBVIOUS
<1>4. PICK changed : changed = {a \in Aircraft : after[a] # NoRecord /\
         (emergencies[a] = NoRecord \/ AlertState(after[a]) # AlertState(emergencies[a]))}
  OBVIOUS
<1>5. PICK expired : expired = {a \in Aircraft : after[a] # NoRecord /\ ~after[a].active
                                                   /\ after[a].at + StateRetention < now}
  OBVIOUS
<1>6. PICK U : U = {<<<<Emergency, a>>, AlertState(after[a])>> : a \in changed}
  OBVIOUS
<1>7. PICK j : j = [stage |-> "scope", index |-> index, now |-> now, scope |-> s,
                    snap |-> [a \in Aircraft |-> Relevant(snap[a], s)], updates |-> U]
  OBVIOUS
<1>8. /\ job[t] = Idle /\ clock' = now
      /\ emergencies' = [a \in Aircraft |-> IF prune /\ a \in expired THEN NoRecord ELSE after[a]]
      /\ announced' = {a \in Aircraft :
           IF snap[a] = NotSeen THEN a \in announced
           ELSE snap[a].emergency \/ (a \in announced /\ s \notin Authority)}
      /\ raced' = Raced(t, U)
      /\ job' = [job EXCEPT ![t] = j]
      /\ UNCHANGED <<stored, token, reload, missed, index, states, seen, queue,
                     disabled, rows, changes, alerted, dropped, settled>>
  BY <1>1, <1>2, <1>3, <1>4, <1>5, <1>6, <1>7 DEF Evaluate
<1>9. ASSUME NEW a \in Aircraft
      PROVE  /\ after[a] \in Records \cup {NoRecord}
             /\ emergencies[a] # NoRecord => after[a] # NoRecord
             /\ after[a] # NoRecord /\ after[a].active <=> a \in announced'
  <2>1. after[a] = EmergencyAfter(a, s, snap, now)
    BY <1>3
  <2>2. /\ after[a] \in Records \cup {NoRecord}
        /\ emergencies[a] # NoRecord => after[a] # NoRecord
        /\ after[a] # NoRecord /\ after[a].active <=>
             (IF snap[a] = NotSeen THEN a \in announced
              ELSE snap[a].emergency \/ (a \in announced /\ s \notin Authority))
    BY <2>1, EmergencyFollows
  <2> QED
    BY <1>8, <2>2
<1>10. /\ U \subseteq Updates /\ Single(U)
       /\ \A u \in U : u[1][1] = Emergency
       /\ \A a \in Aircraft : (\E u \in U : u[1] = <<Emergency, a>>) => a \in changed
  <2>1. \A a \in changed : a \in Aircraft /\ AlertState(after[a]) \in AlertStates
    BY <1>4, <1>9, RecordFields
  <2>2. \A a \in changed : <<Emergency, a>> \in Keys
    BY <2>1 DEF Keys
  <2>3. U \subseteq Updates
    BY <1>6, <2>1, <2>2 DEF Updates
  <2>4. \A u \in U : u[1][1] = Emergency
    BY <1>6
  <2>5. Single(U)
    BY <1>6 DEF Single
  <2>6. \A a \in Aircraft : (\E u \in U : u[1] = <<Emergency, a>>) => a \in changed
    BY <1>6
  <2> QED
    BY <2>3, <2>4, <2>5, <2>6
<1>11. /\ j # Idle /\ j.stage = "scope" /\ j.index = index /\ j.updates = U
       /\ j.now = now /\ j.scope = s
  BY <1>7 DEF Idle
<1>12. s \in Scopes
  BY <1>2, RuleAssumption DEF RuleAssumption
<1>13. JobOK(j)
  BY <1>10, <1>11, <1>12 DEF JobOK, TypeOK
<1>14. t \in Goroutines /\ DOMAIN job' = Goroutines /\ job'[t] = j
       /\ \A o \in Goroutines : o # t => job'[o] = job[o]
  BY <1>8 DEF Goroutines, TypeOK
<1>15. /\ emergencies' \in [Aircraft -> Records \cup {NoRecord}]
       /\ \A a \in Aircraft : \/ emergencies'[a] = after[a]
                              \/ emergencies'[a] = NoRecord /\ a \in expired
  BY <1>8, <1>9
<1>16. TypeOK'
  <2>1. \A o \in Goroutines : JobOK(job'[o])
    BY <1>13, <1>14 DEF TypeOK
  <2>2. announced' \subseteq Aircraft /\ clock' \in Nat
    BY <1>8
  <2> QED
    BY <1>8, <1>14, <1>15, <2>1, <2>2 DEF TypeOK
<1>17. EmergencyAnnouncedOnce'
  <2> SUFFICES ASSUME NEW a \in Aircraft
               PROVE  a \in announced' <=> emergencies'[a] # NoRecord /\ emergencies'[a].active
    BY DEF EmergencyAnnouncedOnce
  <2>1. CASE emergencies'[a] = after[a]
    BY <1>9, <2>1
  <2>2. CASE emergencies'[a] = NoRecord /\ a \in expired
    <3>1. after[a] # NoRecord /\ ~after[a].active
      BY <1>5, <2>2
    <3> QED
      BY <1>9, <2>2, <3>1
  <2> QED
    BY <1>15, <2>1, <2>2
<1>18. OneHolder' /\ Current'
  <2>1. Held(t) = {} /\ Held(t)' = U
    BY <1>8, <1>11, <1>14 DEF Held
  <2>2. \A u \in U : ~Holds(t, u[1])
    BY <2>1 DEF Holds
  <2>3. ASSUME NEW k \in Keys, Tracked(k)'
        PROVE  \/ <<k, AlertState(Live(k))'>> \in U
               \/ /\ Tracked(k) /\ AlertState(Live(k))' = AlertState(Live(k))
                  /\ \A u \in U : u[1] # k
    <3>1. CASE k[1] # Emergency
      <4>1. Live(k)' = Live(k)
        BY <1>8, <3>1 DEF Live
      <4>2. AlertState(Live(k))' = AlertState(Live(k))
        BY <4>1 DEF AlertState
      <4>3. Tracked(k)
        BY <1>8, <2>3, <4>1 DEF Tracked
      <4>4. \A u \in U : u[1] # k
        BY <1>10, <3>1
      <4> QED
        BY <4>2, <4>3, <4>4
    <3>2. CASE k[1] = Emergency
      <4>1. PICK a \in Aircraft : k = <<Emergency, a>> /\ a = k[2]
        BY <3>2 DEF Keys
      <4>2. Live(k)' = emergencies'[a] /\ Live(k) = emergencies[a]
        BY <3>2, <4>1 DEF Live
      <4>3. emergencies'[a] = after[a] /\ after[a] # NoRecord
        BY <1>15, <2>3, <4>2 DEF Tracked
      <4>4. PICK v : v = AlertState(after[a]) /\ v = AlertState(Live(k))'
        BY <4>2, <4>3 DEF AlertState
      <4>5. CASE a \in changed
        <5>1. <<k, v>> \in U
          BY <1>6, <4>1, <4>4, <4>5
        <5> QED
          BY <4>4, <5>1
      <4>6. CASE a \notin changed
        <5>1. emergencies[a] # NoRecord /\ v = AlertState(emergencies[a])
          BY <1>4, <4>3, <4>4, <4>6
        <5>2. \A u \in U : u[1] # k
          BY <1>10, <4>1, <4>6
        <5>3. Tracked(k) /\ v = AlertState(Live(k))
          BY <3>2, <4>2, <5>1 DEF Tracked
        <5> QED
          BY <4>4, <5>2, <5>3
      <4> QED
        BY <4>5, <4>6
    <3> QED
      BY <3>1, <3>2
  <2> QED
    BY <1>8, <1>14, <2>1, <2>2, <2>3, HandOver DEF Persisted
<1>19. BatchOK' /\ NewOK'
  <2>1. BatchOK'
    BY <1>8, KeepBatch DEF Persisted
  <2>2. NewOK'
    BY <1>8, <1>11, <1>14 DEF Persisted, NewOK
  <2> QED
    BY <2>1, <2>2
<1>20. ReloadNotLost' /\ LoadedOK' /\ AlertedOK' /\ StaleRuleStateCleared'
  BY <1>8, KeepReload, KeepAlerted, KeepStale
<1> QED
  BY <1>16, <1>17, <1>18, <1>19, <1>20 DEF Persisted

\* What a cooldown asks of a step.
Cooled ==
  \A k \in Rules \X Aircraft :
    alerted[k] # 0 /\ alerted'[k] \notin {0, alerted[k]}
      => alerted'[k] - alerted[k] >= Cooldown[k[1]]

\* The section under a scope's mutex, whatever records it leaves that follow
\* from the ones it found.
LEMMA LockStep ==
  ASSUME IInv, NEW t \in Goroutines, NEW j, j = job[t], j.stage = "scope",
         NEW recs, NEW kept, AllFollow(recs, j.index, j.scope, j.now),
         UnderScopeLock(t, recs, kept)
  PROVE  /\ TypeOK' /\ ReloadNotLost' /\ LoadedOK' /\ EmergencyAnnouncedOnce' /\ AlertedOK'
         /\ Persisted' /\ Cooled
         /\ \A k \in Rules \X Aircraft : states'[k] = recs[k] \/ states'[k] = NoRecord
<1> USE DEF IInv
<1>0. /\ recs \in [Rules \X Aircraft -> Records \cup {NoRecord}]
      /\ \A k \in Rules \X Aircraft :
           /\ Follows(states[k], recs[k], k[1], j.now)
           /\ k[1] \notin j.index /\ states[k] = NoRecord => recs[k] = NoRecord
           /\ ScopeOf[k[1]] # j.scope => recs[k] = states[k]
  BY DEF AllFollow
<1>1. PICK U : U = {<<k, AlertState(recs[k])>> : k \in Changed(recs)}
  OBVIOUS
<1>2. PICK J : J = IF j.updates \cup U = {} THEN Idle
                   ELSE [stage |-> "save", updates |-> j.updates \cup U]
  OBVIOUS
<1>3. DOMAIN recs = Rules \X Aircraft /\ DOMAIN alerted = Rules \X Aircraft
  BY <1>0 DEF TypeOK
<1>4. /\ states' = [k \in Rules \X Aircraft |->
                      IF ScopeOf[k[1]] = j.scope /\ k \notin kept THEN NoRecord ELSE recs[k]]
      /\ job' = [job EXCEPT ![t] = J]
      /\ alerted' = [k \in Rules \X Aircraft |->
           IF ScopeOf[k[1]] = j.scope /\ k \notin kept THEN 0
           ELSE IF k \in Fired(recs, j.now) THEN j.now ELSE alerted[k]]
      /\ raced' = Raced(t, U)
      /\ UNCHANGED <<clock, stored, token, reload, missed, index, emergencies,
                     queue, disabled, rows, changes, announced, dropped>>
  BY <1>1, <1>2, <1>3 DEF UnderScopeLock
<1>5. /\ j # Idle /\ j.now \in Nat /\ j.index \subseteq Rules /\ j.updates \subseteq Updates
      /\ Single(j.updates) /\ \A u \in j.updates : u[1][1] = Emergency
  <2>1. JobOK(j) /\ j # Idle
    BY DEF TypeOK, Idle
  <2>2. j.stage # "save"
    OBVIOUS
  <2> QED
    BY <2>1, <2>2 DEF JobOK
<1>6. \A k \in Rules \X Aircraft : k \in Keys /\ k[1] \in Rules /\ k[1] # Emergency
  BY RuleAssumption DEF Keys, RuleAssumption
<1>7. /\ \A k \in Changed(recs) : k \in Rules \X Aircraft /\ recs[k] \in Records
      /\ \A k \in Rules \X Aircraft : k \notin Changed(recs) /\ recs[k] # NoRecord =>
           states[k] # NoRecord /\ AlertState(recs[k]) = AlertState(states[k])
  BY <1>0 DEF Changed
<1>8. /\ U \subseteq Updates /\ Single(U) /\ \A u \in U : u[1] \in Changed(recs)
      /\ \A k \in Changed(recs) : <<k, AlertState(recs[k])>> \in U
  <2>1. \A k \in Changed(recs) : k \in Keys /\ AlertState(recs[k]) \in AlertStates
    BY <1>6, <1>7, RecordFields
  <2>2. U \subseteq Updates
    BY <1>1, <2>1 DEF Updates
  <2>3. Single(U)
    BY <1>1 DEF Single
  <2>4. /\ \A u \in U : u[1] \in Changed(recs)
        /\ \A k \in Changed(recs) : <<k, AlertState(recs[k])>> \in U
    BY <1>1
  <2> QED
    BY <2>2, <2>3, <2>4
<1>9. \A u \in U : u[1] \in Rules \X Aircraft /\ u[1][1] # Emergency
  BY <1>6, <1>7, <1>8
<1>10. DOMAIN job' = Goroutines /\ job'[t] = J
       /\ \A o \in Goroutines : o # t => job'[o] = job[o]
  BY <1>4 DEF TypeOK
<1>11. JobOK(J) /\ (J # Idle => J.stage = "save") /\ Held(t) = j.updates
       /\ Held(t)' = j.updates \cup U
  <2>1. Held(t) = j.updates
    BY <1>5 DEF Held
  <2>2. CASE j.updates \cup U = {}
    <3>1. J = Idle
      BY <1>2, <2>2
    <3> QED
      BY <1>10, <2>1, <2>2, <3>1 DEF JobOK, Held
  <2>3. CASE j.updates \cup U # {}
    <3>1. J = [stage |-> "save", updates |-> j.updates \cup U]
      BY <1>2, <2>3
    <3>2. J.stage = "save" /\ J.updates = j.updates \cup U /\ J # Idle
      BY <3>1 DEF Idle
    <3>3. Single(j.updates \cup U)
      BY <1>5, <1>8, <1>9 DEF Single
    <3>4. JobOK(J)
      BY <1>5, <1>8, <3>2, <3>3 DEF JobOK
    <3> QED
      BY <1>10, <2>1, <3>2, <3>4 DEF Held
  <2> QED
    BY <2>2, <2>3
<1>12. \A k \in Rules \X Aircraft :
         \/ states'[k] = NoRecord /\ alerted'[k] = 0
         \/ /\ states'[k] = recs[k]
            /\ alerted'[k] = IF k \in Fired(recs, j.now) THEN j.now ELSE alerted[k]
  BY <1>4
<1>13. /\ states' \in [Rules \X Aircraft -> Records \cup {NoRecord}]
       /\ alerted' \in [Rules \X Aircraft -> Nat]
  BY <1>0, <1>4, <1>5 DEF TypeOK
<1>14. TypeOK'
  <2>1. \A o \in Goroutines : JobOK(job'[o])
    BY <1>10, <1>11 DEF TypeOK
  <2> QED
    BY <1>4, <1>10, <1>13, <2>1 DEF TypeOK
<1>15. ASSUME NEW k \in Rules \X Aircraft, alerted[k] # 0
       PROVE  /\ states[k] # NoRecord /\ states[k] \in Records /\ states[k].fired = alerted[k]
              /\ recs[k] # NoRecord /\ recs[k] \in Records
              /\ recs[k].fired = alerted[k] \/ k \in Fired(recs, j.now)
              /\ k \in Fired(recs, j.now) => j.now - alerted[k] >= Cooldown[k[1]]
  <2>1. states[k] # NoRecord /\ states[k].fired = alerted[k]
    BY <1>15 DEF AlertedOK
  <2>2. states[k] \in Records
    BY <2>1 DEF TypeOK
  <2>3. Follows(states[k], recs[k], k[1], j.now)
    BY <1>0
  <2>4. recs[k] # NoRecord /\ recs[k] \in Records
    BY <2>1, <2>3 DEF Follows
  <2>5. ASSUME recs[k].fired # states[k].fired PROVE k \in Fired(recs, j.now)
    <3>1. recs[k].active /\ recs[k].fired = j.now /\ AlertState(recs[k]) # AlertState(states[k])
      BY <2>1, <2>3, <2>5 DEF Follows
    <3> QED
      BY <2>4, <3>1 DEF Fired, Changed
  <2>6. ASSUME k \in Fired(recs, j.now) PROVE j.now - alerted[k] >= Cooldown[k[1]]
    <3>1. recs[k].active /\ recs[k].fired = j.now /\ AlertState(recs[k]) # AlertState(states[k])
      BY <2>1, <2>6 DEF Fired, Changed
    <3>2. states[k].fired = 0 \/ j.now - states[k].fired >= Cooldown[k[1]]
      BY <2>1, <2>3, <3>1 DEF Follows
    <3> QED
      BY <1>15, <2>1, <3>2
  <2> QED
    BY <2>1, <2>2, <2>4, <2>5, <2>6
<1>16. AlertedOK'
  <2> SUFFICES ASSUME NEW k \in Rules \X Aircraft, alerted'[k] # 0
               PROVE  states'[k] # NoRecord /\ states'[k].fired = alerted'[k]
    BY DEF AlertedOK
  <2>1. states'[k] = recs[k]
          /\ alerted'[k] = IF k \in Fired(recs, j.now) THEN j.now ELSE alerted[k]
    BY <1>12
  <2>2. CASE k \in Fired(recs, j.now)
    <3>1. recs[k] # NoRecord /\ recs[k].fired = j.now
      BY <2>2 DEF Fired, Changed
    <3> QED
      BY <2>1, <2>2, <3>1
  <2>3. CASE k \notin Fired(recs, j.now)
    BY <1>15, <2>1, <2>3
  <2> QED
    BY <2>2, <2>3
<1>17. Cooled
  <2> SUFFICES ASSUME NEW k \in Rules \X Aircraft, alerted[k] # 0,
                      alerted'[k] # 0, alerted'[k] # alerted[k]
               PROVE  alerted'[k] - alerted[k] >= Cooldown[k[1]]
    BY DEF Cooled
  <2>1. k \in Fired(recs, j.now) /\ alerted'[k] = j.now
    BY <1>12
  <2> QED
    BY <1>15, <2>1
<1>18. ReloadNotLost' /\ LoadedOK' /\ EmergencyAnnouncedOnce'
  BY <1>4, KeepReload, KeepEmergency
<1>19. BatchOK'
  BY <1>4, KeepBatch DEF Persisted
<1>20. NewOK'
  <2> SUFFICES ASSUME NEW r \in Rules, stored'[r] = "new"
               PROVE  /\ r \notin index' /\ r \notin reload'.loaded
                      /\ \A o \in Goroutines : job'[o] # Idle /\ job'[o].stage = "scope" =>
                           r \notin job'[o].index
                      /\ \A a \in Aircraft : states'[<<r, a>>] = NoRecord
    BY DEF NewOK
  <2>1. stored[r] = "new"
    BY <1>4
  <2>2. /\ r \notin index /\ r \notin reload.loaded /\ r \notin j.index
        /\ \A o \in Goroutines : job[o] # Idle /\ job[o].stage = "scope" => r \notin job[o].index
        /\ \A a \in Aircraft : states[<<r, a>>] = NoRecord
    BY <1>5, <2>1 DEF Persisted, NewOK
  <2>3. \A o \in Goroutines : job'[o] # Idle /\ job'[o].stage = "scope" => r \notin job'[o].index
    BY <1>10, <1>11, <2>2
  <2>4. ASSUME NEW a \in Aircraft PROVE states'[<<r, a>>] = NoRecord
    <3>1. PICK k : k = <<r, a>>
      OBVIOUS
    <3>2. k \in Rules \X Aircraft /\ k[1] = r
      BY <3>1
    <3>3. recs[k] = NoRecord
      BY <1>0, <2>2, <3>1, <3>2
    <3> QED
      BY <1>12, <3>1, <3>2, <3>3
  <2> QED
    BY <1>4, <2>2, <2>3, <2>4
<1>21. OneHolder' /\ Current'
  <2>1. \A u \in U : ~Holds(t, u[1])
    BY <1>5, <1>9, <1>11 DEF Holds
  <2>2. ASSUME NEW k \in Keys, Tracked(k)'
        PROVE  \/ <<k, AlertState(Live(k))'>> \in U
               \/ /\ Tracked(k) /\ AlertState(Live(k))' = AlertState(Live(k))
                  /\ \A u \in U : u[1] # k
    <3>1. CASE k[1] = Emergency
      <4>1. Live(k)' = Live(k)
        BY <1>4, <3>1 DEF Live
      <4>2. AlertState(Live(k))' = AlertState(Live(k))
        BY <4>1 DEF AlertState
      <4>3. Tracked(k)
        BY <2>2, <3>1, <4>1 DEF Tracked
      <4>4. \A u \in U : u[1] # k
        BY <1>9, <3>1
      <4> QED
        BY <4>2, <4>3, <4>4
    <3>2. CASE k[1] # Emergency
      <4>1. k \in Rules \X Aircraft
        BY <3>2 DEF Keys
      <4>2. Live(k)' = states'[k] /\ Live(k) = states[k]
        BY <3>2 DEF Live
      <4>3. states'[k] = recs[k] /\ recs[k] # NoRecord
        BY <1>12, <2>2, <4>1, <4>2 DEF Tracked
      <4>4. PICK v : v = AlertState(recs[k]) /\ v = AlertState(Live(k))'
        BY <4>2, <4>3 DEF AlertState
      <4>5. CASE k \in Changed(recs)
        <5>1. <<k, v>> \in U
          BY <1>8, <4>4, <4>5
        <5> QED
          BY <4>4, <5>1
      <4>6. CASE k \notin Changed(recs)
        <5>1. states[k] # NoRecord /\ v = AlertState(states[k])
          BY <1>7, <4>1, <4>3, <4>4, <4>6
        <5>2. \A u \in U : u[1] # k
          BY <1>8, <4>6
        <5>3. stored' = stored
          BY <1>4
        <5>4. Tracked(k) /\ v = AlertState(Live(k))
          BY <2>2, <3>2, <4>2, <5>1, <5>3 DEF Tracked
        <5> QED
          BY <4>4, <5>2, <5>4
      <4> QED
        BY <4>5, <4>6
    <3> QED
      BY <3>1, <3>2
  <2>3. /\ raced' = Raced(t, U) /\ UNCHANGED <<queue, rows, disabled, dropped>>
        /\ Held(t)' = Held(t) \cup U
    BY <1>4, <1>11
  <2> QED
    BY <1>10, <2>1, <2>2, <2>3, HandOver DEF Persisted
<1> QED
  BY <1>12, <1>14, <1>16, <1>17, <1>18, <1>19, <1>20, <1>21 DEF Persisted

LEMMA EvaluateScopeStep ==
  ASSUME IInv, NEW t \in Threads, NEW prune \in BOOLEAN, EvaluateScope(t, prune)
  PROVE  IInv' /\ Cooled
<1> USE DEF IInv
<1>1. PICK j : j = job[t]
  OBVIOUS
<1>2. PICK recs : recs = EvaluatedStates(j.index, j.scope, j.snap, j.now)
  OBVIOUS
<1>3. /\ j.stage = "scope" /\ \E kept : UnderScopeLock(t, recs, kept)
      /\ settled' = IF j.index = index THEN settled \cup {j.scope} ELSE settled \ {j.scope}
  BY <1>1, <1>2 DEF EvaluateScope
<1>4. PICK kept : UnderScopeLock(t, recs, kept)
  BY <1>3
<1>5. t \in Goroutines /\ j.now \in Nat
  <2>1. t \in Goroutines
    BY DEF Goroutines
  <2>2. JobOK(j) /\ j # Idle /\ j.stage # "save"
    BY <1>1, <1>3, <2>1 DEF TypeOK, Idle
  <2> QED
    BY <2>1, <2>2 DEF JobOK
<1>6. AllFollow(recs, j.index, j.scope, j.now) /\ Ended(recs, j.index, j.scope)
  BY <1>2, <1>5, EvaluatedFollows
<1>7. /\ TypeOK' /\ ReloadNotLost' /\ LoadedOK' /\ EmergencyAnnouncedOnce' /\ AlertedOK'
      /\ Persisted' /\ Cooled
      /\ \A k \in Rules \X Aircraft : states'[k] = recs[k] \/ states'[k] = NoRecord
  BY <1>1, <1>3, <1>4, <1>5, <1>6, LockStep
<1>8. StaleRuleStateCleared'
  <2> SUFFICES ASSUME NEW k \in Rules \X Aircraft, states'[k] # NoRecord, states'[k].active,
                      k[1] \notin index', ScopeOf[k[1]] \in settled'
               PROVE  Kind[k[1]] = "besteffort"
    BY DEF StaleRuleStateCleared
  <2>1. states'[k] = recs[k] /\ index' = index
    BY <1>4, <1>7 DEF UnderScopeLock
  <2>2. CASE ScopeOf[k[1]] = j.scope
    <3>1. j.index = index
      BY <1>3, <2>2
    <3> QED
      BY <1>6, <2>1, <2>2, <3>1 DEF Ended
  <2>3. CASE ScopeOf[k[1]] # j.scope
    <3>1. ScopeOf[k[1]] \in settled /\ recs[k] = states[k]
      BY <1>3, <1>6, <2>3 DEF AllFollow
    <3> QED
      BY <2>1, <3>1 DEF StaleRuleStateCleared
  <2> QED
    BY <2>2, <2>3
<1> QED
  BY <1>7, <1>8

LEMMA EnrichScopeStep ==
  ASSUME IInv, NEW w \in Workers, EnrichScope(w)
  PROVE  IInv' /\ Cooled
<1> USE DEF IInv
<1>1. PICK j : j = job[w]
  OBVIOUS
<1>2. PICK recs : recs = EnrichedStates(j)
  OBVIOUS
<1>3. /\ j.stage = "scope" /\ UnderScopeLock(w, recs, DOMAIN recs)
      /\ settled' = IF j.index = index THEN settled ELSE settled \ {j.scope}
  BY <1>1, <1>2 DEF EnrichScope, EnrichedStates
<1>4. PICK kept : kept = DOMAIN recs /\ UnderScopeLock(w, recs, kept)
  BY <1>3
<1>5. w \in Goroutines /\ j.now \in Nat
  <2>1. w \in Goroutines
    BY DEF Goroutines
  <2>2. JobOK(j) /\ j # Idle /\ j.stage # "save"
    BY <1>1, <1>3, <2>1 DEF TypeOK, Idle
  <2> QED
    BY <2>1, <2>2 DEF JobOK
<1>6. /\ AllFollow(recs, j.index, j.scope, j.now)
      /\ \A k \in Rules \X Aircraft : k[1] \notin j.index => recs[k] = states[k]
  BY <1>2, <1>5, EnrichedFollows
<1>7. /\ TypeOK' /\ ReloadNotLost' /\ LoadedOK' /\ EmergencyAnnouncedOnce' /\ AlertedOK'
      /\ Persisted' /\ Cooled
      /\ \A k \in Rules \X Aircraft : states'[k] = recs[k] \/ states'[k] = NoRecord
  BY <1>1, <1>3, <1>4, <1>5, <1>6, LockStep
<1>8. StaleRuleStateCleared'
  <2> SUFFICES ASSUME NEW k \in Rules \X Aircraft, states'[k] # NoRecord, states'[k].active,
                      k[1] \notin index', ScopeOf[k[1]] \in settled'
               PROVE  Kind[k[1]] = "besteffort"
    BY DEF StaleRuleStateCleared
  <2>1. states'[k] = recs[k] /\ index' = index
    BY <1>4, <1>7 DEF UnderScopeLock
  <2>2. ScopeOf[k[1]] \in settled /\ (j.index = index \/ ScopeOf[k[1]] # j.scope)
    BY <1>3
  <2>3. recs[k] = states[k]
    BY <1>6, <2>1, <2>2 DEF AllFollow
  <2> QED
    BY <2>1, <2>2, <2>3 DEF StaleRuleStateCleared
<1> QED
  BY <1>7, <1>8

-----------------------------------------------------------------------------
(* The theorems.                                                           *)

LEMMA StepInv == IInv /\ [Next]_vars => IInv'
<1> SUFFICES ASSUME IInv, [Next]_vars PROVE IInv'
  OBVIOUS
<1>1. ASSUME NEW r \in Rules, HandleWatch(r) PROVE IInv'
  BY <1>1, HandleWatchStep
<1>2. ASSUME NEW r \in Rules, NEW subcommand \in {"enable", "disable", "remove"},
             ChangeWatch(r, subcommand)
      PROVE  IInv'
  BY <1>2, ChangeWatchStep
<1>3. ASSUME NEW ok \in BOOLEAN, ReloadRead(ok) PROVE IInv'
  BY <1>3, ReloadReadStep
<1>4. CASE ReplaceRules
  BY <1>4, ReplaceRulesStep
<1>5. ASSUME NEW s \in Scopes, ReplacePrune(s) PROVE IInv'
  BY <1>5, ReplacePruneStep
<1>6. ASSUME NEW t \in Threads, NEW prune \in BOOLEAN, NEW snap \in Snapshots[t],
             Evaluate(t, snap, prune)
      PROVE  IInv'
  BY <1>6, EvaluateStep
<1>7. ASSUME NEW t \in Threads, NEW prune \in BOOLEAN, EvaluateScope(t, prune) PROVE IInv'
  BY <1>7, EvaluateScopeStep
<1>8. ASSUME NEW w \in Workers, NEW s \in Scopes, NEW a \in Aircraft,
             NEW found \in SUBSET {r \in Rules : Kind[r] = "besteffort"},
             EvaluateEnrichment(w, s, a, found)
      PROVE  IInv'
  BY <1>8, EvaluateEnrichmentStep
<1>9. ASSUME NEW w \in Workers, EnrichScope(w) PROVE IInv'
  BY <1>9, EnrichScopeStep
<1>10. ASSUME NEW t \in Goroutines, Save(t) PROVE IInv'
  BY <1>10, SaveStep
<1>11. CASE ApplyBatch
  BY <1>11, ApplyBatchStep
<1>12. CASE PurgeAlertStates
  BY <1>12, PurgeAlertStatesStep
<1>13. CASE Restart
  BY <1>13, RestartStep
<1>14. CASE UNCHANGED vars
  <2>1. UNCHANGED <<clock, stored, token, reload, missed, index, states, seen, emergencies,
                    job, queue, disabled, rows, changes, alerted, announced, raced, dropped, settled>>
    BY <1>14 DEF vars
  <2>2. ReloadNotLost' /\ LoadedOK' /\ EmergencyAnnouncedOnce' /\ AlertedOK'
          /\ StaleRuleStateCleared'
    BY <2>1, MovedOnly
  <2>3. BatchOK' /\ OneHolder' /\ Current'
          /\ DOMAIN job' = Goroutines /\ \A t \in Goroutines : JobOK(job'[t])
    BY <2>1, UntouchedRecords
  <2>4. TypeOK' /\ NewOK'
    BY <2>1, <2>3 DEF IInv, TypeOK, Persisted, NewOK
  <2> QED
    BY <2>2, <2>3, <2>4 DEF IInv, Persisted
<1> QED
  BY <1>1, <1>2, <1>3, <1>4, <1>5, <1>6, <1>7, <1>8, <1>9, <1>10, <1>11, <1>12, <1>13,
     <1>14 DEF Next

\* The inductive invariant holds in every reachable state.
THEOREM Invariance == Spec => []IInv
  BY InitInv, StepInv, PTL DEF Spec

\* Every reachable state has the types of the code's variables.
THEOREM TypeCorrect == Spec => []TypeOK
<1>1. IInv => TypeOK
  BY DEF IInv
<1> QED
  BY Invariance, <1>1, PTL

\* No emergency is announced twice, whichever scopes report it in whatever
\* order, and across restarts.
THEOREM EmergencyIsAnnouncedOnce == Spec => []EmergencyAnnouncedOnce
<1>1. IInv => EmergencyAnnouncedOnce
  BY DEF IInv
<1> QED
  BY Invariance, <1>1, PTL

\* A change of the rules reaches the index, however it meets a reload that is
\* under way, unless the reload could not read the rules.
THEOREM ReloadIsNotLost == Spec => []ReloadNotLost
<1>1. IInv => ReloadNotLost
  BY DEF IInv
<1> QED
  BY Invariance, <1>1, PTL

\* What an evaluation with an old index leaves is ended by the next evaluation
\* of the scope.
THEOREM StaleRuleStateIsCleared == Spec => []StaleRuleStateCleared
<1>1. IInv => StaleRuleStateCleared
  BY DEF IInv
<1> QED
  BY Invariance, <1>1, PTL

\* When nothing is on its way to the database, the rows say what memory says,
\* except where the writer refused the last update of a record (Enqueue) or two
\* goroutines had unsaved updates of it.
THEOREM RowsAreCurrent == Spec => []RowsCurrent
<1>1. IInv => RowsCurrent
  <2> SUFFICES ASSUME IInv, Settled, NEW k \in DOMAIN rows \ (raced \cup dropped),
                      Live(k) # NoRecord, k[1] = Emergency \/ k[1] \in Enabled
               PROVE  IF rows[k] = NoRecord THEN ~Live(k).active
                      ELSE rows[k] = AlertState(Live(k))
    BY DEF RowsCurrent
  <2>1. k \in Keys \ raced /\ k \notin dropped
    BY DEF IInv, TypeOK
  <2>2. Tracked(k)
    BY DEF Tracked, Enabled, BuildIndex, AllWatchRules
  <2>3. queue = <<>> /\ ~disabled /\ \A t \in Goroutines : job[t] = Idle
    BY DEF Settled
  <2>4. PICK rec : rec = Live(k)
    OBVIOUS
  <2>5. Last(k, AlertState(rec))
    BY <2>1, <2>2, <2>3, <2>4 DEF IInv, Persisted, Current
  <2>6. \A t \in Goroutines : Held(t) = {}
    BY <2>3 DEF Held
  <2>7. DOMAIN queue = {}
    BY <2>3
  <2>8. InRows(k, AlertState(rec))
    BY <2>1, <2>5, <2>6, <2>7 DEF Last, InJob, InQueue
  <2>9. AlertState(rec).active = rec.active
    BY DEF AlertState
  <2> QED
    BY <2>4, <2>8, <2>9 DEF InRows
<1> QED
  BY Invariance, <1>1, PTL

\* The steps that move the time a rule last fired are the ones under a scope's
\* mutex, the reload's and a restart's.
LEMMA CooledStep ==
  ASSUME IInv, [Next]_vars
  PROVE  Cooled
<1> USE DEF IInv
<1>1. ASSUME UNCHANGED alerted PROVE Cooled
  BY <1>1 DEF Cooled
<1>2. ASSUME NEW s \in Scopes, ReplacePrune(s) PROVE Cooled
  <2>1. \A k \in Rules \X Aircraft : alerted'[k] \in {0, alerted[k]}
    BY <1>2 DEF ReplacePrune, TypeOK
  <2> QED
    BY <2>1 DEF Cooled
<1>3. CASE Restart
  <2>1. \A k \in Rules \X Aircraft : alerted'[k] \in {0, alerted[k]}
    BY <1>3 DEF Restart, TypeOK
  <2> QED
    BY <2>1 DEF Cooled
<1>4. ASSUME NEW t \in Threads, NEW prune \in BOOLEAN, EvaluateScope(t, prune) PROVE Cooled
  BY <1>4, EvaluateScopeStep
<1>5. ASSUME NEW w \in Workers, EnrichScope(w) PROVE Cooled
  BY <1>5, EnrichScopeStep
<1>6. \/ UNCHANGED alerted
      \/ \E s \in Scopes : ReplacePrune(s)
      \/ Restart
      \/ \E t \in Threads, prune \in BOOLEAN : EvaluateScope(t, prune)
      \/ \E w \in Workers : EnrichScope(w)
  BY DEF Next, HandleWatch, ChangeWatch, Watches, ReloadRead, ReplaceRules, Evaluate,
     EvaluateEnrichment, Save, ApplyBatch, PurgeAlertStates, vars
<1> QED
  BY <1>1, <1>2, <1>3, <1>4, <1>5, <1>6

\* A rule whose record stands fires again only when its cooldown has passed.
THEOREM CooldownIsKept == Spec => CooldownKept
<1>1. IInv /\ [Next]_vars =>
        [\A k \in Rules \X Aircraft :
           alerted[k] # 0 /\ alerted'[k] \notin {0, alerted[k]}
             => alerted'[k] - alerted[k] >= Cooldown[k[1]]]_vars
  BY CooledStep DEF Cooled
<1> QED
  BY Invariance, <1>1, PTL DEF Spec, CooldownKept
=============================================================================
