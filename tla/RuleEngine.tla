----------------------------- MODULE RuleEngine -----------------------------
(***************************************************************************)
(* The watch-rule engine (internal/rules/engine.go and index.go) with what *)
(* changes its rules and keeps its state: the /watch commands, the reload  *)
(* loop, the writer and the alert-state tables of SQLite.                  *)
(*                                                                         *)
(* An evaluator is a goroutine that evaluates the snapshots of one scope   *)
(* (a feeder or the aggregate); an enrichment worker evaluates one         *)
(* aircraft's metadata.  An evaluation is three steps, because the index   *)
(* is loaded before the scope's mutex is taken and the updates are handed  *)
(* to the writer after it is released.  The emergencies are a map of their *)
(* own, which no rule changes.                                             *)
(*                                                                         *)
(* No operation edits the condition of a stored rule and ids are not used  *)
(* again, so the condition fingerprint is a function of the rule: a record *)
(* with another fingerprint is one of a rule the index does not have.      *)
(* What an observation satisfies is given as the rules it matches and the  *)
(* rules whose exit threshold it is still within.  Times are counted in    *)
(* evaluations, from 1, and 0 is Go's zero time.  The sequence numbers     *)
(* only tell whether a record was touched by the evaluation in progress,   *)
(* and the pruning every 300 evaluations may happen at any.                *)
(***************************************************************************)
EXTENDS Naturals, Sequences, FiniteSets, FiniteSetsExt, Functions

CONSTANTS
  Aircraft,       \* ICAO addresses
  Scopes,         \* feeders and the aggregate
  Authority,      \* the scopes whose snapshots may end an emergency
  Rules,          \* watch rules
  ScopeOf,        \* the feeder scope of each rule
  Kind,           \* "exact", "radius", "altitude", "first", "besteffort"
  Minimum,        \* MinimumObservations of each rule
  Cooldown,       \* Cooldown of each rule
  Threads,        \* evaluators
  ThreadScope,    \* the scope each evaluates
  Workers,        \* enrichment workers
  Snapshots,      \* the snapshots each evaluator may be given
  MinimumSeenRetention, StateRetention, \* for how long pruning keeps them
  SeenCap, StateCap,                    \* and how many
  InitialRules,   \* what may be stored of each rule at the start
  MaxClock, MaxQueue, MaxChanges, NoRecord, NotSeen

Emergency == "emergency"
Statuses == {"new", "enabled", "disabled", "deleted"}

\* What is kept of an alert, in the database and in memory.
AlertStates == [active : BOOLEAN, count : Nat, fired : Nat, cleared : Nat]
Records == [active : BOOLEAN, count : Nat, fired : Nat, cleared : Nat, at : Nat]

ASSUME RuleAssumption ==
  /\ Authority \subseteq Scopes
  /\ ScopeOf \in [Rules -> Scopes] /\ ThreadScope \in [Threads -> Scopes]
  /\ Minimum \in [Rules -> Nat \ {0}] /\ Cooldown \in [Rules -> Nat]
  /\ Emergency \notin Rules
ASSUME StoredAssumption == InitialRules \subseteq [Rules -> Statuses]
ASSUME NoRecordAssumption == NoRecord \notin AlertStates \cup Records

VARIABLES
  clock,     \* the time of the last evaluation
  stored,    \* watch_rules: "new", "enabled", "disabled" or "deleted"
  token,     \* the channel ruleReload holds a request
  reload,    \* the reload loop: rules it has read, scopes it must prune
  missed,    \* a reload could not read the rules and none followed
  index,     \* the rules of the index in force
  states,    \* the record of each rule and aircraft
  seen,      \* when each scope last saw each aircraft
  emergencies, \* the emergency record of each aircraft
  job,       \* what each evaluator and worker is in the middle of
  queue,     \* updates the writer has not applied
  disabled,  \* writer.disabled
  rows,      \* the tables alert_state and system_alert_state
  changes,   \* how often ChangeWatch and Restart have happened
  alerted,   \* history: when a rule last fired and its record still stood
  announced, \* history: aircraft whose emergency was announced and not ended
  raced,     \* history: records two goroutines had unsaved updates of and
             \* none has changed since
  dropped,   \* history: records whose last update the writer refused
  settled    \* history: scopes evaluated with the index in force since it
             \* was stored and since any older index was used

vars == <<clock, stored, token, reload, missed, index, states, seen,
          emergencies, job, queue, disabled, rows, changes,
          alerted, announced, raced, dropped, settled>>

Goroutines == Threads \cup Workers
\* BuildIndex: first-seen and best-effort rules fire at the first match.
MinimumOf(r) == IF Kind[r] \in {"first", "besteffort"} THEN 1 ELSE Minimum[r]
Idle == [stage |-> "idle"]
\* The rules an index is built of.
BuildIndex(rules) == {r \in Rules : rules[r] = "enabled"}
AllWatchRules == stored
Enabled == BuildIndex(AllWatchRules)
NotReloading == [stage |-> "idle", loaded |-> {}, left |-> {}]

\* What is written to the database of a record.
AlertState(rec) == [active |-> rec.active, count |-> rec.count,
                    fired |-> rec.fired, cleared |-> rec.cleared]
Fresh == [active |-> FALSE, count |-> 0, fired |-> 0, cleared |-> 0, at |-> 0]

Init ==
  /\ clock = 0
  /\ stored \in InitialRules
  /\ index = Enabled
  /\ token = FALSE
  /\ reload = NotReloading
  /\ missed = FALSE
  /\ states = [k \in Rules \X Aircraft |-> NoRecord]
  /\ seen = [s \in Scopes |-> [a \in Aircraft |-> 0]]
  /\ emergencies = [a \in Aircraft |-> NoRecord]
  /\ job = [t \in Goroutines |-> Idle]
  /\ queue = <<>>
  /\ disabled = FALSE
  /\ rows = [k \in (Rules \cup {Emergency}) \X Aircraft |-> NoRecord]
  /\ changes = 0
  /\ alerted = [k \in Rules \X Aircraft |-> 0]
  /\ announced = {}
  /\ raced = {}
  /\ dropped = {}
  /\ settled = {}

-----------------------------------------------------------------------------
(* The /watch commands and the reload loop.                                *)

\* The rows of the rule; a removal takes its alert states with it (ON DELETE
\* CASCADE).  Ids are not used again (AUTOINCREMENT).
CreateWatchRule(r) ==
  /\ stored[r] = "new"
  /\ stored' = [stored EXCEPT ![r] = "enabled"]
  /\ UNCHANGED rows

UpdateWatchRule(r, status) ==
  /\ stored[r] \in {"enabled", "disabled"}
  /\ stored' = [stored EXCEPT ![r] = status]
  /\ UNCHANGED rows

DeleteWatchRule(r) ==
  /\ stored[r] \in {"enabled", "disabled"}
  /\ stored' = [stored EXCEPT ![r] = "deleted"]
  /\ rows' = [k \in DOMAIN rows |-> IF k[1] = r THEN NoRecord ELSE rows[k]]

\* Mutant: the request is only made when the index has rules.
requestRuleReloadLater == token' = (token \/ index # {})

\* Dropped when a request is waiting already.
requestRuleReload == token' = TRUE

Watches ==
  /\ changes < MaxChanges
  /\ changes' = changes + 1
  /\ requestRuleReload
  /\ UNCHANGED <<clock, reload, missed, index, states, seen, emergencies, job,
                 queue, disabled, alerted, announced, raced, dropped,
                 settled>>

\* /watch add, and the form of the aircraft card.
HandleWatch(r) == CreateWatchRule(r) /\ Watches

\* /watch enable, disable and remove.
ChangeWatch(r, subcommand) ==
  /\ CASE subcommand = "remove" -> DeleteWatchRule(r)
       [] subcommand = "enable" -> UpdateWatchRule(r, "enabled")
       [] OTHER -> UpdateWatchRule(r, "disabled")
  /\ Watches

\* Take the request and read the rules, of which the enabled ones make the
\* index; a failure is logged and forgotten.
ReloadRead(ok) ==
  /\ token /\ reload.stage = "idle"
  /\ token' = FALSE
  /\ missed' = ~ok
  /\ reload' = IF ok THEN [NotReloading EXCEPT !.stage = "read", !.loaded = Enabled]
               ELSE NotReloading
  /\ UNCHANGED <<clock, stored, index, states, seen, emergencies, job, queue,
                 disabled, rows, changes, alerted, announced, raced, dropped,
                 settled>>

\* ReplaceRules stores the index, then prunes the scopes one after another
\* (those of rules; the others have no records).
ReplaceRules ==
  /\ reload.stage = "read"
  /\ index' = reload.loaded
  /\ reload' = [stage |-> "prune", loaded |-> reload.loaded, left |-> Range(ScopeOf)]
  /\ settled' = {}
  /\ UNCHANGED <<clock, stored, token, missed, states, seen, emergencies, job,
                 queue, disabled, rows, changes, alerted, announced, raced,
                 dropped>>

ReplacePrune(s) ==
  LET gone == {k \in Rules \X Aircraft : ScopeOf[k[1]] = s /\ k[1] \notin reload.loaded}
  IN
  /\ reload.stage = "prune" /\ s \in reload.left
  /\ states' = [k \in DOMAIN states |-> IF k \in gone THEN NoRecord ELSE states[k]]
  /\ alerted' = [k \in DOMAIN alerted |-> IF k \in gone THEN 0 ELSE alerted[k]]
  /\ reload' = IF reload.left = {s} THEN NotReloading
               ELSE [reload EXCEPT !.left = @ \ {s}]
  /\ UNCHANGED <<clock, stored, token, missed, index, seen, emergencies, job,
                 queue, disabled, rows, changes, announced, raced, dropped,
                 settled>>

-----------------------------------------------------------------------------
(* Matching.                                                               *)

\* Mutant: the cooldown is not asked.
FiresAtOnce(rec, r, now) == ~rec.active /\ rec.count >= MinimumOf(r)

\* matchRecord with matches: count up to the minimum, fire when the cooldown
\* has passed since the last alert.
CanFire(rec, r, now) ==
  ~rec.active /\ rec.count >= MinimumOf(r)
  /\ (rec.fired = 0 \/ now - rec.fired >= Cooldown[r])

Matched(old, r, now) ==
  LET known == IF old = NoRecord THEN Fresh ELSE old
      counted == [known EXCEPT !.at = now,
                    !.count = IF ~known.active /\ @ < MinimumOf(r) THEN @ + 1 ELSE @]
  IN IF CanFire(counted, r, now)
     THEN [counted EXCEPT !.active = TRUE, !.fired = now]
     ELSE counted

\* matchRecord without: the record, if there is one, is cleared.
Unmatched(old, now) ==
  IF old = NoRecord THEN old
  ELSE IF old.active \/ old.count # 0
  THEN [old EXCEPT !.at = now, !.active = FALSE, !.count = 0, !.cleared = now]
  ELSE [old EXCEPT !.at = now]

\* The records the loop over the snapshot touches.  Exact conditions are
\* looked up in the index, so that only those which match are touched.
Touched(idx, s, snap) ==
  {k \in Rules \X Aircraft :
     /\ k[1] \in idx /\ ScopeOf[k[1]] = s /\ snap[k[2]] # NotSeen
     /\ Kind[k[1]] # "besteffort"
     /\ Kind[k[1]] = "exact" => k[1] \in snap[k[2]].matches}

Matches(k, obs, last, now) ==
  CASE Kind[k[1]] = "radius" ->
         \/ k[1] \in obs.matches
         \/ states[k] # NoRecord /\ states[k].active /\ k[1] \in obs.holds
    [] Kind[k[1]] = "first" ->
         last = 0 \/ (Cooldown[k[1]] > 0 /\ now - last >= Cooldown[k[1]])
    [] OTHER -> k[1] \in obs.matches

\* Mutant: what is visible is left alone, whatever its rule.
AbsentUnlessVisible(k, snap, now) ==
  LET rec == states[k] IN
  IF rec = NoRecord \/ ~rec.active \/ snap[k[2]] # NotSeen THEN rec
  ELSE [rec EXCEPT !.active = FALSE, !.count = 0, !.cleared = now]

\* The closing loop: what was active and not touched is cleared, but for
\* best-effort rules while the aircraft is visible.
Absent(k, snap, now) ==
  LET rec == states[k] IN
  IF rec = NoRecord \/ ~rec.active \/ (Kind[k[1]] = "besteffort" /\ snap[k[2]] # NotSeen)
  THEN rec
  ELSE [rec EXCEPT !.active = FALSE, !.count = 0, !.cleared = now]

EvaluatedStates(idx, s, snap, now) ==
  [k \in Rules \X Aircraft |->
     IF ScopeOf[k[1]] # s THEN states[k]
     ELSE IF k \notin Touched(idx, s, snap) THEN Absent(k, snap, now)
     ELSE IF Matches(k, snap[k[2]], seen[s][k[2]], now)
     THEN Matched(states[k], k[1], now)
     ELSE Unmatched(states[k], now)]

\* pruneScopeLocked: what is too old goes, then the oldest above the cap;
\* what is active stays.  Sets of entries with equal times fall either way.
Oldest(n, candidates, at) ==
  {S \in SUBSET candidates :
     /\ Cardinality(S) = IF n > Cardinality(candidates) THEN Cardinality(candidates) ELSE n
     /\ \A x \in S, y \in candidates \ S : at[x] <= at[y]}

Over(S, cap) == IF Cardinality(S) > cap THEN Cardinality(S) - cap ELSE 0

\* maxSeenRetention: long enough for the quiet period of every first-seen rule.
SeenRetention(idx) ==
  Max({MinimumSeenRetention} \cup {Cooldown[r] : r \in {x \in idx : Kind[x] = "first"}})

PrunedSeen(idx, last, now) ==
  LET live == {a \in Aircraft : last[a] # 0 /\ last[a] + SeenRetention(idx) >= now}
  IN {live \ S : S \in Oldest(Over(live, SeenCap), live, last)}

PrunedStates(recs, s, now) ==
  LET inScope == {k \in DOMAIN recs : recs[k] # NoRecord /\ ScopeOf[k[1]] = s}
      live == {k \in inScope : recs[k].active \/ recs[k].at = 0
                                 \/ recs[k].at + StateRetention >= now}
      passive == {k \in live : ~recs[k].active}
  IN {live \ S : S \in Oldest(Over(live, StateCap), passive, [k \in passive |-> recs[k].at])}

-----------------------------------------------------------------------------
(* Evaluate and EvaluateEnrichment.                                        *)

\* The records among these updates that another goroutine has not saved yet.
Overlap(t, updates) ==
  {u[1] : u \in updates} \cap
    UNION {{u[1] : u \in job[o].updates} : o \in {x \in Goroutines \ {t} : job[x] # Idle}}

\* An update no other goroutine has one of is the newest, and makes up for a
\* race before it.
Raced(t, updates) == (raced \ {u[1] : u \in updates}) \cup Overlap(t, updates)

\* Mutant: any scope ends an emergency.
EmergencyAfterAny(a, s, snap, now) ==
  LET old == emergencies[a] IN
  IF snap[a] = NotSeen \/ (~snap[a].emergency /\ old = NoRecord) THEN old
  ELSE IF snap[a].emergency /\ (old = NoRecord \/ ~old.active)
  THEN [active |-> TRUE, count |-> 1, fired |-> now, cleared |-> 0, at |-> now]
  ELSE IF ~snap[a].emergency /\ old.active
  THEN [old EXCEPT !.active = FALSE, !.count = 0, !.cleared = now, !.at = now]
  ELSE [old EXCEPT !.at = now]

\* evaluateEmergency on every aircraft of the snapshot; a scope without
\* authority only looks at the aircraft in an emergency.
EmergencyAfter(a, s, snap, now) ==
  LET old == emergencies[a] IN
  IF snap[a] = NotSeen \/ (~snap[a].emergency /\ (old = NoRecord \/ s \notin Authority))
  THEN old
  ELSE IF snap[a].emergency /\ (old = NoRecord \/ ~old.active)
  THEN [active |-> TRUE, count |-> 1, fired |-> now, cleared |-> 0, at |-> now]
  ELSE IF ~snap[a].emergency /\ old.active
  THEN [old EXCEPT !.active = FALSE, !.count = 0, !.cleared = now, !.at = now]
  ELSE [old EXCEPT !.at = now]

\* What the rules of the scope can tell of an observation.
Relevant(obs, s) ==
  LET asked == {r \in index : ScopeOf[r] = s} IN
  IF obs = NotSeen THEN obs
  ELSE [matches |-> obs.matches \cap asked,
        holds |-> {r \in obs.holds \cap asked : Kind[r] = "radius"}]

\* A snapshot of the scope is published: load the index, look for emergencies.
\* pruneEmergencyLocked forgets the inactive ones that are too old.
Evaluate(t, snap, prune) ==
  LET now == clock + 1
      s == ThreadScope[t]
      after == [a \in Aircraft |-> EmergencyAfter(a, s, snap, now)]
      changed == {a \in Aircraft : after[a] # NoRecord /\
                    (emergencies[a] = NoRecord \/ AlertState(after[a]) # AlertState(emergencies[a]))}
      expired == {a \in Aircraft : after[a] # NoRecord /\ ~after[a].active
                                     /\ after[a].at + StateRetention < now}
      updates == {<<<<Emergency, a>>, AlertState(after[a])>> : a \in changed}
  IN
  /\ job[t] = Idle /\ clock < MaxClock
  /\ s \in Authority \/ ~prune
  /\ clock' = now
  /\ emergencies' = [a \in Aircraft |-> IF prune /\ a \in expired THEN NoRecord ELSE after[a]]
  /\ announced' = {a \in Aircraft :
       IF snap[a] = NotSeen THEN a \in announced
       ELSE snap[a].emergency \/ (a \in announced /\ s \notin Authority)}
  /\ raced' = Raced(t, updates)
  /\ job' = [job EXCEPT ![t] =
       [stage |-> "scope", index |-> index, now |-> now, scope |-> s,
        snap |-> [a \in Aircraft |-> Relevant(snap[a], s)], updates |-> updates]]
  /\ UNCHANGED <<stored, token, reload, missed, index, states, seen, queue,
                 disabled, rows, changes, alerted, dropped, settled>>

\* Mutant: a record that is made is not a change.
ChangedKnown(recs) == {k \in Rules \X Aircraft : recs[k] # NoRecord
  /\ states[k] # NoRecord /\ AlertState(recs[k]) # AlertState(states[k])}

\* The section under the scope's mutex, with the records it leaves, those it
\* prunes and the snapshot whose aircraft it marks as seen.
Changed(recs) == {k \in Rules \X Aircraft : recs[k] # NoRecord /\
  (states[k] = NoRecord \/ AlertState(recs[k]) # AlertState(states[k]))}
Fired(recs, now) == {k \in Changed(recs) : recs[k].active /\ recs[k].fired = now}

UnderScopeLock(t, recs, kept) ==
  LET j == job[t]
      updates == {<<k, AlertState(recs[k])>> : k \in Changed(recs)}
  IN
  /\ states' = [k \in DOMAIN recs |->
                  IF ScopeOf[k[1]] = j.scope /\ k \notin kept THEN NoRecord ELSE recs[k]]
  /\ job' = [job EXCEPT ![t] = IF j.updates \cup updates = {} THEN Idle
                               ELSE [stage |-> "save", updates |-> j.updates \cup updates]]
  /\ alerted' = [k \in DOMAIN alerted |->
       IF ScopeOf[k[1]] = j.scope /\ k \notin kept THEN 0
       ELSE IF k \in Fired(recs, j.now) THEN j.now ELSE alerted[k]]
  /\ raced' = Raced(t, updates)
  /\ UNCHANGED <<clock, stored, token, reload, missed, index, emergencies,
                 queue, disabled, rows, changes, announced, dropped>>

EvaluateScope(t, prune) ==
  LET j == job[t]
      recs == EvaluatedStates(j.index, j.scope, j.snap, j.now)
      last == [a \in Aircraft |-> IF j.snap[a] # NotSeen THEN j.now ELSE seen[j.scope][a]]
      present == {a \in Aircraft : last[a] # 0}
      held == {k \in DOMAIN recs : recs[k] # NoRecord /\ ScopeOf[k[1]] = j.scope}
      over == Cardinality(present) > SeenCap \/ Cardinality(held) > StateCap
  IN
  /\ t \in Threads /\ j.stage = "scope"
  /\ over => prune
  /\ \E kept \in IF prune THEN PrunedStates(recs, j.scope, j.now) ELSE {held},
        marked \in IF prune THEN PrunedSeen(j.index, last, j.now) ELSE {present} :
       /\ UnderScopeLock(t, recs, kept)
       /\ seen' = [seen EXCEPT ![j.scope] =
                     [a \in Aircraft |-> IF a \in marked THEN last[a] ELSE 0]]
  /\ settled' = IF j.index = index THEN settled \cup {j.scope} ELSE settled \ {j.scope}

\* The observer of the enrichment service has found the aircraft visible in
\* the aggregate, and loads the index.  Without a best-effort rule for the
\* scope the call changes nothing.
EvaluateEnrichment(w, s, a, found) ==
  /\ job[w] = Idle /\ clock < MaxClock
  /\ \E r \in index : ScopeOf[r] = s /\ Kind[r] = "besteffort"
  /\ clock' = clock + 1
  /\ job' = [job EXCEPT ![w] =
       [stage |-> "scope", index |-> index, aircraft |-> a, found |-> found,
        now |-> clock + 1, scope |-> s, updates |-> {}]]
  /\ UNCHANGED <<stored, token, reload, missed, index, states, seen,
                 emergencies, queue, disabled, rows, changes, alerted, announced,
                 raced, dropped, settled>>

EnrichScope(w) ==
  LET j == job[w]
      asked(k) == k[1] \in j.index /\ ScopeOf[k[1]] = j.scope
                    /\ Kind[k[1]] = "besteffort" /\ k[2] = j.aircraft
      recs == [k \in Rules \X Aircraft |->
                 IF ~asked(k) THEN states[k]
                 ELSE IF k[1] \in j.found THEN Matched(states[k], k[1], j.now)
                 ELSE Unmatched(states[k], j.now)]
  IN
  /\ w \in Workers /\ j.stage = "scope"
  /\ UnderScopeLock(w, recs, DOMAIN recs)
  /\ settled' = IF j.index = index THEN settled ELSE settled \ {j.scope}
  /\ UNCHANGED seen

-----------------------------------------------------------------------------
(* Persistence.                                                            *)

\* Enqueue, for one update after the other, those of emergencies first.  A
\* disabled writer refuses them, and so does, at once, a full queue; the queue
\* is shared with every other event, so it may be full at any time.  A refused
\* update is logged and lost.
Save(t) ==
  /\ job[t].stage = "save"
  /\ \E u \in job[t].updates, accepted \in BOOLEAN :
       /\ (\E v \in job[t].updates : v[1][1] = Emergency) => u[1][1] = Emergency
       /\ accepted => ~disabled /\ Len(queue) < MaxQueue
       /\ queue' = IF accepted THEN Append(queue, u) ELSE queue
       /\ dropped' = IF accepted THEN dropped \ {u[1]} ELSE dropped \cup {u[1]}
       /\ job' = [job EXCEPT ![t] =
            IF job[t].updates = {u} THEN Idle
            ELSE [stage |-> "save", updates |-> job[t].updates \ {u}]]
  /\ UNCHANGED <<clock, stored, token, reload, missed, index, states, seen,
                 emergencies, disabled, rows, changes, alerted, announced, raced, settled>>

\* ApplyBatch: one transaction.  A row of a rule that is not stored breaks the
\* foreign key, the batch is lost and the writer disables itself.
ApplyBatch ==
  LET keys == {queue[i][1] : i \in DOMAIN queue}
      valid == \A k \in keys : k[1] = Emergency \/ stored[k[1]] \in {"enabled", "disabled"}
      last(k) == queue[Max({n \in DOMAIN queue : queue[n][1] = k})][2]
  IN
  /\ queue # <<>>
  /\ rows' = IF valid THEN [k \in DOMAIN rows |-> IF k \in keys THEN last(k) ELSE rows[k]]
             ELSE rows
  /\ disabled' = (disabled \/ ~valid)
  /\ queue' = <<>>
  /\ UNCHANGED <<clock, stored, token, reload, missed, index, states, seen,
                 emergencies, job, changes, alerted, announced, raced, dropped,
                 settled>>

\* PurgeAlertStates, every six hours: inactive rows past the retention.
PurgeAlertStates ==
  LET stale == {k \in DOMAIN rows : rows[k] # NoRecord /\ ~rows[k].active /\
                  (IF rows[k].cleared # 0 THEN rows[k].cleared ELSE rows[k].fired)
                     + StateRetention < clock}
  IN
  /\ stale # {}
  /\ rows' = [k \in DOMAIN rows |-> IF k \in stale THEN NoRecord ELSE rows[k]]
  /\ UNCHANGED <<clock, stored, token, reload, missed, index, states, seen,
                 emergencies, job, queue, disabled, changes, alerted, announced,
                 raced, dropped, settled>>

\* The process dies and starts again: NewEngine restores the rows of the
\* rules that are enabled, and what was not written is forgotten.
Restored(k) ==
  IF rows[k] = NoRecord \/ (k[1] # Emergency /\ stored[k[1]] # "enabled") THEN NoRecord
  ELSE [active |-> rows[k].active, count |-> rows[k].count, fired |-> rows[k].fired,
        cleared |-> rows[k].cleared,
        at |-> IF rows[k].fired > rows[k].cleared THEN rows[k].fired ELSE rows[k].cleared]

Restart ==
  /\ changes < MaxChanges
  /\ changes' = changes + 1
  /\ index' = Enabled
  /\ states' = [k \in Rules \X Aircraft |-> Restored(k)]
  /\ emergencies' = [a \in Aircraft |-> Restored(<<Emergency, a>>)]
  /\ seen' = [s \in Scopes |-> [a \in Aircraft |-> 0]]
  /\ job' = [t \in Goroutines |-> Idle]
  /\ queue' = <<>>
  /\ disabled' = FALSE
  /\ token' = FALSE /\ reload' = NotReloading /\ missed' = FALSE
  /\ alerted' = [k \in DOMAIN alerted |->
       IF rows[k] # NoRecord /\ stored[k[1]] = "enabled" /\ rows[k].fired = alerted[k]
       THEN alerted[k] ELSE 0]
  /\ announced' = {a \in Aircraft : rows[<<Emergency, a>>] # NoRecord
                                      /\ rows[<<Emergency, a>>].active}
  /\ raced' = {} /\ dropped' = {}
  /\ settled' = {}
  /\ UNCHANGED <<clock, stored, rows>>

-----------------------------------------------------------------------------

Next ==
  \/ \E r \in Rules : HandleWatch(r)
  \/ \E r \in Rules, subcommand \in {"enable", "disable", "remove"} :
       ChangeWatch(r, subcommand)
  \/ \E ok \in BOOLEAN : ReloadRead(ok)
  \/ ReplaceRules
  \/ \E s \in Scopes : ReplacePrune(s)
  \/ \E t \in Threads, prune \in BOOLEAN :
       \E snap \in Snapshots[t] : Evaluate(t, snap, prune)
  \/ \E t \in Threads, prune \in BOOLEAN : EvaluateScope(t, prune)
  \/ \E w \in Workers, s \in Scopes, a \in Aircraft,
       found \in SUBSET {r \in Rules : Kind[r] = "besteffort"} :
       EvaluateEnrichment(w, s, a, found)
  \/ \E w \in Workers : EnrichScope(w)
  \/ \E t \in Goroutines : Save(t)
  \/ ApplyBatch
  \/ PurgeAlertStates
  \/ Restart

Spec == Init /\ [][Next]_vars

-----------------------------------------------------------------------------
(* Properties.                                                             *)

\* While a rule's record stands, in memory or restored from its row, the rule
\* fires again for the aircraft only when its cooldown has passed
\* (matchRecord, NewEngine).
CooldownKept ==
  [][\A k \in Rules \X Aircraft :
       alerted[k] # 0 /\ alerted'[k] \notin {0, alerted[k]}
         => alerted'[k] - alerted[k] >= Cooldown[k[1]]]_vars

\* An emergency is announced when it begins and not again before a snapshot of
\* the local feeder or the aggregate shows the aircraft without it, whichever
\* scopes report it in between (evaluateEmergency).
EmergencyAnnouncedOnce ==
  \A a \in Aircraft :
    a \in announced <=> emergencies[a] # NoRecord /\ emergencies[a].active

\* A change of the stored rules is not lost on the way to the index: it is in
\* force, requested, or being installed, or the last reload could not read
\* (requestRuleReload, the reload loop).
ReloadNotLost ==
  index = Enabled \/ token \/ missed
    \/ (reload.stage = "read" /\ reload.loaded = Enabled)

\* An evaluation that loaded an index before ReplaceRules may leave a record
\* of a rule that is gone; the next evaluation of the scope ends it, unless it
\* is best-effort and its aircraft stays visible (Evaluate).
StaleRuleStateCleared ==
  \A k \in Rules \X Aircraft :
    /\ states[k] # NoRecord /\ states[k].active
    /\ k[1] \notin index /\ ScopeOf[k[1]] \in settled
    => Kind[k[1]] = "besteffort"

\* When nothing is on its way to the database, the rows agree with the records
\* in memory: every change of a record was handed to the writer, and a refused
\* update leaves its row behind only until the next one of the record is
\* accepted.  Two goroutines with unsaved updates of one record may save them
\* out of order, which the next change makes up for, and only inactive rows are
\* purged.
Settled == queue = <<>> /\ ~disabled /\ \A t \in Goroutines : job[t] = Idle
Live(k) == IF k[1] = Emergency THEN emergencies[k[2]] ELSE states[k]
RowsCurrent ==
  Settled => \A k \in DOMAIN rows \ (raced \cup dropped) :
    /\ Live(k) # NoRecord
    /\ k[1] = Emergency \/ k[1] \in Enabled
    => IF rows[k] = NoRecord THEN ~Live(k).active ELSE rows[k] = AlertState(Live(k))

\* Only a permanent or corrupt database disables durable writes; this one
\* takes every valid batch (ApplyBatch, applyUntil).
HealthyWriterStaysEnabled == ~disabled
=============================================================================
