# SkyFeed in TLA+

SkyFeed watches ADS-B receivers and talks about what they see on Discord. One
central process polls a local receiver (or a public aircraft API), takes signed
snapshots from community feeders, merges them into one view, evaluates watch
rules and emergencies, and sends alerts, dashboards and reports. The hard part
of it is not any single function. It is the goroutines in between: pollers,
ingress workers, an aggregate builder, an alert pump, an outbound scheduler and
a database writer that share small pieces of state through channels, mutexes
and atomic pointers, and the retries of all of them over a network, a database
and a Discord that fail.

This directory holds TLA+ models of that core, TLC configurations that check
them on small instances, and TLAPS proofs of the most important properties for
every size. `PROJECT.json` lists components, runs, the source lines behind each
definition, the hazards, findings and theorems.

Run a model with `tlc -workers 2 -config MCAlertQueue.cfg MCAlertQueue`, and a
proof with `tlapm AlertProofs.tla`. Paths below are relative to
`internal/` of the repository.

## Inventory

| Part | State | Operations | Talks to |
|---|---|---|---|
| State engine `state/engine.go` | last sources, health, sequence; atomic `current` | two polling goroutines apply aircraft, receiver and statistics | providers; `FeederManager.Publish`, publish observer |
| Aircraft failover `source/failover.go` | `active`, `recoveries` | `FetchAircraft` | providers, called by the aircraft poller |
| Feeder manager `state/manager.go` | registry of entries with atomic snapshots, one-token `dirty`, `current` aggregate | `Register`, `Remove`, `Publish`, `Run`, `Rebuild` | engine, ingress, commands, aggregate observer |
| Feeder agent `source/agent/runner.go`, `client.go` | latest-value channel, pending envelope, sequence on disk | publish, sign, save, post, retry | central ingress over HTTP |
| Ingress `source/agent/server.go`, `protocol.go` | job queue, per-feeder lock | handlers, workers, verification | store, feeder manager |
| Feeder administration `discord/feeders.go`, `storage/sqlite/store_feeders.go` | the feeder's row and invitations | invite, rename, enable, disable, rotate, revoke, enroll | feeder manager, ingress |
| Rule engine `rules/engine.go`, `index.go` | rule index, states per scope, emergencies | `Evaluate`, `EvaluateEnrichment`, `ReplaceRules`, prune, restore | publish observer, `/watch`, reload loop, alert queue, writer |
| Monitors `rules/feeder.go`, `interesting.go`, `movement.go`, `movement_registry.go` | status per source, sightings, a track per aircraft | evaluate, restore, register | publish observer, alert queue, writer |
| Plane-alert index `planealert/` | stored reference and its hash, index in memory | refresh | interesting-aircraft monitor, GitHub |
| Alert queue `rules/queue.go` | two channels, pending set | `Enqueue`, `Pop` | every evaluator; the alert pump of `app/app.go` |
| Outbound scheduler `discord/outbound.go` | five channels, pending keys | submit, four lanes, retries | the alert pump, dashboards, reports |
| Discord gateway `discord/client.go` | message bindings, cooldowns, schedules, digest | send alerts, refresh cards, post reports, deliver the log | scheduler, SQLite, Discord |
| Router `discord/router.go`, `admin.go`, `operations.go`, ... | none of its own | commands and components | everything above |
| Sessions, moderation `discord/sessions.go`, `moderation.go`, `message_deletion.go` | sessions with expiry and owner; cases and log outbox in SQLite | open, confirm, act, close, purge | router, Discord |
| Enrichment `enrichment/` | caches, pending keys, queues, circuits, limiters, discovery tracker | observe, enqueue, look up | ADSBDB, adsb.lol |
| Weather `weather/aviationweather/` | observation and station caches | look up | aviationweather.gov |
| Persistence writer `storage/writer.go` | queue, batch, coalesced rollups, `disabled` | `Enqueue`, `Run`, retries, shutdown | SQLite, readiness |
| Reports, tracks, rendering, telemetry, configuration | small caches and tables | sequential | various |

What is hard about it, and where a unit test hardly reaches:

- **Steps between unlock and use.** The engine stores and publishes after it has
  released its mutex; `Publish` stores into an entry it looked up earlier;
  enrollment registers a row it read earlier; `Pop` removes its key after it has
  received. Each is correct or wrong depending on what falls in between.
- **Lossy signals.** A one-token channel stands for any number of updates, a
  latest-value channel overwrites, a pending set coalesces, a full queue evicts.
- **Retries over faults.** The agent and the writer both retry the same thing
  until it is accepted, across crashes, lost answers, busy databases and
  shutdown.
- **Counts across calls.** Failback, hysteresis and cooldowns depend on long
  sequences of legal calls.
- **Memory against database against Discord.** Rule states, sightings, cards,
  reports and moderation cases live in two or three of these at once, and each is
  written after the other, with a crash or a failed call possible in between.

The correctness property of each part is stated with its module below.

## Modules

| Module | Models | Proofs |
|---|---|---|
| `AlertQueue` | `Queue.Enqueue`, `Queue.Pop`, end of the pump | `AlertProofs` |
| `StateEngine` | both pollers, building, storing, publishing, the observer's test | `StateEngineProofs` |
| `FeederManager` | registry, `Publish`, `Run`, the loads and store of `Rebuild` | `SourceProofs` |
| `AgentDelivery` | agent, network, ingress, stored sequence | `AgentDeliveryProofs` |
| `FeederAdmin` | commands, enrollment, acceptance on one feeder's row | `SourceProofs` |
| `PersistenceWriter` | `Enqueue`, `Run`, `applyUntil`, shutdown | `PersistenceWriterProofs` |
| `AircraftFailover` | `FetchAircraft` request by request | `SourceProofs` |
| `RuleEngine` | evaluation, emergencies, rule reload, pruning, alert-state tables, restart | `RuleEngineProofs` |
| `Monitors` | feeder, interesting-aircraft and movement monitors, plane-alert index | `AlertProofs` |
| `LookupCache` | the bounded stale-while-usable cache, the circuit, the admission queue | `SourceProofs` |
| `AircraftLookup`, `RouteLookup`, `WeatherLookup` | ADSBDB, adsb.lol, aviationweather.gov | `SourceProofs` |
| `Enrichment` | the three lookups together | `SourceProofs` |
| `DiscordMessages` | messages and nonces at Discord (external), message bindings | `GatewayProofs`, `GatewayMessageProofs` |
| `Outbound` | scheduler, lanes, alerts, cards, reports, digest | `GatewayProofs`, `GatewayMessageProofs` |
| `Moderation` | sessions, confirmations, cases, outbox, log delivery | `GatewayProofs` |
| `CaseLifecycle` | abstract: what is promised of a moderation case | |
| `Gateway` | `Outbound` and `Moderation` over the same messages, with crashes | `GatewayProofs`, `GatewayMessageProofs` |

`Enrichment` composes `AircraftLookup`, `RouteLookup` and `WeatherLookup`, each
built on `LookupCache`. `Gateway` composes `Outbound` and `Moderation` over
`DiscordMessages`, and is shown to implement `CaseLifecycle` by the refinement
mapping `Lifecycle == INSTANCE CaseLifecycle WITH ...`.

Every `MC...` module instantiates one of these for TLC. In all of them an action
is one shared operation (a channel operation, an atomic store, a critical
section, a transaction, a request) together with the private work around it.
Definitions with a comment "Mutant" are plausible bugs; replacing the definition
they stand before by them makes TLC report the property listed with them in
`PROJECT.json`, which shows that the property depends on that code.

Where a module has several invariants of one kind, its run checks their
conjunction under one name (`AdmissionSound`, `SnapshotsSound`, `ViewSound`,
`DeliverySound`, `RowSound`, `WritesSound`, `WriterProgress`, `FailoverSound`);
the parts keep their names and comments, and the type invariant is among them.

| Run | Instance | Checks | Distinct states |
|---|---|---|---|
| `alert_queue` | `MCAlertQueue` | `AdmissionSound`, `EmergencyNotOvertakenTwice`, `AlertsSettle` | 39 thousand |
| `state_engine` | `MCStateEngine` | `SnapshotsSound`, `CurrentRegressesOnlyWhenOvertaken` | 0.7 million |
| `feeder_manager` | `MCFeederManager` | `ViewSound`, `AggregateCatchesUp` | 251 thousand |
| `agent_delivery` | `MCAgentDelivery` | `DeliverySound`, `RegistryNeverRegresses`, `FreshDeliveryCompletes` | 75 thousand |
| `agent_delivery_outage` | `MCAgentDelivery` | `SignedDeliveryCompletes`, violated | |
| `feeder_admin` | `MCFeederAdmin` | `RowSound` | 332 thousand |
| `persistence_writer` | `MCPersistenceWriter` | `WritesSound`, `WriterProgress` | 85 thousand |
| `aircraft_failover` | `MCAircraftFailover` | `FailoverSound`, `SettlesOnFirst` | 3 thousand |
| `rule_engine` | `MCRuleEngine` | five properties of rules, emergencies, reloads and rows | 1.4 million |
| `monitors` | `MCMonitors` | seven properties of outages, sightings and movements | 1.3 million |
| `enrichment` | `MCEnrichment` | five properties of queues, circuits and caches | 0.9 million |
| `gateway` | `MCGateway` | eight properties, `CasesFollowLifecycle` among them | 460 thousand |

### AlertQueue

`emergency` and `normal` are the two channels, `pending` and `mu` the set and
its mutex. `Enqueue` of an emergency is `SendEmergency` or `EmergencyTimeout`.
For a normal alert the producer, holding the mutex, coalesces, or marks its key
and sends (`Admit`); on a full channel it goes on to `Evict` and `Resend`. `Pop`
is a look at the emergency channel (`PopEmergency`, `PopNoEmergency`), the
select (`PopEmergency`, `PopNormal`, `PopStop`) and the removal of the key
(`PopRelease`). Channel operations of `Pop` run between those of an `Enqueue`
that holds the mutex, as in the code. The 250 ms timer of an emergency is a step
that may happen at any time while the channel is full. An alert is enqueued
once, so alerts also name the calls; the counters `dropped` and `coalesced` are
the sets they count.

Properties: `PendingExact` (no key is left behind, which would silence a
condition for ever), `OneAlertPerKey`, `NormalNeverRefused` (the second send
after an eviction always finds room), `EmergencyNotOvertakenTwice`, `Accounting`
(each alert is in exactly one place) and `EveryAlertSettles`. The run checks the
first three as `AdmissionSound` and the last two as `AlertsSettle`.

Run: `alert_queue` has two emergencies, three normal alerts over two keys, two
producers, a pump and channels of capacity one: full channels, evictions by one
producer while the other waits, coalescing and a timed-out emergency all occur.

### StateEngine

`engine` is what the mutex protects, `current` the atomic pointer, `entry` the
registry entry, `lastFetch` the observer's memory. An outcome of a poll is one
step (`Apply`: apply under the lock and build), followed by `Store`, `Publish`,
`Observe` and `Evaluate`, which interleave with the other poller's. A frame
number stands for a frame's aircraft and its fetch time; a receiver position for
the distances derived from it. The zero time is modelled by what `UnixNano`
makes of it, which is not 0.

The program, and the agent too, always configures an aircraft, a receiver and a
statistics source (`app/sources.go`), so both pollers always run, and every
property is about the two. `SnapshotsSound` has, besides the types:

- `AircraftNotNewerThanFetch` and `ProviderRunStart`: in every snapshot, a stale one
  too, the aircraft are no newer than the fetch time and `ProviderChangedAt` is the
  start of the provider's unbroken run.
- `AircraftOfProvider`: a metadata poll pairs the aircraft stored last with the
  provider of the last frame, so a snapshot may name a provider that did not deliver
  its aircraft; it does so only when its `ProviderChangedAt` is later than they are.
- `FetchesEvaluated`: the observer skips a fetch it has seen last, whichever poller
  brought it, and still some snapshot of every fetch reaches the rules.

`CurrentRegressesOnlyWhenOvertaken` says when the atomic pointer goes back to an
earlier snapshot or frame: only when the other poller's store fell between the
unlock and the store of this one. What the two pollers lose beyond that is under
Divergences.

Bounds: three frames let a metadata snapshot built from frame 1 be stored after
frame 2 and evaluated around frame 3; two other outcomes let a metadata poll
overtake the aircraft poll twice; two providers and two positions let each change
and change back.

### FeederManager

`feeders` gives each feeder the identity of its entry, so that a removed and
registered feeder is a new entry; `snapshot` and `enabled` belong to entries. A
snapshot is the number of the publication. `Publish` is look-up, the check of
`Enabled`, the store and the mark. `Register` and `Remove` change the registry
under the write lock and mark afterwards; several may be between the two. `Run`
is the select over `dirty`, the timer and the context; `Rebuild` loads entry by
entry and stores. `aggregate` holds the publication taken from every feeder; how
observations of one aircraft are merged is left for `AggregateView`.

Nothing in the program calls `FeederManager.Remove`; the removal is modelled because
the type offers it, and `Register` after it is the only way an entry is replaced.

Properties: `NoLostUpdate` (whenever the aggregate is out of date, a rebuild
that brings it up to date is scheduled, under way or about to be requested),
`RemovedNotResurrected` (a late store never shows up in the new entry) and
`AggregateCatchesUp`.

Run: `feeder_manager` with two feeders, one publication each and three
administrative operations (register, remove, register is the shortest sequence
that could resurrect). Longer sequences of publications are covered by the
proofs, except for liveness.

### AgentDelivery

One agent, its engine and latest-value channel, one signed envelope, the
sequence in memory and on disk, requests in flight, the ingress queue, workers
and the row with the last sequence and hash. `Lose`, late answers, failed
writes, crashes and restarts of agent and server happen at any step; faults other
than `Lose` are bounded by `MaxFaults`. A worker verifies while it holds the feeder's lock, accepts in one
transaction and publishes. `row.payload` stands for the hash: the same sequence
with the same hash is a duplicate that is published again, with another hash it
is refused.

Properties: `SequenceNamesOnePayload` (the sequence is saved before it is used,
so a crash never gives one number to two payloads), `ConfirmedWasShown` (a
snapshot the agent counts as delivered was published even if the server died
after accepting it), `RegistryNeverRegresses` and `FreshDeliveryCompletes` (a
signed delivery completes unless it grows older than the clock skew).
`SignedDeliveryCompletes`, without that exception, fails (Finding).

Runs: `agent_delivery` with two workers, two requests in flight (an old retry
competes with a new envelope, and the queue of one is full), two snapshots through
a channel of one (the second overwrites the first) and two faults (a crash on each
side, or twice on one); `agent_delivery_outage` needs one worker and no fault.

### FeederAdmin

One feeder's row, its invitations and its registry entry. A command reads the
row, changes its copy, then revokes, writes, registers and invites in separate
steps, each of which may fail (`CommandFails`); two enrollment requests and a
worker run between them. A statement or transaction is one step.

Properties: `EnrolledKeyKept` (a command that read the row before an enrollment
neither undoes it nor brings an old key back), `SequenceCoversCurrentKey`,
`InvitationSpentOnce`, `RevokedRowStaysDisabled`. `RevokedIsDisabled` is the same
for the registry, and fails (Divergences).

Bounds: two keys, two invitations, two requests and five commands: invite,
enroll, rotate, enroll again, revoke and one more.

### PersistenceWriter

`queue`, `batch` and `rollups` are the channel and `Run`'s local state, `rows`
and `added` the database. `Enqueue` checks `disabled` and sends later. `Run`
selects, applies (`Begin`, then one outcome: `Succeed`, `Busy`, `Permanent`,
`Cancelled`), backs off, and at shutdown drains and applies once more. A
coalesced rollup is the set of the events summed in it.

Properties: `WrittenOnce` (additive rollups make a second application wrong),
`BusyLosesNothing`, `MemoryBounded`, `WrittenInOrder` (alert states overwrite
one another), `AcceptedIsWritten`, `StopsAtShutdown`. `ShutdownFlushes` fails
(Divergences).

Bounds: a queue of one and batches of two with three events and one rollup, so
that a full queue, a full batch with an event behind it and a half-full batch
that a ticker applies all occur. More rollup buckets than a batch may hold do not.

### AircraftFailover

A call asks providers one by one (`ProbeAnswers`, `ProbeFails`, `ActiveAnswers`,
`ActiveFails`, `LowerAnswers`, `LowerFails`), and providers fail or recover
between any two requests. `streak` and `failed` are histories that the
properties are stated with: `StableFailback` (a working provider is left for a
better one only after `RecoverySuccesses` answers in a row), `LowerOnlyIfAllFailed`
(failover passes no provider that did not fail in that call), `ServedIsActive`
and `SettlesOnFirst`. Three providers give a choice of recovering providers
above the active one; two successes make a count survive a call.

### RuleEngine

`index` is the atomic pointer to the rules, `states` and `seen` what the scopes'
mutexes protect, `emergencies` the map with a mutex of its own, `rows` the two
alert-state tables. An evaluation is `Evaluate` (load the index, look for
emergencies), `EvaluateScope` (with the scope's mutex) and a `Save` per update,
because rule changes, reloads and other evaluations run in between;
`EvaluateEnrichment` likewise. `Save` is the writer's `Enqueue`: a disabled writer or
a full queue refuses at once, and the update is lost. The queue is shared with all
other events, so any update may be refused (`accepted`). `HandleWatch` and `ChangeWatch` change the stored
rules and leave a token; the reload loop takes it, reads, stores the index and
prunes scope by scope. The writer applies the queue as one batch; `Restart`
builds an engine from the rows.

Properties: `CooldownKept` (a rule fires again for an aircraft only after its
cooldown, across pruning, reloads and restarts that keep its record),
`EmergencyAnnouncedOnce` (whichever scopes report it), `ReloadNotLost`,
`StaleRuleStateCleared` (a state put back by an evaluation with the old index is
ended by the scope's next one) and `RowsCurrent` (when nothing is on its way the
tables agree with the records). Two kinds of records are left out of the last one,
each until the record's next change is accepted: those that two goroutines had
unsaved updates of, which may be saved in either order (`raced`), and those whose
last update was refused (`dropped`; `docs/operations.md` calls a full writer queue an
operational fault). A refusal does not spread: every other row stays current.
`HealthyWriterStaysEnabled` fails (Divergences).

Bounds: one aircraft, two scopes of which one may end emergencies, an enrichment
worker, three sets of rules (an exact rule that is disabled; a best-effort rule, or
a first-seen and a radius rule that needs two observations, still to be added),
three evaluations and two changes or restarts.
The retention is shorter than the cooldowns, so that pruning removes records that
matter, and each cap is one.

### Monitors

Health per feeder and source, sightings, the plane-alert reference with its hash,
and a heap of movement monitors, because `Register` replaces a feeder's monitor.
An observation is its distance and what it fits (climbing away, approaching, low, on
the ground). `Write` saves, `Restart` restores what was saved.

The local feeder has two pollers, for aircraft and for metadata, and both run the
publish observer on every snapshot they make; the snapshots of an agent come one
after another. `Publish` is a poll: it changes the health of the sources it asked and
takes along what is known of the others, so a metadata snapshot repeats the aircraft
health (`Learned`). The ingress repeats a whole snapshot when it publishes a duplicate
envelope again. The observer's call is then `ObserveHealth` (under the monitor's
mutex), `ObserveFrame` (hand the events to the writer, which may refuse any of them,
and look at the aircraft if they were fetched anew) and the enforcement of the
registry's bound, monitor by monitor (`StateLen`, `PruneOldest`); the calls of
different pollers interleave between these steps. A call takes less than a tick of
the clock, which is a minute.

Properties: `RecoveryIsStable` (a recovery needs two healthy samples in a row and a
poll that found the source healthy during the outage; that it needs two such polls,
`TwoHealthyObservations`, fails), `InterestingAnnouncedOnce` (again only after a
restart, when the sighting was refused or lost), `OutdatedReferenceFetched` (the hash
is asked for before the file, so the stored hash never claims more than the stored
file),
`ThreeConsecutiveObservations`, `MovementCooldownKept`, `ActivityIsNearby`,
`TracksBounded`. `OneAlertPerOutage` and `TwoHealthyObservations` fail (Divergences).

Bounds: eight deployments, each for one monitor: health of one feeder with both its
pollers, and with a second feeder beside it; the reference; departures and landings
of one aircraft over nine snapshots, with observations that do not fit and with lost
positions; approaches over seven; three aircraft for two tracks per monitor and two in
all, reported by two feeders, and by both pollers of one. At most two snapshots are
published in one tick (`MaxPublished`), enough for one poller to repeat the other's.

Not promised by any document, but visible in the model: with a custom plane-alert
URL the reference is fetched at the start and never refreshed, though the
repository's README has it "refreshed daily"; and when the forced download at the
start fails the index stays empty until the next refresh although SQLite has a
copy.

### LookupCache, AircraftLookup, RouteLookup, WeatherLookup, Enrichment

A cache is the sequence of its entries, most recently used first; an entry is
fresh, then stale, then gone. `AircraftLookup` has the discovery tracker, the
admission queue with its pending keys, workers and handlers, one request per key
at a time, the limiter, the retries and the circuit. `RouteLookup` has two queues
and one worker that takes a batch of routes or an airport, beside handlers that
ask for themselves. A snapshot is observed one aircraft at a time (`observing`), and
prefetched one aircraft at a time (`walk`), while workers and handlers go on in
between. `WeatherLookup` has the search for the reporting station and
the two requests for METAR and TAF. A request may be answered in any way, or not
before its budget ends.

Properties: `PendingIsWorkedOn` (a pending key, which suppresses every further
request, is queued or in a worker's hands, once), `ProbeIsInFlight` (a half-open
circuit that turns requests away waits for one that exists),
`AdmissionsAccounted` (the tracker admits once per callsign, so what it admitted
must be pending, answered or counted as lost), `FreshAircraftKept`,
`WeatherOutageBridged`. `FailureKeepsCached` fails (Divergences).

Bounds: the services do not touch each other's state, so each configuration of the
run switches on one. Queues and caches of one or two entries make every admission
evict. Two failures open ADSBDB's circuit for two ticks and one that of adsb.lol for
one, so both are half-open before the run ends. TTLs of one tick let an entry of
ADSBDB and of the weather go through fresh, stale and gone within three and four
ticks; the two ticks of routes and airports see found entries go stale and errors
go. The theorems hold for any of these numbers.

### DiscordMessages, Outbound, Moderation, CaseLifecycle, Gateway

`messages` is what Discord keeps. Discord is not part of the repository: a message
is created, found, edited and deleted as the code uses it, and while a nonce is
remembered a second post with it answers with the first message. Any call may
fail, or succeed and lose its answer. `bindings` is the table by which cards are
found again.

`Outbound` has the channels, the coalescing keys, and the lanes with their
attempts; alerts pass the guild's settings and the cooldown map, reports and the
digest are due by their last run, the two cards are edited in place or posted
anew. `Moderation` has the session table with its limits and expiry, the handler
with its calls one by one (case, permission check, action, completion with the
log entry, cleanup of the binding), the outbox and its delivery loop. Discord's
library hands the bot one interaction at a time; the cleanup, the delivery and the
lanes run beside it.

Properties: `PendingKeysMatchJobs`, `AlertCooldownKept`, `PostedOnce`,
`MarkedMeansPosted`, `SessionsCounted`, `ConfirmedOnce`, `ActionWasPermitted`.
`CasesFollowLifecycle` is a refinement: `CaseLifecycle` says that a case is opened
before anything is done, the action is performed while it is open and at most
once, "succeeded" is only recorded of what was performed, the log entry is queued
with the outcome and posted with it, and a full outbox gives up a sent entry
before one that was not. The mapping takes the status from the case's row,
`performed` from Discord's effects, `posted` from its messages and `log` from the
outbox.

Bounds: ten configurations group the services that interact (alerts with a change
of settings; reports with crashes; each card with deletions, and with settings
changed twice; both cards with one change; sanctions with the log, with and
without crashes; kicks). Two alerts
beyond the cooldown map's size of one, a nonce window of one tick and a cooldown
of two, an outbox of one row, two cases, and one change of permissions are the
least at which each property can fail. Users and alert keys are symmetric; the run
has no liveness property.

What the model shows besides, without a document that says otherwise or as known
limits of the design: an alert whose three attempts fail, or that was coalesced
into one that then fails, is lost although `SubmitAlert` returned no error;
`sendAlert` ignores pause and mute when the settings cannot be read; the flight
leaders' nonce is constant, so a card that was deleted and is posted again inside
the nonce window is bound to the deleted message; a channel changed back and forth around a lost
answer can have the nonce answer with the message of the other channel, which is
then bound where it is not found, and the card shows twice; a case whose completion fails or that a crash interrupts stays pending and is
never logged; an action whose answer was lost is recorded as failed; a warning
counts as given even when the direct message failed; a report posted but not
marked is posted again once its nonce is forgotten.

## Fairness

Invariants and action properties do not depend on fairness. Liveness properties
use:

- *Goroutines make progress*: weak fairness of each thread's steps everywhere.
- `AlertQueue`: strong fairness of taking the mutex (Go's mutex hands over to a
  waiter that has starved for a millisecond).
- `FeederManager`: strong fairness of `RebuildBegin`, because `select` picks at
  random among ready cases, so a stream of marks does not keep the timer waiting
  for ever. The same holds for the cases of the writer's `select`.
- `AgentDelivery`: the network does not lose every request of a client that
  retries for ever (strong fairness of `Arrive`), a worker gets the feeder's lock,
  a crashed agent is restarted. Faults are bounded.
- `PersistenceWriter`: contexts with a timeout end. That a busy database recovers
  (`DatabaseRecovers`) is a hypothesis of `AcceptedIsWritten` only;
  `StopsAtShutdown` does not need it.
- `AircraftFailover`: the poller keeps calling and requests end. The providers
  are not fair: `SettlesOnFirst` is conditional on them.

`RuleEngine`, `Monitors`, `Enrichment` and `Gateway` are checked for safety only:
what they promise to do in the end is conditional on clocks, users and outside
services that the code does not control.

`CHECK_DEADLOCK FALSE` is set in all runs: publications, alerts, commands and faults are
bounded or the process shuts down, so behaviours end. That threads do not wait
for one another for ever is what the liveness properties say.

## Finding

`SignedDeliveryCompletes` after a long outage (run `agent_delivery_outage`): the
pending envelope is retried with its original time, so after the clock skew has
passed the server refuses it for ever and the agent signs no other, although
`source/agent/runner.go` has it that the signed delivery "still retries to
completion".

## Divergences

Six more properties state what a document or an answer to a user says, and the code
violates them. They are defined in their modules and not part of a run; adding one
to the module's `.cfg` makes TLC print the trace.

1. `TwoHealthyObservations` (`Monitors`): `docs/operations.md` has a recovery require
   two healthy observations. The monitor counts snapshots; the metadata poller
   publishes the aircraft health of the one healthy poll again, and recovery is
   announced after that one.
2. `RevokedIsDisabled` (`FeederAdmin`): an enrollment that read the row before a
   revocation registers the feeder as enabled after the revocation was answered.
   The row stays disabled, so the agent's snapshots are still refused.
3. `ShutdownFlushes` (`PersistenceWriter`): shutdown during an apply counts as a
   permanent error, and the batch or the rollups are cleared before the final
   flush that `docs/operations.md` describes.
4. `HealthyWriterStaysEnabled` (`RuleEngine`): deleting a rule deletes its alert
   states; an update of one that is still queued then fails the foreign key, the
   batch counts as permanently failed, and durable writes are disabled although
   the database is well (`docs/operations.md` names permanent and corrupt
   databases only).
5. `OneAlertPerOutage` (`Monitors`): the restored events are those of all feeders
   but only the local monitor is restored from them, so after a restart an outage
   of another feeder is announced again, and one of theirs is taken for the local
   feeder's.
6. `FailureKeepsCached` (`Enrichment`): the route worker and a handler may ask for
   one key at once, and the error of one is stored over the value of the other,
   while `docs/operations.md` has failures serve cached values when available.

What `StateEngine` shows of the two pollers, without a property of its own, since the
documents speak of it only in general. A metadata snapshot that is built after a frame
was applied and before it was stored carries the new fetch time with the old aircraft;
if it is observed first, the frame's own snapshot is skipped as already seen and its
aircraft never reach the rules, although `docs/architecture.md` has them run on each
publication of a feeder. An overtaken poller's older snapshot is stored last and
served until the next poll, although `docs/operations.md` has SkyFeed retain the last
good one. The distances in a snapshot can be those of the receiver's previous position.

## Proofs

All proofs hold for every value of the constants under the named assumptions
of the modules, which TLC evaluates in every run.

**AlertProofs** is about the monitors that raise alerts and the queue that carries
them.

- `AlertQueue`, any alerts, keys, numbers of producers and pumps, positive
  capacities. `QueueIInv` strengthens the properties by what makes them inductive:
  the mutex is held exactly by the producer at its eviction or resend; a producer
  there carries an alert whose key is pending; keys queued and carried are
  distinct; a producer about to resend finds room, because only the holder of the
  mutex sends to the normal channel; a pump that has passed a waiting emergency is
  not at its select again before that emergency is received. Theorems:
  `QueueTypeCorrect`, `PendingIsExact`, `OneAlertPerKeyHolds`,
  `NormalIsNeverRefused`, `EmergencyOvertakenOnce`, and `AdmissionIsSound` for the
  conjunction that the run checks.
- `Monitors`, finitely many feeders, any sources, aircraft, deployments and bounds;
  the cooldown is at most the time after which a track is stale, as in the code. A
  track is tied to the whole history of its aircraft: the last alert of each kind
  that it remembers is the last that was raised (`AlertsOK`), its counts are of
  consecutive observations that fit (`CountsOK`), and an aircraft without a track
  was last announced a cooldown ago, so a pruned track cannot announce too early
  (`GoneOK`, where the assumption is used). Monitors are numbered as they are made,
  so a replaced one brings no history (`RegistryOK`). For sightings the
  announcements are bounded by the marks lost (`SightingsOK`), for the reference the
  stored hash by the stored version (`ReferenceOK`), for recovery the samples by the
  healthy ones in a row (`HealthOK`). That there is also a poll that found the source
healthy (`PollingOK`) holds for any pollers of which one asks a source
(`PollerAssumption`): as long as no poll has, the engine does not say healthy, and a
healthy sample can only come from a snapshot that the feeder's other poller made
before, of which there is one at most (`Unanswered`). Theorems: `InterestingIsAnnouncedOnce`,
  `OutdatedReferenceIsFetched`, `ActivityStaysNearby`, and the action properties
  `RecoveryStaysStable`, `MovementCooldownIsKept` and `ObservationsAreConsecutive`.

**SourceProofs** is about the components that decide which data the program
shows.

- `FeederManager`, any feeders and bounds. `LoopInv` is type correctness, the
  shape of `Run`'s states and, for every feeder, that an out-of-date aggregate has
  a rebuild scheduled; a publication that falls between the load of its feeder and
  the store of the aggregate is the case that needs the mark to come after the
  store. `EntryInv` relates the version each publisher carries to the publications
  begun before its entry was created. Theorems: `TypeCorrect`, `NoUpdateIsLost`,
  `RemovedStaysRemoved`, and `ViewIsSound` for their conjunction.
- `AircraftFailover`, any number of providers and any threshold. The invariant says
  that within a call every provider before the one asked has failed, unless one has
  answered its probe, that a recovery count never exceeds the provider's streak and
  stays below the threshold, and that the frame is the active provider's. Theorems:
  `FailoverTypeCorrect`, `FailoverFrameIsActive`, `FailbackIsStable`,
  `FailoverIsOrdered`, of which the last two are action properties, and
  `FailoverIsSound` for their conjunction.
- `FeederAdmin`, any keys, invitations, enrollment requests and bounds. No part of
  `RowSound` is inductive by itself. A command works on a copy of the row that may
  be old: `CopyOK` says that such a copy is only written as a whole where there was
  no row, and then it has no key. `KeysOK` (a key in anybody's hands was activated,
  the others accepted nothing) keeps a sequence from being set back by a new key,
  `TokensOK` and `RevocationOK` (a revocation leaves nothing open) keep a revoked
  feeder disabled. Theorems: `AdminTypeCorrect`, `EnrolledKeyIsKept`,
  `SequenceIsCovered`, `RowIsSound`.
- `Enrichment`, any keys, workers, handlers, queue and cache sizes and times
  (`AircraftAssumption`, `RouteAssumption`, `WeatherAssumption`). The lemmas say what
  the operators of `LookupCache` do to one cache, queue or circuit; each service then
  has an invariant of its own (`AircraftIInv`, `RouteIInv`, `WeatherIInv`), kept by
  its own steps and by time. No property of the run is inductive by itself. That a
  pending key is worked on needs that the workers' keys differ and are not queued
  (`QueueOK`, `WorkOK`), and `Cardinality` only enters at the end. That admissions are
  accounted for needs that a worker about to clear its key has settled the tracker's
  entry (`TrackerOK`), since otherwise the key leaves the pending set before the
  entry is settled. Fresh data is kept because a key is only in flight while it is
  not fresh (`FlightsNotFresh`), and an outage is bridged because a METAR that may be
  shown is cached until the full cache evicts it (`UsableCached`). Theorems:
  `PendingWorkedOn`, `ProbeInFlight`, `AdmissionsAreAccounted`, and the action
  properties `FreshIsKept` and `OutageBridged`.

**AgentDeliveryProofs** (any number of workers, requests and faults, any
capacities). The number on disk covers every number signed (`SequenceOK`), so a
restart signs none again; later numbers carry later snapshots (`OrderOK`); a
request is in one place (`FlightOK`); the answer a client takes is that to its
pending envelope (`CallOK`); the worker that accepted an envelope holds the lock
until it has published it (`LockOK`), which is what makes the registry monotonic.
Theorems: `TypeCorrect`, `SequenceNamesPayload`, `ConfirmedIsShown`,
`DeliveryIsSound`, and the action property `RegistryIsMonotonic`.

**StateEngineProofs** (any providers, positions and numbers of polls). What holds of
a snapshot is shown of each by itself (`AllGood`): it is good when built, because the
engine has applied every frame (`EngineOK`) and the aircraft it may reuse come from a
good one, and frames are only added later. That no fetch is lost needs a place for
each: with the rules, with a poller about to give it to them, or on its way to the
observer, whose memory is never of a fetch without such a place (`FetchOK`). A poller
that was not overtaken holds a snapshot newer than the stored one (`RaceOK`). Theorems:
`TypeCorrect`, `SnapshotsAreSound`, and the action property `OnlyOvertakenRegresses`.

**PersistenceWriterProofs** (any events, rollups, buckets and sizes). The order of
acceptance carries the argument: rows, batch and queue are in that order
(`Ordered`), which also keeps them apart; rollups leave it when they are coalesced
and are followed by themselves (`RollupsOK`); only a fault or the shutdown disables
the writer (`PhaseOK`). Theorems: `TypeCorrect`, `WritesAreSound`.

**RuleEngineProofs** (any rules, scopes, aircraft, evaluators, workers and bounds;
every rule's cooldown and number of observations as the code has them, a natural
and a positive one). Only `StaleRuleStateCleared` is inductive. What a reload has
read may be old when it is installed, but then a request is waiting (`LoadedOK`).
A cooldown is kept because the record a rule fired with still carries the time
(`AlertedOK`). The rows agree with memory when nothing is on its way because at any
time the last update on its way to a record's row says what the record says
(`Current`), unless the writer refused that update or two goroutines raced for the
record; this needs that no two goroutines hold updates of any other record
(`OneHolder`), that one of the queued updates of a record is the last (`BatchOK`), and
that a rule that is still to be added has no record (`NewOK`). Theorems: `TypeCorrect`,
`EmergencyIsAnnouncedOnce`, `ReloadIsNotLost`, `StaleRuleStateIsCleared`,
`RowsAreCurrent`, and the action property `CooldownIsKept`.

**GatewayProofs** (any users, finitely many schedules, either or both cards, any
configurations and any limits that are naturals; a handler's budget is at most a
case's retention plus one, ten seconds against a year in the code). `IInv` joins
what the handlers, the storage and the loops rely on from each other: a session
that led to a case is gone and its number is not used again (`SessionsLeft`); the
handler's case stays pending and unperformed until it acts (`HandlerOK`), and no
purge takes it because the handler is within its budget (`InTime`); a member about
to act had the permission (`PermissionOK`); the rows of the outbox and of the batch
are of closed cases, and one is marked only after its message (`OutboxOK`); a nonce
is its message's subject (`NonceOK`), so a retry that Discord deduplicates finds
its own message; a report to be recorded was posted (`JobsOK`). Theorems:
`Invariance`, `SessionsAreCounted`, `ConfirmedAtMostOnce`, `MarkedIsPosted`, the
action property `ActionsArePermitted`, and the refinement
`LifecycleIsImplemented`: `LifeInit` maps the initial states, `LifeStep` every
step. Under the mapping the creation of a case opens it, `Act` performs it (or does
nothing, when Discord did nothing), `CompleteModerationCase` closes it and gives up
`Victims`, `SendLog` posts, `MarkLog` sends, `PurgeCases` purges, and every other
step, a crash included, changes no life.

**GatewayMessageProofs** continues `GatewayProofs`: it follows a job from where it is
enqueued to the record of its message. Its constants are those of the code as far as the argument
needs them: no alert has the key of another kind of job and the placeholders are no
jobs or messages (`KeyAssumption`), and only a card that is there is enabled
(`ConfigurationAssumption`).

- `JobsInv`: a queued or running job is one its producer makes, in its channel and
  lane (`Placed`); an alert has one job (`OneOfEach`); what waits in a channel is
  later than what runs (`InOrder`); the pending keys are those of the jobs
  (`KeysPending`); a report in hand is of a period not reported (`ReportsDue`).
- `AlertsInv`: of an alert in hand nothing posted is known to the bot
  (`AlertsInHand`), which is why a retry cannot be a duplicate that is known; an
  alert about to be posted is a cooldown after the last delivered of its key
  (`Delivered`); two messages of one nonce are a window apart (`Spaced`).
- `RecordsInv`: a recorded report has its mark (`ReportsMarked`), a recorded log
  entry is neither due nor in a batch (`LogsMarked`), and of two messages of a
  subject the first is unrecorded (`Superseded`).
- `CardInv`: the message of a card that the bot has not lost is the one it bound
  (`CardsBound`), and a lane that is about to post a card has seen that there is
  none (`CardInHand`); a binding is only deleted after its message
  (`DeletionsOK`).

Theorems: `PendingKeysAreThoseOfJobs`, `CooldownIsKept`, `NothingIsPostedTwice`, and
the four invariants. `PostedOnce` is stated of the message that is lost, first or
second: the first need not be it, since a card can be bound to the message that a
nonce of another channel answered with and later be shown again where the first was.

Only model-checked: every liveness property (fairness and ENABLED are beyond the
prover); and `Accounting` of `AlertQueue` and `TracksBounded` of `Monitors`, which
are about sums over finite sets and would need induction over them. What a recursive
definition computes for every input (the entries that a batch of routes leaves in
the caches of `RouteLookup`, a fold) is out of reach too, since the prover cannot
instantiate an induction theorem.

## Not modelled

- HTTP, parsing, encoding, signatures, SQL and Discord itself are inputs or single
  steps.
- Rendering, formatting, configuration, the command line and telemetry keep no
  state worth checking; read-only commands and argument checks change none.
- The merge of the observations of one aircraft in `Rebuild` is one sequential
  comparison within a step of `FeederManager`. The contents of reports (sums over
  rollups) and the track store (one mutex around each call) have no interleaving
  to explore.
- Geometry and numeric thresholds are given as what an observation fits or matches.
- A route or airport request that ends with `context.Canceled` returns without telling
  the circuit or the cache; only the shutdown cancels one, after which nothing is asked.
- Command registration, role bootstrap, migrations and the order in which services
  start and stop.

## Plan

Modelled so far: everything that runs concurrently or survives a restart. What
would add most next:

1. `AggregateView`: the merge of `Rebuild` against a declarative reference.
2. The alert path end to end: `RuleEngine`, `AlertQueue` and `Outbound` composed,
   with an abstract specification of one alert per episode.
