------------------------------ MODULE Outbound ------------------------------
(***************************************************************************)
(* The outbound scheduler (internal/discord/outbound.go) and the jobs the  *)
(* gateway gives it (client.go): alerts, scheduled reports and the admin   *)
(* digest, the cards that are edited in place, destination tests.          *)
(*                                                                         *)
(* Five bounded channels feed four lanes.  A lane runs one job at a time,  *)
(* with up to MaxAttempts attempts; alerts and reports are coalesced by    *)
(* key from the moment they are queued until their lane is done with them. *)
(***************************************************************************)
EXTENDS DiscordMessages, FiniteSetsExt, SequencesExt

CONSTANTS
  AlertKeys,      \* condition and aircraft of watch-like alerts
  EmergencyKeys,  \* ... of emergencies
  Schedules,      \* report schedules; "digest" is the admin digest
  Capacity,       \* of each channel
  MaxAttempts,    \* of a retryable job
  Cooldown,       \* of the alert category
  DeliveredMax,   \* entries of the cooldown map before it is pruned
  DeliveredAge,   \* age at which pruning drops an entry
  PeriodLength,   \* of a report
  NoJob,
  MaxAlerts,      \* bound: alerts submitted
  MaxChanges      \* bound: changes of the settings

VARIABLES
  queue,      \* the jobs of each channel
  pending,    \* channel and key of the jobs that coalesce others
  lanes,      \* what each lane does
  delivered,  \* lastDelivered: when each key was last delivered
  lastRun,    \* durable: when each schedule ran last
  created,    \* ghost: when each schedule was created
  settings,   \* durable: guild settings, alert configuration, and the
              \* channel bound to each purpose
  submitted,  \* alerts submitted so far
  changes     \* settings changes so far

outboundVars ==
  <<queue, pending, lanes, delivered, lastRun, created, settings, submitted, changes>>

Channels == {"emergency", "interaction", "alert", "dashboard", "report"}
Deduplicated == {"alert", "report"}

ASSUME OutboundAssumption ==
  /\ Capacity \in [Channels -> Nat]
  /\ IsFiniteSet(Schedules)
  /\ PeriodLength \in Nat \ {0}

(* What a job is for, and the jobs there can be.  No alert has the key of  *)
(* another kind of job.                                                    *)
OtherKeys ==
  {"test"} \cup ({"card"} \X Cards) \cup ({"report"} \X (Schedules \cup {"digest"}) \X Int)
JobKeys == AlertKeys \cup EmergencyKeys \cup OtherKeys
Jobs == [kind : {"alert", "test", "report", "card"}, key : JobKeys, chan : Channels,
         subject : ({"alert", "test"} \X Nat) \cup OtherKeys, at : Int,
         attempts : {1, MaxAttempts}]
Bindings == [msg : Nat, channel : {"c1", "c2"}]

ASSUME KeyAssumption ==
  /\ \A k \in AlertKeys : k \notin EmergencyKeys \cup OtherKeys
  /\ NoJob \notin Jobs
  /\ NoMessage \notin Nat \cup Bindings
  /\ {Cooldown, NonceWindow} \subseteq Nat

(* The background lane serves two channels, each other lane its own.       *)
Lanes == {"emergency", "interaction", "alert", "background"}
Serves(l) == IF l = "background" THEN {"dashboard", "report"} ELSE {l}

(* The purposes that can have a channel; the card of each kind has one.    *)
Purposes == {"alerts", "live", "reports", "admin"}
PurposeOf(card) == IF card = "dashboard" THEN "live" ELSE "reports"
Bound(purpose) == purpose \in DOMAIN settings.channels

(* Alerts go to the channel of their category, or to the one bound.        *)
Destined == settings.destination \/ Bound("alerts")

Polling == [phase |-> "poll", job |-> NoJob, attempt |-> 0, msg |-> NoMessage, channel |-> ""]

OutboundInit(bound) ==
  /\ queue = [c \in Channels |-> <<>>]
  /\ pending = {}
  /\ lanes = [l \in Lanes |-> Polling]
  /\ delivered = <<>>
  /\ lastRun = [s \in {"digest"} |-> 0]
  /\ created = [s \in {"digest"} |-> 0]
  /\ settings = [paused |-> FALSE, muted |-> {}, enabled |-> TRUE, destination |-> FALSE,
                 channels |-> [p \in bound |-> "c1"]]
  /\ submitted = 0
  /\ changes = 0

-----------------------------------------------------------------------------
(* Enqueue, on the channels and the pending keys together.                 *)
State == [queue |-> queue, pending |-> pending]

Appended(s, job) == [s EXCEPT !.queue[job.chan] = Append(@, job)]
HasRoom(s, job) == Len(s.queue[job.chan]) < Capacity[job.chan]

EnqueueDeduplicated(s, job) ==
  IF <<job.chan, job.key>> \in s.pending \/ ~HasRoom(s, job) THEN s
  ELSE [Appended(s, job) EXCEPT !.pending = @ \cup {<<job.chan, job.key>>}]

(* The dashboard's one place goes to the newest job.                       *)
Enqueue(s, job) ==
  IF job.chan \in Deduplicated THEN EnqueueDeduplicated(s, job)
  ELSE IF job.chan = "dashboard" THEN [s EXCEPT !.queue["dashboard"] = <<job>>]
  ELSE IF HasRoom(s, job) THEN Appended(s, job) ELSE s

Becomes(s) == queue' = s.queue /\ pending' = s.pending

Job(kind, key, chan, subject, at, retryable) ==
  [kind |-> kind, key |-> key, chan |-> chan, subject |-> subject, at |-> at,
   attempts |-> IF retryable THEN MaxAttempts ELSE 1]

-----------------------------------------------------------------------------
(* The producers.  An alert was observed before it came out of its queue.  *)
SubmitAlert(k) ==
  /\ submitted < MaxAlerts
  /\ \E at \in {clock - 1, clock} :
       Becomes(Enqueue(State,
         Job("alert", k, IF k \in EmergencyKeys THEN "emergency" ELSE "alert",
             <<"alert", submitted>>, at, TRUE)))
  /\ submitted' = submitted + 1
  /\ UNCHANGED <<lanes, delivered, lastRun, created, settings, changes, discordVars>>

SubmitDestinationTest ==
  /\ changes < MaxChanges
  /\ Becomes(Enqueue(State, Job("test", "test", "interaction", <<"test", changes>>, 0, FALSE)))
  /\ changes' = changes + 1
  /\ UNCHANGED <<lanes, delivered, lastRun, created, settings, submitted, discordVars>>

CardJob(c) ==
  Job("card", <<"card", c>>, IF c = "dashboard" THEN c ELSE "report", <<"card", c>>, 0, TRUE)

RefreshCard(c) ==
  /\ Becomes(Enqueue(State, CardJob(c)))
  /\ UNCHANGED <<lanes, delivered, lastRun, created, settings, submitted, changes, discordVars>>

PeriodStart(t) == (t \div PeriodLength) * PeriodLength
Due(s) == lastRun[s] < PeriodStart(clock)

ReportJob(s) ==
  Job("report", <<"report", s, PeriodStart(clock)>>, "report",
      <<"report", s, PeriodStart(clock)>>, clock, TRUE)

(* All that are due, one after the other: those whose key is not pending,  *)
(* as long as there is room.                                               *)
EnqueueDueReports ==
  LET due == {s \in DOMAIN lastRun \ {"digest"} : Due(s)}
      fresh == {s \in due : <<"report", ReportJob(s).key>> \notin pending}
      order == SetToSeq(fresh)
      room == Capacity["report"] - Len(queue["report"])
      n == IF room < Cardinality(fresh) THEN room ELSE Cardinality(fresh)
  IN  /\ due # {}
      /\ queue' = [queue EXCEPT !["report"] = @ \o [i \in 1..n |-> ReportJob(order[i])]]
      /\ pending' = pending \cup {<<"report", ReportJob(order[i]).key>> : i \in 1..n}
      /\ UNCHANGED <<lanes, delivered, lastRun, created, settings, submitted, changes, discordVars>>

EnqueueDueAdminDigest ==
  /\ Due("digest") /\ Bound("admin")
  /\ Becomes(Enqueue(State, ReportJob("digest")))
  /\ UNCHANGED <<lanes, delivered, lastRun, created, settings, submitted, changes, discordVars>>

(* /reports schedule: the period under way counts as reported; a schedule  *)
(* that exists keeps its last run.                                         *)
UpsertReportSchedule(s) ==
  /\ lastRun' = [t \in DOMAIN lastRun \cup {s} |->
                  IF t \in DOMAIN lastRun THEN lastRun[t] ELSE clock]
  /\ created' = [t \in DOMAIN created \cup {s} |->
                  IF t \in DOMAIN created THEN created[t] ELSE clock]

ScheduleReport(s) ==
  /\ s \notin DOMAIN lastRun
  /\ UpsertReportSchedule(s)
  /\ UNCHANGED <<queue, pending, lanes, delivered, settings, submitted, changes, discordVars>>

(* /alerts configure: the category goes on or off, and has its own         *)
(* destination or, again, none.                                            *)
UpsertAlertConfig(enabled, destination) ==
  settings' = [settings EXCEPT !.enabled = enabled, !.destination = destination]

ConfigureAlerts ==
  /\ changes < MaxChanges
  /\ changes' = changes + 1
  /\ \/ UpsertAlertConfig(~settings.enabled, settings.destination)
     \/ UpsertAlertConfig(settings.enabled, ~settings.destination)
  /\ UNCHANGED <<queue, pending, lanes, delivered, lastRun, created, submitted, discordVars>>

(* /settings: alerts are paused and resumed, squawks muted and unmuted.    *)
UpsertGuildSettings(paused, muted) ==
  settings' = [settings EXCEPT !.paused = paused, !.muted = muted]

ConfigureGuild ==
  /\ changes < MaxChanges
  /\ changes' = changes + 1
  /\ \/ UpsertGuildSettings(~settings.paused, settings.muted)
     \/ \E k \in AlertKeys \cup EmergencyKeys :
          UpsertGuildSettings(settings.paused, SymDiff(settings.muted, {k}))
  /\ UNCHANGED <<queue, pending, lanes, delivered, lastRun, created, submitted, discordVars>>

(* /settings channels: a purpose gets its first channel, or another one;   *)
(* none is ever unbound.                                                   *)
ConfigureChannel(p) ==
  /\ \/ /\ ~Bound(p)
        /\ settings' = [settings EXCEPT !.channels =
             [q \in DOMAIN @ \cup {p} |-> IF q = p THEN "c1" ELSE @[q]]]
        /\ UNCHANGED changes
     \/ /\ Bound(p) /\ changes < MaxChanges
        /\ settings' = [settings EXCEPT !.channels[p] = IF @ = "c1" THEN "c2" ELSE "c1"]
        /\ changes' = changes + 1
  /\ UNCHANGED <<queue, pending, lanes, delivered, lastRun, created, submitted, discordVars>>

(* /settings recreate-dashboard drops the binding and asks for a refresh.  *)
ResetDashboard ==
  /\ changes < MaxChanges
  /\ changes' = changes + 1
  /\ bindings' = [bindings EXCEPT !["dashboard"] = NoMessage]
  /\ forgotten' = forgotten \cup ({Shown("dashboard")} \ {NoMessage})
  /\ Becomes(Enqueue(State, CardJob("dashboard")))
  /\ UNCHANGED <<lanes, delivered, lastRun, created, settings, submitted, messages, unrecorded>>

-----------------------------------------------------------------------------
(* The lanes.  A lane that finds nothing waits for any of its channels;    *)
(* the background lane asks for the dashboard first.                       *)
Take(l, c) ==
  /\ queue[c] # <<>>
  /\ queue' = [queue EXCEPT ![c] = Tail(@)]
  /\ lanes' = [lanes EXCEPT ![l] = [Polling EXCEPT !.phase = "run", !.job = Head(queue[c])]]
  /\ UNCHANGED <<pending, delivered, lastRun, created, settings, submitted, changes, discordVars>>

TakeJob(l) ==
  \/ lanes[l].phase = "poll" /\ l # "background" /\ Take(l, l)
  \/ lanes[l].phase = "poll" /\ l = "background" /\ Take(l, "dashboard")
  \/ /\ lanes[l].phase = "poll" /\ l = "background" /\ queue["dashboard"] = <<>>
     /\ lanes' = [lanes EXCEPT ![l].phase = "wait"]
     /\ UNCHANGED <<queue, pending, delivered, lastRun, created, settings, submitted, changes, discordVars>>
  \/ lanes[l].phase = "wait" /\ \E c \in Serves(l) : Take(l, c)

(* The job is over: its key is released and the lane is free.              *)
Over(l) ==
  /\ lanes' = [lanes EXCEPT ![l] = Polling]
  /\ pending' = pending \ {<<lanes[l].job.chan, lanes[l].job.key>>}

(* As if only a job that succeeded released its key.                       *)
FailedKeepingKey(l) ==
  IF lanes[l].attempt + 1 < lanes[l].job.attempts
  THEN /\ lanes' = [lanes EXCEPT ![l] =
            [Polling EXCEPT !.phase = "run", !.job = lanes[l].job, !.attempt = lanes[l].attempt + 1]]
       /\ UNCHANGED pending
  ELSE lanes' = [lanes EXCEPT ![l] = Polling] /\ UNCHANGED pending

(* The attempt failed: again after a pause, or over.                       *)
Failed(l) ==
  IF lanes[l].attempt + 1 < lanes[l].job.attempts
  THEN /\ lanes' = [lanes EXCEPT ![l] =
            [Polling EXCEPT !.phase = "run", !.job = lanes[l].job, !.attempt = lanes[l].attempt + 1]]
       /\ UNCHANGED pending
  ELSE Over(l)

Goes(l, phase, m) ==
  /\ lanes' = [lanes EXCEPT ![l].phase = phase, ![l].msg = m]
  /\ UNCHANGED pending

Running(l, kind) == lanes[l].phase = "run" /\ lanes[l].job.kind = kind
InJob == <<queue, created, settings, submitted, changes>>

-----------------------------------------------------------------------------
(* sendAlert.  The pause and the mutes are ignored when the settings       *)
(* cannot be read; any other failed read fails the attempt.                *)
Suppressed(job) ==
  \/ settings.paused /\ job.key \notin EmergencyKeys
  \/ job.key \in settings.muted

(* As if an alert that was observed before the last one counted as new.    *)
InCooldownInOrder(job) ==
  /\ job.key \notin EmergencyKeys
  /\ job.key \in DOMAIN delivered
  /\ job.at - delivered[job.key] \in 0..(Cooldown - 1)

InCooldown(job) ==
  /\ job.key \notin EmergencyKeys
  /\ job.key \in DOMAIN delivered
  /\ job.at - delivered[job.key] < Cooldown

SendAlert(l) ==
  /\ Running(l, "alert")
  /\ LET job == lanes[l].job
     IN  \/ Failed(l)
         \/ (Suppressed(job) \/ ~settings.enabled \/ (Destined /\ InCooldown(job))) /\ Over(l)
         \/ settings.enabled /\ ~Destined /\ Failed(l)
         \/ settings.enabled /\ Destined /\ ~InCooldown(job) /\ Goes(l, "post", NoMessage)
  /\ UNCHANGED <<InJob, delivered, lastRun, discordVars>>

(* markDelivered: past its limit the map loses what is old, then the       *)
(* oldest entry.                                                           *)
Prunings(marked, now) ==
  LET young == {k \in DOMAIN marked : marked[k] >= now - DeliveredAge}
      oldest == {k \in young : \A j \in young : marked[k] <= marked[j]}
  IN  IF Cardinality(DOMAIN marked) <= DeliveredMax THEN {DOMAIN marked}
      ELSE IF Cardinality(young) <= DeliveredMax THEN {young}
      ELSE {young \ {k} : k \in oldest}

MarkDelivered(job) ==
  LET marked == [k \in DOMAIN delivered \cup {job.key} |->
                   IF k = job.key THEN job.at ELSE delivered[k]]
  IN  \E kept \in Prunings(marked, job.at) :
        /\ delivered' = [k \in kept |-> marked[k]]
        /\ forgotten' = forgotten \cup
             {m \in DOMAIN messages' : messages'[m].key \in DOMAIN marked \ kept}

(* sendDestinationTest, which is not tried again.                          *)
SendTest(l) ==
  /\ Running(l, "test")
  /\ (Bound("alerts") /\ Goes(l, "post", NoMessage)) \/ Over(l)
  /\ UNCHANGED <<InJob, delivered, lastRun, discordVars>>

(* As if the schedule were marked before the report is posted.             *)
SendReportMarked(l) ==
  /\ Running(l, "report")
  /\ Goes(l, "post", NoMessage) \/ Failed(l)
  /\ lastRun' = [lastRun EXCEPT ![lanes[l].job.key[2]] = lanes[l].job.at]
  /\ UNCHANGED <<InJob, delivered, discordVars>>

(* sendScheduledReport, sendAdminDigest: what was completed is summed up.  *)
SendReport(l) ==
  /\ Running(l, "report")
  /\ Goes(l, "post", NoMessage) \/ Failed(l)
  /\ UNCHANGED <<InJob, delivered, lastRun, discordVars>>

(* updateDashboard, updateFlightLeaders: the card of this channel is       *)
(* edited, and posted anew when there is none or Discord no longer has it. *)
UpdateCard(l) ==
  /\ Running(l, "card")
  /\ LET c == lanes[l].job.key[2]
         channel == settings.channels[PurposeOf(c)]
         here == bindings[c] # NoMessage /\ bindings[c].channel = channel
     IN  \/ Failed(l)
         \/ ~Bound(PurposeOf(c)) /\ Over(l)
         \/ /\ Bound(PurposeOf(c))
            /\ lanes' = [lanes EXCEPT ![l].msg = Shown(c), ![l].channel = channel,
                                      ![l].phase = IF here THEN "edit" ELSE "post"]
            /\ UNCHANGED pending
  /\ UNCHANGED <<InJob, delivered, lastRun, discordVars>>

EditCard(l) ==
  /\ lanes[l].phase = "edit"
  /\ LET found == Live(lanes[l].msg) /\ messages[lanes[l].msg].channel = lanes[l].channel
     IN  \/ found /\ Over(l)
         \/ ~found /\ Goes(l, "post", lanes[l].msg)
         \/ Failed(l)
  /\ UNCHANGED <<InJob, delivered, lastRun, discordVars>>

-----------------------------------------------------------------------------
(* Only the dashboard's nonce names the message it replaces.               *)
NonceOf(l) ==
  LET job == lanes[l].job
  IN  IF job.kind = "card"
      THEN <<job.key[2], IF job.chan = "dashboard" THEN lanes[l].msg ELSE NoMessage>>
      ELSE job.subject

Posts(l) ==
  messages' = AfterPost(lanes[l].job.subject, lanes[l].job.key, lanes[l].job.at,
                        lanes[l].channel, NonceOf(l))

(* An answer that is lost leaves a message behind a failed attempt.        *)
Post(l) ==
  /\ lanes[l].phase = "post"
  /\ LET job == lanes[l].job
         m == PostedAs(NonceOf(l))
     IN  \/ /\ Failed(l)
            /\ UNCHANGED <<messages, unrecorded, forgotten, delivered>>
         \/ /\ Posts(l) /\ Failed(l)
            /\ unrecorded' = unrecorded \cup {m}
            /\ UNCHANGED <<forgotten, delivered>>
         \/ /\ job.kind \in {"card", "report"}
            /\ Posts(l) /\ Goes(l, "record", m)
            /\ unrecorded' = unrecorded \cup {m}
            /\ UNCHANGED <<forgotten, delivered>>
         \/ /\ job.kind \in {"alert", "test"}
            /\ Posts(l) /\ Over(l)
            /\ unrecorded' = unrecorded \ {m}
            /\ IF job.kind = "alert" /\ job.key \notin EmergencyKeys
               THEN MarkDelivered(job)
               ELSE UNCHANGED <<forgotten, delivered>>
  /\ UNCHANGED <<InJob, lastRun, bindings>>

(* MarkReportScheduleRun, MarkAdminDigestRun: the time the job was queued. *)
MarkRun(l) ==
  /\ lanes[l].phase = "record" /\ lanes[l].job.kind = "report"
  /\ \/ /\ lastRun' = [lastRun EXCEPT ![lanes[l].job.key[2]] = lanes[l].job.at]
        /\ unrecorded' = unrecorded \ {lanes[l].msg}
        /\ Over(l)
     \/ Failed(l) /\ UNCHANGED <<lastRun, unrecorded>>
  /\ UNCHANGED <<InJob, delivered, messages, bindings, forgotten>>

(* A nonce may have given a message of another channel; it is bound to     *)
(* this one all the same, where it will not be found.                      *)
BindCard(l) ==
  /\ lanes[l].phase = "record" /\ lanes[l].job.kind = "card"
  /\ LET c == lanes[l].job.key[2]
         old == bindings[c]
     IN  \/ /\ UpsertMessageBinding(c, lanes[l].msg, lanes[l].channel)
            /\ unrecorded' =
                 IF messages[lanes[l].msg].channel = lanes[l].channel
                 THEN unrecorded \ {lanes[l].msg} ELSE unrecorded \cup {lanes[l].msg}
            /\ forgotten' = (forgotten \ {lanes[l].msg}) \cup
                 (IF old # NoMessage /\ old.channel # lanes[l].channel THEN {old.msg} ELSE {})
            /\ Over(l)
         \/ Failed(l) /\ UNCHANGED <<bindings, unrecorded, forgotten>>
  /\ UNCHANGED <<InJob, delivered, lastRun, messages>>

Lane(l) ==
  \/ TakeJob(l)
  \/ SendAlert(l) \/ SendTest(l) \/ SendReport(l) \/ UpdateCard(l)
  \/ EditCard(l) \/ Post(l) \/ MarkRun(l) \/ BindCard(l)

(* The process stops: what is queued, running or remembered is gone.       *)
OutboundLost ==
  /\ queue' = [c \in Channels |-> <<>>]
  /\ pending' = {}
  /\ lanes' = [l \in Lanes |-> Polling]
  /\ delivered' = <<>>
  /\ forgotten' = forgotten \cup {m \in DOMAIN messages : messages[m].key \in AlertKeys}
  /\ UNCHANGED <<lastRun, created, settings, submitted, changes>>
=============================================================================
