------------------------------ MODULE Gateway -------------------------------
(***************************************************************************)
(* The Discord gateway: the outbound lanes with their producers, the       *)
(* interactions with their sessions, and the log delivery, over the same   *)
(* messages and bindings (internal/discord/client.go, app/app.go).  The    *)
(* process may stop and start again at any point.                          *)
(***************************************************************************)
EXTENDS Outbound, Moderation

CONSTANTS
  Configurations,  \* what is switched on, and the bounds on time and on
                   \* the sessions, sanctions and settings asked for
  MaxCrashes

ASSUME ConfigurationAssumption ==
  /\ \A c \in Configurations : "dashboard" \in c.enabled => "dashboard" \in Cards
  /\ NoSession \notin AlertKeys

VARIABLES config, crashes

vars == <<clock, config, crashes, discordVars, outboundVars, moderationVars>>

On(service) == service \in config.enabled

(* Where the settings can change, no channel is bound at first.            *)
Init ==
  /\ config \in Configurations
  /\ clock = PeriodLength
  /\ crashes = 0
  /\ DiscordInit
  /\ OutboundInit(IF On("settings") THEN {} ELSE Purposes)
  /\ ModerationInit(~On("log"))

(* Time passes; a handler gives up within its budget.                      *)
Tick ==
  /\ clock < config.until
  /\ HandlerInTime
  /\ clock' = clock + 1
  /\ UNCHANGED <<config, crashes, discordVars, outboundVars, moderationVars>>

Crash ==
  /\ crashes < MaxCrashes
  /\ crashes' = crashes + 1
  /\ OutboundLost /\ ModerationLost
  /\ UNCHANGED <<clock, config, messages, bindings, unrecorded>>

InOutbound(A) == A /\ UNCHANGED <<clock, config, crashes, moderationVars>>
InModeration(A) == A /\ UNCHANGED <<clock, config, crashes, outboundVars>>

Alerting ==
  \/ \E k \in AlertKeys \cup EmergencyKeys : SubmitAlert(k)
  \/ SubmitDestinationTest

Reporting ==
  \/ \E s \in Schedules : ScheduleReport(s)
  \/ EnqueueDueReports \/ EnqueueDueAdminDigest

(* The purposes whose channel matters to what is switched on.              *)
Concerned ==
  {p \in Purposes : \/ p = "alerts" /\ On("alerts")
                    \/ p = "admin" /\ On("reports")
                    \/ \E c \in Cards : p = PurposeOf(c) /\ On(c)}

Next ==
  \/ Tick
  \/ On("crashes") /\ Crash
  \/ On("alerts") /\ InOutbound(Alerting) /\ changes' <= config.limit
  \/ On("reports") /\ InOutbound(Reporting)
  \/ \E c \in Cards : On(c) /\ InOutbound(RefreshCard(c))
  \/ /\ On("settings")
     /\ \/ On("alerts") /\ InOutbound(ConfigureAlerts \/ ConfigureGuild)
        \/ \E p \in Concerned : InOutbound(ConfigureChannel(p))
        \/ On("dashboard") /\ InOutbound(ResetDashboard)
     /\ changes' <= config.limit
  \/ \E l \in Lanes : InOutbound(Lane(l))
  \/ /\ On("sanctions") /\ numbered < config.limit
     /\ InModeration(\E u \in Users : RunAtOnce(u))
  \/ /\ On("kicks")
     /\ InModeration(\E u \in Users : OpenView(u) \/ AskKick(u) \/ ChangeAccess(u))
     /\ opened' <= config.limit
  \/ /\ On("deletions")
     /\ InModeration(\E u \in Users, m \in DOMAIN messages : AskDeletion(u, m))
     /\ opened' <= config.limit
  \/ InModeration(UnderWay)
  \/ On("log") /\ InModeration(LogDelivery)

Spec == Init /\ [][Next]_vars

-----------------------------------------------------------------------------
Coalescing(jobs) == {<<j.chan, j.key>> : j \in {i \in jobs : i.chan \in Deduplicated}}
RunningJobs == {lanes[l].job : l \in Lanes} \ {NoJob}

(***************************************************************************)
(* The keys that coalesce alerts and reports are exactly those of the jobs *)
(* that are queued or running, each once: no job that failed, found the    *)
(* queue full or ran out of attempts blocks its key for ever, and none     *)
(* runs beside another of its key (enqueueDeduplicated, releasePending).   *)
(***************************************************************************)
PendingKeysMatchJobs ==
  LET queued == [c \in Deduplicated |-> ToSet(queue[c])]
  IN  /\ pending = Coalescing(RunningJobs \cup UNION {queued[c] : c \in Deduplicated})
      /\ Cardinality(pending) =
           Cardinality({l \in Lanes : lanes[l].job # NoJob /\ lanes[l].job.chan \in Deduplicated})
             + Len(queue["alert"]) + Len(queue["report"])

(***************************************************************************)
(* Two alerts of one condition and aircraft are at least the cooldown      *)
(* apart in the channel, in whatever order they were observed, as long as  *)
(* the bot knows that it posted the first and has not lost its record of   *)
(* it (sendAlert, inCooldown, markDelivered).                              *)
(***************************************************************************)
AlertCooldownKept ==
  \A m1, m2 \in DOMAIN messages :
    m1 < m2 /\ messages[m1].key = messages[m2].key /\ messages[m1].key \in AlertKeys
      => \/ messages[m2].at - messages[m1].at >= Cooldown
         \/ m1 \in unrecorded \cup forgotten

(***************************************************************************)
(* An alert, a report, a log entry or a card is not shown twice in a       *)
(* channel: a second message is only posted when the bot could not know or *)
(* record the first, and then, where the nonce is that of the subject, not *)
(* before Discord forgets it.  Of two messages that show one card, the bot *)
(* has lost one, or given its record up on purpose (nonces;                *)
(* updateDashboard; DeleteMessageBindingByTarget).                         *)
(***************************************************************************)
PostedOnce ==
  \A m1, m2 \in DOMAIN messages :
    /\ m1 < m2 /\ messages[m1].live /\ messages[m2].live
    /\ messages[m1].subject = messages[m2].subject
    /\ messages[m1].channel = messages[m2].channel
    => IF messages[m1].subject[1] = "card"
       THEN {m1, m2} \cap (unrecorded \cup forgotten) # {}
       ELSE m1 \in unrecorded /\ messages[m2].posted - messages[m1].posted >= NonceWindow

(***************************************************************************)
(* A schedule that has run since it was created did post the report of     *)
(* that period: a failure or a crash between the post and the mark never   *)
(* skips a report (sendScheduledReport, MarkReportScheduleRun).            *)
(***************************************************************************)
MarkedMeansPosted ==
  \A s \in DOMAIN lastRun :
    lastRun[s] > created[s] =>
      \E m \in DOMAIN messages : messages[m].subject = <<"report", s, PeriodStart(lastRun[s])>>

(***************************************************************************)
(* The count per user is the number of the user's sessions, through        *)
(* cancelled, used, expired and refused ones, and the limits hold: nobody  *)
(* is locked out by sessions that are gone (CreateWithTTL, deleteLocked).  *)
(***************************************************************************)
SessionsCounted ==
  /\ \A u \in Users : perUser[u] = Counted(u, DOMAIN sessions) /\ perUser[u] <= MaxPerUser
  /\ Cardinality(DOMAIN sessions) <= MaxGlobal

(***************************************************************************)
(* A confirmation leads to one case: a second press of the button, before  *)
(* or after the action, does nothing (handleModerationComponent).          *)
(***************************************************************************)
ConfirmedOnce ==
  \A c, d \in DOMAIN cases :
    c # d /\ cases[c].session = cases[d].session => cases[c].session = NoSession

(***************************************************************************)
(* Discord is only asked to act for a member who had the permission at     *)
(* some moment since the case was created: the permission that came with   *)
(* the interaction is checked again (ExecuteModeration, DeleteMessage).    *)
(***************************************************************************)
ActionWasPermitted == [][effects' # effects => handler.allowed]_vars

(* The life of each case, as CaseLifecycle sees it.                        *)
LifeOf(c) ==
  [status |-> IF c > numbered THEN "none"
              ELSE IF c \notin DOMAIN cases THEN "purged" ELSE cases[c].status,
   performed |-> c \in effects,
   posted |-> \E m \in DOMAIN messages : messages[m].subject = <<"log", c>>,
   log |-> IF c \notin DOMAIN outbox THEN "none"
           ELSE IF outbox[c].delivered THEN "sent" ELSE "queued"]

Lifecycle == INSTANCE CaseLifecycle WITH Cases <- 1..MaxCases,
                                         life <- [c \in 1..MaxCases |-> LifeOf(c)]

(***************************************************************************)
(* The handlers, the storage and the log delivery implement the life cycle *)
(* of a case that CaseLifecycle states, with calls that fail, answers that *)
(* get lost, a full outbox, purges and crashes.                            *)
(***************************************************************************)
CasesFollowLifecycle == Lifecycle!Spec
=============================================================================
