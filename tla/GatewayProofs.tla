---------------------------- MODULE GatewayProofs ----------------------------
(***************************************************************************)
(* Proofs about Gateway, for any users, cards, finite set of schedules,    *)
(* configurations and limits: SessionsCounted, ConfirmedOnce,              *)
(* MarkedMeansPosted, ActionWasPermitted, and that the bot implements      *)
(* CaseLifecycle.                                                          *)
(*                                                                         *)
(* The argument: a session that led to a case is gone and its number is    *)
(* never used again (SessionsLeft); the case of the handler stays pending  *)
(* and unperformed until it acts, and a purge cannot take it because a     *)
(* handler is done long before a case is old (HandlerOK, InTime); a member *)
(* who is about to act had the permission (PermissionOK); the rows of the  *)
(* outbox and of the batch under way are of closed cases, and a row is     *)
(* marked only after its message (OutboxOK); a message is told from any    *)
(* other by its nonce, so a retry that finds one of the same nonce finds   *)
(* its own (NonceOK); and a job that is to be recorded was posted          *)
(* (JobsOK).                                                               *)
(***************************************************************************)
EXTENDS Gateway, FiniteSetTheorems, TLAPS

USE LimitAssumption DEF LimitAssumption

Phases == {"idle", "prepare", "authorise", "create", "check", "recheck", "act", "complete", "unbind"}
Kinds == {"", "kick", "delete", "timeout", "warn"}
SessionIds == Nat \cup {NoSession}
Targets == Nat \cup {NoMessage}

Session == [user : Users, view : {"view", "confirm", "form"}, kind : Kinds, target : Targets,
            expires : Nat]
Handler == [phase : Phases, user : Users \cup {NoSession}, session : SessionIds, kind : Kinds,
            target : Targets, case : Nat, status : {"", "succeeded", "failed"},
            native : BOOLEAN, allowed : BOOLEAN, since : Nat]
Case == [status : {"pending", "succeeded", "failed"}, session : SessionIds,
         user : Users \cup {NoSession}, created : Nat]
Courier == [phase : {"rest", "send", "defer", "mark"}, logs : Seq(Nat), msg : Targets, at : Nat]

SessionType ==
  /\ opened \in Nat
  /\ DOMAIN sessions \subseteq 1..opened
  /\ sessions \in [DOMAIN sessions -> Session]

CaseType ==
  /\ numbered \in Nat /\ numbered <= MaxCases
  /\ DOMAIN cases \subseteq 1..numbered
  /\ cases \in [DOMAIN cases -> Case]
  /\ effects \subseteq 1..numbered

AccessType ==
  /\ access \in [tier : SUBSET Users, native : SUBSET Users]
  /\ handler \in Handler

OutboxType ==
  /\ outbox \in [DOMAIN outbox -> [due : Nat, delivered : BOOLEAN]]
  /\ courier \in Courier

IsSequence(s) == s \in Seq(ToSet(s))

MessageFields == {"subject", "key", "at", "channel", "nonce", "posted", "live"}
MessageType ==
  /\ IsSequence(messages)
  /\ \A m \in DOMAIN messages : messages[m] = [f \in MessageFields |-> messages[m][f]]

\* The nonce of a message is its subject, except that of a card.
NonceOK ==
  \A m \in DOMAIN messages :
    messages[m].nonce = messages[m].subject \/ messages[m].nonce[1] \in {"dashboard", "leaders"}

\* The outcome of the case was recorded.
Closed(c) == c \in DOMAIN cases /\ cases[c].status \in {"succeeded", "failed"}

\* A log entry is only posted for a case that was created.
LogOK ==
  \A m \in DOMAIN messages :
    messages[m].subject[1] = "log" => messages[m].subject[2] \in 1..numbered

\* The subject of a job is of a kind of its own, never a log entry, and that of a
\* report names the period it is for.
JobOK(j) ==
  /\ j.subject[1] \in {"alert", "test", "card", "report"}
  /\ j.kind = "card" => j.key[2] \in {"dashboard", "leaders"}
  /\ j.kind = "report" => j.subject = <<"report", j.key[2], PeriodStart(j.at)>>

HasPosted(subject) == \E m \in DOMAIN messages : messages[m].subject = subject

LaneFields == {"phase", "job", "attempt", "msg", "channel"}

QueueOK ==
  /\ DOMAIN queue = Channels
  /\ \A c \in Channels :
       IsSequence(queue[c]) /\ \A i \in DOMAIN queue[c] : JobOK(queue[c][i])

LanesOK ==
  /\ DOMAIN lanes = Lanes
  /\ \A l \in Lanes :
       /\ DOMAIN lanes[l] = LaneFields
       /\ lanes[l].phase \notin {"poll", "wait"} => JobOK(lanes[l].job)
       /\ lanes[l].phase = "record" /\ lanes[l].job.kind = "report" =>
            HasPosted(lanes[l].job.subject)

JobsOK == QueueOK /\ LanesOK

\* What was run at some time was scheduled.
RunsOK == DOMAIN lastRun \subseteq Schedules \cup {"digest"} /\ DOMAIN created = DOMAIN lastRun

\* The session that led to a case is over; the one a handler has taken led to none.
SessionsLeft ==
  /\ \A c \in DOMAIN cases :
       cases[c].session # NoSession => cases[c].session \in (1..opened) \ DOMAIN sessions
  /\ handler.phase \in {"authorise", "create"} /\ handler.session # NoSession =>
       /\ handler.session \in 1..opened
       /\ \A c \in DOMAIN cases : cases[c].session # handler.session
  /\ handler.phase = "create" /\ handler.session # NoSession =>
       handler.session \notin DOMAIN sessions

\* "allowed" covers the permission as it is now and is what the action rests on.
PermissionOK ==
  /\ handler.case # 0 /\ handler.user \in access.native => handler.allowed
  /\ handler.phase \in {"check", "recheck"} => handler.case # 0
  /\ handler.phase = "act" => handler.allowed

\* The case a handler works on is pending and performed only after the action.
HandlerOK ==
  /\ handler.phase \in {"check", "recheck", "act", "complete"} =>
       /\ handler.case \in DOMAIN cases
       /\ cases[handler.case].status = "pending"
       /\ handler.since <= cases[handler.case].created
  /\ handler.phase \in {"check", "recheck", "act"} => handler.case \notin effects
  /\ handler.phase = "complete" =>
       /\ handler.status # ""
       /\ handler.status = "succeeded" => handler.case \in effects

\* A handler is within its budget.
InTime ==
  handler.phase # "idle" =>
    /\ handler.since <= clock
    /\ clock = handler.since \/ clock < handler.since + HandlerBudget

\* Log entries are of closed cases; what is about to be marked was posted.
OutboxOK ==
  /\ \A c \in DOMAIN outbox : Closed(c)
  /\ courier.phase # "rest" =>
       courier.logs # <<>> /\ \A i \in DOMAIN courier.logs : Closed(courier.logs[i])
  /\ courier.phase = "mark" => HasPosted(<<"log", Row>>)

TypeOK == clock \in Nat /\ SessionType /\ CaseType /\ AccessType /\ OutboxType /\ MessageType

IInv ==
  /\ TypeOK
  /\ SessionsCounted /\ ConfirmedOnce /\ SessionsLeft
  /\ PermissionOK /\ HandlerOK /\ InTime /\ OutboxOK
  /\ NonceOK /\ LogOK /\ JobsOK /\ RunsOK
  /\ MarkedMeansPosted

-----------------------------------------------------------------------------
(* Sets of sessions.                                                       *)

LEMMA SessionsFinite ==
  ASSUME SessionType
  PROVE  IsFiniteSet(DOMAIN sessions)
<1>1. 1 \in Int /\ opened \in Int
  BY DEF SessionType
<1>2. IsFiniteSet(1..opened)
  BY <1>1, FS_Interval
<1> QED
  BY <1>2, FS_Subset DEF SessionType

LEMMA CountedNat ==
  ASSUME SessionType, NEW u, NEW ids \in SUBSET DOMAIN sessions
  PROVE  /\ IsFiniteSet({s \in ids : sessions[s].user = u})
         /\ Counted(u, ids) \in Nat
<1>1. IsFiniteSet(DOMAIN sessions)
  BY SessionsFinite
<1>2. {s \in ids : sessions[s].user = u} \in SUBSET DOMAIN sessions
  OBVIOUS
<1>3. IsFiniteSet({s \in ids : sessions[s].user = u})
  BY <1>1, <1>2, FS_Subset
<1> QED
  BY <1>3, FS_CardinalityType DEF Counted

LEMMA CountedRest ==
  ASSUME SessionType, NEW u, NEW ids \in SUBSET DOMAIN sessions
  PROVE  Counted(u, DOMAIN sessions \ ids) = Counted(u, DOMAIN sessions) - Counted(u, ids)
<1> DEFINE S == {s \in DOMAIN sessions : sessions[s].user = u}
           T == {s \in ids : sessions[s].user = u}
<1>1. IsFiniteSet(S)
  BY CountedNat
<1>2. Cardinality(S \ T) = Cardinality(S) - Cardinality(S \cap T)
  BY <1>1, FS_Difference
<1>3. S \cap T = T /\ S \ T = {s \in DOMAIN sessions \ ids : sessions[s].user = u}
  OBVIOUS
<1> QED
  BY <1>2, <1>3 DEF Counted

\* The sessions after those in ids are gone.
LEMMA RemoveStep ==
  ASSUME SessionType, SessionsCounted, NEW ids, RemoveSessions(ids), opened' = opened
  PROVE  /\ SessionType' /\ SessionsCounted'
         /\ DOMAIN sessions' = DOMAIN sessions \ ids
<1> DEFINE gone == ids \cap DOMAIN sessions
<1>1. /\ sessions' = [s \in DOMAIN sessions \ gone |-> sessions[s]]
      /\ perUser' = [u \in Users |-> perUser[u] - Counted(u, gone)]
  BY DEF RemoveSessions
<1>2. DOMAIN sessions' = DOMAIN sessions \ gone
  BY <1>1
<1>3. SessionType'
  BY <1>1, <1>2 DEF SessionType
<1>4. ASSUME NEW u \in Users
      PROVE  perUser'[u] = Counted(u, DOMAIN sessions)' /\ perUser'[u] <= MaxPerUser
  <2>1. Counted(u, DOMAIN sessions)' = Counted(u, DOMAIN sessions \ gone)
    BY <1>1, <1>2 DEF Counted
  <2>2. Counted(u, DOMAIN sessions \ gone) = Counted(u, DOMAIN sessions) - Counted(u, gone)
    BY CountedRest
  <2>3. Counted(u, gone) \in Nat /\ Counted(u, DOMAIN sessions) \in Nat
    BY CountedNat
  <2>4. perUser[u] = Counted(u, DOMAIN sessions) /\ perUser[u] <= MaxPerUser
    BY DEF SessionsCounted
  <2>5. perUser'[u] = perUser[u] - Counted(u, gone)
    BY <1>1
  <2> QED
    BY <2>1, <2>2, <2>3, <2>4, <2>5
<1>5. Cardinality(DOMAIN sessions') <= MaxGlobal
  <2>1. /\ Cardinality(DOMAIN sessions \ gone) <= Cardinality(DOMAIN sessions)
        /\ IsFiniteSet(DOMAIN sessions \ gone)
    BY SessionsFinite, FS_Subset
  <2>2. Cardinality(DOMAIN sessions \ gone) \in Nat /\ Cardinality(DOMAIN sessions) \in Nat
    BY <2>1, SessionsFinite, FS_CardinalityType
  <2>3. Cardinality(DOMAIN sessions) <= MaxGlobal
    BY DEF SessionsCounted
  <2> QED
    BY <1>2, <2>1, <2>2, <2>3
<1> QED
  BY <1>2, <1>3, <1>4, <1>5 DEF SessionsCounted

\* A session that replaces the expired ones.
LEMMA CreateStep ==
  ASSUME SessionType, SessionsCounted, clock \in Nat,
         NEW u \in Users, NEW view \in {"view", "confirm", "form"}, NEW kind \in Kinds,
         NEW target \in Targets, NEW ttl \in Nat, Create(u, view, kind, target, ttl)
  PROVE  /\ SessionType' /\ SessionsCounted'
         /\ DOMAIN sessions' \subseteq DOMAIN sessions \cup {opened + 1}
         /\ opened' = opened + 1
<1> DEFINE expired == Expired(DOMAIN sessions)
           kept == DOMAIN sessions \ expired
           id == opened + 1
           new == [user |-> u, view |-> view, kind |-> kind, target |-> target,
                   expires |-> clock + ttl]
<1>1. /\ Admits(u)
      /\ opened' = id
      /\ sessions' = [s \in kept \cup {id} |-> IF s = id THEN new ELSE sessions[s]]
      /\ perUser' = [v \in Users |-> perUser[v] - Counted(v, expired) + (IF v = u THEN 1 ELSE 0)]
  BY DEF Create
<1>2. expired \in SUBSET DOMAIN sessions
  BY DEF Expired
<1>3. opened \in Nat /\ id \notin DOMAIN sessions /\ new \in Session
  <2>1. opened \in Nat /\ id \notin DOMAIN sessions
    BY DEF SessionType
  <2>2. new \in Session
    BY DEF Session
  <2> QED
    BY <2>1, <2>2
<1> HIDE DEF expired, new
<1>4. DOMAIN sessions' = kept \cup {id}
  BY <1>1
<1>5. SessionType'
  <2>1. opened' \in Nat
    BY <1>1, <1>3
  <2>2. kept \cup {id} \subseteq 1..opened'
    BY <1>1, <1>3 DEF SessionType
  <2>3. \A s \in kept \cup {id} : sessions'[s] \in Session
    BY <1>1, <1>3 DEF SessionType
  <2> QED
    BY <1>1, <1>4, <2>1, <2>2, <2>3 DEF SessionType
<1>6. IsFiniteSet(kept) /\ Cardinality(kept) \in Nat
  BY SessionsFinite, FS_Subset, FS_CardinalityType
<1>7. Cardinality(DOMAIN sessions') <= MaxGlobal
  <2>1. Cardinality(kept \cup {id}) = Cardinality(kept) + 1
    BY <1>3, <1>6, FS_AddElement
  <2>2. Cardinality(kept) < MaxGlobal
    BY <1>1 DEF Admits, expired
  <2> QED
    BY <1>4, <1>6, <2>1, <2>2
<1>8. ASSUME NEW v \in Users
      PROVE  perUser'[v] = Counted(v, DOMAIN sessions)' /\ perUser'[v] <= MaxPerUser
  <2> DEFINE own == {s \in kept : sessions[s].user = v}
  <2>1. perUser[v] = Counted(v, DOMAIN sessions) /\ perUser[v] <= MaxPerUser
    BY DEF SessionsCounted
  <2>2. Counted(v, kept) = Counted(v, DOMAIN sessions) - Counted(v, expired)
    BY <1>2, CountedRest
  <2>3. /\ Counted(v, kept) \in Nat /\ Counted(v, expired) \in Nat
        /\ Counted(v, DOMAIN sessions) \in Nat /\ IsFiniteSet(own)
    BY <1>2, CountedNat
  <2>4. Counted(v, DOMAIN sessions)' = Cardinality({s \in kept \cup {id} : sessions'[s].user = v})
    BY <1>4 DEF Counted
  <2>5. new.user = u
    BY DEF new
  <2>6. CASE v = u
    <3>1. {s \in kept \cup {id} : sessions'[s].user = v} = own \cup {id}
      BY <1>1, <1>3, <2>5, <2>6
    <3>2. Cardinality(own \cup {id}) = Cardinality(own) + 1
      BY <1>3, <2>3, FS_AddElement
    <3>3. perUser[u] - Counted(u, expired) < MaxPerUser
      BY <1>1 DEF Admits, expired
    <3>4. perUser'[v] = perUser[v] - Counted(v, expired) + 1
      BY <1>1, <2>6
    <3>5. Cardinality(own) = Counted(v, kept)
      BY DEF Counted
    <3>6. perUser'[v] <= MaxPerUser
      BY <3>3, <3>4, <2>1, <2>2, <2>3, <2>6
    <3> QED
      BY <2>1, <2>2, <2>3, <2>4, <3>1, <3>2, <3>4, <3>5, <3>6
  <2>7. CASE v # u
    <3>1. {s \in kept \cup {id} : sessions'[s].user = v} = own
      BY <1>1, <1>3, <2>5, <2>7
    <3>2. perUser'[v] = perUser[v] - Counted(v, expired)
      BY <1>1, <2>1, <2>2, <2>3, <2>7
    <3>3. Cardinality(own) = Counted(v, kept)
      BY DEF Counted
    <3>4. perUser'[v] = Counted(v, kept)
      BY <2>1, <2>2, <2>3, <3>2
    <3>5. Counted(v, DOMAIN sessions)' = Counted(v, kept)
      BY <2>4, <3>1, <3>3
    <3>6. Counted(v, kept) <= MaxPerUser
      BY <2>1, <2>2, <2>3
    <3> QED
      BY <3>4, <3>5, <3>6
  <2> QED
    BY <2>6, <2>7
<1> QED
  BY <1>1, <1>4, <1>5, <1>7, <1>8 DEF SessionsCounted

-----------------------------------------------------------------------------
(* The steps, by what they leave alone.                                    *)

OutboundStep ==
  \/ \E k \in AlertKeys \cup EmergencyKeys : SubmitAlert(k)
  \/ SubmitDestinationTest
  \/ \E s \in Schedules : ScheduleReport(s)
  \/ EnqueueDueReports \/ EnqueueDueAdminDigest
  \/ \E c \in Cards : RefreshCard(c)
  \/ ConfigureAlerts \/ ConfigureGuild
  \/ \E p \in Purposes : ConfigureChannel(p)
  \/ On("dashboard") /\ ResetDashboard
  \/ \E l \in Lanes : Lane(l)

InteractionStep ==
  \/ \E u \in Users : RunAtOnce(u) \/ OpenView(u) \/ AskKick(u) \/ ChangeAccess(u)
  \/ \E u \in Users, m \in DOMAIN messages : AskDeletion(u, m)
  \/ \E u \in Users, s \in 1..opened : SubmitReason(u, s) \/ Press(u, s)

HandlerStep ==
  \/ PrepareDeletion \/ Authorise \/ CreateModerationCase \/ Check \/ Act
  \/ CompleteModerationCase \/ DeleteBinding

LEMMA NextCases ==
  ASSUME [Next]_vars
  PROVE  \/ Tick
         \/ Crash
         \/ UNCHANGED vars
         \/ UNCHANGED <<clock, moderationVars>> /\ OutboundStep
         \/ UNCHANGED <<clock, outboundVars>> /\ InteractionStep
         \/ UNCHANGED <<clock, outboundVars>> /\ HandlerStep
         \/ UNCHANGED <<clock, outboundVars>> /\ Cleanup
         \/ UNCHANGED <<clock, outboundVars>> /\ LogDelivery
<1>1. CASE On("alerts") /\ InOutbound(Alerting)
  BY <1>1 DEF InOutbound, Alerting, OutboundStep
<1>2. CASE On("reports") /\ InOutbound(Reporting)
  BY <1>2 DEF InOutbound, Reporting, OutboundStep
<1>3. CASE \E c \in Cards : On(c) /\ InOutbound(RefreshCard(c))
  BY <1>3 DEF InOutbound, OutboundStep
<1>4. CASE \/ InOutbound(ConfigureAlerts \/ ConfigureGuild)
           \/ \E p \in Concerned : InOutbound(ConfigureChannel(p))
           \/ On("dashboard") /\ InOutbound(ResetDashboard)
  BY <1>4 DEF InOutbound, OutboundStep, Concerned
<1>5. CASE \E l \in Lanes : InOutbound(Lane(l))
  BY <1>5 DEF InOutbound, OutboundStep
<1>6. CASE InModeration(\E u \in Users : RunAtOnce(u))
  BY <1>6 DEF InModeration, InteractionStep
<1>7. CASE InModeration(\E u \in Users : OpenView(u) \/ AskKick(u) \/ ChangeAccess(u))
  BY <1>7 DEF InModeration, InteractionStep
<1>8. CASE InModeration(\E u \in Users, m \in DOMAIN messages : AskDeletion(u, m))
  BY <1>8 DEF InModeration, InteractionStep
<1>9. CASE InModeration(UnderWay)
  BY <1>9 DEF InModeration, UnderWay, InteractionStep, HandlerStep
<1>10. CASE InModeration(LogDelivery)
  BY <1>10 DEF InModeration
<1> QED
  BY <1>1, <1>2, <1>3, <1>4, <1>5, <1>6, <1>7, <1>8, <1>9, <1>10 DEF Next

-----------------------------------------------------------------------------
(* The sessions.                                                           *)

LEMMA RefuseStep ==
  ASSUME SessionType, SessionsCounted, NEW u, Refuse(u)
  PROVE  /\ SessionType' /\ SessionsCounted'
         /\ DOMAIN sessions' \subseteq DOMAIN sessions /\ opened' = opened
BY RemoveStep DEF Refuse

LEMMA MessageIndex ==
  ASSUME MessageType, NEW m \in DOMAIN messages
  PROVE  m \in Nat
BY DEF MessageType, IsSequence

\* What a step does to the sessions.
Grown ==
  /\ opened' \in Nat /\ opened <= opened'
  /\ \A s \in DOMAIN sessions' : s \in DOMAIN sessions \/ s > opened

LEMMA CreateOrRefuse ==
  ASSUME SessionType, SessionsCounted, clock \in Nat,
         NEW u \in Users, NEW view \in {"view", "confirm", "form"}, NEW kind \in Kinds,
         NEW target \in Targets, NEW ttl \in Nat,
         Create(u, view, kind, target, ttl) \/ Refuse(u)
  PROVE  SessionType' /\ SessionsCounted' /\ Grown
<1>1. CASE Create(u, view, kind, target, ttl)
  <2>1. /\ SessionType' /\ SessionsCounted'
        /\ DOMAIN sessions' \subseteq DOMAIN sessions \cup {opened + 1}
        /\ opened' = opened + 1
    BY <1>1, CreateStep
  <2>2. Grown
    BY <2>1 DEF Grown, SessionType
  <2> QED
    BY <2>1, <2>2
<1>2. CASE Refuse(u)
  BY <1>2, RefuseStep DEF Grown, SessionType
<1> QED
  BY <1>1, <1>2

LEMMA SessionStep ==
  ASSUME SessionType, SessionsCounted, MessageType, clock \in Nat, [Next]_vars
  PROVE  SessionType' /\ SessionsCounted' /\ Grown
<1> DEFINE Goal == SessionType' /\ SessionsCounted' /\ Grown
<1> SUFFICES Goal
  OBVIOUS
<1> HIDE DEF Goal
<1>1. ASSUME UNCHANGED sessionVars PROVE Goal
  BY <1>1 DEF Goal, sessionVars, SessionType, SessionsCounted, Grown, Counted
<1>2. ASSUME NEW ids, RemoveSessions(ids), opened' = opened PROVE Goal
  <2>1. SessionType' /\ SessionsCounted' /\ DOMAIN sessions' = DOMAIN sessions \ ids
    BY <1>2, RemoveStep
  <2>2. Grown
    BY <1>2, <2>1 DEF Grown, SessionType
  <2> QED
    BY <2>1, <2>2 DEF Goal
<1>3. ASSUME NEW u \in Users, NEW view \in {"view", "confirm", "form"}, NEW kind \in Kinds,
             NEW target \in Targets, NEW ttl \in Nat,
             Create(u, view, kind, target, ttl) \/ Refuse(u)
      PROVE  Goal
  BY <1>3, CreateOrRefuse DEF Goal
<1>4. CASE Crash
  <2>1. /\ sessions' = <<>> /\ perUser' = [u \in Users |-> 0] /\ opened' = opened
    BY <1>4 DEF Crash, ModerationLost
  <2>2. DOMAIN sessions' = {}
    BY <2>1
  <2>3. SessionType'
    BY <2>1, <2>2 DEF SessionType
  <2>4. Cardinality(DOMAIN sessions') <= MaxGlobal
    BY <2>2, FS_EmptySet
  <2>5. ASSUME NEW u \in Users
        PROVE  perUser'[u] = Counted(u, DOMAIN sessions)' /\ perUser'[u] <= MaxPerUser
    <3>1. {s \in DOMAIN sessions' : sessions'[s].user = u} = {}
      BY <2>2
    <3>2. Counted(u, DOMAIN sessions)' = 0
      BY <3>1, FS_EmptySet DEF Counted
    <3> QED
      BY <2>1, <3>2
  <2> QED
    BY <2>1, <2>2, <2>3, <2>4, <2>5 DEF Goal, SessionsCounted, Grown, SessionType
<1>5. CASE Tick \/ UNCHANGED vars \/ UNCHANGED moderationVars
  BY <1>1, <1>5 DEF Tick, vars, moderationVars, sessionVars
<1>6. CASE InteractionStep
  <2>1. ASSUME NEW u \in Users, RunAtOnce(u) \/ ChangeAccess(u) PROVE Goal
    BY <1>1, <2>1 DEF RunAtOnce, ChangeAccess
  <2>2. ASSUME NEW u \in Users, OpenView(u) \/ AskKick(u) PROVE Goal
    BY <1>3, <2>2 DEF OpenView, AskKick, Kinds, Targets
  <2>3. ASSUME NEW u \in Users, NEW m \in DOMAIN messages, AskDeletion(u, m) PROVE Goal
    <3>1. m \in Targets
      BY MessageIndex DEF Targets
    <3> QED
      BY <1>3, <2>3, <3>1 DEF AskDeletion, Kinds
  <2>4. ASSUME NEW u \in Users, NEW s \in 1..opened, SubmitReason(u, s) \/ Press(u, s) PROVE Goal
    <3>1. CASE SubmitReason(u, s)
      BY <1>1, <3>1 DEF SubmitReason
    <3>2. CASE Press(u, s)
      BY <1>1, <1>2, <3>2 DEF Press, sessionVars
    <3> QED
      BY <2>4, <3>1, <3>2
  <2> QED
    BY <1>6, <2>1, <2>2, <2>3, <2>4 DEF InteractionStep
<1>7. CASE PrepareDeletion
  <2> DEFINE s == handler.session
  <2>1. CASE RemoveSessions({s})
    BY <1>2, <1>7, <2>1 DEF PrepareDeletion
  <2>2. CASE /\ sessions' = IF s \in DOMAIN sessions /\ clock < sessions[s].expires
                            THEN [sessions EXCEPT ![s].view = "confirm"] ELSE sessions
             /\ UNCHANGED perUser
    <3>1. DOMAIN sessions' = DOMAIN sessions /\ opened' = opened
      BY <1>7, <2>2 DEF PrepareDeletion
    <3>2. \A t \in DOMAIN sessions : sessions'[t] \in Session /\ sessions'[t].user = sessions[t].user
      BY <2>2 DEF SessionType, Session
    <3>3. SessionType'
      BY <2>2, <3>1, <3>2 DEF SessionType
    <3>4. \A u \in Users : Counted(u, DOMAIN sessions)' = Counted(u, DOMAIN sessions)
      BY <3>1, <3>2 DEF Counted
    <3> QED
      BY <2>2, <3>1, <3>3, <3>4 DEF Goal, SessionsCounted, Grown, SessionType
  <2> QED
    BY <1>7, <2>1, <2>2 DEF PrepareDeletion
<1>8. CASE Authorise \/ Cleanup
  BY <1>2, <1>8 DEF Authorise, Cleanup
<1>9. CASE CreateModerationCase \/ Check \/ Act \/ CompleteModerationCase \/ DeleteBinding
  BY <1>1, <1>9 DEF CreateModerationCase, Check, Act, CompleteModerationCase, DeleteBinding
<1>10. CASE LogDelivery
  BY <1>1, <1>10 DEF LogDelivery, LoadLogs, DeferLog, SendLog, MarkLog, PurgeCases, BindLogChannel
<1> QED
  BY <1>4, <1>5, <1>6, <1>7, <1>8, <1>9, <1>10, NextCases DEF Goal, HandlerStep

-----------------------------------------------------------------------------
(* The handler.                                                            *)

LEMMA IdleFacts ==
  /\ Idle \in Handler
  /\ Idle.phase = "idle" /\ Idle.case = 0
BY DEF Idle, Handler, Phases, Kinds, SessionIds, Targets

LEMMA HandlingFacts ==
  ASSUME clock \in Nat, NEW u \in Users, NEW s \in SessionIds, NEW kind \in Kinds,
         NEW target \in Targets, NEW phase \in Phases
  PROVE  LET h == Handling(u, s, kind, target, phase)
         IN  /\ h \in Handler
             /\ h.phase = phase /\ h.session = s /\ h.case = 0 /\ h.since = clock
<1> DEFINE h == Handling(u, s, kind, target, phase)
<1>0. (u \in access.native) \in BOOLEAN
  OBVIOUS
<1>1. PICK b \in BOOLEAN : b = (u \in access.native)
  BY <1>0, Zenon
<1>2. h = [Idle EXCEPT !.phase = phase, !.user = u, !.session = s, !.kind = kind,
                       !.target = target, !.native = b, !.since = clock]
  BY <1>1 DEF Handling
<1> HIDE DEF h
<1>3. h = [phase |-> phase, user |-> u, session |-> s, kind |-> kind, target |-> target,
           case |-> 0, status |-> "", native |-> b, allowed |-> FALSE, since |-> clock]
  BY <1>2 DEF Idle
<1>4. h.phase = phase /\ h.session = s /\ h.case = 0 /\ h.since = clock
  BY <1>3
<1>5. h \in Handler
  BY <1>3 DEF Handler
<1> QED
  BY <1>4, <1>5 DEF h

\* Handling begins when the handler is free; a confirmation has a session.
Begun ==
  \E u \in Users, s \in SessionIds, kind \in Kinds, target \in Targets,
     phase \in {"prepare", "authorise", "create"} :
    /\ handler.phase = "idle" /\ handler' = Handling(u, s, kind, target, phase)
    /\ phase = "authorise" => s \in DOMAIN sessions
    /\ phase = "create" => s = NoSession

LEMMA BegunFacts ==
  ASSUME clock \in Nat, Begun
  PROVE  /\ handler.phase = "idle" /\ handler' \in Handler
         /\ handler'.phase \in {"prepare", "authorise", "create"}
         /\ handler'.case = 0 /\ handler'.since = clock
         /\ handler'.phase = "authorise" => handler'.session \in DOMAIN sessions
         /\ handler'.phase = "create" => handler'.session = NoSession
<1>1. PICK u \in Users, s \in SessionIds, kind \in Kinds, target \in Targets,
           phase \in {"prepare", "authorise", "create"} :
        /\ handler.phase = "idle" /\ handler' = Handling(u, s, kind, target, phase)
        /\ phase = "authorise" => s \in DOMAIN sessions
        /\ phase = "create" => s = NoSession
  BY DEF Begun
<1>2. phase \in Phases
  BY DEF Phases
<1> QED
  BY <1>1, <1>2, HandlingFacts

\* The permissions change, and what the handler has seen of them.
Granted(u) ==
  /\ access' \in {[access EXCEPT !.tier = Toggled(@, u)], [access EXCEPT !.native = Toggled(@, u)]}
  /\ handler' = [handler EXCEPT !.allowed =
       @ \/ (handler.case # 0 /\ handler.user \in access'.native)]

LEMMA InteractionFacts ==
  ASSUME SessionType, MessageType, clock \in Nat, InteractionStep
  PROVE  /\ UNCHANGED <<cases, numbered, outbox, effects, courier, messages>>
         /\ \/ UNCHANGED <<handler, access>>
            \/ Begun /\ UNCHANGED access
            \/ \E u \in Users : Granted(u)
<1> DEFINE Goal == /\ UNCHANGED <<cases, numbered, outbox, effects, courier, messages>>
                   /\ \/ UNCHANGED <<handler, access>>
                      \/ Begun /\ UNCHANGED access
                      \/ \E u \in Users : Granted(u)
<1> SUFFICES Goal
  OBVIOUS
<1>1. ASSUME NEW u \in Users, RunAtOnce(u) PROVE Goal
  <2>1. PICK kind \in {"timeout", "warn"} :
          handler' = Handling(u, NoSession, kind, NoMessage, "create")
    BY <1>1 DEF RunAtOnce
  <2>2. Begun
    BY <1>1, <2>1 DEF Begun, RunAtOnce, Free, SessionIds, Kinds, Targets
  <2> QED
    BY <1>1, <2>2 DEF RunAtOnce, caseVars, settingVars, discordVars
<1>2. ASSUME NEW u \in Users, OpenView(u) \/ AskKick(u) PROVE Goal
  BY <1>2 DEF OpenView, AskKick, caseVars, settingVars, discordVars
<1>3. ASSUME NEW u \in Users, ChangeAccess(u) PROVE Goal
  BY <1>3 DEF ChangeAccess, Granted, caseVars, discordVars
<1>4. ASSUME NEW u \in Users, NEW m \in DOMAIN messages, AskDeletion(u, m) PROVE Goal
  <2>1. m \in Targets /\ opened + 1 \in SessionIds
    BY MessageIndex DEF Targets, SessionIds, SessionType
  <2>2. UNCHANGED handler \/ handler' = Handling(u, opened + 1, "delete", m, "prepare")
    BY <1>4 DEF AskDeletion
  <2>3. UNCHANGED handler \/ Begun
    <3>1. CASE UNCHANGED handler
      BY <3>1
    <3>2. CASE handler' = Handling(u, opened + 1, "delete", m, "prepare")
      BY <1>4, <2>1, <3>2 DEF Begun, AskDeletion, Free, Kinds
    <3> QED
      BY <2>2, <3>1, <3>2
  <2> QED
    BY <1>4, <2>3 DEF AskDeletion, caseVars, settingVars, discordVars
<1>5. ASSUME NEW u \in Users, NEW s \in 1..opened, SubmitReason(u, s) PROVE Goal
  <2>1. sessions[s].target \in Targets /\ s \in SessionIds
    BY <1>5 DEF SubmitReason, Gets, SessionType, Session, SessionIds
  <2>2. Begun
    BY <1>5, <2>1 DEF Begun, SubmitReason, Free, Kinds
  <2> QED
    BY <1>5, <2>2 DEF SubmitReason, caseVars, settingVars, discordVars
<1>6. ASSUME NEW u \in Users, NEW s \in 1..opened, Press(u, s) PROVE Goal
  <2>1. CASE handler' = handler
    BY <1>6, <2>1 DEF Press, caseVars, settingVars, discordVars
  <2>2. CASE Gets(u, s) /\ handler' = Handling(u, s, sessions[s].kind, sessions[s].target, "authorise")
    <3>1. sessions[s].target \in Targets /\ sessions[s].kind \in Kinds /\ s \in SessionIds
      BY <2>2 DEF Gets, SessionType, Session, SessionIds
    <3>2. Begun
      BY <1>6, <2>2, <3>1 DEF Begun, Press, Free, Gets
    <3> QED
      BY <1>6, <3>2 DEF Press, caseVars, settingVars, discordVars
  <2> QED
    BY <1>6, <2>1, <2>2 DEF Press
<1> HIDE DEF Goal
<1> QED
  BY <1>1, <1>2, <1>3, <1>4, <1>5, <1>6 DEF InteractionStep

LEMMA GrantedFacts ==
  ASSUME AccessType, NEW u \in Users, Granted(u)
  PROVE  /\ AccessType'
         /\ handler'.phase = handler.phase /\ handler'.case = handler.case
         /\ handler'.session = handler.session /\ handler'.status = handler.status
         /\ handler'.since = handler.since /\ handler'.user = handler.user
         /\ handler.allowed => handler'.allowed
         /\ handler'.case # 0 /\ handler'.user \in access'.native => handler'.allowed
<1> DEFINE b == handler.allowed \/ (handler.case # 0 /\ handler.user \in access'.native)
<1>1. handler' = [handler EXCEPT !.allowed = b]
  BY DEF Granted
<1>2. b \in BOOLEAN
  BY DEF AccessType, Handler
<1>3. access' \in [tier : SUBSET Users, native : SUBSET Users]
  BY DEF Granted, AccessType, Toggled
<1>4. (handler.allowed => b) /\ (handler.case # 0 /\ handler.user \in access'.native => b)
  OBVIOUS
<1> HIDE DEF b
<1>5. handler' \in Handler
  BY <1>1, <1>2 DEF AccessType, Handler
<1>6. /\ handler'.phase = handler.phase /\ handler'.case = handler.case
      /\ handler'.session = handler.session /\ handler'.status = handler.status
      /\ handler'.since = handler.since /\ handler'.user = handler.user
  BY <1>1 DEF AccessType, Handler
<1>7. handler'.allowed = b
  BY <1>1 DEF AccessType, Handler
<1> QED
  BY <1>3, <1>4, <1>5, <1>6, <1>7 DEF AccessType

\* h is the handler in another phase.
Follows(h) ==
  /\ h \in Handler
  /\ h.user = handler.user /\ h.session = handler.session
  /\ h.case = handler.case /\ h.allowed = handler.allowed /\ h.since = handler.since

LEMMA FollowFacts ==
  ASSUME AccessType
  PROVE  /\ \A phase \in Phases :
              /\ Follows([handler EXCEPT !.phase = phase])
              /\ [handler EXCEPT !.phase = phase].phase = phase
         /\ \A status \in {"succeeded", "failed"} :
              /\ Follows(Finishing(status))
              /\ Finishing(status).phase = "complete" /\ Finishing(status).status = status
<1>1. ASSUME NEW phase \in Phases
      PROVE  /\ Follows([handler EXCEPT !.phase = phase])
             /\ [handler EXCEPT !.phase = phase].phase = phase
  <2>1. [handler EXCEPT !.phase = phase] \in Handler
    BY DEF AccessType, Handler
  <2>2. [handler EXCEPT !.phase = phase].phase = phase
    BY DEF AccessType, Handler
  <2> QED
    BY <2>1, <2>2 DEF Follows, AccessType, Handler
<1>2. ASSUME NEW status \in {"succeeded", "failed"}
      PROVE  /\ Follows(Finishing(status))
             /\ Finishing(status).phase = "complete" /\ Finishing(status).status = status
  <2>1. "complete" \in Phases
    BY DEF Phases
  <2>2. Finishing(status) \in Handler
    BY <2>1 DEF AccessType, Handler, Finishing
  <2>3. Finishing(status).phase = "complete" /\ Finishing(status).status = status
    BY DEF AccessType, Handler, Finishing
  <2> QED
    BY <2>2, <2>3 DEF Follows, AccessType, Handler, Finishing
<1> QED
  BY <1>1, <1>2

-----------------------------------------------------------------------------
(* What each call of a handler does.                                       *)

LEMMA AuthoriseFacts ==
  ASSUME AccessType, Authorise
  PROVE  /\ handler.phase = "authorise" /\ RemoveSessions({handler.session})
         /\ handler' = Idle \/ (Follows(handler') /\ handler'.phase = "create")
         /\ UNCHANGED <<opened, access, cases, numbered, outbox, effects, courier, messages>>
<1>1. handler' = Idle \/ handler' = [handler EXCEPT !.phase = "create"]
  BY DEF Authorise
<1>2. "create" \in Phases
  BY DEF Phases
<1>3. handler' = Idle \/ (Follows(handler') /\ handler'.phase = "create")
  BY <1>1, <1>2, FollowFacts
<1> QED
  BY <1>3 DEF Authorise, caseVars, settingVars, discordVars

\* The new case is pending and the handler is at its check.
Opened(c) ==
  /\ c = numbered + 1 /\ numbered < MaxCases /\ numbered' = c
  /\ cases' = [d \in DOMAIN cases \cup {c} |->
       IF d = c THEN [status |-> "pending", session |-> handler.session, user |-> handler.user,
                      created |-> clock]
       ELSE cases[d]]
  /\ handler' \in Handler
  /\ handler'.phase = "check" /\ handler'.case = c /\ handler'.user = handler.user
  /\ handler'.allowed = (handler.user \in access.native) /\ handler'.since = handler.since

LEMMA CreateCaseFacts ==
  ASSUME AccessType, CaseType, CreateModerationCase
  PROVE  /\ handler.phase = "create"
         /\ \/ handler' = Idle /\ UNCHANGED <<cases, numbered>>
            \/ Opened(numbered + 1)
         /\ UNCHANGED <<sessionVars, access, outbox, effects, courier, messages>>
<1>1. CASE /\ numbered < MaxCases
           /\ numbered' = numbered + 1
           /\ cases' = [c \in DOMAIN cases \cup {numbered'} |->
                IF c = numbered'
                THEN [status |-> "pending", session |-> handler.session, user |-> handler.user,
                      created |-> clock]
                ELSE cases[c]]
           /\ handler' = [handler EXCEPT !.phase = "check", !.case = numbered',
                                         !.allowed = handler.user \in access.native]
  <2>0. (handler.user \in access.native) \in BOOLEAN
    OBVIOUS
  <2>1. PICK b \in BOOLEAN : b = (handler.user \in access.native)
    BY <2>0, Zenon
  <2>2. handler' = [handler EXCEPT !.phase = "check", !.case = numbered', !.allowed = b]
    BY <1>1, <2>1
  <2>3. numbered' \in Nat /\ "check" \in Phases
    BY <1>1 DEF CaseType, Phases
  <2>4. handler' \in Handler
    BY <2>2, <2>3 DEF AccessType, Handler
  <2>5. /\ handler'.phase = "check" /\ handler'.case = numbered' /\ handler'.user = handler.user
        /\ handler'.since = handler.since
    BY <2>2, <2>3 DEF AccessType, Handler
  <2>6. handler'.allowed = b
    BY <2>2 DEF AccessType, Handler
  <2>7. Opened(numbered + 1)
    BY <1>1, <2>1, <2>4, <2>5, <2>6 DEF Opened
  <2> QED
    BY <2>7 DEF CreateModerationCase, sessionVars, settingVars, discordVars
<1>2. CASE handler' = Idle /\ UNCHANGED <<cases, numbered>>
  BY <1>2 DEF CreateModerationCase, sessionVars, settingVars, discordVars
<1> QED
  BY <1>1, <1>2 DEF CreateModerationCase

LEMMA CheckFacts ==
  ASSUME AccessType, Check
  PROVE  /\ handler.phase \in {"check", "recheck"} /\ Follows(handler')
         /\ \/ handler'.phase = "complete" /\ handler'.status = "failed"
            \/ handler'.phase \in {"recheck", "act"} /\ handler.user \in access.native
         /\ UNCHANGED <<sessionVars, access, cases, numbered, outbox, effects, courier, messages>>
<1>1. \/ handler' = Finishing("failed")
      \/ /\ handler.user \in access.native
         /\ \/ handler' = [handler EXCEPT !.phase = "recheck"]
            \/ handler' = [handler EXCEPT !.phase = "act"]
  BY DEF Check, ResolveMessage, RequireManageMessages, MayModerate
<1>2. "recheck" \in Phases /\ "act" \in Phases
  BY DEF Phases
<1>3. /\ Follows(handler')
      /\ \/ handler'.phase = "complete" /\ handler'.status = "failed"
         \/ handler'.phase \in {"recheck", "act"} /\ handler.user \in access.native
  BY <1>1, <1>2, FollowFacts
<1> QED
  BY <1>3 DEF Check, caseVars, settingVars, discordVars

\* Messages lose nothing but their life.
Kept ==
  /\ DOMAIN messages' = DOMAIN messages /\ IsSequence(messages')
  /\ \A m \in DOMAIN messages :
       /\ messages'[m] = [f \in MessageFields |-> messages'[m][f]]
       /\ messages'[m].subject = messages[m].subject /\ messages'[m].nonce = messages[m].nonce

LEMMA DeleteKept ==
  ASSUME MessageType, NEW t, messages' = AfterDelete(t)
  PROVE  Kept
<1>1. messages' = [messages EXCEPT ![t].live = FALSE]
  BY DEF AfterDelete
<1>2. DOMAIN messages' = DOMAIN messages
  BY <1>1
<1>3. messages \in Seq(ToSet(messages))
  BY DEF MessageType, IsSequence
<1>4. Len(messages) \in Nat /\ DOMAIN messages = 1..Len(messages)
  BY <1>3
<1>5. messages' = [m \in 1..Len(messages) |-> messages'[m]]
  BY <1>1, <1>4
<1>6. \A m \in 1..Len(messages) : messages'[m] \in ToSet(messages')
  BY <1>2, <1>4 DEF ToSet
<1>7. IsSequence(messages')
  BY <1>4, <1>5, <1>6 DEF IsSequence
<1>8. ASSUME NEW m \in DOMAIN messages
      PROVE  /\ messages'[m] = [f \in MessageFields |-> messages'[m][f]]
             /\ messages'[m].subject = messages[m].subject
             /\ messages'[m].nonce = messages[m].nonce
  <2>1. messages[m] = [f \in MessageFields |-> messages[m][f]]
    BY DEF MessageType
  <2>2. messages'[m] = IF m = t THEN [messages[m] EXCEPT !.live = FALSE] ELSE messages[m]
    BY <1>1
  <2>3. messages'[m] = [f \in MessageFields |-> IF m = t /\ f = "live" THEN FALSE ELSE messages[m][f]]
    BY <2>1, <2>2
  <2> QED
    BY <2>3 DEF MessageFields
<1> QED
  BY <1>2, <1>7, <1>8 DEF Kept

LEMMA UnchangedKept ==
  ASSUME MessageType, UNCHANGED messages
  PROVE  Kept
BY DEF MessageType, Kept

LEMMA ActFacts ==
  ASSUME AccessType, MessageType, Act
  PROVE  /\ handler.phase = "act" /\ Follows(handler') /\ handler'.phase = "complete"
         /\ handler'.status \in {"succeeded", "failed"}
         /\ \/ handler'.status = "failed" /\ effects' = effects
            \/ effects' = effects \cup {handler.case}
         /\ Kept
         /\ UNCHANGED <<sessionVars, access, cases, numbered, outbox, courier>>
<1>1. /\ handler' = Finishing("succeeded") \/ handler' = Finishing("failed")
      /\ \/ handler' = Finishing("failed") /\ effects' = effects
         \/ effects' = effects \cup {handler.case}
  BY DEF Act
<1>2. /\ Follows(handler') /\ handler'.phase = "complete"
      /\ handler'.status \in {"succeeded", "failed"}
      /\ handler' = Finishing("failed") => handler'.status = "failed"
  BY <1>1, FollowFacts
<1>3. UNCHANGED messages \/ messages' = AfterDelete(handler.target)
  BY DEF Act, DeleteMessage
<1>4. Kept
  BY <1>3, DeleteKept, UnchangedKept
<1> QED
  BY <1>1, <1>2, <1>4 DEF Act, settingVars

\* The outcome is recorded and its log entry takes its place in the outbox.
Recorded ==
  /\ handler.case \in DOMAIN cases
  /\ cases' = [cases EXCEPT ![handler.case].status = handler.status]
  /\ outbox' = [c \in (DOMAIN outbox \ Victims) \cup {handler.case} |->
       IF c = handler.case THEN [due |-> clock, delivered |-> FALSE] ELSE outbox[c]]

LEMMA CompleteFacts ==
  ASSUME AccessType, CompleteModerationCase
  PROVE  /\ handler.phase = "complete"
         /\ (handler' = Idle /\ UNCHANGED <<cases, outbox>>) \/ Recorded
         /\ handler' = Idle \/ (Follows(handler') /\ handler'.phase = "unbind")
         /\ UNCHANGED <<sessionVars, access, numbered, effects, courier, messages>>
<1>1. "unbind" \in Phases
  BY DEF Phases
<1>2. handler' = Idle \/ handler' = [handler EXCEPT !.phase = "unbind"]
  BY DEF CompleteModerationCase
<1>3. handler' = Idle \/ (Follows(handler') /\ handler'.phase = "unbind")
  BY <1>1, <1>2, FollowFacts
<1> QED
  BY <1>3 DEF CompleteModerationCase, Recorded, settingVars, discordVars

LEMMA FinalFacts ==
  ASSUME PrepareDeletion \/ DeleteBinding
  PROVE  /\ handler' = Idle
         /\ UNCHANGED <<opened, access, cases, numbered, outbox, effects, courier, messages>>
BY DEF PrepareDeletion, DeleteBinding, caseVars, settingVars, discordVars, sessionVars

LEMMA LogFacts ==
  ASSUME LogDelivery
  PROVE  UNCHANGED <<sessionVars, handler, access, numbered, effects>>
BY DEF LogDelivery, LoadLogs, DeferLog, SendLog, MarkLog, PurgeCases, BindLogChannel,
       caseVars, settingVars

LEMMA QuietFacts ==
  ASSUME Tick \/ UNCHANGED vars \/ UNCHANGED moderationVars
  PROVE  UNCHANGED <<sessions, perUser, opened, access, handler, cases, numbered, outbox,
                     courier, effects>>
BY DEF Tick, vars, moderationVars

LEMMA CrashFacts ==
  ASSUME Crash
  PROVE  /\ sessions' = <<>> /\ handler' = Idle /\ courier' = Resting
         /\ UNCHANGED <<opened, access, cases, numbered, outbox, effects, clock, messages>>
BY DEF Crash, ModerationLost, caseVars, settingVars

LEMMA CleanupFacts ==
  ASSUME Cleanup
  PROVE  UNCHANGED <<opened, handler, access, cases, numbered, outbox, effects, courier, messages>>
BY DEF Cleanup, caseVars, settingVars, discordVars

-----------------------------------------------------------------------------
(* The permissions, the time a handler has, and the clock.                 *)

LEMMA AccessStep ==
  ASSUME clock \in Nat, SessionType, CaseType, AccessType, MessageType, PermissionOK, [Next]_vars
  PROVE  AccessType' /\ PermissionOK'
<1> DEFINE Goal == AccessType' /\ PermissionOK'
<1> SUFFICES Goal
  OBVIOUS
<1> HIDE DEF Goal
<1>1. ASSUME UNCHANGED <<handler, access>> PROVE Goal
  BY <1>1 DEF Goal, AccessType, PermissionOK
<1>2. ASSUME UNCHANGED access, handler' = Idle PROVE Goal
  BY <1>2, IdleFacts DEF Goal, AccessType, PermissionOK
<1>3. ASSUME UNCHANGED access, Follows(handler'),
             handler'.phase \in {"check", "recheck"} => handler.phase \in {"check", "recheck"},
             handler'.phase = "act" => handler.phase \in {"check", "recheck"} /\ handler.user \in access.native
      PROVE  Goal
  <2>1. AccessType'
    BY <1>3 DEF AccessType, Follows
  <2>2. PermissionOK'
    BY <1>3 DEF PermissionOK, Follows
  <2> QED
    BY <2>1, <2>2 DEF Goal
<1>4. CASE InteractionStep
  <2>1. CASE UNCHANGED <<handler, access>>
    BY <1>1, <2>1
  <2>2. CASE Begun /\ UNCHANGED access
    BY <2>2, BegunFacts DEF Goal, AccessType, PermissionOK
  <2>3. ASSUME NEW u \in Users, Granted(u) PROVE Goal
    BY <2>3, GrantedFacts DEF Goal, PermissionOK
  <2> QED
    BY <1>4, <2>1, <2>2, <2>3, InteractionFacts
<1>5. CASE HandlerStep
  <2>1. CASE PrepareDeletion \/ DeleteBinding
    BY <1>2, <2>1, FinalFacts
  <2>2. CASE Authorise
    BY <1>2, <1>3, <2>2, AuthoriseFacts
  <2>3. CASE CreateModerationCase
    <3>1. CASE handler' = Idle
      BY <1>2, <2>3, <3>1, CreateCaseFacts
    <3>2. CASE Opened(numbered + 1)
      <4>1. access' = access
        BY <2>3, CreateCaseFacts
      <4>2. numbered + 1 # 0
        BY DEF CaseType
      <4> QED
        BY <3>2, <4>1, <4>2 DEF Goal, AccessType, PermissionOK, Opened
    <3> QED
      BY <2>3, <3>1, <3>2, CreateCaseFacts
  <2>4. CASE Check
    BY <1>3, <2>4, CheckFacts
  <2>5. CASE Act
    BY <1>3, <2>5, ActFacts
  <2>6. CASE CompleteModerationCase
    BY <1>2, <1>3, <2>6, CompleteFacts
  <2> QED
    BY <1>5, <2>1, <2>2, <2>3, <2>4, <2>5, <2>6 DEF HandlerStep
<1>6. CASE Cleanup \/ LogDelivery
  BY <1>1, <1>6, CleanupFacts, LogFacts
<1>7. CASE Tick \/ UNCHANGED vars \/ UNCHANGED moderationVars
  BY <1>1, <1>7, QuietFacts
<1>8. CASE Crash
  BY <1>2, <1>8, CrashFacts
<1> QED
  BY <1>4, <1>5, <1>6, <1>7, <1>8, NextCases

LEMMA TimeStep ==
  ASSUME clock \in Nat, SessionType, CaseType, AccessType, MessageType, InTime, [Next]_vars
  PROVE  clock' \in Nat /\ InTime'
<1>1. CASE Tick
  <2>1. clock' = clock + 1 /\ handler' = handler
    BY <1>1 DEF Tick, moderationVars
  <2>2. handler.phase # "idle" => clock' < handler.since + HandlerBudget
    BY <1>1, <2>1 DEF Tick, HandlerInTime
  <2>3. handler.since \in Nat
    BY DEF AccessType, Handler
  <2> QED
    BY <2>1, <2>2, <2>3 DEF InTime
<1>2. ASSUME UNCHANGED clock, \/ handler' = Idle
                              \/ handler'.since = clock
                              \/ handler.phase # "idle" /\ handler'.since = handler.since
                              \/ handler' = handler
      PROVE  clock' \in Nat /\ InTime'
  BY <1>2, IdleFacts DEF InTime
<1>3. CASE Crash \/ UNCHANGED vars \/ UNCHANGED <<clock, moderationVars>>
  BY <1>2, <1>3, CrashFacts DEF vars, moderationVars
<1>4. CASE UNCHANGED clock /\ InteractionStep
  <2>1. CASE handler' = handler
    BY <1>2, <1>4, <2>1
  <2>2. CASE Begun
    BY <1>2, <1>4, <2>2, BegunFacts
  <2>3. ASSUME NEW u \in Users, Granted(u) PROVE clock' \in Nat /\ InTime'
    <3>1. handler'.phase = handler.phase /\ handler'.since = handler.since
      BY <2>3, GrantedFacts
    <3> QED
      BY <1>4, <3>1 DEF InTime
  <2> QED
    BY <1>4, <2>1, <2>2, <2>3, InteractionFacts
<1>5. CASE UNCHANGED clock /\ HandlerStep
  <2>1. \/ handler' = Idle
        \/ handler.phase # "idle" /\ handler'.since = handler.since
    BY <1>5, FinalFacts, AuthoriseFacts, CreateCaseFacts, CheckFacts, ActFacts, CompleteFacts
       DEF HandlerStep, Follows, Opened
  <2> QED
    BY <1>2, <1>5, <2>1
<1>6. CASE UNCHANGED clock /\ (Cleanup \/ LogDelivery)
  BY <1>2, <1>6, CleanupFacts, LogFacts
<1> QED
  BY <1>1, <1>3, <1>4, <1>5, <1>6, NextCases

-----------------------------------------------------------------------------
(* The cases and their sessions.                                           *)

LEMMA PurgeFacts ==
  ASSUME PurgeCases
  PROVE  LET old == {c \in DOMAIN cases : cases[c].created + Retention < clock}
         IN  /\ courier.phase = "rest"
             /\ cases' = [c \in DOMAIN cases \ old |-> cases[c]]
             /\ outbox' = [c \in DOMAIN outbox \ old |-> outbox[c]]
             /\ UNCHANGED <<courier, messages>>
BY DEF PurgeCases, discordVars

\* Only these steps change cases.
LEMMA CaseCases ==
  ASSUME AccessType, SessionType, CaseType, MessageType, clock \in Nat, [Next]_vars
  PROVE  \/ UNCHANGED <<cases, numbered>>
         \/ CreateModerationCase /\ Opened(numbered + 1)
         \/ CompleteModerationCase /\ Recorded /\ numbered' = numbered
         \/ PurgeCases /\ numbered' = numbered
<1> DEFINE Goal == \/ UNCHANGED <<cases, numbered>>
                   \/ CreateModerationCase /\ Opened(numbered + 1)
                   \/ CompleteModerationCase /\ Recorded /\ numbered' = numbered
                   \/ PurgeCases /\ numbered' = numbered
<1> SUFFICES Goal
  OBVIOUS
<1>1. CASE InteractionStep
  BY <1>1, InteractionFacts
<1>2. CASE HandlerStep
  <2>1. CASE CreateModerationCase
    BY <2>1, CreateCaseFacts
  <2>2. CASE CompleteModerationCase
    BY <2>2, CompleteFacts
  <2>3. CASE PrepareDeletion \/ Authorise \/ Check \/ Act \/ DeleteBinding
    BY <2>3, FinalFacts, AuthoriseFacts, CheckFacts, ActFacts
  <2> QED
    BY <1>2, <2>1, <2>2, <2>3 DEF HandlerStep
<1>3. CASE LogDelivery
  <2>1. numbered' = numbered
    BY <1>3, LogFacts
  <2>2. cases' = cases \/ PurgeCases
    BY <1>3 DEF LogDelivery, LoadLogs, DeferLog, SendLog, MarkLog, BindLogChannel, caseVars
  <2> QED
    BY <2>1, <2>2
<1>4. CASE Cleanup \/ Crash \/ Tick \/ UNCHANGED vars \/ UNCHANGED moderationVars
  BY <1>4, CleanupFacts, CrashFacts, QuietFacts
<1> HIDE DEF Goal
<1> QED
  BY <1>1, <1>2, <1>3, <1>4, NextCases

LEMMA OpenedFacts ==
  ASSUME AccessType, CaseType, clock \in Nat, Opened(numbered + 1)
  PROVE  LET c == numbered + 1
         IN  /\ c \notin DOMAIN cases /\ c \in Nat /\ numbered' = c /\ c <= MaxCases
             /\ DOMAIN cases' = DOMAIN cases \cup {c}
             /\ cases'[c] \in Case /\ cases'[c].status = "pending"
             /\ cases'[c].session = handler.session /\ cases'[c].created = clock
             /\ \A d \in DOMAIN cases : cases'[d] = cases[d]
             /\ cases' \in [DOMAIN cases' -> Case]
<1> DEFINE c == numbered + 1
           new == [status |-> "pending", session |-> handler.session, user |-> handler.user,
                   created |-> clock]
<1>1. c \notin DOMAIN cases /\ c \in Nat /\ numbered' = c /\ c <= MaxCases
  BY DEF CaseType, Opened
<1>2. cases' = [d \in DOMAIN cases \cup {c} |-> IF d = c THEN new ELSE cases[d]]
  BY DEF Opened
<1>3. new \in Case
  BY DEF AccessType, Handler, Case, SessionIds
<1>4. new.status = "pending" /\ new.session = handler.session /\ new.created = clock
  OBVIOUS
<1> HIDE DEF new
<1>5. DOMAIN cases' = DOMAIN cases \cup {c} /\ cases'[c] = new
  BY <1>2
<1>6. \A d \in DOMAIN cases : cases'[d] = cases[d]
  BY <1>1, <1>2
<1>7. cases' \in [DOMAIN cases' -> Case]
  BY <1>2, <1>3, <1>5, <1>6 DEF CaseType
<1> QED
  BY <1>1, <1>3, <1>4, <1>5, <1>6, <1>7

LEMMA RecordedFacts ==
  ASSUME AccessType, CaseType, HandlerOK, handler.phase = "complete", Recorded
  PROVE  /\ DOMAIN cases' = DOMAIN cases /\ cases' \in [DOMAIN cases -> Case]
         /\ \A c \in DOMAIN cases :
              /\ cases'[c].session = cases[c].session
              /\ cases'[c].status = IF c = handler.case THEN handler.status ELSE cases[c].status
         /\ handler.case \in DOMAIN cases /\ handler.status \in {"succeeded", "failed"}
<1>1. handler.case \in DOMAIN cases /\ handler.status \in {"succeeded", "failed"}
  BY DEF Recorded, HandlerOK, AccessType, Handler
<1>2. cases' = [cases EXCEPT ![handler.case].status = handler.status]
  BY DEF Recorded
<1>3. DOMAIN cases' = DOMAIN cases
  BY <1>2
<1>4. ASSUME NEW c \in DOMAIN cases
      PROVE  /\ cases'[c] \in Case
             /\ cases'[c].session = cases[c].session
             /\ cases'[c].status = IF c = handler.case THEN handler.status ELSE cases[c].status
  <2>1. cases[c] \in Case
    BY DEF CaseType
  <2>2. cases'[c] = IF c = handler.case THEN [cases[c] EXCEPT !.status = handler.status] ELSE cases[c]
    BY <1>2
  <2> QED
    BY <1>1, <2>1, <2>2 DEF Case
<1>5. cases' \in [DOMAIN cases -> Case]
  BY <1>2, <1>3, <1>4
<1> QED
  BY <1>1, <1>3, <1>4, <1>5

LEMMA EffectsStep ==
  ASSUME AccessType, SessionType, CaseType, MessageType, clock \in Nat, [Next]_vars
  PROVE  UNCHANGED effects \/ Act
BY NextCases, InteractionFacts, FinalFacts, AuthoriseFacts, CreateCaseFacts, CheckFacts,
   CompleteFacts, LogFacts, CleanupFacts, CrashFacts, QuietFacts DEF HandlerStep

LEMMA CaseStep ==
  ASSUME AccessType, SessionType, CaseType, MessageType, clock \in Nat, HandlerOK, [Next]_vars
  PROVE  CaseType'
<1>1. numbered' \in Nat /\ numbered <= numbered' /\ numbered' <= MaxCases
      /\ DOMAIN cases' \subseteq 1..numbered' /\ cases' \in [DOMAIN cases' -> Case]
  <2>1. CASE UNCHANGED <<cases, numbered>>
    BY <2>1 DEF CaseType
  <2>2. CASE Opened(numbered + 1)
    BY <2>2, OpenedFacts DEF CaseType
  <2>3. CASE CompleteModerationCase /\ Recorded /\ numbered' = numbered
    <3>1. handler.phase = "complete"
      BY <2>3 DEF CompleteModerationCase
    <3> QED
      BY <2>3, <3>1, RecordedFacts DEF CaseType
  <2>4. CASE PurgeCases /\ numbered' = numbered
    BY <2>4 DEF PurgeCases, CaseType
  <2> QED
    BY <2>1, <2>2, <2>3, <2>4, CaseCases
<1>2. effects' \subseteq 1..numbered
  <2>1. CASE UNCHANGED effects
    BY <2>1 DEF CaseType
  <2>2. CASE Act
    <3>1. effects' \subseteq effects \cup {handler.case} /\ handler.phase = "act"
      BY <2>2, ActFacts
    <3>2. handler.case \in DOMAIN cases
      BY <3>1 DEF HandlerOK
    <3> QED
      BY <3>1, <3>2 DEF CaseType
  <2> QED
    BY <2>1, <2>2, EffectsStep
<1> QED
  BY <1>1, <1>2 DEF CaseType

LEMMA CaseSessions ==
  ASSUME AccessType, SessionType, CaseType, MessageType, clock \in Nat, HandlerOK, [Next]_vars,
         NEW c \in DOMAIN cases'
  PROVE  \/ c \in DOMAIN cases /\ cases'[c].session = cases[c].session
         \/ /\ CreateModerationCase /\ Opened(numbered + 1)
            /\ c = numbered + 1 /\ cases'[c].session = handler.session
<1>1. CASE UNCHANGED <<cases, numbered>>
  BY <1>1
<1>2. CASE CreateModerationCase /\ Opened(numbered + 1)
  BY <1>2, OpenedFacts
<1>3. CASE CompleteModerationCase /\ Recorded
  <2>1. handler.phase = "complete"
    BY <1>3 DEF CompleteModerationCase
  <2> QED
    BY <1>3, <2>1, RecordedFacts
<1>4. CASE PurgeCases
  BY <1>4, PurgeFacts
<1> QED
  BY <1>1, <1>2, <1>3, <1>4, CaseCases

LEMMA HandlerSessions ==
  ASSUME AccessType, SessionType, CaseType, MessageType, clock \in Nat, [Next]_vars,
         handler'.phase \in {"authorise", "create"}
  PROVE  \/ /\ handler'.phase = handler.phase /\ handler'.session = handler.session
            /\ ~CreateModerationCase
         \/ Begun /\ cases' = cases
         \/ /\ Authorise /\ cases' = cases
            /\ handler'.session = handler.session /\ handler'.phase = "create"
<1> DEFINE Goal == \/ /\ handler'.phase = handler.phase /\ handler'.session = handler.session
                      /\ ~CreateModerationCase
                   \/ Begun /\ cases' = cases
                   \/ /\ Authorise /\ cases' = cases
                      /\ handler'.session = handler.session /\ handler'.phase = "create"
<1> SUFFICES Goal
  OBVIOUS
<1>1. ~CreateModerationCase
  BY CreateCaseFacts, IdleFacts DEF Opened
<1>2. CASE InteractionStep
  <2>1. CASE handler' = handler
    BY <1>1, <2>1
  <2>2. CASE Begun
    BY <1>2, <2>2, InteractionFacts
  <2>3. ASSUME NEW u \in Users, Granted(u) PROVE Goal
    BY <1>1, <2>3, GrantedFacts
  <2> QED
    BY <1>2, <2>1, <2>2, <2>3, InteractionFacts
<1>3. CASE HandlerStep
  <2>1. CASE Authorise
    BY <2>1, AuthoriseFacts, IdleFacts DEF Follows
  <2>2. ~(PrepareDeletion \/ DeleteBinding \/ Check \/ Act \/ CompleteModerationCase)
    BY FinalFacts, CheckFacts, ActFacts, CompleteFacts, IdleFacts
  <2> QED
    BY <1>1, <1>3, <2>1, <2>2 DEF HandlerStep
<1>4. CASE Cleanup \/ LogDelivery \/ Tick \/ UNCHANGED vars \/ UNCHANGED moderationVars
  BY <1>1, <1>4, CleanupFacts, LogFacts, QuietFacts
<1>5. ~Crash
  BY CrashFacts, IdleFacts
<1> HIDE DEF Goal
<1> QED
  BY <1>2, <1>3, <1>4, <1>5, NextCases

LEMMA SessionsLeftStep ==
  ASSUME AccessType, SessionType, CaseType, MessageType, clock \in Nat, HandlerOK,
         SessionsCounted, SessionsLeft, ConfirmedOnce, [Next]_vars
  PROVE  SessionsLeft' /\ ConfirmedOnce'
<1>1. Grown
  BY SessionStep
<1>2. ASSUME NEW s \in 1..opened, s \notin DOMAIN sessions
      PROVE  s \in 1..opened' /\ s \notin DOMAIN sessions'
  BY <1>1, <1>2 DEF Grown, SessionType
<1>3. ASSUME CreateModerationCase
      PROVE  /\ handler.phase = "create" /\ UNCHANGED sessionVars
             /\ handler.session # NoSession =>
                  /\ handler.session \in (1..opened) \ DOMAIN sessions
                  /\ \A d \in DOMAIN cases : cases[d].session # handler.session
  BY <1>3, CreateCaseFacts DEF SessionsLeft
<1>4. ASSUME NEW c \in DOMAIN cases', cases'[c].session # NoSession
      PROVE  cases'[c].session \in (1..opened') \ DOMAIN sessions'
  <2>1. CASE c \in DOMAIN cases /\ cases'[c].session = cases[c].session
    BY <1>2, <1>4, <2>1 DEF SessionsLeft
  <2>2. CASE CreateModerationCase /\ cases'[c].session = handler.session
    BY <1>3, <1>4, <2>2 DEF sessionVars
  <2> QED
    BY <2>1, <2>2, CaseSessions
<1>5. ASSUME handler'.phase \in {"authorise", "create"}, handler'.session # NoSession
      PROVE  /\ handler'.session \in 1..opened'
             /\ \A c \in DOMAIN cases' : cases'[c].session # handler'.session
             /\ handler'.phase = "create" => handler'.session \notin DOMAIN sessions'
  <2>1. CASE /\ handler'.phase = handler.phase /\ handler'.session = handler.session
             /\ ~CreateModerationCase
    <3>1. \A c \in DOMAIN cases' : c \in DOMAIN cases /\ cases'[c].session = cases[c].session
      BY <2>1, CaseSessions
    <3>2. /\ handler.session \in 1..opened
          /\ \A c \in DOMAIN cases : cases[c].session # handler.session
          /\ handler.phase = "create" => handler.session \notin DOMAIN sessions
      BY <1>5, <2>1 DEF SessionsLeft
    <3>3. handler.session \in 1..opened'
      BY <1>1, <3>2 DEF Grown, SessionType
    <3> QED
      BY <1>2, <2>1, <3>1, <3>2, <3>3
  <2>2. CASE Begun /\ cases' = cases
    <3>1. /\ handler'.phase = "authorise" => handler'.session \in DOMAIN sessions
          /\ handler'.phase = "create" => handler'.session = NoSession
      BY <2>2, BegunFacts
    <3>2. handler'.session \in DOMAIN sessions /\ handler'.phase = "authorise"
      BY <1>5, <3>1
    <3>3. handler'.session \in 1..opened'
      BY <1>1, <3>2 DEF Grown, SessionType
    <3>4. \A c \in DOMAIN cases : cases[c].session # handler'.session
      BY <1>5, <3>2 DEF SessionsLeft
    <3> QED
      BY <2>2, <3>2, <3>3, <3>4
  <2>3. CASE Authorise /\ cases' = cases /\ handler'.session = handler.session
    <3>1. handler.phase = "authorise" /\ RemoveSessions({handler.session}) /\ opened' = opened
      BY <2>3, AuthoriseFacts
    <3>2. DOMAIN sessions' = DOMAIN sessions \ {handler.session}
      BY <3>1, RemoveStep
    <3> QED
      BY <1>5, <2>3, <3>1, <3>2 DEF SessionsLeft
  <2> QED
    BY <1>5, <2>1, <2>2, <2>3, HandlerSessions
<1>6. SessionsLeft'
  BY <1>4, <1>5 DEF SessionsLeft
<1>7. ConfirmedOnce'
  <2> SUFFICES ASSUME NEW c \in DOMAIN cases', NEW d \in DOMAIN cases', c # d,
                      cases'[c].session = cases'[d].session, cases'[c].session # NoSession
               PROVE  FALSE
    BY DEF ConfirmedOnce
  <2>1. CASE c \in DOMAIN cases /\ d \in DOMAIN cases /\ cases'[c].session = cases[c].session
             /\ cases'[d].session = cases[d].session
    BY <2>1 DEF ConfirmedOnce
  <2>2. CASE CreateModerationCase /\ cases'[c].session = handler.session
             /\ d \in DOMAIN cases /\ cases'[d].session = cases[d].session
    BY <1>3, <2>2
  <2>3. CASE CreateModerationCase /\ cases'[d].session = handler.session
             /\ c \in DOMAIN cases /\ cases'[c].session = cases[c].session
    BY <1>3, <2>3
  <2> QED
    BY <2>1, <2>2, <2>3, CaseSessions
<1> QED
  BY <1>6, <1>7

\* A case under a handler's hands is too young to be purged.
LEMMA NotPurged ==
  ASSUME clock \in Nat, CaseType, AccessType, HandlerOK, InTime,
         handler.phase \in {"check", "recheck", "act", "complete"}
  PROVE  ~(cases[handler.case].created + Retention < clock)
<1>1. /\ cases[handler.case].created \in Nat /\ handler.since \in Nat
      /\ handler.since <= cases[handler.case].created
  BY DEF HandlerOK, CaseType, Case, AccessType, Handler
<1>2. clock = handler.since \/ clock < handler.since + HandlerBudget
  BY DEF InTime
<1> QED
  BY <1>1, <1>2, RetentionAssumption DEF RetentionAssumption

LEMMA HandlerOKStep ==
  ASSUME AccessType, SessionType, CaseType, MessageType, clock \in Nat, HandlerOK, InTime,
         [Next]_vars
  PROVE  HandlerOK'
<1> DEFINE hands == {"check", "recheck", "act", "complete"}
<1>1. ASSUME handler'.phase \notin hands PROVE HandlerOK'
  BY <1>1 DEF HandlerOK
<1>2. ASSUME UNCHANGED <<cases, effects>>, handler'.phase = handler.phase,
             handler'.case = handler.case, handler'.status = handler.status,
             handler'.since = handler.since
      PROVE  HandlerOK'
  BY <1>2 DEF HandlerOK
<1>3. CASE InteractionStep
  <2>1. CASE handler' = handler
    BY <1>2, <1>3, <2>1, InteractionFacts
  <2>2. CASE Begun
    BY <1>1, <2>2, BegunFacts
  <2>3. ASSUME NEW u \in Users, Granted(u) PROVE HandlerOK'
    BY <1>2, <1>3, <2>3, GrantedFacts, InteractionFacts
  <2> QED
    BY <1>3, <2>1, <2>2, <2>3, InteractionFacts
<1>4. CASE PrepareDeletion \/ DeleteBinding \/ Crash
  BY <1>1, <1>4, FinalFacts, CrashFacts, IdleFacts
<1>5. CASE Authorise \/ CompleteModerationCase
  BY <1>1, <1>5, AuthoriseFacts, CompleteFacts, IdleFacts
<1>6. CASE CreateModerationCase
  <2>1. CASE handler' = Idle
    BY <1>1, <2>1, IdleFacts
  <2>2. CASE Opened(numbered + 1)
    <3>1. effects' = effects /\ handler.phase = "create"
      BY <1>6, CreateCaseFacts
    <3>2. handler'.phase = "check" /\ handler'.case = numbered + 1 /\ handler'.since = handler.since
      BY <2>2 DEF Opened
    <3>3. numbered + 1 \notin effects
      BY DEF CaseType
    <3>4. /\ numbered + 1 \in DOMAIN cases' /\ cases'[numbered + 1].status = "pending"
          /\ cases'[numbered + 1].created = clock
      BY <2>2, OpenedFacts
    <3>5. handler.since <= clock
      BY <3>1 DEF InTime
    <3> QED
      BY <3>1, <3>2, <3>3, <3>4, <3>5 DEF HandlerOK
  <2> QED
    BY <1>6, <2>1, <2>2, CreateCaseFacts
<1>7. CASE Check
  <2>1. /\ handler.phase \in {"check", "recheck"} /\ Follows(handler')
        /\ \/ handler'.phase = "complete" /\ handler'.status = "failed"
           \/ handler'.phase \in {"recheck", "act"}
        /\ UNCHANGED <<cases, effects>>
    BY <1>7, CheckFacts
  <2> QED
    BY <2>1 DEF HandlerOK, Follows
<1>8. CASE Act
  <2>1. /\ handler.phase = "act" /\ Follows(handler') /\ handler'.phase = "complete"
        /\ handler'.status \in {"succeeded", "failed"}
        /\ \/ handler'.status = "failed" /\ effects' = effects
           \/ effects' = effects \cup {handler.case}
        /\ UNCHANGED cases
    BY <1>8, ActFacts
  <2> QED
    BY <2>1 DEF HandlerOK, Follows
<1>9. CASE LogDelivery
  <2>1. UNCHANGED <<handler, effects>>
    BY <1>9, LogFacts
  <2>2. CASE cases' = cases
    BY <1>2, <2>1, <2>2
  <2>3. CASE PurgeCases
    <3>1. CASE handler.phase \in hands
      <4>1. handler.case \in DOMAIN cases /\ ~(cases[handler.case].created + Retention < clock)
        BY <3>1, NotPurged DEF HandlerOK
      <4>2. handler.case \in DOMAIN cases' /\ cases'[handler.case] = cases[handler.case]
        BY <2>3, <4>1, PurgeFacts
      <4> QED
        BY <2>1, <4>2 DEF HandlerOK
    <3>2. CASE handler.phase \notin hands
      BY <1>1, <2>1, <3>2
    <3> QED
      BY <3>1, <3>2
  <2> QED
    BY <1>9, <2>2, <2>3
    DEF LogDelivery, LoadLogs, DeferLog, SendLog, MarkLog, BindLogChannel, caseVars
<1>10. CASE Cleanup \/ Tick \/ UNCHANGED vars \/ UNCHANGED moderationVars
  BY <1>2, <1>10, CleanupFacts, QuietFacts
<1> QED
  BY <1>3, <1>4, <1>5, <1>6, <1>7, <1>8, <1>9, <1>10, NextCases DEF HandlerStep

-----------------------------------------------------------------------------
(* Sequences.                                                              *)

LEMMA SequenceFacts ==
  ASSUME NEW s, IsSequence(s)
  PROVE  Len(s) \in Nat /\ DOMAIN s = 1..Len(s)
<1>1. s \in Seq(ToSet(s))
  BY DEF IsSequence
<1> QED
  BY <1>1

LEMMA NonemptyFacts ==
  ASSUME NEW S, NEW s \in Seq(S), s # <<>>
  PROVE  Len(s) \in Nat /\ Len(s) # 0 /\ DOMAIN s = 1..Len(s)
OBVIOUS

LEMMA MakeSequence ==
  ASSUME NEW n \in Nat, NEW s, DOMAIN s = 1..n, s = [i \in 1..n |-> s[i]]
  PROVE  IsSequence(s)
<1>1. \A i \in 1..n : s[i] \in ToSet(s)
  BY DEF ToSet
<1> QED
  BY <1>1 DEF IsSequence

LEMMA AppendFacts ==
  ASSUME NEW s, IsSequence(s), NEW x
  PROVE  /\ IsSequence(Append(s, x)) /\ Len(s) \in Nat
         /\ DOMAIN s = 1..Len(s) /\ Len(s) + 1 \notin DOMAIN s
         /\ DOMAIN Append(s, x) = DOMAIN s \cup {Len(s) + 1}
         /\ Len(Append(s, x)) = Len(s) + 1
         /\ \A i \in DOMAIN s : Append(s, x)[i] = s[i]
         /\ Append(s, x)[Len(s) + 1] = x
<1> DEFINE S == ToSet(s) \cup {x}
           t == Append(s, x)
<1>1. s \in Seq(ToSet(s))
  BY DEF IsSequence
<1>2. Len(s) \in Nat /\ DOMAIN s = 1..Len(s) /\ Len(s) + 1 \notin DOMAIN s
  BY <1>1
<1>3. s \in Seq(S)
  BY <1>1
<1> HIDE DEF S
<1>4. x \in S
  BY DEF S
<1>5. /\ t \in Seq(S) /\ Len(t) = Len(s) + 1 /\ t[Len(s) + 1] = x
      /\ \A i \in 1..Len(s) : t[i] = s[i]
  BY <1>3, <1>4
<1> HIDE DEF t
<1>6. DOMAIN t = 1..(Len(s) + 1) /\ t = [i \in 1..(Len(s) + 1) |-> t[i]]
  <2>1. DOMAIN t = 1..Len(t) /\ t = [i \in 1..Len(t) |-> t[i]]
    BY <1>5
  <2> QED
    BY <1>5, <2>1
<1>7. IsSequence(t)
  BY <1>2, <1>6, MakeSequence
<1>8. DOMAIN t = DOMAIN s \cup {Len(s) + 1}
  BY <1>2, <1>6
<1> QED
  BY <1>2, <1>5, <1>7, <1>8 DEF t

-----------------------------------------------------------------------------
(* The messages.                                                           *)

\* A new message.
Added(subject, nonce) ==
  LET n == Len(messages) + 1
  IN  /\ MessageType' /\ n \in Nat
      /\ n \notin DOMAIN messages /\ DOMAIN messages' = DOMAIN messages \cup {n}
      /\ \A m \in DOMAIN messages : messages'[m] = messages[m]
      /\ messages'[n].subject = subject /\ messages'[n].nonce = nonce

LEMMA PostFacts ==
  ASSUME MessageType, NEW subject, NEW key, NEW at, NEW channel, NEW nonce,
         messages' = AfterPost(subject, key, at, channel, nonce)
  PROVE  \/ UNCHANGED messages /\ \E m \in DOMAIN messages : messages[m].nonce = nonce
         \/ Added(subject, nonce)
<1>1. CASE Remembered(nonce) # {}
  BY <1>1 DEF AfterPost, Remembered
<1>2. CASE Remembered(nonce) = {}
  <2> DEFINE new == [subject |-> subject, key |-> key, at |-> at, channel |-> channel,
                     nonce |-> nonce, posted |-> clock, live |-> TRUE]
             n == Len(messages) + 1
  <2>1. messages' = Append(messages, new)
    BY <1>2 DEF AfterPost
  <2>2. /\ new = [f \in MessageFields |-> new[f]]
        /\ new.subject = subject /\ new.nonce = nonce
    BY DEF MessageFields
  <2> HIDE DEF new
  <2>3. IsSequence(messages)
    BY DEF MessageType
  <2>4. /\ IsSequence(messages') /\ n \in Nat
        /\ n \notin DOMAIN messages /\ DOMAIN messages' = DOMAIN messages \cup {n}
        /\ \A m \in DOMAIN messages : messages'[m] = messages[m]
        /\ messages'[n] = new
    BY <2>1, <2>3, AppendFacts
  <2>5. MessageType'
    BY <2>2, <2>4 DEF MessageType
  <2> QED
    BY <2>2, <2>4, <2>5 DEF Added
<1> QED
  BY <1>1, <1>2

LEMMA PostedAsType ==
  ASSUME MessageType, NEW nonce
  PROVE  PostedAs(nonce) \in Nat
<1>1. Len(messages) + 1 \in Nat
  BY SequenceFacts DEF MessageType
<1>2. \A m \in Remembered(nonce) : m \in Nat
  BY MessageIndex DEF Remembered
<1> QED
  BY <1>1, <1>2 DEF PostedAs

LEMMA MessageCases ==
  ASSUME MessageType, AccessType, SessionType, CaseType, clock \in Nat, [Next]_vars
  PROVE  \/ Kept
         \/ \E l \in Lanes : lanes[l].phase = "post" /\ Posts(l) /\ UNCHANGED moderationVars
         \/ SendLog
<1>1. CASE OutboundStep /\ UNCHANGED moderationVars
  <2>1. ASSUME NEW l \in Lanes, Lane(l)
        PROVE  UNCHANGED messages \/ (lanes[l].phase = "post" /\ Posts(l))
    BY <2>1 DEF Lane, TakeJob, Take, SendAlert, SendTest, SendReport, UpdateCard, EditCard,
                Post, MarkRun, BindCard, discordVars
  <2>2. UNCHANGED messages \/ \E l \in Lanes : lanes[l].phase = "post" /\ Posts(l)
    BY <1>1, <2>1
       DEF OutboundStep, SubmitAlert, SubmitDestinationTest, ScheduleReport, EnqueueDueReports,
           EnqueueDueAdminDigest, RefreshCard, ConfigureAlerts, ConfigureGuild,
           ConfigureChannel, ResetDashboard, discordVars
  <2> QED
    BY <1>1, <2>2, UnchangedKept
<1>2. CASE InteractionStep
  BY <1>2, InteractionFacts, UnchangedKept
<1>3. CASE HandlerStep
  BY <1>3, FinalFacts, AuthoriseFacts, CreateCaseFacts, CheckFacts, ActFacts, CompleteFacts,
     UnchangedKept DEF HandlerStep
<1>4. CASE LogDelivery
  <2>1. UNCHANGED messages \/ SendLog
    BY <1>4 DEF LogDelivery, LoadLogs, DeferLog, MarkLog, PurgeCases, BindLogChannel, discordVars
  <2> QED
    BY <2>1, UnchangedKept
<1>5. CASE Cleanup \/ Crash \/ UNCHANGED vars \/ Tick
  BY <1>5, CleanupFacts, CrashFacts, UnchangedKept DEF vars, Tick, discordVars
<1> QED
  BY <1>1, <1>2, <1>3, <1>4, <1>5, NextCases

\* A lane never posts a log entry.
LEMMA LanePosts ==
  ASSUME MessageType, JobsOK, NEW l \in Lanes, lanes[l].phase = "post", Posts(l)
  PROVE  LET subject == lanes[l].job.subject
             nonce == NonceOf(l)
         IN  /\ JobOK(lanes[l].job)
             /\ nonce = subject \/ nonce[1] \in {"dashboard", "leaders"}
             /\ lanes[l].job.kind # "card" => nonce = subject
             /\ \/ UNCHANGED messages /\ \E m \in DOMAIN messages : messages[m].nonce = nonce
                \/ Added(subject, nonce)
<1>1. JobOK(lanes[l].job)
  BY DEF JobsOK, LanesOK
<1>2. messages' = AfterPost(lanes[l].job.subject, lanes[l].job.key, lanes[l].job.at,
                            lanes[l].channel, NonceOf(l))
  BY DEF Posts
<1>3. CASE lanes[l].job.kind = "card"
  <2>1. lanes[l].job.key[2] \in {"dashboard", "leaders"}
    BY <1>1, <1>3 DEF JobOK
  <2>2. NonceOf(l)[1] = lanes[l].job.key[2]
    BY <1>3 DEF NonceOf
  <2> QED
    BY <1>1, <1>2, <1>3, <2>1, <2>2, PostFacts
<1>4. CASE lanes[l].job.kind # "card"
  <2>1. NonceOf(l) = lanes[l].job.subject
    BY <1>4 DEF NonceOf
  <2> QED
    BY <1>1, <1>2, <1>4, <2>1, PostFacts
<1> QED
  BY <1>3, <1>4

-----------------------------------------------------------------------------
(* The log delivery.                                                       *)

LEMMA RowFacts ==
  ASSUME CaseType, OutboxType, OutboxOK, courier.phase # "rest"
  PROVE  /\ Closed(Row) /\ Row \in 1..numbered /\ Row \in Nat
         /\ courier.logs \in Seq(Nat) /\ courier.logs # <<>>
<1>1. courier.logs \in Seq(Nat) /\ courier.logs # <<>>
  BY DEF OutboxType, Courier, OutboxOK
<1>2. 1 \in DOMAIN courier.logs /\ Row = courier.logs[1]
  BY <1>1 DEF Row
<1>3. Closed(Row)
  BY <1>2 DEF OutboxOK
<1>4. Row \in 1..numbered /\ Row \in Nat
  BY <1>3 DEF Closed, CaseType
<1> QED
  BY <1>1, <1>3, <1>4

LEMMA SendLogFacts ==
  ASSUME MessageType, NonceOK, CaseType, OutboxType, OutboxOK, SendLog
  PROVE  \/ UNCHANGED messages /\ HasPosted(<<"log", Row>>)
         \/ Added(<<"log", Row>>, <<"log", Row>>)
<1>1. PICK e : e = <<"log", Row>>
  OBVIOUS
<1>2. messages' = AfterPost(e, NoSession, clock, "", e)
  BY <1>1 DEF SendLog
<1>3. CASE Added(e, e)
  BY <1>1, <1>3
<1>4. CASE UNCHANGED messages /\ \E m \in DOMAIN messages : messages[m].nonce = e
  <2>1. PICK m \in DOMAIN messages : messages[m].nonce = e
    BY <1>4
  <2>2. e[1] = "log"
    BY <1>1
  <2>3. messages[m].subject = e
    BY <2>1, <2>2 DEF NonceOK
  <2> QED
    BY <1>1, <1>4, <2>3 DEF HasPosted
<1> QED
  BY <1>2, <1>3, <1>4, PostFacts

\* What is posted stays, and the log entries are of cases that exist.
LEMMA MessageStep ==
  ASSUME clock \in Nat, SessionType, CaseType, AccessType, OutboxType, MessageType,
         NonceOK, LogOK, JobsOK, OutboxOK, HandlerOK, [Next]_vars
  PROVE  MessageType' /\ NonceOK' /\ LogOK'
<1>1. numbered \in Nat /\ numbered' \in Nat /\ numbered <= numbered'
  <2>1. CASE UNCHANGED <<cases, numbered>>
    BY <2>1 DEF CaseType
  <2>2. CASE Opened(numbered + 1)
    BY <2>2, OpenedFacts DEF CaseType
  <2>3. CASE numbered' = numbered
    BY <2>3 DEF CaseType
  <2> QED
    BY <2>1, <2>2, <2>3, CaseCases
<1>2. ASSUME NEW subject, NEW nonce, Added(subject, nonce),
             nonce = subject \/ nonce[1] \in {"dashboard", "leaders"},
             subject[1] = "log" => subject[2] \in 1..numbered'
      PROVE  MessageType' /\ NonceOK' /\ LogOK'
  <2> DEFINE n == Len(messages) + 1
  <2>1. /\ MessageType' /\ DOMAIN messages' = DOMAIN messages \cup {n}
        /\ \A m \in DOMAIN messages : messages'[m] = messages[m]
        /\ messages'[n].subject = subject /\ messages'[n].nonce = nonce
    BY <1>2 DEF Added
  <2> HIDE DEF n
  <2>2. NonceOK'
    BY <1>2, <2>1 DEF NonceOK
  <2>3. ASSUME NEW m \in DOMAIN messages', messages'[m].subject[1] = "log"
        PROVE  messages'[m].subject[2] \in 1..numbered'
    <3>1. CASE m \in DOMAIN messages
      <4>1. messages[m].subject[2] \in 1..numbered /\ messages'[m] = messages[m]
        BY <2>1, <2>3, <3>1 DEF LogOK
      <4> QED
        BY <1>1, <4>1
    <3>2. CASE m = n
      BY <1>2, <2>1, <2>3, <3>2
    <3> QED
      BY <2>1, <3>1, <3>2
  <2> QED
    BY <2>1, <2>2, <2>3 DEF LogOK
<1>3. ASSUME Kept PROVE MessageType' /\ NonceOK' /\ LogOK'
  <2>1. MessageType'
    BY <1>3 DEF MessageType, Kept
  <2>2. NonceOK'
    BY <1>3 DEF NonceOK, Kept
  <2>3. ASSUME NEW m \in DOMAIN messages', messages'[m].subject[1] = "log"
        PROVE  messages'[m].subject[2] \in 1..numbered'
    <3>1. messages[m].subject[2] \in 1..numbered /\ messages'[m].subject = messages[m].subject
      BY <1>3, <2>3 DEF LogOK, Kept
    <3> QED
      BY <1>1, <3>1
  <2> QED
    BY <2>1, <2>2, <2>3 DEF LogOK
<1>4. ASSUME NEW l \in Lanes, lanes[l].phase = "post", Posts(l)
      PROVE  MessageType' /\ NonceOK' /\ LogOK'
  <2>1. CASE UNCHANGED messages
    BY <1>3, <2>1, UnchangedKept
  <2>2. CASE Added(lanes[l].job.subject, NonceOf(l))
    <3>1. PICK subject, nonce : subject = lanes[l].job.subject /\ nonce = NonceOf(l)
      OBVIOUS
    <3>2. /\ Added(subject, nonce)
          /\ nonce = subject \/ nonce[1] \in {"dashboard", "leaders"}
          /\ subject[1] # "log"
      BY <1>4, <2>2, <3>1, LanePosts DEF JobOK
    <3> QED
      BY <1>2, <3>2
  <2> QED
    BY <1>4, <2>1, <2>2, LanePosts
<1>5. CASE SendLog
  <2>1. CASE UNCHANGED messages
    BY <1>3, <2>1, UnchangedKept
  <2>2. CASE Added(<<"log", Row>>, <<"log", Row>>)
    <3>1. Row \in 1..numbered'
      BY <1>1, <1>5, RowFacts DEF SendLog
    <3>2. PICK e : e = <<"log", Row>>
      OBVIOUS
    <3>3. e[1] = "log" /\ e[2] \in 1..numbered' /\ Added(e, e)
      BY <2>2, <3>1, <3>2
    <3> QED
      BY <1>2, <3>3
  <2> QED
    BY <1>5, <2>1, <2>2, SendLogFacts
<1> QED
  BY <1>3, <1>4, <1>5, MessageCases

LEMMA PostedStays ==
  ASSUME clock \in Nat, SessionType, CaseType, AccessType, OutboxType, MessageType,
         NonceOK, JobsOK, OutboxOK, [Next]_vars, NEW x, HasPosted(x)
  PROVE  \E m \in DOMAIN messages' : messages'[m].subject = x
<1>1. PICK m \in DOMAIN messages : messages[m].subject = x
  BY DEF HasPosted
<1>2. m \in DOMAIN messages' /\ messages'[m].subject = messages[m].subject
  <2>1. CASE Kept \/ UNCHANGED messages
    BY <2>1 DEF Kept
  <2>2. ASSUME NEW subject, NEW nonce, Added(subject, nonce)
        PROVE  m \in DOMAIN messages' /\ messages'[m].subject = messages[m].subject
    BY <2>2 DEF Added
  <2> QED
    BY <2>1, <2>2, MessageCases, LanePosts, SendLogFacts
<1> QED
  BY <1>1, <1>2

\* A case that is closed stays so until it is purged.
LEMMA ClosedStays ==
  ASSUME clock \in Nat, SessionType, CaseType, AccessType, MessageType, HandlerOK, [Next]_vars,
         NEW c, Closed(c)
  PROVE  \/ c \in DOMAIN cases' /\ cases'[c].status \in {"succeeded", "failed"}
         \/ PurgeCases /\ c \notin DOMAIN cases'
<1>1. c \in DOMAIN cases /\ cases[c].status \in {"succeeded", "failed"}
  BY DEF Closed
<1>2. CASE UNCHANGED <<cases, numbered>>
  BY <1>1, <1>2
<1>3. CASE Opened(numbered + 1)
  BY <1>1, <1>3, OpenedFacts
<1>4. CASE CompleteModerationCase /\ Recorded
  <2>1. handler.phase = "complete"
    BY <1>4 DEF CompleteModerationCase
  <2> QED
    BY <1>1, <1>4, <2>1, RecordedFacts
<1>5. CASE PurgeCases
  BY <1>1, <1>5, PurgeFacts
<1> QED
  BY <1>2, <1>3, <1>4, <1>5, CaseCases

OutboxRow == [due : Nat, delivered : BOOLEAN]

LEMMA DeferredFacts ==
  ASSUME OutboxType, Deferred
  PROVE  /\ DOMAIN outbox' = DOMAIN outbox /\ outbox' \in [DOMAIN outbox' -> OutboxRow]
         /\ \A c \in DOMAIN outbox : outbox'[c].delivered = outbox[c].delivered
<1>1. CASE outbox' = outbox
  BY <1>1 DEF OutboxType, OutboxRow
<1>2. CASE Row \in DOMAIN outbox /\ outbox' = [outbox EXCEPT ![Row].due = courier.at + LogBackoff]
  <2>1. courier.at + LogBackoff \in Nat
    BY DEF OutboxType, Courier
  <2>2. ASSUME NEW c \in DOMAIN outbox
        PROVE  outbox'[c] \in OutboxRow /\ outbox'[c].delivered = outbox[c].delivered
    <3>1. outbox[c] \in OutboxRow
      BY DEF OutboxType, OutboxRow
    <3>2. outbox'[c] = IF c = Row THEN [outbox[c] EXCEPT !.due = courier.at + LogBackoff] ELSE outbox[c]
      BY <1>2
    <3> QED
      BY <2>1, <3>1, <3>2 DEF OutboxRow
  <2>3. DOMAIN outbox' = DOMAIN outbox
    BY <1>2
  <2> QED
    BY <1>2, <2>2, <2>3
<1> QED
  BY <1>1, <1>2 DEF Deferred

LEMMA RestingFacts == Resting \in Courier /\ Resting.phase = "rest"
BY DEF Resting, Courier, Targets

LEMMA NextLogFacts ==
  ASSUME CaseType, OutboxType, OutboxOK, courier.phase # "rest", NextLog
  PROVE  /\ courier' \in Courier
         /\ courier'.phase # "mark"
         /\ courier'.phase # "rest" =>
              /\ courier'.logs # <<>>
              /\ \A i \in DOMAIN courier'.logs : Closed(courier'.logs[i])
<1>1. CASE courier' = Resting
  BY <1>1, RestingFacts
<1>2. CASE /\ Len(courier.logs) # 1
           /\ courier' = [courier EXCEPT !.logs = Tail(@), !.msg = NoMessage,
                                         !.phase = IF @ = "mark" THEN "send" ELSE @]
  <2>1. courier.logs \in Seq(Nat) /\ courier.logs # <<>>
    BY RowFacts
  <2>2. Len(courier.logs) \in Nat /\ Len(courier.logs) > 1
    <3>1. Len(courier.logs) \in Nat /\ Len(courier.logs) # 0
      BY <2>1, NonemptyFacts
    <3>2. Len(courier.logs) # 1
      BY <1>2
    <3>3. PICK n : n = Len(courier.logs)
      OBVIOUS
    <3>4. n \in Nat /\ n # 0 /\ n # 1
      BY <3>1, <3>2, <3>3
    <3>5. n > 1
      BY <3>4
    <3> QED
      BY <3>1, <3>3, <3>5
  <2>3. PICK rest : rest = Tail(courier.logs)
    OBVIOUS
  <2>4. /\ rest \in Seq(Nat) /\ Len(rest) = Len(courier.logs) - 1
        /\ \A i \in 1..Len(rest) : rest[i] = courier.logs[i + 1]
    BY <2>1, <2>2, <2>3
  <2>5. rest # <<>>
    BY <2>2, <2>4
  <2>6. PICK phase \in {"send", "defer"} : courier' =
          [courier EXCEPT !.logs = rest, !.msg = NoMessage, !.phase = phase]
    BY <1>2, <2>3 DEF OutboxType, Courier
  <2>7. courier' \in Courier
    BY <2>4, <2>6 DEF OutboxType, Courier, Targets
  <2>8. courier'.phase = phase /\ courier'.logs = rest
    BY <2>6 DEF OutboxType, Courier
  <2>9. ASSUME NEW i \in DOMAIN rest PROVE Closed(rest[i])
    <3>1. i \in 1..Len(rest) /\ i + 1 \in DOMAIN courier.logs
      <4>1. DOMAIN rest = 1..Len(rest) /\ DOMAIN courier.logs = 1..Len(courier.logs)
        BY <2>1, <2>4
      <4>2. PICK n : n = Len(courier.logs)
        OBVIOUS
      <4>3. i \in 1..(n - 1) /\ n \in Nat
        BY <2>2, <2>4, <4>1, <4>2
      <4>4. i + 1 \in 1..n
        BY <4>3
      <4> QED
        BY <4>1, <4>2, <4>4
    <3>2. Closed(courier.logs[i + 1])
      BY <3>1 DEF OutboxOK
    <3> QED
      BY <2>4, <3>1, <3>2
  <2> QED
    BY <2>5, <2>7, <2>8, <2>9
<1> QED
  BY <1>1, <1>2 DEF NextLog

LEMMA LoadLogsFacts ==
  ASSUME clock \in Nat, CaseType, OutboxType, OutboxOK, LoadLogs
  PROVE  /\ courier' \in Courier
         /\ courier'.phase \in {"send", "defer"} /\ courier'.logs # <<>>
         /\ \A i \in DOMAIN courier'.logs : Closed(courier'.logs[i])
<1> DEFINE due == {c \in DOMAIN outbox : ~outbox[c].delivered /\ outbox[c].due <= clock}
           n == Cardinality(due)
<1>1. due # {} /\ due \subseteq DOMAIN outbox
  BY DEF LoadLogs
<1>2. DOMAIN outbox \subseteq 1..numbered
  BY DEF OutboxOK, Closed, CaseType
<1>3. IsFiniteSet(1..numbered)
  <2>1. 1 \in Int /\ numbered \in Int
    BY DEF CaseType
  <2> QED
    BY <2>1, FS_Interval
<1>4. IsFiniteSet(due)
  <2>1. due \in SUBSET (1..numbered)
    BY <1>1, <1>2
  <2> QED
    BY <1>3, <2>1, FS_Subset
<1>5. PICK logs \in SetToSeqs(due) :
        courier' = [phase |-> IF logChannel THEN "send" ELSE "defer",
                    logs |-> logs, msg |-> NoMessage, at |-> clock]
  BY DEF LoadLogs
<1> HIDE DEF due
<1>6. n \in Nat
  BY <1>4, FS_CardinalityType
<1>7. n # 0
  BY <1>1, <1>4, FS_EmptySet
<1>8. logs \in [1..n -> due]
  BY <1>5 DEF SetToSeqs
<1> HIDE DEF n
<1>9. logs \in Seq(Nat) /\ logs # <<>> /\ DOMAIN logs = 1..n
  <2>1. due \subseteq Nat
    BY <1>1, <1>2 DEF CaseType
  <2>2. logs \in [1..n -> Nat]
    BY <1>8, <2>1
  <2>3. logs \in Seq(Nat) /\ DOMAIN logs = 1..n
    BY <1>6, <2>2
  <2>4. 1 \in DOMAIN logs
    BY <1>6, <1>7, <2>3
  <2>5. DOMAIN <<>> = {}
    OBVIOUS
  <2>6. logs # <<>>
    BY <2>4, <2>5
  <2> QED
    BY <2>3, <2>6
<1>10. PICK phase \in {"send", "defer"} :
         courier' = [phase |-> phase, logs |-> logs, msg |-> NoMessage, at |-> clock]
  BY <1>5
<1>11. courier' \in Courier
  BY <1>9, <1>10 DEF Courier, Targets
<1>12. courier'.phase = phase /\ courier'.logs = logs
  BY <1>10
<1>13. \A i \in DOMAIN logs : Closed(logs[i])
  BY <1>1, <1>8, <1>9 DEF OutboxOK
<1> QED
  BY <1>9, <1>11, <1>12, <1>13

LEMMA OutboxCases ==
  ASSUME clock \in Nat, SessionType, CaseType, AccessType, MessageType, [Next]_vars
  PROVE  \/ UNCHANGED <<outbox, courier>>
         \/ Crash /\ UNCHANGED outbox /\ courier' = Resting
         \/ CompleteModerationCase /\ Recorded /\ UNCHANGED courier
         \/ LoadLogs /\ UNCHANGED outbox
         \/ DeferLog
         \/ SendLog
         \/ MarkLog
         \/ PurgeCases /\ UNCHANGED courier
<1>1. CASE UNCHANGED moderationVars \/ Tick \/ UNCHANGED vars
  BY <1>1, QuietFacts
<1>2. CASE InteractionStep
  BY <1>2, InteractionFacts
<1>3. CASE HandlerStep
  BY <1>3, FinalFacts, AuthoriseFacts, CreateCaseFacts, CheckFacts, ActFacts, CompleteFacts
     DEF HandlerStep
<1>4. CASE LogDelivery
  BY <1>4 DEF LogDelivery, LoadLogs, PurgeCases, BindLogChannel, caseVars
<1>5. CASE Crash \/ Cleanup
  BY <1>5, CrashFacts, CleanupFacts
<1> QED
  BY <1>1, <1>2, <1>3, <1>4, <1>5, NextCases

LEMMA MarkFacts ==
  ASSUME OutboxType, MarkLog
  PROVE  /\ DOMAIN outbox' = DOMAIN outbox /\ outbox' \in [DOMAIN outbox' -> OutboxRow]
         /\ outbox' = outbox \/
              /\ Row \in DOMAIN outbox
              /\ \A c \in DOMAIN outbox :
                   outbox'[c].delivered = IF c = Row THEN TRUE ELSE outbox[c].delivered
         /\ courier.phase = "mark" /\ NextLog
         /\ UNCHANGED <<cases, numbered, effects, messages>>
<1>1. CASE outbox' = outbox
  BY <1>1 DEF MarkLog, OutboxType, OutboxRow
<1>2. CASE Row \in DOMAIN outbox /\ outbox' = [outbox EXCEPT ![Row].delivered = TRUE]
  <2>1. ASSUME NEW c \in DOMAIN outbox
        PROVE  /\ outbox'[c] \in OutboxRow
               /\ outbox'[c].delivered = IF c = Row THEN TRUE ELSE outbox[c].delivered
    <3>1. outbox[c] \in OutboxRow
      BY DEF OutboxType, OutboxRow
    <3>2. CASE c = Row
      <4>1. outbox'[c] = [outbox[c] EXCEPT !.delivered = TRUE]
        BY <1>2, <3>2
      <4> QED
        BY <3>1, <3>2, <4>1 DEF OutboxRow
    <3>3. CASE c # Row
      BY <1>2, <3>1, <3>3
    <3> QED
      BY <3>2, <3>3
  <2>2. DOMAIN outbox' = DOMAIN outbox
    BY <1>2
  <2> QED
    BY <1>2, <2>1, <2>2 DEF MarkLog
<1> QED
  BY <1>1, <1>2 DEF MarkLog

LEMMA RecordedRows ==
  ASSUME clock \in Nat, OutboxType, Recorded
  PROVE  /\ DOMAIN outbox' = (DOMAIN outbox \ Victims) \cup {handler.case}
         /\ outbox' \in [DOMAIN outbox' -> OutboxRow]
         /\ ~outbox'[handler.case].delivered
         /\ \A c \in DOMAIN outbox \ Victims : c # handler.case => outbox'[c] = outbox[c]
<1> DEFINE new == [due |-> clock, delivered |-> FALSE]
           kept == DOMAIN outbox \ Victims
<1>1. outbox' = [c \in kept \cup {handler.case} |-> IF c = handler.case THEN new ELSE outbox[c]]
  BY DEF Recorded
<1>2. new \in OutboxRow /\ ~new.delivered
  BY DEF OutboxRow
<1> HIDE DEF new
<1>3. \A c \in kept : outbox[c] \in OutboxRow
  BY DEF OutboxType, OutboxRow
<1> HIDE DEF kept
<1>4. DOMAIN outbox' = kept \cup {handler.case}
  BY <1>1
<1>5. outbox' \in [DOMAIN outbox' -> OutboxRow]
  BY <1>1, <1>2, <1>3, <1>4
<1>6. outbox'[handler.case] = new
  BY <1>1
<1>7. \A c \in kept : c # handler.case => outbox'[c] = outbox[c]
  BY <1>1
<1> QED
  BY <1>2, <1>4, <1>5, <1>6, <1>7 DEF kept

LEMMA SendLogRows ==
  ASSUME MessageType, CaseType, OutboxType, OutboxOK, SendLog
  PROVE  /\ courier.phase = "send"
         /\ DOMAIN outbox' = DOMAIN outbox /\ outbox' \in [DOMAIN outbox' -> OutboxRow]
         /\ \A c \in DOMAIN outbox : outbox'[c].delivered = outbox[c].delivered
         /\ \/ NextLog
            \/ /\ courier' \in Courier /\ courier'.phase = "mark"
               /\ courier'.logs = courier.logs
         /\ UNCHANGED <<cases, numbered, effects>>
<1>1. CASE Deferred /\ NextLog
  BY <1>1, DeferredFacts DEF SendLog
<1>2. CASE courier' = [courier EXCEPT !.phase = "mark", !.msg = PostedAs(<<"log", Row>>)]
           /\ UNCHANGED outbox
  <2>1. PICK m : m = PostedAs(<<"log", Row>>)
    OBVIOUS
  <2>2. m \in Targets
    BY <2>1, PostedAsType DEF Targets
  <2>3. courier' = [courier EXCEPT !.phase = "mark", !.msg = m]
    BY <1>2, <2>1
  <2>4. courier' \in Courier
    BY <2>2, <2>3 DEF OutboxType, Courier
  <2>5. courier'.phase = "mark" /\ courier'.logs = courier.logs
    BY <2>3 DEF OutboxType, Courier
  <2>6. DOMAIN outbox' = DOMAIN outbox /\ outbox' \in [DOMAIN outbox' -> OutboxRow]
    BY <1>2 DEF OutboxType, OutboxRow
  <2> QED
    BY <1>2, <2>4, <2>5, <2>6 DEF SendLog
<1> QED
  BY <1>1, <1>2 DEF SendLog

LEMMA PurgeRows ==
  ASSUME CaseType, OutboxType, OutboxOK, PurgeCases
  PROVE  /\ courier.phase = "rest" /\ UNCHANGED courier
         /\ outbox' \in [DOMAIN outbox' -> OutboxRow]
         /\ DOMAIN outbox' = DOMAIN outbox \cap DOMAIN cases' /\ DOMAIN cases' \subseteq DOMAIN cases
         /\ \A c \in DOMAIN outbox' : outbox'[c] = outbox[c]
         /\ \A c \in DOMAIN cases' : cases'[c] = cases[c]
<1> DEFINE old == {c \in DOMAIN cases : cases[c].created + Retention < clock}
<1>1. /\ courier.phase = "rest" /\ UNCHANGED courier
      /\ cases' = [c \in DOMAIN cases \ old |-> cases[c]]
      /\ outbox' = [c \in DOMAIN outbox \ old |-> outbox[c]]
  BY PurgeFacts
<1> HIDE DEF old
<1>2. DOMAIN outbox \subseteq DOMAIN cases
  BY DEF OutboxOK, Closed
<1>3. \A c \in DOMAIN outbox : outbox[c] \in OutboxRow
  BY DEF OutboxType, OutboxRow
<1>4. DOMAIN outbox' = DOMAIN outbox \ old /\ DOMAIN cases' = DOMAIN cases \ old
  BY <1>1
<1>5. outbox' \in [DOMAIN outbox' -> OutboxRow]
  BY <1>1, <1>3, <1>4
<1> QED
  BY <1>1, <1>2, <1>4, <1>5

\* The rows of the outbox and of the batch are of cases that were closed.
LEMMA RowsStep ==
  ASSUME clock \in Nat, SessionType, CaseType, AccessType, OutboxType, MessageType,
         OutboxOK, [Next]_vars
  PROVE  /\ OutboxType'
         /\ courier'.phase # "rest" =>
              courier'.logs # <<>> /\ \A i \in DOMAIN courier'.logs : Closed(courier'.logs[i])
         /\ \A c \in DOMAIN outbox' :
              c \in DOMAIN outbox \/ (CompleteModerationCase /\ Recorded /\ c = handler.case)
<1> DEFINE LogsOK == courier'.phase # "rest" =>
             courier'.logs # <<>> /\ \A i \in DOMAIN courier'.logs : Closed(courier'.logs[i])
           RowsOK == \A c \in DOMAIN outbox' :
             c \in DOMAIN outbox \/ (CompleteModerationCase /\ Recorded /\ c = handler.case)
           Goal == OutboxType' /\ LogsOK /\ RowsOK
<1> SUFFICES Goal
  OBVIOUS
<1>1. ASSUME courier' = courier PROVE LogsOK /\ courier' \in Courier
  BY <1>1 DEF OutboxOK, OutboxType
<1>2. ASSUME courier.phase # "rest", NextLog PROVE LogsOK /\ courier' \in Courier
  BY <1>2, NextLogFacts
<1>3. ASSUME DOMAIN outbox' = DOMAIN outbox, outbox' \in [DOMAIN outbox' -> OutboxRow],
             LogsOK, courier' \in Courier
      PROVE  Goal
  BY <1>3 DEF OutboxType, OutboxRow
<1>4. ASSUME UNCHANGED outbox
      PROVE  DOMAIN outbox' = DOMAIN outbox /\ outbox' \in [DOMAIN outbox' -> OutboxRow]
  BY <1>4 DEF OutboxType, OutboxRow
<1>5. CASE UNCHANGED <<outbox, courier>>
  BY <1>1, <1>3, <1>4, <1>5
<1>6. CASE UNCHANGED outbox /\ courier' = Resting
  BY <1>3, <1>4, <1>6, RestingFacts
<1>7. CASE CompleteModerationCase /\ Recorded /\ UNCHANGED courier
  BY <1>1, <1>7, RecordedRows DEF OutboxType, OutboxRow
<1>8. CASE LoadLogs /\ UNCHANGED outbox
  BY <1>3, <1>4, <1>8, LoadLogsFacts
<1>9. CASE DeferLog
  <2>1. courier.phase # "rest" /\ Deferred /\ NextLog
    BY <1>9 DEF DeferLog
  <2> QED
    BY <1>2, <1>3, <2>1, DeferredFacts
<1>10. CASE SendLog
  <2>1. /\ courier.phase = "send"
        /\ DOMAIN outbox' = DOMAIN outbox /\ outbox' \in [DOMAIN outbox' -> OutboxRow]
        /\ \/ NextLog
           \/ courier' \in Courier /\ courier'.logs = courier.logs
    BY <1>10, SendLogRows
  <2>2. LogsOK /\ courier' \in Courier
    <3>1. CASE NextLog
      BY <1>2, <2>1, <3>1
    <3>2. CASE courier' \in Courier /\ courier'.logs = courier.logs
      BY <2>1, <3>2 DEF OutboxOK
    <3> QED
      BY <2>1, <3>1, <3>2
  <2> QED
    BY <1>3, <2>1, <2>2
<1>11. CASE MarkLog
  <2>1. courier.phase # "rest" /\ NextLog
    BY <1>11 DEF MarkLog
  <2> QED
    BY <1>2, <1>3, <1>11, <2>1, MarkFacts
<1>12. CASE PurgeCases /\ UNCHANGED courier
  BY <1>1, <1>12, PurgeRows DEF OutboxType, OutboxRow
<1> HIDE DEF Goal
<1> QED
  BY <1>5, <1>6, <1>7, <1>8, <1>9, <1>10, <1>11, <1>12, OutboxCases

LEMMA OutboxStep ==
  ASSUME clock \in Nat, SessionType, CaseType, AccessType, OutboxType, MessageType,
         NonceOK, JobsOK, OutboxOK, HandlerOK, [Next]_vars
  PROVE  OutboxType' /\ OutboxOK'
<1>1. OutboxType'
  BY RowsStep
<1>2. ASSUME NEW c \in DOMAIN outbox'
      PROVE  c \in DOMAIN cases' /\ cases'[c].status \in {"succeeded", "failed"}
  <2>1. CASE c \in DOMAIN outbox
    <3>1. Closed(c)
      BY <2>1 DEF OutboxOK
    <3>2. CASE PurgeCases
      BY <1>2, <3>1, <3>2, PurgeRows DEF Closed
    <3> QED
      BY <3>1, <3>2, ClosedStays
  <2>2. CASE CompleteModerationCase /\ Recorded /\ c = handler.case
    <3>1. handler.phase = "complete"
      BY <2>2 DEF CompleteModerationCase
    <3> QED
      BY <2>2, <3>1, RecordedFacts
  <2> QED
    BY <1>2, <2>1, <2>2, RowsStep
<1>3. ASSUME courier'.phase # "rest"
      PROVE  /\ courier'.logs # <<>>
             /\ \A i \in DOMAIN courier'.logs :
                  /\ courier'.logs[i] \in DOMAIN cases'
                  /\ cases'[courier'.logs[i]].status \in {"succeeded", "failed"}
  <2>1. ~PurgeCases
    BY <1>3, PurgeRows
  <2>2. courier'.logs # <<>> /\ \A i \in DOMAIN courier'.logs : Closed(courier'.logs[i])
    BY <1>3, RowsStep
  <2>3. ASSUME NEW i \in DOMAIN courier'.logs
        PROVE  /\ courier'.logs[i] \in DOMAIN cases'
               /\ cases'[courier'.logs[i]].status \in {"succeeded", "failed"}
    <3>1. PICK c : c = courier'.logs[i]
      OBVIOUS
    <3>2. Closed(c)
      BY <2>2, <3>1
    <3>3. c \in DOMAIN cases' /\ cases'[c].status \in {"succeeded", "failed"}
      BY <2>1, <3>2, ClosedStays
    <3> QED
      BY <3>1, <3>3
  <2> QED
    BY <2>2, <2>3
<1>4. ASSUME courier'.phase = "mark"
      PROVE  \E m \in DOMAIN messages' : messages'[m].subject = <<"log", Head(courier'.logs)>>
  <2>1. CASE courier' = courier
    <3>1. PICK x : x = <<"log", Row>>
      OBVIOUS
    <3>2. HasPosted(x)
      BY <1>4, <2>1, <3>1 DEF OutboxOK
    <3>3. \E m \in DOMAIN messages' : messages'[m].subject = x
      BY <3>2, PostedStays
    <3> QED
      BY <2>1, <3>1, <3>3 DEF Row
  <2>2. CASE SendLog
    <3>1. courier.phase = "send"
      BY <2>2, SendLogRows
    <3>2. ~NextLog
      BY <1>4, <3>1, NextLogFacts
    <3>3. courier'.logs = courier.logs
      BY <2>2, <3>2, SendLogRows
    <3>4. PICK x : x = <<"log", Row>>
      OBVIOUS
    <3>5. CASE HasPosted(<<"log", Row>>)
      <4>1. \E m \in DOMAIN messages' : messages'[m].subject = x
        BY <3>4, <3>5, PostedStays
      <4> QED
        BY <3>3, <3>4, <4>1 DEF Row
    <3>6. CASE Added(<<"log", Row>>, <<"log", Row>>)
      <4>1. \E m \in DOMAIN messages' : messages'[m].subject = <<"log", Row>>
        BY <3>6 DEF Added
      <4> QED
        BY <3>3, <4>1 DEF Row
    <3> QED
      BY <2>2, <3>5, <3>6, SendLogFacts
  <2>3. ~(DeferLog \/ MarkLog)
    BY <1>4, NextLogFacts DEF DeferLog, MarkLog
  <2>4. ~(courier' = Resting) /\ ~LoadLogs
    BY <1>4, LoadLogsFacts, RestingFacts
  <2> QED
    BY <2>1, <2>2, <2>3, <2>4, OutboxCases
<1> QED
  BY <1>1, <1>2, <1>3, <1>4 DEF OutboxOK, Closed, HasPosted, Row

-----------------------------------------------------------------------------
(* The queues of the outbound scheduler.                                   *)

LEMMA ConcatFacts ==
  ASSUME NEW s, IsSequence(s), NEW t, IsSequence(t)
  PROVE  /\ IsSequence(s \o t)
         /\ Len(s) \in Nat /\ Len(t) \in Nat
         /\ DOMAIN s = 1..Len(s) /\ DOMAIN t = 1..Len(t)
         /\ DOMAIN (s \o t) = 1..(Len(s) + Len(t))
         /\ \A i \in 1..(Len(s) + Len(t)) :
              (s \o t)[i] = IF i <= Len(s) THEN s[i] ELSE t[i - Len(s)]
<1> DEFINE S == ToSet(s) \cup ToSet(t)
           r == s \o t
<1>1. s \in Seq(ToSet(s)) /\ t \in Seq(ToSet(t))
  BY DEF IsSequence
<1>2. s \in Seq(S) /\ t \in Seq(S)
  BY <1>1
<1> HIDE DEF S
<1>3. /\ Len(s) \in Nat /\ Len(t) \in Nat
      /\ DOMAIN s = 1..Len(s) /\ DOMAIN t = 1..Len(t)
  BY <1>2
<1>4. /\ r \in Seq(S) /\ Len(r) = Len(s) + Len(t)
      /\ \A i \in 1..(Len(s) + Len(t)) : r[i] = IF i <= Len(s) THEN s[i] ELSE t[i - Len(s)]
  BY <1>2
<1> HIDE DEF r
<1>5. DOMAIN r = 1..(Len(s) + Len(t)) /\ r = [i \in 1..(Len(s) + Len(t)) |-> r[i]]
  <2>1. DOMAIN r = 1..Len(r) /\ r = [i \in 1..Len(r) |-> r[i]]
    BY <1>4
  <2> QED
    BY <1>4, <2>1
<1>6. Len(s) + Len(t) \in Nat
  BY <1>3
<1>7. IsSequence(r)
  BY <1>5, <1>6, MakeSequence
<1> QED
  BY <1>3, <1>4, <1>5, <1>7 DEF r

LEMMA TailFacts ==
  ASSUME NEW s, IsSequence(s), s # <<>>
  PROVE  /\ IsSequence(Tail(s)) /\ Len(s) \in Nat \ {0} /\ DOMAIN s = 1..Len(s)
         /\ DOMAIN Tail(s) = 1..(Len(s) - 1)
         /\ \A i \in 1..(Len(s) - 1) : Tail(s)[i] = s[i + 1]
         /\ Head(s) = s[1]
<1> DEFINE r == Tail(s)
<1>1. s \in Seq(ToSet(s))
  BY DEF IsSequence
<1>2. Len(s) \in Nat /\ Len(s) # 0 /\ DOMAIN s = 1..Len(s)
  BY <1>1, NonemptyFacts
<1>3. /\ r \in Seq(ToSet(s)) /\ Len(r) = Len(s) - 1
      /\ \A i \in 1..(Len(s) - 1) : r[i] = s[i + 1]
  BY <1>1, <1>2
<1>4. Head(s) = s[1]
  BY <1>1, <1>2
<1> HIDE DEF r
<1>5. DOMAIN r = 1..(Len(s) - 1) /\ r = [i \in 1..(Len(s) - 1) |-> r[i]]
  <2>1. DOMAIN r = 1..Len(r) /\ r = [i \in 1..Len(r) |-> r[i]]
    BY <1>3
  <2> QED
    BY <1>3, <2>1
<1>6. Len(s) - 1 \in Nat
  BY <1>2
<1>7. IsSequence(r)
  BY <1>5, <1>6, MakeSequence
<1> QED
  BY <1>2, <1>3, <1>4, <1>5, <1>7 DEF r

LEMMA AppendQueue ==
  ASSUME QueueOK, NEW job, JobOK(job), NEW c \in Channels,
         queue' = [queue EXCEPT ![c] = Append(@, job)]
  PROVE  QueueOK'
<1>1. DOMAIN queue' = Channels
  BY DEF QueueOK
<1>2. ASSUME NEW d \in Channels
      PROVE  IsSequence(queue'[d]) /\ \A i \in DOMAIN queue'[d] : JobOK(queue'[d][i])
  <2>1. CASE d = c
    <3>1. PICK s : s = queue[c]
      OBVIOUS
    <3>2. IsSequence(s) /\ \A i \in DOMAIN s : JobOK(s[i])
      BY <3>1 DEF QueueOK
    <3>3. queue'[d] = Append(s, job)
      BY <2>1, <3>1 DEF QueueOK
    <3>4. /\ IsSequence(Append(s, job))
          /\ DOMAIN Append(s, job) = DOMAIN s \cup {Len(s) + 1}
          /\ \A i \in DOMAIN s : Append(s, job)[i] = s[i]
          /\ Append(s, job)[Len(s) + 1] = job
      BY <3>2, AppendFacts
    <3>5. \A i \in DOMAIN Append(s, job) : JobOK(Append(s, job)[i])
      BY <3>2, <3>4
    <3> QED
      BY <3>3, <3>4, <3>5
  <2>2. CASE d # c
    BY <2>2 DEF QueueOK
  <2> QED
    BY <2>1, <2>2
<1> QED
  BY <1>1, <1>2 DEF QueueOK

LEMMA EnqueueStep ==
  ASSUME QueueOK, NEW job, JobOK(job), job.chan \in Channels, Becomes(Enqueue(State, job))
  PROVE  QueueOK'
<1>1. PICK c \in Channels : c = job.chan
  OBVIOUS
<1>2. \/ queue' = queue
      \/ queue' = [queue EXCEPT ![c] = Append(@, job)]
      \/ queue' = [queue EXCEPT !["dashboard"] = <<job>>]
  BY <1>1 DEF Becomes, Enqueue, EnqueueDeduplicated, Appended, State
<1>3. CASE queue' = queue
  BY <1>3 DEF QueueOK
<1>4. CASE queue' = [queue EXCEPT ![c] = Append(@, job)]
  BY <1>4, AppendQueue
<1>5. CASE queue' = [queue EXCEPT !["dashboard"] = <<job>>]
  <2>1. IsSequence(<<job>>) /\ DOMAIN <<job>> = {1} /\ <<job>>[1] = job
    <3>1. /\ DOMAIN <<job>> = 1..1 /\ <<job>>[1] = job
          /\ <<job>> = [i \in 1..1 |-> <<job>>[i]]
      OBVIOUS
    <3>2. IsSequence(<<job>>)
      BY <3>1, MakeSequence
    <3>3. 1..1 = {1}
      OBVIOUS
    <3> QED
      BY <3>1, <3>2, <3>3
  <2>2. PICK s : s = <<job>>
    OBVIOUS
  <2>3. IsSequence(s) /\ \A i \in DOMAIN s : JobOK(s[i])
    BY <2>1, <2>2
  <2>4. queue' = [queue EXCEPT !["dashboard"] = s]
    BY <1>5, <2>2
  <2> QED
    BY <2>3, <2>4 DEF QueueOK
<1> QED
  BY <1>2, <1>3, <1>4, <1>5

LEMMA TakeQueue ==
  ASSUME QueueOK, NEW c \in Channels, queue[c] # <<>>, queue' = [queue EXCEPT ![c] = Tail(@)]
  PROVE  QueueOK' /\ JobOK(Head(queue[c]))
<1>1. PICK s : s = queue[c]
  OBVIOUS
<1>2. IsSequence(s) /\ s # <<>> /\ \A i \in DOMAIN s : JobOK(s[i])
  BY <1>1 DEF QueueOK
<1>3. /\ IsSequence(Tail(s)) /\ Len(s) \in Nat \ {0} /\ DOMAIN s = 1..Len(s)
      /\ DOMAIN Tail(s) = 1..(Len(s) - 1)
      /\ \A i \in 1..(Len(s) - 1) : Tail(s)[i] = s[i + 1]
      /\ Head(s) = s[1]
  BY <1>2, TailFacts
<1>4. 1 \in DOMAIN s /\ \A i \in 1..(Len(s) - 1) : i + 1 \in DOMAIN s
  BY <1>3
<1>5. JobOK(Head(s)) /\ \A i \in DOMAIN Tail(s) : JobOK(Tail(s)[i])
  BY <1>2, <1>3, <1>4
<1>6. PICK t : t = Tail(s)
  OBVIOUS
<1>7. IsSequence(t) /\ \A i \in DOMAIN t : JobOK(t[i])
  BY <1>3, <1>5, <1>6
<1>8. queue' = [queue EXCEPT ![c] = t]
  BY <1>1, <1>6
<1>9. QueueOK'
  BY <1>7, <1>8 DEF QueueOK
<1> QED
  BY <1>1, <1>5, <1>9

LEMMA ReportJobOK == ASSUME NEW s PROVE JobOK(ReportJob(s)) /\ ReportJob(s).chan = "report"
<1>1. PICK start : start = PeriodStart(clock)
  OBVIOUS
<1>2. ReportJob(s) = [kind |-> "report", key |-> <<"report", s, start>>, chan |-> "report",
                      subject |-> <<"report", s, start>>, at |-> clock, attempts |-> MaxAttempts]
  BY <1>1 DEF ReportJob, Job
<1>3. /\ ReportJob(s).kind = "report" /\ ReportJob(s).key[2] = s /\ ReportJob(s).at = clock
      /\ ReportJob(s).subject = <<"report", s, start>> /\ ReportJob(s).chan = "report"
      /\ ReportJob(s).subject[1] = "report"
  BY <1>2
<1> QED
  BY <1>1, <1>3 DEF JobOK

LEMMA ReportsQueue ==
  ASSUME QueueOK, RunsOK, EnqueueDueReports
  PROVE  QueueOK'
<1> DEFINE due == {s \in DOMAIN lastRun \ {"digest"} : Due(s)}
           fresh == {s \in due : <<"report", ReportJob(s).key>> \notin pending}
           order == SetToSeq(fresh)
           room == Capacity["report"] - Len(queue["report"])
           n == IF room < Cardinality(fresh) THEN room ELSE Cardinality(fresh)
           new == [i \in 1..n |-> ReportJob(order[i])]
<1>1. queue' = [queue EXCEPT !["report"] = @ \o new]
  BY DEF EnqueueDueReports
<1>2. IsFiniteSet(fresh)
  <2>1. fresh \in SUBSET Schedules
    BY DEF RunsOK
  <2> QED
    BY <2>1, FS_Subset, OutboundAssumption DEF OutboundAssumption
<1>3. Cardinality(fresh) \in Nat
  BY <1>2, FS_CardinalityType
<1>4. PICK s : s = queue["report"]
  OBVIOUS
<1>5. IsSequence(s) /\ \A i \in DOMAIN s : JobOK(s[i])
  BY <1>4 DEF QueueOK, Channels
<1>6. n \in Int
  <2>1. Len(s) \in Nat
    BY <1>5, SequenceFacts
  <2>2. Capacity["report"] \in Nat
    BY OutboundAssumption DEF OutboundAssumption, Channels
  <2> QED
    BY <1>3, <1>4, <2>1, <2>2
<1> HIDE DEF n
<1>7. \A i \in DOMAIN new : JobOK(new[i])
  BY ReportJobOK
<1>8. DOMAIN new = 1..n /\ new = [i \in 1..n |-> new[i]]
  OBVIOUS
<1> HIDE DEF new
<1>9. IsSequence(new)
  <2>1. CASE n \in Nat
    BY <1>8, <2>1, MakeSequence
  <2>2. CASE n \notin Nat
    <3>1. 1..n = 1..0
      BY <1>6, <2>2
    <3>2. DOMAIN new = 1..0 /\ new = [i \in 1..0 |-> new[i]]
      BY <1>8, <3>1
    <3> QED
      BY <3>2, MakeSequence
  <2> QED
    BY <2>1, <2>2
<1>10. PICK t : t = s \o new
  OBVIOUS
<1>11. /\ IsSequence(t)
       /\ Len(s) \in Nat /\ Len(new) \in Nat
       /\ DOMAIN s = 1..Len(s) /\ DOMAIN new = 1..Len(new)
       /\ DOMAIN t = 1..(Len(s) + Len(new))
       /\ \A i \in 1..(Len(s) + Len(new)) :
            t[i] = IF i <= Len(s) THEN s[i] ELSE new[i - Len(s)]
  BY <1>5, <1>9, <1>10, ConcatFacts
<1>12. ASSUME NEW i \in DOMAIN t PROVE JobOK(t[i])
  <2>1. CASE i <= Len(s)
    <3>1. i \in DOMAIN s /\ t[i] = s[i]
      BY <1>11, <2>1
    <3> QED
      BY <1>5, <3>1
  <2>2. CASE ~(i <= Len(s))
    <3>1. i - Len(s) \in DOMAIN new /\ t[i] = new[i - Len(s)]
      BY <1>11, <2>2
    <3> QED
      BY <1>7, <3>1
  <2> QED
    BY <2>1, <2>2
<1>13. queue' = [queue EXCEPT !["report"] = t]
  BY <1>1, <1>4, <1>10
<1> QED
  BY <1>11, <1>12, <1>13 DEF QueueOK, Channels

-----------------------------------------------------------------------------
(* The lanes.                                                              *)

LEMMA PollingFacts == DOMAIN Polling = LaneFields /\ Polling.phase = "poll"
BY DEF Polling, LaneFields

\* The lane takes its job further, or is done with it.
Moved(l) ==
  \E x : /\ lanes' = [lanes EXCEPT ![l] = x] /\ DOMAIN x = LaneFields
         /\ \/ x.phase \in {"poll", "wait"}
            \/ x.job = lanes[l].job /\ x.phase # "record"

LEMMA OverMoves == ASSUME NEW l \in Lanes, Over(l) PROVE Moved(l)
BY PollingFacts DEF Over, Moved

LEMMA FailedMoves == ASSUME NEW l \in Lanes, Failed(l) PROVE Moved(l)
<1>1. CASE Over(l)
  BY <1>1, OverMoves
<1>2. CASE lanes' = [lanes EXCEPT ![l] =
             [Polling EXCEPT !.phase = "run", !.job = lanes[l].job, !.attempt = lanes[l].attempt + 1]]
  <2> DEFINE x == [Polling EXCEPT !.phase = "run", !.job = lanes[l].job,
                                  !.attempt = lanes[l].attempt + 1]
  <2>1. DOMAIN x = LaneFields /\ x.phase = "run" /\ x.job = lanes[l].job
    BY DEF Polling, LaneFields
  <2>2. lanes' = [lanes EXCEPT ![l] = x]
    BY <1>2
  <2> HIDE DEF x
  <2> QED
    BY <2>1, <2>2 DEF Moved
<1> QED
  BY <1>1, <1>2 DEF Failed

LEMMA GoesFacts ==
  ASSUME LanesOK, NEW l \in Lanes, NEW phase, NEW m, Goes(l, phase, m)
  PROVE  \E x : /\ lanes' = [lanes EXCEPT ![l] = x] /\ DOMAIN x = LaneFields
                /\ x.job = lanes[l].job /\ x.phase = phase
<1> DEFINE x == [lanes[l] EXCEPT !.phase = phase, !.msg = m]
<1>1. lanes' = [lanes EXCEPT ![l] = x]
  BY DEF Goes, LanesOK
<1>2. DOMAIN x = LaneFields /\ x.job = lanes[l].job /\ x.phase = phase
  BY DEF LanesOK, LaneFields
<1> HIDE DEF x
<1> QED
  BY <1>1, <1>2

LEMMA GoesMoves ==
  ASSUME LanesOK, NEW l \in Lanes, NEW m, Goes(l, "post", m)
  PROVE  Moved(l)
<1>1. PICK x : /\ lanes' = [lanes EXCEPT ![l] = x] /\ DOMAIN x = LaneFields
               /\ x.job = lanes[l].job /\ x.phase = "post"
  BY GoesFacts
<1> QED
  BY <1>1 DEF Moved

\* What a lane does.
LEMMA LaneCases ==
  ASSUME LanesOK, NEW l \in Lanes, Lane(l)
  PROVE  \/ \E c \in Channels : lanes[l].phase \in {"poll", "wait"} /\ Take(l, c)
         \/ lanes[l].phase = "poll" /\ Moved(l) /\ UNCHANGED <<queue, lastRun, created>>
              /\ lanes'[l].phase = "wait"
         \/ lanes[l].phase \notin {"poll", "wait"} /\ Moved(l)
              /\ UNCHANGED <<queue, created>> /\ (UNCHANGED lastRun \/ MarkRun(l))
         \/ /\ lanes[l].phase = "post" /\ Posts(l) /\ UNCHANGED <<queue, lastRun, created>>
            /\ \E m : Goes(l, "record", m)
<1> DEFINE Goal ==
         \/ \E c \in Channels : lanes[l].phase \in {"poll", "wait"} /\ Take(l, c)
         \/ lanes[l].phase = "poll" /\ Moved(l) /\ UNCHANGED <<queue, lastRun, created>>
              /\ lanes'[l].phase = "wait"
         \/ lanes[l].phase \notin {"poll", "wait"} /\ Moved(l)
              /\ UNCHANGED <<queue, created>> /\ (UNCHANGED lastRun \/ MarkRun(l))
         \/ /\ lanes[l].phase = "post" /\ Posts(l) /\ UNCHANGED <<queue, lastRun, created>>
            /\ \E m : Goes(l, "record", m)
<1> SUFFICES Goal
  OBVIOUS
<1>1. CASE TakeJob(l)
  <2>1. CASE \E c \in Serves(l) : Take(l, c) /\ lanes[l].phase = "wait"
    BY <2>1 DEF Serves, Channels, Lanes
  <2>2. CASE lanes[l].phase = "poll" /\ l # "background" /\ Take(l, l)
    BY <2>2 DEF Channels, Lanes
  <2>3. CASE lanes[l].phase = "poll" /\ Take(l, "dashboard")
    BY <2>3 DEF Channels
  <2>4. CASE /\ lanes[l].phase = "poll" /\ UNCHANGED <<queue, lastRun, created>>
             /\ lanes' = [lanes EXCEPT ![l].phase = "wait"]
    <3> DEFINE x == [lanes[l] EXCEPT !.phase = "wait"]
    <3>1. lanes' = [lanes EXCEPT ![l] = x]
      BY <2>4 DEF LanesOK
    <3>2. DOMAIN x = LaneFields /\ x.phase = "wait"
      BY DEF LanesOK, LaneFields
    <3> HIDE DEF x
    <3>3. lanes'[l] = x
      BY <3>1 DEF LanesOK
    <3>4. Moved(l)
      BY <3>1, <3>2 DEF Moved
    <3> QED
      BY <2>4, <3>2, <3>3, <3>4
  <2> QED
    BY <1>1, <2>1, <2>2, <2>3, <2>4 DEF TakeJob
<1>2. ASSUME lanes[l].phase \notin {"poll", "wait"}, UNCHANGED <<queue, created, lastRun>>,
             Over(l) \/ Failed(l) \/ \E m : Goes(l, "post", m)
      PROVE  Goal
  BY <1>2, OverMoves, FailedMoves, GoesMoves
<1>3. CASE SendAlert(l) \/ SendTest(l) \/ SendReport(l)
  <2>1. lanes[l].phase = "run" /\ UNCHANGED <<queue, created, lastRun>>
    BY <1>3 DEF SendAlert, SendTest, SendReport, Running, InJob
  <2>2. Over(l) \/ Failed(l) \/ Goes(l, "post", NoMessage)
    BY <1>3 DEF SendAlert, SendTest, SendReport
  <2> QED
    BY <1>2, <2>1, <2>2
<1>4. CASE UpdateCard(l)
  <2>1. lanes[l].phase = "run" /\ UNCHANGED <<queue, created, lastRun>>
    BY <1>4 DEF UpdateCard, Running, InJob
  <2>2. CASE Over(l) \/ Failed(l)
    BY <1>2, <2>1, <2>2
  <2>3. CASE ~(Over(l) \/ Failed(l))
    <3> DEFINE c == lanes[l].job.key[2]
               channel == settings.channels[PurposeOf(c)]
               here == bindings[c] # NoMessage /\ bindings[c].channel = channel
               phase == IF here THEN "edit" ELSE "post"
               x == [lanes[l] EXCEPT !.msg = Shown(c), !.channel = channel, !.phase = phase]
    <3>1. lanes' = [lanes EXCEPT ![l].msg = Shown(c), ![l].channel = channel, ![l].phase = phase]
      BY <1>4, <2>3 DEF UpdateCard
    <3>0. phase # "record"
      OBVIOUS
    <3> HIDE DEF phase, channel, c
    <3>2. lanes' = [lanes EXCEPT ![l] = x]
      BY <3>1 DEF LanesOK
    <3>3. DOMAIN x = LaneFields /\ x.job = lanes[l].job /\ x.phase # "record"
      BY <3>0 DEF LanesOK, LaneFields
    <3> HIDE DEF x
    <3>4. Moved(l)
      BY <3>2, <3>3 DEF Moved
    <3> QED
      BY <2>1, <3>4
  <2> QED
    BY <2>2, <2>3
<1>5. CASE EditCard(l)
  <2>1. lanes[l].phase = "edit" /\ UNCHANGED <<queue, created, lastRun>>
    BY <1>5 DEF EditCard, InJob
  <2>2. Over(l) \/ Failed(l) \/ \E m : Goes(l, "post", m)
    BY <1>5 DEF EditCard
  <2> QED
    BY <1>2, <2>1, <2>2
<1>6. CASE Post(l)
  <2>1. lanes[l].phase = "post" /\ UNCHANGED <<queue, created, lastRun>>
    BY <1>6 DEF Post, InJob
  <2>2. Over(l) \/ Failed(l) \/ (Posts(l) /\ \E m : Goes(l, "record", m))
    BY <1>6 DEF Post
  <2> QED
    BY <1>2, <2>1, <2>2
<1>7. CASE MarkRun(l)
  <2>1. lanes[l].phase = "record" /\ UNCHANGED <<queue, created>>
    BY <1>7 DEF MarkRun, InJob
  <2>2. Moved(l)
    BY <1>7, OverMoves, FailedMoves DEF MarkRun
  <2> QED
    BY <1>7, <2>1, <2>2
<1>8. CASE BindCard(l)
  <2>1. lanes[l].phase = "record" /\ UNCHANGED <<queue, created, lastRun>>
    BY <1>8 DEF BindCard, InJob
  <2>2. Over(l) \/ Failed(l)
    BY <1>8 DEF BindCard
  <2> QED
    BY <1>2, <2>1, <2>2
<1> HIDE DEF Goal
<1> QED
  BY <1>1, <1>3, <1>4, <1>5, <1>6, <1>7, <1>8 DEF Lane

Context ==
  /\ clock \in Nat /\ SessionType /\ CaseType /\ AccessType /\ OutboxType /\ MessageType
  /\ NonceOK /\ JobsOK /\ OutboxOK

LEMMA LaneSet ==
  ASSUME Context, [Next]_vars, NEW l \in Lanes, NEW x, lanes' = [lanes EXCEPT ![l] = x],
         DOMAIN x = LaneFields, x.phase \notin {"poll", "wait"} => JobOK(x.job),
         x.phase = "record" /\ x.job.kind = "report" =>
           \E m \in DOMAIN messages' : messages'[m].subject = x.job.subject
  PROVE  LanesOK'
<1>1. DOMAIN lanes' = Lanes
  BY DEF Context, JobsOK, LanesOK
<1>2. ASSUME NEW k \in Lanes
      PROVE  /\ DOMAIN lanes'[k] = LaneFields
             /\ lanes'[k].phase \notin {"poll", "wait"} => JobOK(lanes'[k].job)
             /\ lanes'[k].phase = "record" /\ lanes'[k].job.kind = "report" =>
                  \E m \in DOMAIN messages' : messages'[m].subject = lanes'[k].job.subject
  <2>1. CASE k = l
    <3>1. lanes'[k] = x
      BY <2>1 DEF Context, JobsOK, LanesOK
    <3> QED
      BY <3>1
  <2>2. CASE k # l
    <3>1. PICK y : y = lanes[k]
      OBVIOUS
    <3>2. lanes'[k] = y
      BY <2>2, <3>1 DEF Context, JobsOK, LanesOK
    <3>3. /\ DOMAIN y = LaneFields
          /\ y.phase \notin {"poll", "wait"} => JobOK(y.job)
          /\ y.phase = "record" /\ y.job.kind = "report" => HasPosted(y.job.subject)
      BY <3>1 DEF Context, JobsOK, LanesOK
    <3>4. HasPosted(y.job.subject) =>
            \E m \in DOMAIN messages' : messages'[m].subject = y.job.subject
      BY PostedStays DEF Context
    <3> QED
      BY <3>2, <3>3, <3>4
  <2> QED
    BY <2>1, <2>2
<1> QED
  BY <1>1, <1>2 DEF LanesOK, HasPosted

LEMMA LanesKept ==
  ASSUME Context, [Next]_vars, UNCHANGED lanes
  PROVE  LanesOK'
<1>1. ASSUME NEW l \in Lanes
      PROVE  /\ DOMAIN lanes[l] = LaneFields
             /\ lanes[l].phase \notin {"poll", "wait"} => JobOK(lanes[l].job)
             /\ lanes[l].phase = "record" /\ lanes[l].job.kind = "report" =>
                  \E m \in DOMAIN messages' : messages'[m].subject = lanes[l].job.subject
  <2>1. PICK x : x = lanes[l]
    OBVIOUS
  <2>2. /\ DOMAIN x = LaneFields
        /\ x.phase \notin {"poll", "wait"} => JobOK(x.job)
        /\ x.phase = "record" /\ x.job.kind = "report" => HasPosted(x.job.subject)
    BY <2>1 DEF Context, JobsOK, LanesOK
  <2>3. HasPosted(x.job.subject) =>
          \E m \in DOMAIN messages' : messages'[m].subject = x.job.subject
    BY PostedStays DEF Context
  <2> QED
    BY <2>1, <2>2, <2>3
<1>2. DOMAIN lanes' = Lanes
  BY DEF Context, JobsOK, LanesOK
<1> QED
  BY <1>1, <1>2 DEF LanesOK, HasPosted

LEMMA LaneStep ==
  ASSUME Context, [Next]_vars, NEW l \in Lanes, Lane(l)
  PROVE  JobsOK'
<1>0. LanesOK /\ QueueOK
  BY DEF Context, JobsOK
<1>1. CASE \E c \in Channels : lanes[l].phase \in {"poll", "wait"} /\ Take(l, c)
  <2>1. PICK c \in Channels : Take(l, c)
    BY <1>1
  <2>2. /\ queue[c] # <<>> /\ queue' = [queue EXCEPT ![c] = Tail(@)]
        /\ lanes' = [lanes EXCEPT ![l] = [Polling EXCEPT !.phase = "run", !.job = Head(queue[c])]]
    BY <2>1 DEF Take
  <2>3. QueueOK' /\ JobOK(Head(queue[c]))
    BY <1>0, <2>2, TakeQueue
  <2> DEFINE x == [Polling EXCEPT !.phase = "run", !.job = Head(queue[c])]
  <2>4. DOMAIN x = LaneFields /\ x.phase = "run" /\ x.job = Head(queue[c])
    BY DEF Polling, LaneFields
  <2>5. lanes' = [lanes EXCEPT ![l] = x]
    BY <2>2
  <2> HIDE DEF x
  <2>6. LanesOK'
    BY <2>3, <2>4, <2>5, LaneSet
  <2> QED
    BY <2>3, <2>6 DEF JobsOK
<1>2. ASSUME UNCHANGED queue PROVE QueueOK'
  BY <1>0, <1>2 DEF QueueOK
<1>3. ASSUME lanes[l].phase \notin {"poll", "wait"}, Moved(l) PROVE LanesOK'
  <2>1. PICK x : /\ lanes' = [lanes EXCEPT ![l] = x] /\ DOMAIN x = LaneFields
                 /\ \/ x.phase \in {"poll", "wait"}
                    \/ x.job = lanes[l].job /\ x.phase # "record"
    BY <1>3 DEF Moved
  <2>2. JobOK(lanes[l].job)
    BY <1>0, <1>3 DEF LanesOK
  <2> QED
    BY <2>1, <2>2, LaneSet
<1>4. CASE lanes[l].phase = "poll" /\ Moved(l) /\ UNCHANGED queue /\ lanes'[l].phase = "wait"
  <2>1. PICK x : lanes' = [lanes EXCEPT ![l] = x] /\ DOMAIN x = LaneFields
    BY <1>4 DEF Moved
  <2>2. x.phase = "wait"
    BY <1>0, <1>4, <2>1 DEF LanesOK
  <2>3. LanesOK'
    BY <2>1, <2>2, LaneSet
  <2> QED
    BY <1>2, <1>4, <2>3 DEF JobsOK
<1>5. CASE lanes[l].phase \notin {"poll", "wait"} /\ Moved(l) /\ UNCHANGED queue
  BY <1>2, <1>3, <1>5 DEF JobsOK
<1>6. CASE /\ lanes[l].phase = "post" /\ Posts(l) /\ UNCHANGED queue
           /\ \E m : Goes(l, "record", m)
  <2>1. PICK x : /\ lanes' = [lanes EXCEPT ![l] = x] /\ DOMAIN x = LaneFields
                 /\ x.job = lanes[l].job /\ x.phase = "record"
    BY <1>0, <1>6, GoesFacts
  <2>2. PICK subject, nonce : subject = lanes[l].job.subject /\ nonce = NonceOf(l)
    OBVIOUS
  <2>3. /\ JobOK(x.job) /\ subject = x.job.subject
        /\ x.job.kind # "card" => nonce = subject
        /\ \/ UNCHANGED messages /\ \E m \in DOMAIN messages : messages[m].nonce = nonce
           \/ Added(subject, nonce)
    BY <1>6, <2>1, <2>2, LanePosts DEF Context
  <2>4. x.job.kind = "report" => \E m \in DOMAIN messages' : messages'[m].subject = subject
    <3> SUFFICES ASSUME x.job.kind = "report"
                 PROVE  \E m \in DOMAIN messages' : messages'[m].subject = subject
      OBVIOUS
    <3>1. nonce = subject
      BY <2>3
    <3>2. subject[1] \in {"alert", "test", "card", "report"}
      BY <2>3 DEF JobOK
    <3>3. CASE UNCHANGED messages /\ \E m \in DOMAIN messages : messages[m].nonce = nonce
      <4>1. PICK m \in DOMAIN messages : messages[m].nonce = nonce
        BY <3>3
      <4>2. messages[m].subject = subject
        BY <3>1, <3>2, <4>1 DEF Context, NonceOK
      <4> QED
        BY <3>3, <4>2
    <3>4. CASE Added(subject, nonce)
      BY <3>4 DEF Added
    <3> QED
      BY <2>3, <3>3, <3>4
  <2>5. LanesOK'
    BY <2>1, <2>3, <2>4, LaneSet
  <2> QED
    BY <1>2, <1>6, <2>5 DEF JobsOK
<1> QED
  BY <1>0, <1>1, <1>4, <1>5, <1>6, LaneCases

LEMMA CardJobOK ==
  ASSUME NEW c \in {"dashboard", "leaders"}
  PROVE  JobOK(CardJob(c)) /\ CardJob(c).chan \in Channels
<1>1. /\ CardJob(c).kind = "card" /\ CardJob(c).key = <<"card", c>>
      /\ CardJob(c).subject = <<"card", c>> /\ CardJob(c).chan \in {"dashboard", "report"}
  BY DEF CardJob, Job
<1>2. CardJob(c).key[2] = c /\ CardJob(c).subject[1] = "card"
  BY <1>1
<1> QED
  BY <1>1, <1>2 DEF JobOK, Channels

LEMMA QueueStep ==
  ASSUME Context, RunsOK, OutboundStep, ~(\E l \in Lanes : Lane(l))
  PROVE  QueueOK' /\ UNCHANGED lanes
<1>0. QueueOK
  BY DEF Context, JobsOK
<1>1. UNCHANGED lanes
  BY DEF OutboundStep, SubmitAlert, SubmitDestinationTest, ScheduleReport, EnqueueDueReports,
         EnqueueDueAdminDigest, RefreshCard, ConfigureAlerts, ConfigureGuild, ConfigureChannel,
         ResetDashboard
<1>2. ASSUME UNCHANGED queue PROVE QueueOK'
  BY <1>0, <1>2 DEF QueueOK
<1>3. ASSUME NEW k, SubmitAlert(k) PROVE QueueOK'
  <2>1. PICK at : Becomes(Enqueue(State,
          Job("alert", k, IF k \in EmergencyKeys THEN "emergency" ELSE "alert",
              <<"alert", submitted>>, at, TRUE)))
    BY <1>3 DEF SubmitAlert
  <2> DEFINE job == Job("alert", k, IF k \in EmergencyKeys THEN "emergency" ELSE "alert",
                        <<"alert", submitted>>, at, TRUE)
  <2>2. job.kind = "alert" /\ job.subject = <<"alert", submitted>> /\ job.chan \in Channels
    BY DEF Job, Channels
  <2>3. Becomes(Enqueue(State, job))
    BY <2>1
  <2> HIDE DEF job
  <2>4. job.subject[1] = "alert"
    BY <2>2
  <2>5. JobOK(job)
    BY <2>2, <2>4 DEF JobOK
  <2> QED
    BY <1>0, <2>2, <2>3, <2>5, EnqueueStep
<1>4. CASE SubmitDestinationTest
  <2> DEFINE job == Job("test", "test", "interaction", <<"test", changes>>, 0, FALSE)
  <2>1. Becomes(Enqueue(State, job))
    BY <1>4 DEF SubmitDestinationTest
  <2>2. job.kind = "test" /\ job.subject = <<"test", changes>> /\ job.chan \in Channels
    BY DEF Job, Channels
  <2> HIDE DEF job
  <2>3. job.subject[1] = "test"
    BY <2>2
  <2>4. JobOK(job)
    BY <2>2, <2>3 DEF JobOK
  <2> QED
    BY <1>0, <1>1, <2>1, <2>2, <2>4, EnqueueStep
<1>5. ASSUME NEW c \in Cards, RefreshCard(c) PROVE QueueOK'
  <2>1. c \in {"dashboard", "leaders"}
    BY CardAssumption DEF CardAssumption
  <2> QED
    BY <1>0, <1>5, <2>1, CardJobOK, EnqueueStep DEF RefreshCard
<1>6. CASE ResetDashboard
  BY <1>0, <1>1, <1>6, CardJobOK, EnqueueStep DEF ResetDashboard
<1>7. CASE EnqueueDueAdminDigest
  BY <1>0, <1>1, <1>7, ReportJobOK, EnqueueStep DEF EnqueueDueAdminDigest, Channels
<1>8. CASE EnqueueDueReports
  BY <1>0, <1>1, <1>8, ReportsQueue
<1>9. CASE \/ \E s \in Schedules : ScheduleReport(s)
           \/ ConfigureAlerts \/ ConfigureGuild
           \/ \E p \in Purposes : ConfigureChannel(p)
  BY <1>1, <1>2, <1>9 DEF ScheduleReport, ConfigureAlerts, ConfigureGuild, ConfigureChannel
<1>10. QueueOK'
  BY <1>3, <1>4, <1>5, <1>6, <1>7, <1>8, <1>9 DEF OutboundStep
<1> QED
  BY <1>1, <1>10

LEMMA JobsStep ==
  ASSUME Context, RunsOK, [Next]_vars
  PROVE  JobsOK'
<1>1. CASE \E l \in Lanes : Lane(l)
  BY <1>1, LaneStep
<1>2. CASE OutboundStep /\ ~(\E l \in Lanes : Lane(l))
  BY <1>2, QueueStep, LanesKept DEF JobsOK
<1>3. CASE Crash
  <2>1. queue' = [c \in Channels |-> <<>>] /\ lanes' = [l \in Lanes |-> Polling]
    BY <1>3 DEF Crash, OutboundLost
  <2>2. IsSequence(<<>>) /\ DOMAIN <<>> = {}
    BY DEF IsSequence, ToSet
  <2>3. QueueOK'
    BY <2>1, <2>2 DEF QueueOK
  <2>4. LanesOK'
    BY <2>1, PollingFacts DEF LanesOK
  <2> QED
    BY <2>3, <2>4 DEF JobsOK
<1>4. CASE UNCHANGED <<queue, lanes>>
  <2>1. QueueOK'
    BY <1>4 DEF Context, JobsOK, QueueOK
  <2> QED
    BY <1>4, <2>1, LanesKept DEF JobsOK
<1> QED
  BY <1>1, <1>2, <1>3, <1>4, NextCases DEF Tick, vars, outboundVars

-----------------------------------------------------------------------------
(* The reports.                                                            *)

LEMMA RunCases ==
  ASSUME LanesOK, [Next]_vars
  PROVE  \/ UNCHANGED <<lastRun, created>>
         \/ \E s \in Schedules : ScheduleReport(s) /\ UNCHANGED clock
         \/ \E l \in Lanes : MarkRun(l) /\ UNCHANGED <<created, messages>>
<1>1. CASE OutboundStep /\ UNCHANGED clock
  <2>1. ASSUME NEW l \in Lanes, Lane(l)
        PROVE  UNCHANGED <<lastRun, created>> \/ (MarkRun(l) /\ UNCHANGED <<created, messages>>)
    BY <2>1, LaneCases DEF Take, MarkRun
  <2> QED
    BY <1>1, <2>1
       DEF OutboundStep, SubmitAlert, SubmitDestinationTest, EnqueueDueReports,
           EnqueueDueAdminDigest, RefreshCard, ConfigureAlerts, ConfigureGuild, ConfigureChannel,
           ResetDashboard
<1>2. CASE Crash
  BY <1>2 DEF Crash, OutboundLost
<1> QED
  BY <1>1, <1>2, NextCases DEF Tick, vars, outboundVars

LEMMA ScheduleFacts ==
  ASSUME RunsOK, NEW s \in Schedules, ScheduleReport(s)
  PROVE  /\ s \notin DOMAIN lastRun
         /\ DOMAIN lastRun' = DOMAIN lastRun \cup {s} /\ DOMAIN created' = DOMAIN lastRun'
         /\ lastRun'[s] = clock /\ created'[s] = clock
         /\ \A t \in DOMAIN lastRun : lastRun'[t] = lastRun[t] /\ created'[t] = created[t]
<1>1. /\ s \notin DOMAIN lastRun
      /\ lastRun' = [x \in DOMAIN lastRun \cup {s} |-> IF x \in DOMAIN lastRun THEN lastRun[x] ELSE clock]
      /\ created' = [x \in DOMAIN created \cup {s} |-> IF x \in DOMAIN created THEN created[x] ELSE clock]
  BY DEF ScheduleReport, UpsertReportSchedule
<1>2. DOMAIN created = DOMAIN lastRun
  BY DEF RunsOK
<1> QED
  BY <1>1, <1>2

LEMMA MarkRunFacts ==
  ASSUME LanesOK, NEW l \in Lanes, MarkRun(l)
  PROVE  /\ JobOK(lanes[l].job) /\ lanes[l].job.kind = "report"
         /\ HasPosted(lanes[l].job.subject)
         /\ DOMAIN lastRun' = DOMAIN lastRun
         /\ \A s \in DOMAIN lastRun :
              \/ lastRun'[s] = lastRun[s]
              \/ lastRun'[s] = lanes[l].job.at /\ s = lanes[l].job.key[2]
<1>1. lanes[l].phase = "record" /\ lanes[l].job.kind = "report"
  BY DEF MarkRun
<1>2. \/ lastRun' = lastRun
      \/ lastRun' = [lastRun EXCEPT ![lanes[l].job.key[2]] = lanes[l].job.at]
  BY DEF MarkRun
<1> QED
  BY <1>1, <1>2 DEF LanesOK

LEMMA RunsStep ==
  ASSUME Context, RunsOK, MarkedMeansPosted, [Next]_vars
  PROVE  RunsOK' /\ MarkedMeansPosted'
<1>0. LanesOK
  BY DEF Context, JobsOK
<1>1. ASSUME NEW s \in DOMAIN lastRun, lastRun[s] > created[s]
      PROVE  \E m \in DOMAIN messages' :
               messages'[m].subject = <<"report", s, PeriodStart(lastRun[s])>>
  <2>1. PICK x : x = <<"report", s, PeriodStart(lastRun[s])>>
    OBVIOUS
  <2>2. HasPosted(x)
    BY <1>1, <2>1 DEF MarkedMeansPosted, HasPosted
  <2>3. \E m \in DOMAIN messages' : messages'[m].subject = x
    BY <2>2, PostedStays DEF Context
  <2> QED
    BY <2>1, <2>3
<1>2. CASE UNCHANGED <<lastRun, created>>
  <2>1. RunsOK'
    BY <1>2 DEF RunsOK
  <2>2. ASSUME NEW s \in DOMAIN lastRun', lastRun'[s] > created'[s]
        PROVE  \E m \in DOMAIN messages' :
                 messages'[m].subject = <<"report", s, PeriodStart(lastRun'[s])>>
    BY <1>1, <1>2, <2>2
  <2> QED
    BY <2>1, <2>2 DEF MarkedMeansPosted, PeriodStart
<1>3. CASE \E s \in Schedules : ScheduleReport(s)
  <2>1. PICK s \in Schedules : ScheduleReport(s)
    BY <1>3
  <2>2. /\ DOMAIN lastRun' = DOMAIN lastRun \cup {s} /\ DOMAIN created' = DOMAIN lastRun'
        /\ lastRun'[s] = clock /\ created'[s] = clock
        /\ \A t \in DOMAIN lastRun : lastRun'[t] = lastRun[t] /\ created'[t] = created[t]
    BY <2>1, ScheduleFacts
  <2>3. RunsOK'
    BY <2>2 DEF RunsOK
  <2>4. ASSUME NEW t \in DOMAIN lastRun', lastRun'[t] > created'[t]
        PROVE  \E m \in DOMAIN messages' :
                 messages'[m].subject = <<"report", t, PeriodStart(lastRun'[t])>>
    <3>1. CASE t \in DOMAIN lastRun
      BY <1>1, <2>2, <2>4, <3>1
    <3>2. CASE t = s
      BY <2>2, <2>4, <3>2 DEF Context
    <3> QED
      BY <2>2, <3>1, <3>2
  <2> QED
    BY <2>3, <2>4 DEF MarkedMeansPosted, PeriodStart
<1>4. CASE \E l \in Lanes : MarkRun(l) /\ UNCHANGED <<created, messages>>
  <2>1. PICK l \in Lanes : MarkRun(l) /\ UNCHANGED <<created, messages>>
    BY <1>4
  <2>2. PICK job : job = lanes[l].job
    OBVIOUS
  <2>3. /\ JobOK(job) /\ job.kind = "report" /\ HasPosted(job.subject)
        /\ DOMAIN lastRun' = DOMAIN lastRun
        /\ \A s \in DOMAIN lastRun :
             lastRun'[s] = lastRun[s] \/ (lastRun'[s] = job.at /\ s = job.key[2])
    BY <1>0, <2>1, <2>2, MarkRunFacts
  <2>4. RunsOK'
    BY <2>1, <2>3 DEF RunsOK
  <2>5. ASSUME NEW s \in DOMAIN lastRun', lastRun'[s] > created'[s]
        PROVE  \E m \in DOMAIN messages' :
                 messages'[m].subject = <<"report", s, PeriodStart(lastRun'[s])>>
    <3>1. CASE lastRun'[s] = lastRun[s]
      BY <1>1, <2>1, <2>3, <2>5, <3>1
    <3>2. CASE lastRun'[s] = job.at /\ s = job.key[2]
      <4>1. job.subject = <<"report", s, PeriodStart(lastRun'[s])>>
        BY <2>3, <3>2 DEF JobOK
      <4> QED
        BY <2>1, <2>3, <4>1 DEF HasPosted
    <3> QED
      BY <2>3, <3>1, <3>2
  <2> QED
    BY <2>4, <2>5 DEF MarkedMeansPosted, PeriodStart
<1> QED
  BY <1>0, <1>2, <1>3, <1>4, RunCases

-----------------------------------------------------------------------------
(* The invariant.                                                          *)

LEMMA InitInv == Init => IInv
<1> SUFFICES ASSUME Init PROVE IInv
  OBVIOUS
<1>1. /\ clock = PeriodLength /\ DiscordInit
      /\ \E bound : OutboundInit(bound)
      /\ \E logged : ModerationInit(logged)
  BY DEF Init
<1>2. PICK bound : OutboundInit(bound)
  BY <1>1
<1>3. PICK logged : ModerationInit(logged)
  BY <1>1
<1>4. /\ sessions = <<>> /\ perUser = [u \in Users |-> 0] /\ opened = 0 /\ handler = Idle
      /\ access = [tier |-> Users, native |-> Users]
      /\ cases = <<>> /\ numbered = 0 /\ outbox = <<>> /\ courier = Resting /\ effects = {}
  BY <1>3 DEF ModerationInit
<1>5. DOMAIN <<>> = {} /\ \A S : <<>> \in [{} -> S]
  OBVIOUS
<1>6. clock \in Nat
  BY <1>1, OutboundAssumption DEF OutboundAssumption
<1>7. SessionType /\ CaseType
  BY <1>4, <1>5 DEF SessionType, CaseType
<1>8. AccessType
  BY <1>4, IdleFacts DEF AccessType
<1>9. OutboxType
  BY <1>4, <1>5, RestingFacts DEF OutboxType
<1>10. messages = <<>> /\ DOMAIN messages = {}
  BY <1>1, <1>5 DEF DiscordInit
<1>11. IsSequence(<<>>)
  BY DEF IsSequence, ToSet
<1>12. MessageType /\ NonceOK /\ LogOK
  BY <1>10, <1>11 DEF MessageType, NonceOK, LogOK
<1>13. SessionsCounted
  <2>1. DOMAIN sessions = {}
    BY <1>4, <1>5
  <2>2. \A u \in Users : {s \in DOMAIN sessions : sessions[s].user = u} = {}
    BY <2>1
  <2>3. \A u \in Users : Counted(u, DOMAIN sessions) = 0
    BY <2>2, FS_EmptySet DEF Counted
  <2>4. Cardinality(DOMAIN sessions) = 0
    BY <2>1, FS_EmptySet
  <2> QED
    BY <1>4, <2>3, <2>4 DEF SessionsCounted
<1>14. ConfirmedOnce /\ SessionsLeft /\ PermissionOK /\ HandlerOK /\ InTime
  BY <1>4, <1>5, IdleFacts DEF ConfirmedOnce, SessionsLeft, PermissionOK, HandlerOK, InTime
<1>15. OutboxOK
  BY <1>4, <1>5, RestingFacts DEF OutboxOK
<1>16. QueueOK
  BY <1>2, <1>5, <1>11 DEF OutboundInit, QueueOK
<1>17. LanesOK
  BY <1>2, PollingFacts DEF OutboundInit, LanesOK
<1>18. RunsOK /\ MarkedMeansPosted
  <2>1. lastRun = [s \in {"digest"} |-> 0] /\ created = [s \in {"digest"} |-> 0]
    BY <1>2 DEF OutboundInit
  <2>2. \A s \in DOMAIN lastRun : ~(lastRun[s] > created[s])
    BY <2>1
  <2> QED
    BY <2>1, <2>2 DEF RunsOK, MarkedMeansPosted
<1> QED
  BY <1>6, <1>7, <1>8, <1>9, <1>12, <1>13, <1>14, <1>15, <1>16, <1>17, <1>18
  DEF IInv, TypeOK, JobsOK

LEMMA InductiveStep == IInv /\ [Next]_vars => IInv'
<1> SUFFICES ASSUME IInv, [Next]_vars PROVE IInv'
  OBVIOUS
<1>1. /\ clock \in Nat /\ SessionType /\ CaseType /\ AccessType /\ OutboxType /\ MessageType
      /\ SessionsCounted /\ ConfirmedOnce /\ SessionsLeft /\ PermissionOK /\ HandlerOK /\ InTime
      /\ OutboxOK /\ NonceOK /\ LogOK /\ JobsOK /\ RunsOK /\ MarkedMeansPosted
  BY DEF IInv, TypeOK
<1>2. Context
  BY <1>1 DEF Context
<1>3. SessionType' /\ SessionsCounted'
  BY <1>1, SessionStep
<1>4. AccessType' /\ PermissionOK'
  BY <1>1, AccessStep
<1>5. clock' \in Nat /\ InTime'
  BY <1>1, TimeStep
<1>6. CaseType'
  BY <1>1, CaseStep
<1>7. SessionsLeft' /\ ConfirmedOnce'
  BY <1>1, SessionsLeftStep
<1>8. HandlerOK'
  BY <1>1, HandlerOKStep
<1>9. MessageType' /\ NonceOK' /\ LogOK'
  BY <1>1, MessageStep
<1>10. OutboxType' /\ OutboxOK'
  BY <1>1, OutboxStep
<1>11. JobsOK'
  BY <1>1, <1>2, JobsStep
<1>12. RunsOK' /\ MarkedMeansPosted'
  BY <1>1, <1>2, RunsStep
<1> QED
  BY <1>3, <1>4, <1>5, <1>6, <1>7, <1>8, <1>9, <1>10, <1>11, <1>12 DEF IInv, TypeOK

(***************************************************************************)
(* The inductive invariant holds of every state of the bot: its parts hold *)
(* together, each needing the others (the handlers of moderation.go and    *)
(* message_deletion.go, the lanes and loops of client.go).                 *)
(***************************************************************************)
THEOREM Invariance == Spec => []IInv
BY InitInv, InductiveStep, PTL DEF Spec

(***************************************************************************)
(* The count kept per user is that of the user's sessions, and the limits  *)
(* hold, for any users and limits (CreateWithTTL, deleteLocked).           *)
(***************************************************************************)
THEOREM SessionsAreCounted == Spec => []SessionsCounted
<1>1. IInv => SessionsCounted
  BY DEF IInv
<1> QED
  BY <1>1, Invariance, PTL

(***************************************************************************)
(* A confirmation leads to at most one case (handleModerationComponent).   *)
(***************************************************************************)
THEOREM ConfirmedAtMostOnce == Spec => []ConfirmedOnce
<1>1. IInv => ConfirmedOnce
  BY DEF IInv
<1> QED
  BY <1>1, Invariance, PTL

(***************************************************************************)
(* A schedule whose run was marked did post the report of that period      *)
(* (sendScheduledReport, MarkReportScheduleRun).                           *)
(***************************************************************************)
THEOREM MarkedIsPosted == Spec => []MarkedMeansPosted
<1>1. IInv => MarkedMeansPosted
  BY DEF IInv
<1> QED
  BY <1>1, Invariance, PTL

(***************************************************************************)
(* Discord only acts for a member who had the permission at some moment    *)
(* since the case was created (ExecuteModeration, DeleteMessage).          *)
(***************************************************************************)
THEOREM ActionsArePermitted == Spec => ActionWasPermitted
<1>1. ASSUME IInv, [Next]_vars PROVE [effects' # effects => handler.allowed]_vars
  <2>1. UNCHANGED effects \/ Act
    BY <1>1, EffectsStep DEF IInv, TypeOK
  <2>2. Act => handler.allowed
    BY <1>1 DEF IInv, PermissionOK, Act
  <2> QED
    BY <2>1, <2>2
<1> QED
  BY <1>1, Invariance, PTL DEF Spec, ActionWasPermitted

-----------------------------------------------------------------------------
(* The refinement of CaseLifecycle.                                        *)

Life == [c \in 1..MaxCases |-> LifeOf(c)]

StatusOf(c) ==
  IF c > numbered THEN "none" ELSE IF c \notin DOMAIN cases THEN "purged" ELSE cases[c].status
LogOf(c) ==
  IF c \notin DOMAIN outbox THEN "none" ELSE IF outbox[c].delivered THEN "sent" ELSE "queued"

LEMMA LifeValue ==
  ASSUME NEW c \in 1..MaxCases
  PROVE  \E p \in BOOLEAN, o \in BOOLEAN :
           /\ Life[c] = [status |-> StatusOf(c), performed |-> p, posted |-> o, log |-> LogOf(c)]
           /\ p <=> c \in effects
           /\ o <=> HasPosted(<<"log", c>>)
<1>0. (c \in effects) \in BOOLEAN /\ HasPosted(<<"log", c>>) \in BOOLEAN
  BY DEF HasPosted
<1>1. PICK p \in BOOLEAN : p = (c \in effects)
  BY <1>0, Zenon
<1>2. PICK o \in BOOLEAN : o = HasPosted(<<"log", c>>)
  BY <1>0, Zenon
<1>3. Life[c] = [status |-> StatusOf(c), performed |-> c \in effects,
                 posted |-> HasPosted(<<"log", c>>), log |-> LogOf(c)]
  BY DEF Life, LifeOf, StatusOf, LogOf, HasPosted
<1>4. Life[c] = [status |-> StatusOf(c), performed |-> p, posted |-> o, log |-> LogOf(c)]
  BY <1>1, <1>2, <1>3
<1> QED
  BY <1>1, <1>2, <1>4

LEMMA LifeNext ==
  ASSUME NEW c \in 1..MaxCases
  PROVE  \E p \in BOOLEAN, o \in BOOLEAN :
           /\ Life'[c] = [status |-> StatusOf(c)', performed |-> p, posted |-> o, log |-> LogOf(c)']
           /\ p <=> c \in effects'
           /\ o <=> HasPosted(<<"log", c>>)'
<1>0. (c \in effects') \in BOOLEAN /\ HasPosted(<<"log", c>>)' \in BOOLEAN
  BY DEF HasPosted
<1>1. PICK p \in BOOLEAN : p = (c \in effects')
  BY <1>0, Zenon
<1>2. PICK o \in BOOLEAN : o = HasPosted(<<"log", c>>)'
  BY <1>0, Zenon
<1>3. Life'[c] = [status |-> StatusOf(c)', performed |-> c \in effects',
                  posted |-> HasPosted(<<"log", c>>)', log |-> LogOf(c)']
  BY DEF Life, LifeOf, StatusOf, LogOf, HasPosted
<1>4. Life'[c] = [status |-> StatusOf(c)', performed |-> p, posted |-> o, log |-> LogOf(c)']
  BY <1>1, <1>2, <1>3
<1> QED
  BY <1>1, <1>2, <1>4

\* The parts of a case's life that a step leaves alone.
SameStatus(c) == StatusOf(c)' = StatusOf(c)
SamePerformed(c) == c \in effects' <=> c \in effects
SamePosted(c) == HasPosted(<<"log", c>>)' <=> HasPosted(<<"log", c>>)
SameLog(c) == LogOf(c)' = LogOf(c)

LEMMA SameLife ==
  ASSUME NEW c \in 1..MaxCases, SameStatus(c), SamePerformed(c), SamePosted(c), SameLog(c)
  PROVE  Life'[c] = Life[c]
BY LifeValue, LifeNext DEF SameStatus, SamePerformed, SamePosted, SameLog

LEMMA LifeFields ==
  ASSUME NEW c \in 1..MaxCases
  PROVE  /\ Life[c].status = StatusOf(c) /\ Life[c].log = LogOf(c)
         /\ Life[c].performed <=> c \in effects
         /\ Life[c].posted <=> HasPosted(<<"log", c>>)
<1>1. PICK p \in BOOLEAN, o \in BOOLEAN :
        /\ Life[c] = [status |-> StatusOf(c), performed |-> p, posted |-> o, log |-> LogOf(c)]
        /\ p <=> c \in effects
        /\ o <=> HasPosted(<<"log", c>>)
  BY LifeValue
<1>2. Life[c].status = StatusOf(c) /\ Life[c].log = LogOf(c)
  BY <1>1
<1>3. Life[c].performed = p /\ Life[c].posted = o
  BY <1>1
<1> QED
  BY <1>1, <1>2, <1>3, Zenon

\* The value of a case's life, field by field, before and after a step.
LEMMA LifeNow ==
  ASSUME NEW c \in 1..MaxCases
  PROVE  \E s, l : \E p \in BOOLEAN, o \in BOOLEAN :
           /\ Life[c] = [status |-> s, performed |-> p, posted |-> o, log |-> l]
           /\ s = StatusOf(c) /\ l = LogOf(c)
           /\ p <=> c \in effects
           /\ o <=> HasPosted(<<"log", c>>)
BY LifeValue

LEMMA LifeAfter ==
  ASSUME NEW c \in 1..MaxCases, NEW s, NEW l, NEW p \in BOOLEAN, NEW o \in BOOLEAN,
         StatusOf(c)' = s, LogOf(c)' = l, p <=> c \in effects', o <=> HasPosted(<<"log", c>>)'
  PROVE  Life'[c] = [status |-> s, performed |-> p, posted |-> o, log |-> l]
<1>1. PICK q \in BOOLEAN, r \in BOOLEAN :
        /\ Life'[c] = [status |-> StatusOf(c)', performed |-> q, posted |-> r, log |-> LogOf(c)']
        /\ q <=> c \in effects'
        /\ r <=> HasPosted(<<"log", c>>)'
  BY LifeNext
<1>2. q = p /\ r = o
  BY <1>1
<1> QED
  BY <1>1, <1>2

LEMMA NewStatus ==
  ASSUME NEW c \in 1..MaxCases, NEW t, StatusOf(c)' = t, SamePerformed(c), SamePosted(c), SameLog(c)
  PROVE  Life'[c] = [Life[c] EXCEPT !.status = t]
<1>1. PICK s, l : \E p \in BOOLEAN, o \in BOOLEAN :
        /\ Life[c] = [status |-> s, performed |-> p, posted |-> o, log |-> l]
        /\ s = StatusOf(c) /\ l = LogOf(c)
        /\ p <=> c \in effects
        /\ o <=> HasPosted(<<"log", c>>)
  BY LifeNow
<1>2. PICK p \in BOOLEAN, o \in BOOLEAN :
        /\ Life[c] = [status |-> s, performed |-> p, posted |-> o, log |-> l]
        /\ s = StatusOf(c) /\ l = LogOf(c)
        /\ p <=> c \in effects
        /\ o <=> HasPosted(<<"log", c>>)
  BY <1>1
<1>3. Life'[c] = [status |-> t, performed |-> p, posted |-> o, log |-> l]
  BY <1>2, LifeAfter DEF SamePerformed, SamePosted, SameLog
<1>4. Life[c] = [status |-> s, performed |-> p, posted |-> o, log |-> l]
  BY <1>2
<1>5. [Life[c] EXCEPT !.status = t] = [status |-> t, performed |-> p, posted |-> o, log |-> l]
  BY <1>4
<1> QED
  BY <1>3, <1>5

LEMMA NewPerformed ==
  ASSUME NEW c \in 1..MaxCases, NEW b \in BOOLEAN, b <=> c \in effects', SameStatus(c), SamePosted(c), SameLog(c)
  PROVE  Life'[c] = [Life[c] EXCEPT !.performed = b]
<1>1. PICK s, l : \E p \in BOOLEAN, o \in BOOLEAN :
        /\ Life[c] = [status |-> s, performed |-> p, posted |-> o, log |-> l]
        /\ s = StatusOf(c) /\ l = LogOf(c)
        /\ p <=> c \in effects
        /\ o <=> HasPosted(<<"log", c>>)
  BY LifeNow
<1>2. PICK p \in BOOLEAN, o \in BOOLEAN :
        /\ Life[c] = [status |-> s, performed |-> p, posted |-> o, log |-> l]
        /\ s = StatusOf(c) /\ l = LogOf(c)
        /\ p <=> c \in effects
        /\ o <=> HasPosted(<<"log", c>>)
  BY <1>1
<1>3. Life'[c] = [status |-> s, performed |-> b, posted |-> o, log |-> l]
  BY <1>2, LifeAfter DEF SameStatus, SamePosted, SameLog
<1>4. Life[c] = [status |-> s, performed |-> p, posted |-> o, log |-> l]
  BY <1>2
<1>5. [Life[c] EXCEPT !.performed = b] = [status |-> s, performed |-> b, posted |-> o, log |-> l]
  BY <1>4
<1> QED
  BY <1>3, <1>5

LEMMA NewPosted ==
  ASSUME NEW c \in 1..MaxCases, NEW b \in BOOLEAN, b <=> HasPosted(<<"log", c>>)', SameStatus(c), SamePerformed(c), SameLog(c)
  PROVE  Life'[c] = [Life[c] EXCEPT !.posted = b]
<1>1. PICK s, l : \E p \in BOOLEAN, o \in BOOLEAN :
        /\ Life[c] = [status |-> s, performed |-> p, posted |-> o, log |-> l]
        /\ s = StatusOf(c) /\ l = LogOf(c)
        /\ p <=> c \in effects
        /\ o <=> HasPosted(<<"log", c>>)
  BY LifeNow
<1>2. PICK p \in BOOLEAN, o \in BOOLEAN :
        /\ Life[c] = [status |-> s, performed |-> p, posted |-> o, log |-> l]
        /\ s = StatusOf(c) /\ l = LogOf(c)
        /\ p <=> c \in effects
        /\ o <=> HasPosted(<<"log", c>>)
  BY <1>1
<1>3. Life'[c] = [status |-> s, performed |-> p, posted |-> b, log |-> l]
  BY <1>2, LifeAfter DEF SameStatus, SamePerformed, SameLog
<1>4. Life[c] = [status |-> s, performed |-> p, posted |-> o, log |-> l]
  BY <1>2
<1>5. [Life[c] EXCEPT !.posted = b] = [status |-> s, performed |-> p, posted |-> b, log |-> l]
  BY <1>4
<1> QED
  BY <1>3, <1>5

LEMMA NewLog ==
  ASSUME NEW c \in 1..MaxCases, NEW k, LogOf(c)' = k, SameStatus(c), SamePerformed(c), SamePosted(c)
  PROVE  Life'[c] = [Life[c] EXCEPT !.log = k]
<1>1. PICK s, l : \E p \in BOOLEAN, o \in BOOLEAN :
        /\ Life[c] = [status |-> s, performed |-> p, posted |-> o, log |-> l]
        /\ s = StatusOf(c) /\ l = LogOf(c)
        /\ p <=> c \in effects
        /\ o <=> HasPosted(<<"log", c>>)
  BY LifeNow
<1>2. PICK p \in BOOLEAN, o \in BOOLEAN :
        /\ Life[c] = [status |-> s, performed |-> p, posted |-> o, log |-> l]
        /\ s = StatusOf(c) /\ l = LogOf(c)
        /\ p <=> c \in effects
        /\ o <=> HasPosted(<<"log", c>>)
  BY <1>1
<1>3. Life'[c] = [status |-> s, performed |-> p, posted |-> o, log |-> k]
  BY <1>2, LifeAfter DEF SameStatus, SamePerformed, SamePosted
<1>4. Life[c] = [status |-> s, performed |-> p, posted |-> o, log |-> l]
  BY <1>2
<1>5. [Life[c] EXCEPT !.log = k] = [status |-> s, performed |-> p, posted |-> o, log |-> k]
  BY <1>4
<1> QED
  BY <1>3, <1>5

LEMMA NewStatusAndLog ==
  ASSUME NEW c \in 1..MaxCases, SamePerformed(c), SamePosted(c)
  PROVE  Life'[c] = [[Life[c] EXCEPT !.status = StatusOf(c)'] EXCEPT !.log = LogOf(c)']
<1> PICK t : t = StatusOf(c)'
  OBVIOUS
<1> PICK k : k = LogOf(c)'
  OBVIOUS
<1>1. PICK s, l : \E p \in BOOLEAN, o \in BOOLEAN :
        /\ Life[c] = [status |-> s, performed |-> p, posted |-> o, log |-> l]
        /\ s = StatusOf(c) /\ l = LogOf(c)
        /\ p <=> c \in effects
        /\ o <=> HasPosted(<<"log", c>>)
  BY LifeNow
<1>2. PICK p \in BOOLEAN, o \in BOOLEAN :
        /\ Life[c] = [status |-> s, performed |-> p, posted |-> o, log |-> l]
        /\ s = StatusOf(c) /\ l = LogOf(c)
        /\ p <=> c \in effects
        /\ o <=> HasPosted(<<"log", c>>)
  BY <1>1
<1>3. Life'[c] = [status |-> t, performed |-> p, posted |-> o, log |-> k]
  BY <1>2, LifeAfter DEF SamePerformed, SamePosted
<1>4. Life[c] = [status |-> s, performed |-> p, posted |-> o, log |-> l]
  BY <1>2
<1> DEFINE u == [Life[c] EXCEPT !.status = t]
<1>5. u = [status |-> t, performed |-> p, posted |-> o, log |-> l]
  BY <1>4
<1> HIDE DEF u
<1>6. [u EXCEPT !.log = k] = [status |-> t, performed |-> p, posted |-> o, log |-> k]
  BY <1>5
<1> QED
  BY <1>3, <1>6 DEF u

LEMMA OneChanged ==
  ASSUME NEW c \in 1..MaxCases, \A d \in 1..MaxCases : d # c => Life'[d] = Life[d]
  PROVE  Life' = [Life EXCEPT ![c] = Life'[c]]
<1>1. Life = [d \in 1..MaxCases |-> Life[d]] /\ Life' = [d \in 1..MaxCases |-> Life'[d]]
  BY DEF Life
<1> QED
  BY <1>1

LEMMA NoneChanged ==
  ASSUME \A d \in 1..MaxCases : Life'[d] = Life[d]
  PROVE  Life' = Life
<1>1. Life = [d \in 1..MaxCases |-> Life[d]] /\ Life' = [d \in 1..MaxCases |-> Life'[d]]
  BY DEF Life
<1> QED
  BY <1>1

LEMMA StatusStays ==
  ASSUME NEW c, UNCHANGED <<cases, numbered>>
  PROVE  SameStatus(c)
BY DEF SameStatus, StatusOf

LEMMA LogStays ==
  ASSUME NEW c, DOMAIN outbox' = DOMAIN outbox,
         c \in DOMAIN outbox => outbox'[c].delivered = outbox[c].delivered
  PROVE  SameLog(c)
BY DEF SameLog, LogOf

LEMMA NotPosting ==
  ASSUME IInv, [Next]_vars, NEW c \in 1..MaxCases
  PROVE  SamePosted(c) \/ (SendLog /\ c = Row)
<1> PICK x : x = <<"log", c>>
  OBVIOUS
<1> SUFFICES ASSUME ~(SendLog /\ c = Row), HasPosted(x)' PROVE HasPosted(x)
  <2>1. HasPosted(x) => HasPosted(x)'
    BY PostedStays DEF IInv, TypeOK, HasPosted
  <2> QED
    BY <2>1 DEF SamePosted
<1>1. PICK m \in DOMAIN messages' : messages'[m].subject = x
  BY DEF HasPosted
<1>2. CASE Kept
  BY <1>1, <1>2 DEF Kept, HasPosted
<1>3. ASSUME NEW s, NEW n, Added(s, n), s # x PROVE HasPosted(x)
  BY <1>1, <1>3 DEF Added, HasPosted
<1>4. CASE \E l \in Lanes : lanes[l].phase = "post" /\ Posts(l)
  <2>1. PICK l \in Lanes : lanes[l].phase = "post" /\ Posts(l)
    BY <1>4
  <2>2. /\ JobOK(lanes[l].job)
        /\ UNCHANGED messages \/ Added(lanes[l].job.subject, NonceOf(l))
    BY <2>1, LanePosts DEF IInv, TypeOK
  <2>3. lanes[l].job.subject # x
    <3>1. lanes[l].job.subject[1] \in {"alert", "test", "card", "report"}
      BY <2>2 DEF JobOK
    <3>2. x[1] = "log"
      OBVIOUS
    <3> QED
      BY <3>1, <3>2
  <2>4. CASE UNCHANGED messages
    BY <1>1, <2>4 DEF HasPosted
  <2> QED
    BY <2>2, <2>3, <2>4, <1>3
<1>5. CASE SendLog
  <2>1. UNCHANGED messages \/ Added(<<"log", Row>>, <<"log", Row>>)
    BY <1>5, SendLogFacts DEF IInv, TypeOK
  <2>2. <<"log", Row>> # x
    BY <1>5
  <2>3. CASE UNCHANGED messages
    BY <1>1, <2>3 DEF HasPosted
  <2> QED
    BY <2>1, <2>2, <2>3, <1>3
<1> QED
  BY <1>2, <1>4, <1>5, MessageCases DEF IInv, TypeOK

\* The creation of a case opens it.
LEMMA OpenStep ==
  ASSUME IInv, [Next]_vars, CreateModerationCase, Opened(numbered + 1)
  PROVE  \E c \in 1..MaxCases : Lifecycle!Open(c)
<1> PICK c : c = numbered + 1
  OBVIOUS
<1>1. /\ numbered \in Nat /\ c \in Nat /\ c <= MaxCases /\ numbered' = c /\ c > numbered
      /\ DOMAIN cases \subseteq 1..numbered /\ effects \subseteq 1..numbered
      /\ DOMAIN cases' = DOMAIN cases \cup {c} /\ cases'[c].status = "pending"
      /\ \A d \in DOMAIN cases : cases'[d] = cases[d]
  BY OpenedFacts DEF IInv, TypeOK, CaseType
<1>2. c \in 1..MaxCases
  BY <1>1
<1>3. UNCHANGED <<outbox, effects>>
  BY DEF CreateModerationCase
<1>4. ~SendLog
  BY CreateCaseFacts, LogFacts DEF IInv, TypeOK, LogDelivery, Opened
<1>5. c \notin DOMAIN cases /\ c \notin effects
  BY <1>1
<1>6. c \notin DOMAIN outbox
  BY <1>5 DEF IInv, OutboxOK, Closed
<1>7. ~HasPosted(<<"log", c>>)
  <2> SUFFICES ASSUME NEW m \in DOMAIN messages, messages[m].subject = <<"log", c>> PROVE FALSE
    BY DEF HasPosted
  <2>1. messages[m].subject[1] = "log" /\ messages[m].subject[2] = c
    OBVIOUS
  <2>2. c \in 1..numbered
    BY <2>1 DEF IInv, LogOK
  <2> QED
    BY <1>1, <2>2
<1>8. \A d \in 1..MaxCases : SamePosted(d) /\ SameLog(d) /\ SamePerformed(d)
  BY <1>3, <1>4, NotPosting, LogStays DEF SamePerformed
<1>9. Life[c] = Lifecycle!Unopened
  <2>1. PICK p \in BOOLEAN, o \in BOOLEAN :
          /\ Life[c] = [status |-> StatusOf(c), performed |-> p, posted |-> o, log |-> LogOf(c)]
          /\ p <=> c \in effects
          /\ o <=> HasPosted(<<"log", c>>)
    BY <1>2, LifeValue
  <2>2. p = FALSE /\ o = FALSE
    BY <1>5, <1>7, <2>1
  <2>3. StatusOf(c) = "none" /\ LogOf(c) = "none"
    BY <1>1, <1>6 DEF StatusOf, LogOf
  <2> QED
    BY <2>1, <2>2, <2>3 DEF Lifecycle!Unopened
<1>10. Life'[c] = [Life[c] EXCEPT !.status = "pending"]
  <2>1. StatusOf(c)' = "pending"
    BY <1>1 DEF StatusOf
  <2> QED
    BY <1>2, <1>8, <2>1, NewStatus
<1>11. ASSUME NEW d \in 1..MaxCases, d # c PROVE Life'[d] = Life[d]
  <2>1. d > numbered' <=> d > numbered
    BY <1>1, <1>11
  <2>2. d \in DOMAIN cases' <=> d \in DOMAIN cases
    BY <1>1, <1>11
  <2>3. SameStatus(d)
    BY <1>1, <2>1, <2>2 DEF SameStatus, StatusOf
  <2> QED
    BY <1>8, <2>3, SameLife
<1>12. Life' = [Life EXCEPT ![c].status = "pending"]
  BY <1>2, <1>10, <1>11, OneChanged
<1> QED
  BY <1>2, <1>9, <1>12 DEF Lifecycle!Open, Life

\* Discord performs an action, at most once.
LEMMA PerformStep ==
  ASSUME IInv, [Next]_vars, Act
  PROVE  Life' = Life \/ \E c \in 1..MaxCases : Lifecycle!Perform(c)
<1> PICK c : c = handler.case
  OBVIOUS
<1>1. /\ handler.phase = "act" /\ UNCHANGED <<cases, numbered, outbox, courier>>
      /\ effects' = effects \/ effects' = effects \cup {c}
  BY ActFacts DEF IInv, TypeOK
<1>2. c \in DOMAIN cases /\ cases[c].status = "pending" /\ c \notin effects
  BY <1>1 DEF IInv, HandlerOK
<1>3. numbered \in Nat /\ numbered <= MaxCases /\ DOMAIN cases \subseteq 1..numbered
  BY DEF IInv, TypeOK, CaseType
<1>4. c \in 1..MaxCases /\ ~(c > numbered)
  BY <1>2, <1>3
<1>5. ~SendLog
  BY ActFacts, LogFacts DEF IInv, TypeOK, LogDelivery
<1>6. \A d \in 1..MaxCases : SamePosted(d) /\ SameLog(d) /\ SameStatus(d)
  BY <1>1, <1>5, NotPosting, LogStays, StatusStays
<1>7. ASSUME NEW d \in 1..MaxCases, d # c PROVE Life'[d] = Life[d]
  BY <1>1, <1>6, <1>7, SameLife DEF SamePerformed
<1>8. CASE effects' = effects
  BY <1>6, <1>8, SameLife, NoneChanged DEF SamePerformed
<1>9. CASE effects' = effects \cup {c}
  <2>1. PICK b \in BOOLEAN : b = TRUE
    OBVIOUS
  <2>2. b <=> c \in effects'
    BY <1>9, <2>1
  <2>3. Life'[c] = [Life[c] EXCEPT !.performed = b]
    BY <1>4, <1>6, <2>2, NewPerformed
  <2>4. Life'[c] = [Life[c] EXCEPT !.performed = TRUE]
    BY <2>1, <2>3
  <2>5. Life' = [Life EXCEPT ![c].performed = TRUE]
    BY <1>4, <1>7, <2>4, OneChanged
  <2>6. Life[c].status = "pending"
    BY <1>2, <1>4, LifeFields DEF StatusOf
  <2>7. ~Life[c].performed
    BY <1>2, <1>4, LifeFields
  <2>8. Lifecycle!Perform(c)
    BY <2>5, <2>6, <2>7 DEF Lifecycle!Perform, Life
  <2> QED
    BY <1>4, <2>8
<1> QED
  BY <1>1, <1>8, <1>9

\* What a full outbox gives up: at most one row, a delivered one if there is any.
LEMMA VictimFacts ==
  ASSUME IInv, NEW c \in 1..MaxCases, c \notin DOMAIN outbox
  PROVE  /\ Victims \in Lifecycle!Droppable(c)
         /\ Victims \subseteq DOMAIN outbox
<1> DEFINE sent == {d \in DOMAIN outbox : outbox[d].delivered}
           among == IF sent # {} THEN sent ELSE DOMAIN outbox
           lifeSent == {d \in (1..MaxCases) \ {c} : Life[d].log = "sent"}
           lifeQueued == {d \in (1..MaxCases) \ {c} : Life[d].log = "queued"}
<1>1. DOMAIN outbox \subseteq 1..MaxCases /\ DOMAIN outbox \subseteq Nat
  <2>1. DOMAIN outbox \subseteq DOMAIN cases
    BY DEF IInv, OutboxOK, Closed
  <2>2. DOMAIN cases \subseteq 1..numbered /\ numbered \in Nat /\ numbered <= MaxCases
    BY DEF IInv, TypeOK, CaseType
  <2> QED
    BY <2>1, <2>2
<1>2. lifeSent = sent
  <2>1. ASSUME NEW d \in lifeSent PROVE d \in sent
    BY <2>1, LifeFields DEF LogOf
  <2>2. ASSUME NEW d \in sent PROVE d \in lifeSent
    BY <1>1, <2>2, LifeFields DEF LogOf
  <2> QED
    BY <2>1, <2>2
<1>3. sent = {} => lifeQueued = DOMAIN outbox
  <2>1. ASSUME NEW d \in lifeQueued PROVE d \in DOMAIN outbox
    BY <2>1, LifeFields DEF LogOf
  <2>2. ASSUME NEW d \in DOMAIN outbox, sent = {} PROVE d \in lifeQueued
    <3>1. d \in 1..MaxCases /\ d # c /\ ~outbox[d].delivered
      BY <1>1, <2>2
    <3> QED
      BY <3>1, LifeFields DEF LogOf
  <2> QED
    BY <2>1, <2>2
<1>4. among = IF lifeSent # {} THEN lifeSent ELSE lifeQueued
  BY <1>2, <1>3
<1>5. among \subseteq DOMAIN outbox /\ among \subseteq Nat
  BY <1>1
<1>6. Victims = {} \/ Victims = {v \in among : \A w \in among : v <= w}
  BY DEF Victims
<1>7. Lifecycle!Droppable(c) = {{}} \cup {{d} : d \in IF lifeSent # {} THEN lifeSent ELSE lifeQueued}
  BY DEF Lifecycle!Droppable, Life
<1> HIDE DEF among
<1>8. Victims \subseteq among /\ \A v, w \in Victims : v = w
  BY <1>5, <1>6
<1>9. Victims = {} \/ \E v \in among : Victims = {v}
  BY <1>8
<1> QED
  BY <1>4, <1>5, <1>7, <1>8, <1>9

\* The outcome is recorded: the case closes and its log entry is queued.
LEMMA CloseStep ==
  ASSUME IInv, [Next]_vars, CompleteModerationCase, Recorded
  PROVE  \E c \in 1..MaxCases : Lifecycle!Close(c, "succeeded") \/ Lifecycle!Close(c, "failed")
<1> PICK c : c = handler.case
  OBVIOUS
<1> PICK t : t = handler.status
  OBVIOUS
<1>1. /\ handler.phase = "complete" /\ UNCHANGED <<numbered, effects, messages>>
      /\ handler' = Idle \/ handler'.phase = "unbind"
  BY CompleteFacts DEF IInv, TypeOK
<1>2. /\ c \in DOMAIN cases /\ cases[c].status = "pending" /\ t \in {"succeeded", "failed"}
      /\ t = "succeeded" => c \in effects
      /\ DOMAIN cases' = DOMAIN cases
      /\ \A d \in DOMAIN cases : cases'[d].status = IF d = c THEN t ELSE cases[d].status
  BY <1>1, RecordedFacts DEF IInv, TypeOK, HandlerOK
<1>3. numbered \in Nat /\ numbered <= MaxCases /\ DOMAIN cases \subseteq 1..numbered
  BY DEF IInv, TypeOK, CaseType
<1>4. c \in 1..MaxCases /\ ~(c > numbered)
  BY <1>2, <1>3
<1>5. c \notin DOMAIN outbox
  BY <1>2 DEF IInv, OutboxOK, Closed
<1>6. ~SendLog
  <2>1. Idle.phase = "idle"
    BY DEF Idle
  <2>2. handler'.phase # "complete"
    BY <1>1, <2>1
  <2> QED
    BY <1>1, <2>2, LogFacts DEF LogDelivery
<1>7. Victims \in Lifecycle!Droppable(c) /\ Victims \subseteq DOMAIN outbox
  BY <1>4, <1>5, VictimFacts
<1>8. /\ DOMAIN outbox' = (DOMAIN outbox \ Victims) \cup {c}
      /\ ~outbox'[c].delivered
      /\ \A d \in DOMAIN outbox \ Victims : d # c => outbox'[d] = outbox[d]
  BY RecordedRows DEF IInv, TypeOK
<1>9. \A d \in 1..MaxCases : SamePosted(d) /\ SamePerformed(d)
  BY <1>1, <1>6, NotPosting DEF SamePerformed
<1>10. PICK dropped \in Lifecycle!Droppable(c) : dropped = Victims
  BY <1>7
<1>11. Life'[c] = [Life[c] EXCEPT !.status = t, !.log = "queued"]
  <2>1. StatusOf(c)' = t
    BY <1>1, <1>2, <1>4 DEF StatusOf
  <2>2. PICK k : k = "queued"
    OBVIOUS
  <2>3. LogOf(c)' = k
    BY <1>8, <2>2 DEF LogOf
  <2>4. Life'[c] = [[Life[c] EXCEPT !.status = t] EXCEPT !.log = k]
    BY <1>4, <1>9, <2>1, <2>3, NewStatusAndLog
  <2>5. [[Life[c] EXCEPT !.status = t] EXCEPT !.log = k] = [Life[c] EXCEPT !.status = t, !.log = k]
    OBVIOUS
  <2> QED
    BY <2>2, <2>4, <2>5
<1>12. ASSUME NEW d \in 1..MaxCases, d # c PROVE SameStatus(d)
  BY <1>1, <1>2, <1>12 DEF SameStatus, StatusOf
<1>13. ASSUME NEW d \in 1..MaxCases, d # c, d \in dropped
       PROVE  Life'[d] = [Life[d] EXCEPT !.log = "none"]
  <2>1. LogOf(d)' = "none"
    BY <1>8, <1>10, <1>13 DEF LogOf
  <2> QED
    BY <1>9, <1>12, <1>13, <2>1, NewLog
<1>14. ASSUME NEW d \in 1..MaxCases, d # c, d \notin dropped PROVE Life'[d] = Life[d]
  <2>1. SameLog(d)
    BY <1>8, <1>10, <1>14 DEF SameLog, LogOf
  <2> QED
    BY <1>9, <1>12, <1>14, <2>1, SameLife
<1>15. Life' = [d \in 1..MaxCases |->
         IF d = c THEN [Life[c] EXCEPT !.status = t, !.log = "queued"]
         ELSE IF d \in dropped THEN [Life[d] EXCEPT !.log = "none"]
         ELSE Life[d]]
  <2>1. Life' = [d \in 1..MaxCases |-> Life'[d]]
    BY DEF Life
  <2> QED
    BY <1>11, <1>13, <1>14, <2>1
<1>16. Life[c].status = "pending"
  BY <1>2, <1>4, LifeFields DEF StatusOf
<1>17. t = "succeeded" => Life[c].performed
  BY <1>2, <1>4, LifeFields
<1>18. Lifecycle!Close(c, t)
  BY <1>15, <1>16, <1>17 DEF Lifecycle!Close, Life
<1> QED
  BY <1>2, <1>4, <1>18

\* The log entry of a closed case is posted.
LEMMA PostStep ==
  ASSUME IInv, [Next]_vars, SendLog
  PROVE  Life' = Life \/ \E c \in 1..MaxCases : Lifecycle!Post(c)
<1> PICK c : c = Row
  OBVIOUS
<1>1. /\ courier.phase = "send" /\ DOMAIN outbox' = DOMAIN outbox
      /\ \A d \in DOMAIN outbox : outbox'[d].delivered = outbox[d].delivered
      /\ UNCHANGED <<cases, numbered, effects>>
  BY SendLogRows DEF IInv, TypeOK
<1>2. c \in DOMAIN cases /\ cases[c].status \in {"succeeded", "failed"}
  BY <1>1, RowFacts DEF IInv, TypeOK, Closed
<1>3. numbered \in Nat /\ numbered <= MaxCases /\ DOMAIN cases \subseteq 1..numbered
  BY DEF IInv, TypeOK, CaseType
<1>4. c \in 1..MaxCases /\ ~(c > numbered)
  BY <1>2, <1>3
<1>5. \A d \in 1..MaxCases : SameStatus(d) /\ SamePerformed(d) /\ SameLog(d)
  BY <1>1, StatusStays, LogStays DEF SamePerformed
<1>6. ASSUME NEW d \in 1..MaxCases, d # c PROVE Life'[d] = Life[d]
  BY <1>5, <1>6, NotPosting, SameLife
<1>7. CASE SamePosted(c)
  BY <1>4, <1>5, <1>6, <1>7, SameLife, NoneChanged
<1>8. CASE ~SamePosted(c)
  <2>1. HasPosted(<<"log", c>>)'
    <3>1. PICK x : x = <<"log", c>>
      OBVIOUS
    <3>2. HasPosted(x) => HasPosted(x)'
      BY PostedStays DEF IInv, TypeOK, HasPosted
    <3> QED
      BY <1>8, <3>1, <3>2 DEF SamePosted
  <2>2. PICK b \in BOOLEAN : b = TRUE
    OBVIOUS
  <2>3. b <=> HasPosted(<<"log", c>>)'
    BY <2>1, <2>2
  <2>4. Life'[c] = [Life[c] EXCEPT !.posted = b]
    BY <1>4, <1>5, <2>3, NewPosted
  <2>5. Life' = [Life EXCEPT ![c].posted = TRUE]
    BY <1>4, <1>6, <2>2, <2>4, OneChanged
  <2>6. Life[c].status \in {"succeeded", "failed"}
    BY <1>2, <1>4, LifeFields DEF StatusOf
  <2>7. Lifecycle!Post(c)
    BY <2>5, <2>6 DEF Lifecycle!Post, Life
  <2> QED
    BY <1>4, <2>7
<1> QED
  BY <1>7, <1>8

\* A log entry counts as sent once it was posted.
LEMMA SendStep ==
  ASSUME IInv, [Next]_vars, MarkLog
  PROVE  Life' = Life \/ \E c \in 1..MaxCases : Lifecycle!Send(c)
<1> PICK c : c = Row
  OBVIOUS
<1>1. /\ DOMAIN outbox' = DOMAIN outbox
      /\ outbox' = outbox \/
           /\ c \in DOMAIN outbox
           /\ \A d \in DOMAIN outbox :
                outbox'[d].delivered = IF d = c THEN TRUE ELSE outbox[d].delivered
      /\ courier.phase = "mark"
      /\ UNCHANGED <<cases, numbered, effects, messages>>
  BY MarkFacts DEF IInv, TypeOK
<1>2. c \in DOMAIN cases /\ HasPosted(<<"log", c>>)
  BY <1>1, RowFacts DEF IInv, TypeOK, Closed, OutboxOK
<1>3. numbered \in Nat /\ numbered <= MaxCases /\ DOMAIN cases \subseteq 1..numbered
  BY DEF IInv, TypeOK, CaseType
<1>4. c \in 1..MaxCases
  BY <1>2, <1>3
<1>5. \A d \in 1..MaxCases : SameStatus(d) /\ SamePerformed(d) /\ SamePosted(d)
  BY <1>1, StatusStays DEF SamePerformed, SamePosted, HasPosted
<1>6. ASSUME NEW d \in 1..MaxCases, d # c PROVE Life'[d] = Life[d]
  <2>1. d \in DOMAIN outbox => outbox'[d].delivered = outbox[d].delivered
    BY <1>1, <1>6
  <2> QED
    BY <1>1, <1>5, <2>1, LogStays, SameLife
<1>7. CASE SameLog(c)
  BY <1>4, <1>5, <1>6, <1>7, SameLife, NoneChanged
<1>8. CASE ~SameLog(c)
  <2>1. c \in DOMAIN outbox /\ outbox' # outbox
    BY <1>1, <1>8 DEF SameLog, LogOf
  <2>2. c \in DOMAIN outbox' /\ outbox'[c].delivered = TRUE
    BY <1>1, <2>1
  <2>3. LogOf(c)' = "sent"
    BY <2>2 DEF LogOf
  <2>4. LogOf(c) = "queued"
    BY <1>8, <2>1, <2>3 DEF LogOf, SameLog
  <2>5. PICK k : k = "sent"
    OBVIOUS
  <2>6. Life'[c] = [Life[c] EXCEPT !.log = k]
    BY <1>4, <1>5, <2>3, <2>5, NewLog
  <2>7. Life' = [Life EXCEPT ![c].log = "sent"]
    BY <1>4, <1>6, <2>5, <2>6, OneChanged
  <2>8. Life[c].log = "queued"
    BY <1>4, <2>4, LifeFields
  <2>9. Life[c].posted
    BY <1>2, <1>4, LifeFields
  <2>10. Lifecycle!Send(c)
    BY <2>7, <2>8, <2>9 DEF Lifecycle!Send, Life
  <2> QED
    BY <1>4, <2>10
<1> QED
  BY <1>7, <1>8

\* Old cases go, and the rows of the outbox with them.
LEMMA PurgeStep ==
  ASSUME IInv, [Next]_vars, PurgeCases
  PROVE  \E purged \in SUBSET (1..MaxCases) : Lifecycle!Purge(purged)
<1> PICK old : old = DOMAIN cases \ DOMAIN cases'
  OBVIOUS
<1>1. /\ courier.phase = "rest" /\ UNCHANGED <<messages, numbered, effects>>
      /\ DOMAIN outbox' = DOMAIN outbox \cap DOMAIN cases' /\ DOMAIN cases' \subseteq DOMAIN cases
      /\ \A d \in DOMAIN outbox' : outbox'[d] = outbox[d]
      /\ \A d \in DOMAIN cases' : cases'[d] = cases[d]
  BY PurgeFacts, PurgeRows, LogFacts DEF IInv, TypeOK, LogDelivery
<1>2. numbered \in Nat /\ numbered <= MaxCases /\ DOMAIN cases \subseteq 1..numbered
  BY DEF IInv, TypeOK, CaseType
<1>3. old \subseteq 1..MaxCases /\ \A c \in old : ~(c > numbered) /\ c \in DOMAIN cases
  BY <1>2
<1>4. \A d \in 1..MaxCases : SamePosted(d) /\ SamePerformed(d)
  BY <1>1 DEF SamePosted, SamePerformed, HasPosted
<1>5. DOMAIN outbox \subseteq DOMAIN cases
  BY DEF IInv, OutboxOK, Closed
<1>6. ASSUME NEW c \in 1..MaxCases, c \in old
      PROVE  Life'[c] = [Life[c] EXCEPT !.status = "purged", !.log = "none"]
  <2>1. StatusOf(c)' = "purged"
    BY <1>1, <1>3, <1>6 DEF StatusOf
  <2>2. LogOf(c)' = "none"
    BY <1>1, <1>6 DEF LogOf
  <2>3. Life'[c] = [[Life[c] EXCEPT !.status = StatusOf(c)'] EXCEPT !.log = LogOf(c)']
    BY <1>4, NewStatusAndLog
  <2>4. PICK t, k : t = "purged" /\ k = "none"
    OBVIOUS
  <2>5. Life'[c] = [[Life[c] EXCEPT !.status = t] EXCEPT !.log = k]
    BY <2>1, <2>2, <2>3, <2>4
  <2>6. [[Life[c] EXCEPT !.status = t] EXCEPT !.log = k] = [Life[c] EXCEPT !.status = t, !.log = k]
    OBVIOUS
  <2> QED
    BY <2>4, <2>5, <2>6
<1>7. ASSUME NEW c \in 1..MaxCases, c \notin old PROVE Life'[c] = Life[c]
  <2>1. SameStatus(c)
    BY <1>1, <1>7 DEF SameStatus, StatusOf
  <2>2. c \in DOMAIN outbox' <=> c \in DOMAIN outbox
    BY <1>1, <1>5, <1>7
  <2>3. SameLog(c)
    BY <1>1, <2>2 DEF SameLog, LogOf
  <2> QED
    BY <1>4, <2>1, <2>3, SameLife
<1>8. Life' = [c \in 1..MaxCases |->
        IF c \in old THEN [Life[c] EXCEPT !.status = "purged", !.log = "none"] ELSE Life[c]]
  <2>1. Life' = [d \in 1..MaxCases |-> Life'[d]]
    BY DEF Life
  <2> QED
    BY <1>6, <1>7, <2>1
<1>9. CaseType
  BY DEF IInv, TypeOK
<1>10. ASSUME NEW c \in old PROVE Life[c].status # "none"
  <2>1. StatusOf(c) = cases[c].status /\ cases[c].status \in {"pending", "succeeded", "failed"}
    BY <1>3, <1>9, <1>10 DEF StatusOf, CaseType, Case
  <2> QED
    BY <1>3, <2>1, LifeFields
<1> QED
  BY <1>3, <1>8, <1>10 DEF Lifecycle!Purge, Life

\* Every step of the bot is a step of some case's life, or none.
LEMMA LifeStep ==
  ASSUME IInv, [Next]_vars
  PROVE  Life' = Life \/ Lifecycle!Next
<1>1. CASE CreateModerationCase /\ Opened(numbered + 1)
  BY <1>1, OpenStep DEF Lifecycle!Next
<1>2. CASE Act
  BY <1>2, PerformStep DEF Lifecycle!Next
<1>3. CASE CompleteModerationCase /\ Recorded
  BY <1>3, CloseStep DEF Lifecycle!Next
<1>4. CASE SendLog
  BY <1>4, PostStep DEF Lifecycle!Next
<1>5. CASE MarkLog
  BY <1>5, SendStep DEF Lifecycle!Next
<1>6. CASE PurgeCases
  BY <1>6, PurgeStep DEF Lifecycle!Next
<1>7. ASSUME ~(CreateModerationCase /\ Opened(numbered + 1)), ~Act,
             ~(CompleteModerationCase /\ Recorded), ~SendLog, ~MarkLog, ~PurgeCases
      PROVE  Life' = Life
  <2>1. UNCHANGED <<cases, numbered>>
    BY <1>7, CaseCases DEF IInv, TypeOK
  <2>2. UNCHANGED effects
    BY <1>7, EffectsStep DEF IInv, TypeOK
  <2>3. UNCHANGED outbox \/ DeferLog
    BY <1>7, OutboxCases DEF IInv, TypeOK
  <2>4. /\ DOMAIN outbox' = DOMAIN outbox
        /\ \A c \in DOMAIN outbox : outbox'[c].delivered = outbox[c].delivered
    BY <2>3, DeferredFacts DEF IInv, TypeOK, DeferLog
  <2>5. \A c \in 1..MaxCases :
          SameStatus(c) /\ SamePerformed(c) /\ SamePosted(c) /\ SameLog(c)
    BY <1>7, <2>1, <2>2, <2>4, StatusStays, LogStays, NotPosting DEF SamePerformed
  <2> QED
    BY <2>5, SameLife, NoneChanged
<1> QED
  BY <1>1, <1>2, <1>3, <1>4, <1>5, <1>6, <1>7

LEMMA LifeInit == Init => Lifecycle!Init
<1> SUFFICES ASSUME Init PROVE Lifecycle!Init
  OBVIOUS
<1>1. /\ numbered = 0 /\ DOMAIN outbox = {} /\ effects = {} /\ DOMAIN messages = {}
  BY DEF Init, ModerationInit, DiscordInit
<1>2. ASSUME NEW c \in 1..MaxCases PROVE Life[c] = Lifecycle!Unopened
  <2>1. PICK p \in BOOLEAN, o \in BOOLEAN :
          /\ Life[c] = [status |-> StatusOf(c), performed |-> p, posted |-> o, log |-> LogOf(c)]
          /\ p <=> c \in effects
          /\ o <=> HasPosted(<<"log", c>>)
    BY LifeValue
  <2>2. p = FALSE
    BY <1>1, <2>1
  <2>3. o = FALSE
    BY <1>1, <2>1 DEF HasPosted
  <2>4. StatusOf(c) = "none" /\ LogOf(c) = "none"
    BY <1>1 DEF StatusOf, LogOf
  <2> QED
    BY <2>1, <2>2, <2>3, <2>4 DEF Lifecycle!Unopened
<1>3. Life = [c \in 1..MaxCases |-> Life[c]]
  BY DEF Life
<1>4. Life = [c \in 1..MaxCases |-> Lifecycle!Unopened]
  BY <1>2, <1>3
<1> QED
  BY <1>4 DEF Lifecycle!Init, Life

(***************************************************************************)
(* The handlers, the storage and the log delivery implement CaseLifecycle: *)
(* whatever fails, gets lost, is purged or crashes, a case is opened,      *)
(* performed at most once, closed with its log entry queued, logged and    *)
(* purged in that order (executeModeration, CompleteModerationCase,        *)
(* deliverModerationLogs, PurgeModerationCases).                           *)
(***************************************************************************)
THEOREM LifecycleIsImplemented == Spec => CasesFollowLifecycle
<1>1. IInv /\ [Next]_vars => [Lifecycle!Next]_Life
  BY LifeStep
<1> QED
  BY <1>1, LifeInit, Invariance, PTL DEF Spec, CasesFollowLifecycle, Lifecycle!Spec, Life
=============================================================================
