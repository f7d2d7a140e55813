----------------------------- MODULE Moderation -----------------------------
(***************************************************************************)
(* Component sessions (internal/discord/sessions.go), the moderation       *)
(* commands behind their confirmations (moderation.go,                     *)
(* message_deletion.go), the cases and the log outbox (storage/sqlite/     *)
(* store.go), and the loop that delivers the log (client.go).              *)
(*                                                                         *)
(* Discord hands the bot one interaction at a time: a handler runs to its  *)
(* end, with storage and Discord calls in between, before the next one is  *)
(* dispatched.  The session cleanup, the log delivery and the outbound     *)
(* lanes run beside it.                                                    *)
(***************************************************************************)
EXTENDS DiscordMessages, SequencesExt

CONSTANTS
  Users,           \* people with the buttons in front of them
  MaxGlobal,       \* sessions
  MaxPerUser,      \* sessions of one user
  ViewTTL,         \* the life of a view's session, in ticks
  ConfirmTTL,      \* the life of a confirmation
  HandlerBudget,   \* how long a handler may take
  OutboxMax,       \* rows of the outbox
  LogBackoff,      \* ticks until a failed delivery is due again
  Retention,       \* age at which a case is purged
  NoSession,
  MaxCases,        \* bound: cases created
  MaxGrants        \* bound: changes of roles and permissions

ASSUME LimitAssumption ==
  /\ MaxGlobal \in Nat /\ MaxPerUser \in Nat /\ OutboxMax \in Nat /\ MaxCases \in Nat
  /\ ViewTTL \in Nat /\ ConfirmTTL \in Nat /\ LogBackoff \in Nat

(* A case is kept for a year, a handler has ten seconds.                   *)
ASSUME RetentionAssumption ==
  Retention \in Nat /\ HandlerBudget \in Nat /\ Retention + 1 >= HandlerBudget

VARIABLES
  sessions,   \* the sessions by id
  perUser,    \* the count kept per user
  opened,     \* the number of sessions opened: ids are never used again
  access,     \* [tier, native]: who has the role, and who the permission
  grants,     \* changes of access so far
  handler,    \* the interaction being handled
  cases,      \* durable: moderation_cases
  numbered,   \* the number of cases created
  outbox,     \* durable: moderation_log_outbox by case
  logChannel, \* durable: whether the moderation channel is bound
  courier,    \* the log delivery
  effects     \* ghost: the cases whose action Discord performed

moderationVars ==
  <<sessions, perUser, opened, access, grants, handler, cases, numbered, outbox,
    logChannel, courier, effects>>

Idle == [phase |-> "idle", user |-> NoSession, session |-> NoSession, kind |-> "",
         target |-> NoMessage, case |-> 0, status |-> "", native |-> FALSE,
         allowed |-> FALSE, since |-> 0]
Resting == [phase |-> "rest", logs |-> <<>>, msg |-> NoMessage, at |-> 0]

ModerationInit(logged) ==
  /\ sessions = <<>>
  /\ perUser = [u \in Users |-> 0]
  /\ opened = 0
  /\ access = [tier |-> Users, native |-> Users]
  /\ grants = 0
  /\ handler = Idle
  /\ cases = <<>>
  /\ numbered = 0
  /\ outbox = <<>>
  /\ logChannel = logged
  /\ courier = Resting
  /\ effects = {}

sessionVars == <<sessions, perUser, opened>>
caseVars == <<cases, numbered, outbox, effects>>
settingVars == <<access, grants, logChannel>>

-----------------------------------------------------------------------------
(* The session manager.                                                    *)
Expired(ids) == {s \in ids : clock >= sessions[s].expires}

(* deleteLocked, of every session in a set.                                *)
Counted(u, ids) == Cardinality({s \in ids : sessions[s].user = u})

(* As if Get left the count alone when it drops an expired session.        *)
RemoveSessionsUncounted(ids) ==
  /\ sessions' = [s \in DOMAIN sessions \ ids |-> sessions[s]]
  /\ perUser' = [u \in Users |->
       IF handler.phase = "idle" THEN perUser[u] ELSE perUser[u] - Counted(u, ids \cap DOMAIN sessions)]

RemoveSessions(ids) ==
  LET gone == ids \cap DOMAIN sessions
  IN  /\ sessions' = [s \in DOMAIN sessions \ gone |-> sessions[s]]
      /\ perUser' = [u \in Users |-> perUser[u] - Counted(u, gone)]

(* CreateWithTTL: the expired ones go first, then the limits count.        *)
Admits(u) ==
  LET expired == Expired(DOMAIN sessions)
  IN  /\ Cardinality(DOMAIN sessions \ expired) < MaxGlobal
      /\ perUser[u] - Counted(u, expired) < MaxPerUser

Create(u, view, kind, target, ttl) ==
  LET kept == DOMAIN sessions \ Expired(DOMAIN sessions)
      new == [user |-> u, view |-> view, kind |-> kind, target |-> target, expires |-> clock + ttl]
  IN  /\ Admits(u)
      /\ opened' = opened + 1
      /\ sessions' = [s \in kept \cup {opened + 1} |-> IF s = opened + 1 THEN new ELSE sessions[s]]
      /\ perUser' = [v \in Users |->
           perUser[v] - Counted(v, Expired(DOMAIN sessions)) + (IF v = u THEN 1 ELSE 0)]

(* A full table still loses what has expired.                              *)
Refuse(u) ==
  /\ ~Admits(u)
  /\ RemoveSessions(Expired(DOMAIN sessions))
  /\ UNCHANGED opened

Cleanup ==
  /\ Expired(DOMAIN sessions) # {}
  /\ RemoveSessions(Expired(DOMAIN sessions))
  /\ UNCHANGED <<opened, handler, caseVars, settingVars, courier, discordVars>>

-----------------------------------------------------------------------------
(* Commands.  /moderation and the message action need the role and the     *)
(* native permission; a kick and a deletion wait for a confirmation, a     *)
(* timeout (or its removal, or an unban) and a warning run at once.        *)
Free == handler.phase = "idle"
Authorised(u) == u \in access.tier /\ u \in access.native

Handling(u, s, kind, target, phase) ==
  [Idle EXCEPT !.phase = phase, !.user = u, !.session = s, !.kind = kind, !.target = target,
               !.native = u \in access.native, !.since = clock]

OpenView(u) ==
  /\ Free
  /\ Create(u, "view", "", NoMessage, ViewTTL) \/ Refuse(u)
  /\ UNCHANGED <<handler, caseVars, settingVars, courier, discordVars>>

AskKick(u) ==
  /\ Free /\ Authorised(u)
  /\ Create(u, "confirm", "kick", NoMessage, ConfirmTTL) \/ Refuse(u)
  /\ UNCHANGED <<handler, caseVars, settingVars, courier, discordVars>>

RunAtOnce(u) ==
  /\ Free /\ Authorised(u)
  /\ \E kind \in {"timeout", "warn"} :
       handler' = Handling(u, NoSession, kind, NoMessage, "create")
  /\ UNCHANGED <<sessionVars, caseVars, settingVars, courier, discordVars>>

(* The message action shows a form first, the command goes on at once.     *)
AskDeletion(u, m) ==
  /\ Free /\ Authorised(u)
  /\ \/ /\ Create(u, "form", "delete", m, ConfirmTTL)
        /\ \/ UNCHANGED handler
           \/ handler' = Handling(u, opened + 1, "delete", m, "prepare")
     \/ Refuse(u) /\ UNCHANGED handler
  /\ UNCHANGED <<caseVars, settingVars, courier, discordVars>>

(* Get: the session is there, has not expired and is this user's.          *)
Gets(u, s) == s \in DOMAIN sessions /\ clock < sessions[s].expires /\ sessions[s].user = u

SubmitReason(u, s) ==
  /\ Free /\ Gets(u, s) /\ sessions[s].view = "form"
  /\ handler' = Handling(u, s, "delete", sessions[s].target, "prepare")
  /\ UNCHANGED <<sessionVars, caseVars, settingVars, courier, discordVars>>

(* requireManageMessages: what Discord says of the member now; the message *)
(* is looked up before.                                                    *)
RequireManageMessages == handler.user \in access.native
ResolveMessage == Live(handler.target) /\ RequireManageMessages

(* Update keeps what is left of the session's life, and fails after it.    *)
PrepareDeletion ==
  /\ handler.phase = "prepare"
  /\ LET s == handler.session
     IN  \/ RemoveSessions({s})
         \/ /\ ResolveMessage
            /\ sessions' = IF s \in DOMAIN sessions /\ clock < sessions[s].expires
                           THEN [sessions EXCEPT ![s].view = "confirm"]
                           ELSE sessions
            /\ UNCHANGED perUser
  /\ handler' = Idle
  /\ UNCHANGED <<opened, caseVars, settingVars, courier, discordVars>>

(* A button: the close or cancel of any view, or a confirmation.           *)
Press(u, s) ==
  /\ Free
  /\ \/ /\ s \in Expired(DOMAIN sessions) \/ (Gets(u, s) /\ sessions[s].view # "form")
        /\ RemoveSessions({s})
        /\ UNCHANGED handler
     \/ /\ Gets(u, s) /\ sessions[s].view = "confirm"
        /\ handler' = Handling(u, s, sessions[s].kind, sessions[s].target, "authorise")
        /\ UNCHANGED <<sessions, perUser>>
  /\ UNCHANGED <<opened, caseVars, settingVars, courier, discordVars>>

(* As if the session lived on until it expires.                            *)
AuthoriseKeeping ==
  /\ handler.phase = "authorise"
  /\ handler' \in {Idle} \cup
       (IF handler.user \in access.tier THEN {[handler EXCEPT !.phase = "create"]} ELSE {})
  /\ UNCHANGED <<sessionVars, caseVars, settingVars, courier, discordVars>>

(* The confirmation is used up before anything is done with it.            *)
Authorise ==
  /\ handler.phase = "authorise"
  /\ RemoveSessions({handler.session})
  /\ handler' \in {Idle} \cup
       (IF handler.user \in access.tier /\ (handler.kind = "kick" => handler.native)
        THEN {[handler EXCEPT !.phase = "create"]} ELSE {})
  /\ UNCHANGED <<opened, caseVars, settingVars, courier, discordVars>>

-----------------------------------------------------------------------------
(* executeModeration, executeMessageDeletion: the case, the checks, the    *)
(* action, the outcome.  Each call to storage or Discord may fail.         *)
CreateModerationCase ==
  /\ handler.phase = "create"
  /\ \/ handler' = Idle /\ UNCHANGED <<cases, numbered>>
     \/ /\ numbered < MaxCases
        /\ numbered' = numbered + 1
        /\ cases' = [c \in DOMAIN cases \cup {numbered'} |->
             IF c = numbered'
             THEN [status |-> "pending", session |-> handler.session, user |-> handler.user,
                   created |-> clock]
             ELSE cases[c]]
        /\ handler' = [handler EXCEPT !.phase = "check", !.case = numbered',
                                      !.allowed = handler.user \in access.native]
  /\ UNCHANGED <<sessionVars, outbox, effects, settingVars, courier, discordVars>>

Finishing(status) == [handler EXCEPT !.phase = "complete", !.status = status]

(* As if the permission of the command had been enough.                    *)
CheckNothing ==
  /\ handler.phase \in {"check", "recheck"}
  /\ handler' \in {Finishing("failed"), [handler EXCEPT !.phase = "act"]}
  /\ UNCHANGED <<sessionVars, caseVars, settingVars, courier, discordVars>>

(* The guild, the moderator and the bot are loaded again.                  *)
MayModerate == handler.user \in access.native

(* A deletion is resolved, then checked once more before it is sent.       *)
Check ==
  /\ handler.phase \in {"check", "recheck"}
  /\ \/ handler' = Finishing("failed")
     \/ /\ IF handler.kind = "delete" THEN ResolveMessage ELSE MayModerate
        /\ handler' = [handler EXCEPT !.phase =
             IF handler.kind = "delete" /\ handler.phase = "check" THEN "recheck" ELSE "act"]
  /\ UNCHANGED <<sessionVars, caseVars, settingVars, courier, discordVars>>

(* As if an attempt without an answer counted as one that succeeded.       *)
ActHopefully ==
  /\ handler.phase = "act"
  /\ handler' = Finishing("succeeded")
  /\ effects' \in {effects, effects \cup {handler.case}}
  /\ UNCHANGED <<sessionVars, cases, numbered, outbox, settingVars, courier, discordVars>>

DeleteMessage == messages' = AfterDelete(handler.target)

(* Discord may perform an action and its answer get lost.  A warning       *)
(* stands whether or not its direct message arrives.                       *)
Act ==
  /\ handler.phase = "act"
  /\ \/ /\ handler.kind # "warn"
        /\ handler' = Finishing("failed")
        /\ UNCHANGED <<effects, messages>>
     \/ /\ handler.kind = "delete" => Live(handler.target)
        /\ handler' \in {Finishing("succeeded")} \cup
             (IF handler.kind = "warn" THEN {} ELSE {Finishing("failed")})
        /\ effects' = effects \cup {handler.case}
        /\ IF handler.kind = "delete" THEN DeleteMessage ELSE UNCHANGED messages
  /\ UNCHANGED <<sessionVars, cases, numbered, outbox, settingVars, courier, bindings,
                 unrecorded, forgotten>>

(* CompleteModerationCase: a full outbox loses its oldest delivered row,   *)
(* or its oldest.                                                          *)
Victims ==
  LET sent == {c \in DOMAIN outbox : outbox[c].delivered}
      among == IF sent # {} THEN sent ELSE DOMAIN outbox
  IN  IF Cardinality(DOMAIN outbox) < OutboxMax THEN {}
      ELSE {c \in among : \A d \in among : c <= d}

CompleteModerationCase ==
  /\ handler.phase = "complete"
  /\ \/ handler' = Idle /\ UNCHANGED <<cases, outbox>>
     \/ /\ handler.case \in DOMAIN cases
        /\ cases' = [cases EXCEPT ![handler.case].status = handler.status]
        /\ outbox' = [c \in (DOMAIN outbox \ Victims) \cup {handler.case} |->
             IF c = handler.case THEN [due |-> clock, delivered |-> FALSE] ELSE outbox[c]]
        /\ handler' = IF handler.kind = "delete" /\ handler.status = "succeeded"
                      THEN [handler EXCEPT !.phase = "unbind"] ELSE Idle
  /\ UNCHANGED <<sessionVars, numbered, effects, settingVars, courier, discordVars>>

DeleteBinding ==
  /\ handler.phase = "unbind"
  /\ handler' = Idle
  /\ bindings' \in {bindings, Unbound(handler.target)}
  /\ UNCHANGED <<sessionVars, caseVars, settingVars, courier, messages, unrecorded, forgotten>>

-----------------------------------------------------------------------------
(* The log delivery: a batch of due rows, one after the other.             *)
Earlier(c, d) == outbox[c].due < outbox[d].due \/ (outbox[c].due = outbox[d].due /\ c < d)

LoadLogs ==
  LET due == {c \in DOMAIN outbox : ~outbox[c].delivered /\ outbox[c].due <= clock}
  IN  /\ courier.phase = "rest" /\ due # {}
      /\ \E logs \in SetToSeqs(due) :
           /\ \A i, j \in DOMAIN logs : i < j => Earlier(logs[i], logs[j])
           /\ courier' = [phase |-> IF logChannel THEN "send" ELSE "defer",
                          logs |-> logs, msg |-> NoMessage, at |-> clock]
      /\ UNCHANGED <<sessionVars, handler, caseVars, settingVars, discordVars>>

Row == Head(courier.logs)
NextLog ==
  courier' = IF Len(courier.logs) = 1 THEN Resting
             ELSE [courier EXCEPT !.logs = Tail(@), !.msg = NoMessage,
                                  !.phase = IF @ = "mark" THEN "send" ELSE @]

(* MarkModerationLogFailed, unless that write fails too.                   *)
Deferred ==
  outbox' \in {outbox} \cup
    (IF Row \in DOMAIN outbox THEN {[outbox EXCEPT ![Row].due = courier.at + LogBackoff]} ELSE {})

DeferLog ==
  /\ courier.phase \in {"send", "defer"}
  /\ Deferred /\ NextLog
  /\ UNCHANGED <<sessionVars, handler, cases, numbered, effects, settingVars, discordVars>>

SendLog ==
  /\ courier.phase = "send"
  /\ messages' = AfterPost(<<"log", Row>>, NoSession, clock, "", <<"log", Row>>)
  /\ unrecorded' = unrecorded \cup {PostedAs(<<"log", Row>>)}
  /\ \/ courier' = [courier EXCEPT !.phase = "mark", !.msg = PostedAs(<<"log", Row>>)] /\ UNCHANGED outbox
     \/ Deferred /\ NextLog
  /\ UNCHANGED <<sessionVars, handler, cases, numbered, effects, settingVars, bindings, forgotten>>

MarkLog ==
  /\ courier.phase = "mark"
  /\ \/ /\ Row \in DOMAIN outbox
        /\ outbox' = [outbox EXCEPT ![Row].delivered = TRUE]
        /\ unrecorded' = unrecorded \ {courier.msg}
     \/ UNCHANGED <<outbox, unrecorded>>
  /\ NextLog
  /\ UNCHANGED <<sessionVars, handler, cases, numbered, effects, settingVars, messages, bindings,
                 forgotten>>

(* PurgeModerationCases; the rows of the outbox go with their cases.       *)
PurgeCases ==
  LET old == {c \in DOMAIN cases : cases[c].created + Retention < clock}
  IN  /\ courier.phase = "rest" /\ old # {}
      /\ cases' = [c \in DOMAIN cases \ old |-> cases[c]]
      /\ outbox' = [c \in DOMAIN outbox \ old |-> outbox[c]]
      /\ UNCHANGED <<sessionVars, handler, numbered, effects, settingVars, courier, discordVars>>

-----------------------------------------------------------------------------
(* Roles, permissions and the bound channel change under the bot's feet.   *)
Toggled(set, u) == IF u \in set THEN set \ {u} ELSE set \cup {u}

ChangeAccess(u) ==
  /\ grants < MaxGrants
  /\ grants' = grants + 1
  /\ access' \in {[access EXCEPT !.tier = Toggled(@, u)], [access EXCEPT !.native = Toggled(@, u)]}
  /\ handler' = [handler EXCEPT !.allowed =
       @ \/ (handler.case # 0 /\ handler.user \in access'.native)]
  /\ UNCHANGED <<sessionVars, caseVars, logChannel, courier, discordVars>>

BindLogChannel ==
  /\ ~logChannel
  /\ logChannel' = TRUE
  /\ UNCHANGED <<sessionVars, handler, caseVars, access, grants, courier, discordVars>>

(* A handler is done in less than HandlerBudget ticks.                     *)
HandlerInTime == handler.phase # "idle" => clock + 1 < handler.since + HandlerBudget

(* The process stops: sessions and whatever was under way are gone.        *)
ModerationLost ==
  /\ sessions' = <<>>
  /\ perUser' = [u \in Users |-> 0]
  /\ handler' = Idle
  /\ courier' = Resting
  /\ UNCHANGED <<opened, caseVars, settingVars>>

UnderWay ==
  \/ \E u \in Users, s \in 1..opened : SubmitReason(u, s) \/ Press(u, s)
  \/ PrepareDeletion \/ Authorise \/ CreateModerationCase \/ Check \/ Act
  \/ CompleteModerationCase \/ DeleteBinding \/ Cleanup

LogDelivery == LoadLogs \/ DeferLog \/ SendLog \/ MarkLog \/ PurgeCases \/ BindLogChannel
=============================================================================
