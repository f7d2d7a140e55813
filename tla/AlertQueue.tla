----------------------------- MODULE AlertQueue -----------------------------
(***************************************************************************)
(* The alert queue between rule evaluation and Discord delivery            *)
(* (internal/rules/queue.go).                                              *)
(*                                                                         *)
(* Enqueue is called by every goroutine that evaluates rules: the pollers  *)
(* of the state engine, the workers of the agent ingress, the aggregate    *)
(* builder and the enrichment workers.  Pop is called by the alert pump.   *)
(* The two channels are lock-free; the mutex protects only the pending     *)
(* set, so Pop can run between any two channel operations of an Enqueue    *)
(* that holds the mutex, and an Enqueue can run between the receive of a   *)
(* Pop and its removal of the pending key.  One action below is one        *)
(* channel operation together with the mutex-protected work around it.     *)
(*                                                                         *)
(* An alert is enqueued once, so alerts name the calls of Enqueue.  The    *)
(* counters dropped and coalesced are kept as the sets of alerts they      *)
(* count.                                                                  *)
(***************************************************************************)
EXTENDS Naturals, Sequences, Functions

CONSTANTS
  Alerts,            \* the alerts that rule evaluation may raise
  Emergency,         \* those with Priority = AlertEmergency
  Keys,              \* values of ConditionFingerprint:AircraftICAO
  KeyOf,             \* the key of each alert
  Producers,         \* goroutines that call Enqueue
  Poppers,           \* goroutines that call Pop (the alert pump)
  EmergencyCapacity, \* capacity of the emergency channel
  NormalCapacity,    \* capacity of the normal channel
  NoAlert, NoThread  \* stand for no alert and no thread

ASSUME AlertAssumption ==
  /\ Emergency \subseteq Alerts
  /\ KeyOf \in [Alerts -> Keys]
  /\ NoAlert \notin Alerts

ASSUME ThreadAssumption ==
  /\ Producers \cap Poppers = {}
  /\ NoThread \notin Producers \cup Poppers

ASSUME CapacityAssumption ==
  /\ EmergencyCapacity \in Nat \ {0}
  /\ NormalCapacity \in Nat \ {0}

Threads == Producers \cup Poppers

VARIABLES
  emergency,  \* the emergency channel
  normal,     \* the normal channel
  pending,    \* keys of the alerts admitted and not yet popped
  mu,         \* the thread that holds the mutex, or NoThread
  pc,         \* where each thread is between two shared operations
  held,       \* the alert each thread is working on
  shutdown,   \* the pump's context is done
  raised,     \* history: alerts Enqueue has been called with
  delivered,  \* history: alerts Pop has returned
  dropped,    \* alerts counted by queue.dropped
  coalesced,  \* alerts counted by queue.coalesced
  refused,    \* history: alerts whose Enqueue returned ErrAlertQueueFull
  overtaken   \* history: normal alerts each popper has received past a
              \* waiting emergency, since the last emergency was received

queueVars == <<emergency, normal, pending, mu, pc, held, shutdown,
               raised, delivered, dropped, coalesced, refused, overtaken>>
\* Unchanged by most actions.
history == <<raised, delivered, refused, overtaken, shutdown>>

QueueInit ==
  /\ emergency = <<>>
  /\ normal = <<>>
  /\ pending = {}
  /\ mu = NoThread
  /\ pc = [t \in Threads |-> "idle"]
  /\ held = [t \in Threads |-> NoAlert]
  /\ shutdown = FALSE
  /\ raised = {}
  /\ delivered = {}
  /\ dropped = {}
  /\ coalesced = {}
  /\ refused = {}
  /\ overtaken = [t \in Poppers |-> 0]

-----------------------------------------------------------------------------
(* Enqueue.                                                                *)

Enqueue(p, a) ==
  /\ pc[p] = "idle"
  /\ a \notin raised
  /\ raised' = raised \cup {a}
  /\ held' = [held EXCEPT ![p] = a]
  /\ pc' = [pc EXCEPT ![p] = IF a \in Emergency THEN "urgent" ELSE "admit"]
  /\ UNCHANGED <<emergency, normal, pending, mu, delivered, dropped,
                 coalesced, refused, overtaken, shutdown>>

Return(p) ==
  /\ pc' = [pc EXCEPT ![p] = "idle"]
  /\ held' = [held EXCEPT ![p] = NoAlert]

SendEmergency(p) ==
  /\ pc[p] = "urgent"
  /\ Len(emergency) < EmergencyCapacity
  /\ emergency' = Append(emergency, held[p])
  /\ Return(p)
  /\ UNCHANGED <<normal, pending, mu, dropped, coalesced>>
  /\ UNCHANGED history

\* The caller's context ends (20 ms) while the emergency send waits.  The
\* select picks at random when both are ready, so no room check here.
EmergencyTimeout(p) ==
  /\ pc[p] = "urgent"
  /\ dropped' = dropped \cup {held[p]}
  /\ refused' = refused \cup {held[p]}
  /\ Return(p)
  /\ UNCHANGED <<emergency, normal, pending, mu, coalesced, raised,
                 delivered, overtaken, shutdown>>

\* Lock, find the key already pending, count and return.
Coalesce(p) ==
  /\ pc[p] = "admit"
  /\ mu = NoThread
  /\ KeyOf[held[p]] \in pending
  /\ coalesced' = coalesced \cup {held[p]}
  /\ Return(p)
  /\ UNCHANGED <<emergency, normal, pending, mu, dropped>>
  /\ UNCHANGED history

\* Lock, mark the key pending, and send if the channel has room.  When it is
\* full the mutex stays held and the eviction follows.
Admit(p) ==
  /\ pc[p] = "admit"
  /\ mu = NoThread
  /\ KeyOf[held[p]] \notin pending
  /\ pending' = pending \cup {KeyOf[held[p]]}
  /\ IF Len(normal) < NormalCapacity
       THEN /\ normal' = Append(normal, held[p])
            /\ Return(p)
            /\ UNCHANGED mu
       ELSE /\ mu' = p
            /\ pc' = [pc EXCEPT ![p] = "evict"]
            /\ UNCHANGED <<normal, held>>
  /\ UNCHANGED <<emergency, dropped, coalesced>>
  /\ UNCHANGED history

\* Receive the oldest alert, if a concurrent Pop has left one.
Evict(p) ==
  /\ pc[p] = "evict"
  /\ IF normal # <<>>
       THEN /\ normal' = Tail(normal)
            /\ pending' = pending \ {KeyOf[Head(normal)]}
            /\ dropped' = dropped \cup {Head(normal)}
       ELSE UNCHANGED <<normal, pending, dropped>>
  /\ pc' = [pc EXCEPT ![p] = "resend"]
  /\ UNCHANGED <<emergency, mu, held, coalesced>>
  /\ UNCHANGED history

\* Mutant of Resend: a return path misses the unlock.
ResendKeepsLock(p) ==
  /\ pc[p] = "resend"
  /\ Len(normal) < NormalCapacity
  /\ normal' = Append(normal, held[p])
  /\ Return(p)
  /\ UNCHANGED <<emergency, pending, mu, dropped, coalesced>>
  /\ UNCHANGED history

\* Send again; a channel still full refuses the alert.  Then unlock.
Resend(p) ==
  /\ pc[p] = "resend"
  /\ IF Len(normal) < NormalCapacity
       THEN /\ normal' = Append(normal, held[p])
            /\ UNCHANGED <<pending, dropped, refused>>
       ELSE /\ pending' = pending \ {KeyOf[held[p]]}
            /\ dropped' = dropped \cup {held[p]}
            /\ refused' = refused \cup {held[p]}
            /\ UNCHANGED normal
  /\ mu' = NoThread
  /\ Return(p)
  /\ UNCHANGED <<emergency, coalesced, raised, delivered, overtaken, shutdown>>

-----------------------------------------------------------------------------
(* Pop.                                                                    *)

\* Either select receives an emergency: the first, which has no other case,
\* or the second.
PopEmergency(c) ==
  /\ pc[c] \in {"idle", "select"}
  /\ emergency # <<>>
  /\ emergency' = Tail(emergency)
  /\ delivered' = delivered \cup {Head(emergency)}
  /\ overtaken' = [t \in Poppers |-> 0]
  /\ pc' = [pc EXCEPT ![c] = "idle"]
  /\ UNCHANGED <<normal, pending, mu, held, raised, dropped, coalesced,
                 refused, shutdown>>

\* Mutant of PopNoEmergency: Pop has no first select.
PopNoEmergencyBlind(c) ==
  /\ pc[c] = "idle"
  /\ pc' = [pc EXCEPT ![c] = "select"]
  /\ UNCHANGED <<emergency, normal, pending, mu, held, dropped, coalesced>>
  /\ UNCHANGED history

\* The first select takes its default case.
PopNoEmergency(c) ==
  /\ pc[c] = "idle"
  /\ emergency = <<>>
  /\ pc' = [pc EXCEPT ![c] = "select"]
  /\ UNCHANGED <<emergency, normal, pending, mu, held, dropped, coalesced>>
  /\ UNCHANGED history

\* Mutant of PopNormal: the key is removed together with the receive, before
\* the alert is handed on, and once more when it is.
PopNormalReleases(c) ==
  /\ pc[c] = "select"
  /\ normal # <<>>
  /\ held' = [held EXCEPT ![c] = Head(normal)]
  /\ normal' = Tail(normal)
  /\ pending' = pending \ {KeyOf[Head(normal)]}
  /\ overtaken' = [overtaken EXCEPT ![c] = IF emergency = <<>> THEN 0 ELSE @ + 1]
  /\ pc' = [pc EXCEPT ![c] = "release"]
  /\ UNCHANGED <<emergency, mu, raised, delivered, dropped, coalesced,
                 refused, shutdown>>

\* The second select receives a normal alert, although an emergency may have
\* arrived since the first.
PopNormal(c) ==
  /\ pc[c] = "select"
  /\ normal # <<>>
  /\ held' = [held EXCEPT ![c] = Head(normal)]
  /\ normal' = Tail(normal)
  /\ overtaken' = [overtaken EXCEPT ![c] = IF emergency = <<>> THEN 0 ELSE @ + 1]
  /\ pc' = [pc EXCEPT ![c] = "release"]
  /\ UNCHANGED <<emergency, pending, mu, raised, delivered, dropped,
                 coalesced, refused, shutdown>>

\* Lock, remove the key, unlock and return the alert.
PopRelease(c) ==
  /\ pc[c] = "release"
  /\ mu = NoThread
  /\ pending' = pending \ {KeyOf[held[c]]}
  /\ delivered' = delivered \cup {held[c]}
  /\ Return(c)
  /\ UNCHANGED <<emergency, normal, mu, raised, dropped, coalesced, refused,
                 overtaken, shutdown>>

\* The second select sees the context done; Pop returns false and the pump
\* ends, whatever the channels still hold.
PopStop(c) ==
  /\ pc[c] = "select"
  /\ shutdown
  /\ pc' = [pc EXCEPT ![c] = "stopped"]
  /\ UNCHANGED <<emergency, normal, pending, mu, held, dropped, coalesced>>
  /\ UNCHANGED history

Shutdown ==
  /\ ~shutdown
  /\ shutdown' = TRUE
  /\ UNCHANGED <<emergency, normal, pending, mu, pc, held, raised, delivered,
                 dropped, coalesced, refused, overtaken>>

-----------------------------------------------------------------------------
EnqueueStep(p) ==
  \/ SendEmergency(p)
  \/ EmergencyTimeout(p)
  \/ Coalesce(p)
  \/ Admit(p)
  \/ Evict(p)
  \/ Resend(p)

PopStep(c) ==
  \/ PopEmergency(c)
  \/ PopNoEmergency(c)
  \/ PopNormal(c)
  \/ PopRelease(c)
  \/ PopStop(c)

QueueNext ==
  \/ \E p \in Producers : \E a \in Alerts : Enqueue(p, a)
  \/ \E p \in Producers : EnqueueStep(p)
  \/ \E c \in Poppers : PopStep(c)
  \/ Shutdown

\* A started call of Enqueue runs on, and the pump loops until shutdown.
\* A channel or mutex operation that stays possible is eventually taken; the
\* mutex is handed to every waiter in turn (Go's starvation mode), hence
\* strong fairness for the actions that need it.
QueueFairness ==
  /\ \A p \in Producers : /\ WF_queueVars(EnqueueStep(p))
                          /\ SF_queueVars(Coalesce(p) \/ Admit(p))
  /\ \A c \in Poppers : WF_queueVars(PopStep(c)) /\ SF_queueVars(PopRelease(c))

QueueSpec == QueueInit /\ [][QueueNext]_queueVars
FairQueueSpec == QueueSpec /\ QueueFairness

-----------------------------------------------------------------------------
(* Properties.                                                             *)

ProducerStates == {"idle", "urgent", "admit", "evict", "resend"}
PopperStates == {"idle", "select", "release", "stopped"}

\* Type correctness: the channels never exceed the capacities NewQueue gave
\* them, and a thread that works on an alert holds one.
QueueTypeOK ==
  /\ emergency \in Seq(Emergency) /\ Len(emergency) <= EmergencyCapacity
  /\ normal \in Seq(Alerts \ Emergency) /\ Len(normal) <= NormalCapacity
  /\ pending \subseteq Keys
  /\ mu \in Producers \cup {NoThread}
  /\ pc \in [Threads -> ProducerStates \cup PopperStates]
  /\ \A p \in Producers : pc[p] \in ProducerStates
  /\ \A c \in Poppers : pc[c] \in PopperStates
  /\ held \in [Threads -> Alerts \cup {NoAlert}]
  /\ shutdown \in BOOLEAN
  /\ raised \subseteq Alerts
  /\ delivered \subseteq Alerts
  /\ dropped \subseteq Alerts
  /\ coalesced \subseteq Alerts
  /\ refused \subseteq Alerts
  /\ overtaken \in [Poppers -> Nat]

\* Threads between marking a key pending and sending its alert, or between
\* receiving an alert and removing its key.
Carrying == {t \in Threads : pc[t] \in {"evict", "resend", "release"}}

\* The pending set holds the keys of the queued alerts and of those in a
\* thread's hands, and nothing else.  A key left behind by an eviction or a
\* Pop would silence that condition and aircraft for ever.
PendingExact ==
  pending = {KeyOf[a] : a \in Range(normal)} \cup {KeyOf[held[t]] : t \in Carrying}

\* At most one alert per condition and aircraft is in the normal channel or
\* in a thread's hands, whatever Pop and Enqueue interleave.
OneAlertPerKey ==
  /\ \A i, j \in DOMAIN normal : KeyOf[normal[i]] = KeyOf[normal[j]] => i = j
  /\ \A t, u \in Carrying : KeyOf[held[t]] = KeyOf[held[u]] => t = u
  /\ \A t \in Carrying : \A i \in DOMAIN normal : KeyOf[held[t]] # KeyOf[normal[i]]

\* After the eviction the second send always finds room, so Enqueue never
\* returns ErrAlertQueueFull for a normal alert: only an emergency is refused.
NormalNeverRefused == refused \subseteq Emergency

\* A waiting emergency is passed by at most one normal alert per popper: the
\* one received by a Pop that had already looked at the emergency channel.
EmergencyNotOvertakenTwice == \A c \in Poppers : overtaken[c] <= 1

Queued == Range(emergency) \cup Range(normal)
InHand == {held[t] : t \in {u \in Threads : held[u] # NoAlert}}

\* Every alert raised is in exactly one place: queued, in a thread's hands,
\* delivered, counted as dropped, or counted as coalesced.  No alert is lost
\* without being counted, and none is delivered twice.
Accounting ==
  /\ raised = Queued \cup InHand \cup delivered \cup dropped \cup coalesced
  /\ delivered \cap dropped = {}
  /\ delivered \cap coalesced = {}
  /\ dropped \cap coalesced = {}
  /\ (Queued \cup InHand) \cap (delivered \cup dropped \cup coalesced) = {}
  /\ Queued \cap InHand = {}

\* Every raised alert is eventually delivered, dropped or coalesced unless the
\* process shuts down first: no Enqueue blocks for ever on the mutex or the
\* channel, and the pump drains both channels.
EveryAlertSettles ==
  \A a \in Alerts :
    a \in raised ~> (a \in delivered \cup dropped \cup coalesced \/ shutdown)

\* However Enqueue and Pop interleave, the pending set is exactly the keys
\* queued or in hand, so no condition is silenced and none queued twice, and
\* the eviction makes room for every normal alert.
AdmissionSound == QueueTypeOK /\ PendingExact /\ OneAlertPerKey /\ NormalNeverRefused

\* No alert raised is lost uncounted or handled twice, and each one is settled
\* in the end.
AlertsSettle == []Accounting /\ EveryAlertSettles

=============================================================================
