---------------------------- MODULE AgentDelivery ----------------------------
(***************************************************************************)
(* Delivery of one community feeder's snapshots: the feeder agent          *)
(* (internal/source/agent/runner.go, client.go), the central ingress       *)
(* (server.go, protocol.go) and the replay sequence in the database        *)
(* (internal/storage/sqlite/store_feeders.go).                             *)
(*                                                                         *)
(* The agent signs one envelope at a time, saves its sequence number       *)
(* before sending it, and retries the same envelope until the server has   *)
(* accepted it.  Requests are lost, delayed and answered too late; the     *)
(* agent and the server crash and restart.  The server processes jobs in   *)
(* several workers, one at a time per feeder.                              *)
(*                                                                         *)
(* Snapshots are numbered in the order the agent's engine publishes them;  *)
(* the number stands for the payload and its hash.  The feeder stays       *)
(* enabled and keeps its key; both change in FeederAdmin.                  *)
(***************************************************************************)
EXTENDS Naturals, Sequences

CONSTANTS
  Workers,      \* ingress workers
  Requests,     \* names for HTTP requests; bounds those in flight at once
  Buffer,       \* capacity of the agent's latest-value channel
  JobCapacity,  \* capacity of the ingress queue
  Skew,         \* DefaultMaxClockSkew
  MaxClock,     \* bound on the time
  MaxFrames,    \* bound on the snapshots the engine publishes
  MaxFaults,    \* bound on crashes, failed writes and late answers
  None          \* stands for no envelope, request, worker or response

ASSUME CapacityAssumption ==
  /\ Buffer \in Nat \ {0}
  /\ JobCapacity \in Nat \ {0}
  /\ Skew \in Nat
ASSUME BoundAssumption ==
  /\ MaxClock \in Nat
  /\ MaxFrames \in Nat
  /\ MaxFaults \in Nat
ASSUME NoneAssumption == None \notin Workers \cup Requests \cup {"ok", "error"}

VARIABLES
  clock,      \* the time; agent and server agree on it
  faults,     \* faults so far
  frame,      \* snapshots the agent's engine has published
  up,         \* the agent process runs
  latest,     \* the agent's latest-value channel
  snapshot,   \* the runner's snapshot to deliver, 0 for none
  sequence,   \* credential.Sequence in memory
  saved,      \* credential.Sequence on disk
  pending,    \* the client's signed envelope, or None
  waiting,    \* the request the client waits for, or None
  response,   \* its outcome: None, "ok" or "error"
  network,    \* requests on their way to the server
  envelope,   \* the envelope each request carries, or None
  jobs,       \* the ingress queue
  worker,     \* where each worker is, and its request
  lock,       \* the worker that holds the feeder's lock, or None
  row,        \* last_sequence and last_payload_hash of the feeder
  published,  \* the snapshot in the feeder's registry entry, 0 for none
  signed,     \* history: envelopes signed
  shown,      \* history: snapshots published to the registry
  confirmed   \* history: snapshots whose delivery the agent saw accepted

agent == <<up, latest, snapshot, sequence, saved, pending>>
call == <<waiting, response>>
server == <<jobs, worker, lock, row, published>>
history == <<signed, shown, confirmed>>
vars == <<clock, faults, frame, agent, call, network, envelope, server, history>>

Envelopes == [sequence : Nat \ {0}, payload : 1..MaxFrames, sentAt : 0..MaxClock]

Init ==
  /\ clock = 0
  /\ faults = 0
  /\ frame = 0
  /\ up = TRUE
  /\ latest = <<>>
  /\ snapshot = 0
  /\ sequence = 0
  /\ saved = 0
  /\ pending = None
  /\ waiting = None
  /\ response = None
  /\ network = {}
  /\ envelope = [r \in Requests |-> None]
  /\ jobs = <<>>
  /\ worker = [w \in Workers |-> [pc |-> "idle", request |-> None]]
  /\ lock = None
  /\ row = [sequence |-> 0, payload |-> 0]
  /\ published = 0
  /\ signed = {}
  /\ shown = {}
  /\ confirmed = {}

Tick ==
  /\ clock < MaxClock
  /\ clock' = clock + 1
  /\ UNCHANGED <<faults, frame, agent, call, network, envelope, server, history>>

Fault == faults < MaxFaults /\ faults' = faults + 1

-----------------------------------------------------------------------------
(* The agent.                                                              *)

\* The engine publishes; a full channel loses its oldest snapshot.
EnginePublish ==
  /\ up
  /\ frame < MaxFrames
  /\ frame' = frame + 1
  /\ latest' = Append(IF Len(latest) < Buffer THEN latest ELSE Tail(latest), frame + 1)
  /\ UNCHANGED <<clock, faults, up, snapshot, sequence, saved, pending, call,
                 network, envelope, server, history>>

\* The sender receives a snapshot and drains the channel to the newest.
Take ==
  /\ up
  /\ snapshot = 0
  /\ latest # <<>>
  /\ snapshot' = latest[Len(latest)]
  /\ latest' = <<>>
  /\ UNCHANGED <<clock, faults, frame, up, sequence, saved, pending, call,
                 network, envelope, server, history>>

\* Mutant of Sign: the sequence is saved only with the delivery.
SignUnsaved ==
  /\ up
  /\ snapshot # 0
  /\ pending = None
  /\ sequence' = sequence + 1
  /\ pending' = [sequence |-> sequence + 1, payload |-> snapshot, sentAt |-> clock]
  /\ signed' = signed \cup {pending'}
  /\ UNCHANGED <<clock, faults, frame, up, latest, snapshot, saved, call, network,
                 envelope, server, shown, confirmed>>

\* Send without a pending envelope signs one and saves its sequence first.
Sign ==
  /\ up
  /\ snapshot # 0
  /\ pending = None
  /\ sequence' = sequence + 1
  /\ saved' = sequence + 1
  /\ pending' = [sequence |-> sequence + 1, payload |-> snapshot, sentAt |-> clock]
  /\ signed' = signed \cup {pending'}
  /\ UNCHANGED <<clock, faults, frame, up, latest, snapshot, call, network,
                 envelope, server, shown, confirmed>>

\* saveCredentials fails: the sequence number is spent, the envelope dropped.
SaveFails ==
  /\ up
  /\ snapshot # 0
  /\ pending = None
  /\ Fault
  /\ sequence' = sequence + 1
  /\ UNCHANGED <<clock, frame, up, latest, snapshot, saved, pending, call,
                 network, envelope, server, history>>

Post(r) ==
  /\ up
  /\ pending # None
  /\ waiting = None
  /\ envelope[r] = None
  /\ waiting' = r
  /\ response' = None
  /\ network' = network \cup {r}
  /\ envelope' = [envelope EXCEPT ![r] = pending]
  /\ UNCHANGED <<clock, faults, frame, agent, server, history>>

\* A response with "accepted" ends the delivery; any other is retried.
Receive ==
  /\ up
  /\ response # None
  /\ waiting' = None
  /\ response' = None
  /\ IF response = "ok"
       THEN /\ pending' = None
            /\ snapshot' = 0
            /\ confirmed' = confirmed \cup {pending.payload}
       ELSE UNCHANGED <<pending, snapshot, confirmed>>
  /\ UNCHANGED <<clock, faults, frame, up, latest, sequence, saved, network,
                 envelope, server, signed, shown>>

\* The request was lost.
RequestFails ==
  /\ up
  /\ waiting # None
  /\ response = None
  /\ envelope[waiting] = None
  /\ waiting' = None
  /\ UNCHANGED <<clock, faults, frame, agent, response, network, envelope,
                 server, history>>

\* The request or its answer is still on its way when the client gives up.
ClientTimeout ==
  /\ up
  /\ waiting # None
  /\ Fault
  /\ waiting' = None
  /\ response' = None
  /\ UNCHANGED <<clock, frame, agent, network, envelope, server, history>>

AgentCrash ==
  /\ up
  /\ Fault
  /\ up' = FALSE
  /\ latest' = <<>>
  /\ snapshot' = 0
  /\ pending' = None
  /\ waiting' = None
  /\ response' = None
  /\ UNCHANGED <<clock, frame, sequence, saved, network, envelope, server, history>>

\* Run loads the credentials that were saved.
AgentRestart ==
  /\ ~up
  /\ up' = TRUE
  /\ sequence' = saved
  /\ UNCHANGED <<clock, faults, frame, latest, snapshot, saved, pending, call,
                 network, envelope, server, history>>

-----------------------------------------------------------------------------
(* The ingress.                                                            *)

\* The outcome of request r reaches a client that still waits for it.
Respond(r, outcome) ==
  /\ response' = IF waiting = r THEN outcome ELSE response
  /\ envelope' = [envelope EXCEPT ![r] = None]
  /\ UNCHANGED waiting

Lose(r) ==
  /\ r \in network
  /\ network' = network \ {r}
  /\ envelope' = [envelope EXCEPT ![r] = None]
  /\ UNCHANGED <<clock, faults, frame, agent, call, server, history>>

\* handleSnapshot enqueues a job, or answers 429.
Arrive(r) ==
  /\ r \in network
  /\ network' = network \ {r}
  /\ IF Len(jobs) < JobCapacity
       THEN /\ jobs' = Append(jobs, r)
            /\ UNCHANGED <<call, envelope>>
       ELSE /\ Respond(r, "error")
            /\ UNCHANGED jobs
  /\ UNCHANGED <<clock, faults, frame, agent, worker, lock, row, published, history>>

WorkerTake(w) ==
  /\ worker[w].pc = "idle"
  /\ jobs # <<>>
  /\ worker' = [worker EXCEPT ![w] = [pc |-> "lock", request |-> Head(jobs)]]
  /\ jobs' = Tail(jobs)
  /\ UNCHANGED <<clock, faults, frame, agent, call, network, envelope, lock,
                 row, published, history>>

\* The worker answers its request, unlocks and returns to the queue.
Finish(w, outcome) ==
  /\ Respond(worker[w].request, outcome)
  /\ worker' = [worker EXCEPT ![w] = [pc |-> "idle", request |-> None]]
  /\ lock' = None

InSkew(e) == e.sentAt + Skew >= clock /\ e.sentAt <= clock + Skew

\* Mutant of WorkerVerify: the feeder is not locked.
WorkerVerifyUnlocked(w) ==
  /\ worker[w].pc = "lock"
  /\ IF InSkew(envelope[worker[w].request])
       THEN /\ worker' = [worker EXCEPT ![w].pc = "accept"]
            /\ UNCHANGED <<call, envelope, lock>>
       ELSE Finish(w, "error")
  /\ UNCHANGED <<clock, faults, frame, agent, network, jobs, row, published, history>>

\* Lock the feeder, load its row and verify the envelope.
WorkerVerify(w) ==
  /\ worker[w].pc = "lock"
  /\ lock = None
  /\ IF InSkew(envelope[worker[w].request])
       THEN /\ lock' = w
            /\ worker' = [worker EXCEPT ![w].pc = "accept"]
            /\ UNCHANGED <<call, envelope>>
       ELSE Finish(w, "error")
  /\ UNCHANGED <<clock, faults, frame, agent, network, jobs, row, published, history>>

\* Mutant of WorkerAccept: sequences must follow without a gap.
WorkerAcceptConsecutive(w) ==
  LET e == envelope[worker[w].request]
      Duplicate == e.sequence = row.sequence /\ e.payload = row.payload
  IN /\ worker[w].pc = "accept"
     /\ IF e.sequence = row.sequence + 1 \/ Duplicate
          THEN /\ row' = [sequence |-> e.sequence, payload |-> e.payload]
               /\ worker' = [worker EXCEPT ![w].pc = "publish"]
               /\ UNCHANGED <<call, envelope, lock>>
          ELSE /\ Finish(w, "error")
               /\ UNCHANGED row
     /\ UNCHANGED <<clock, faults, frame, agent, network, jobs, published, history>>

\* AcceptFeederSequence, one transaction.
WorkerAccept(w) ==
  LET e == envelope[worker[w].request]
      Duplicate == e.sequence = row.sequence /\ e.payload = row.payload
  IN /\ worker[w].pc = "accept"
     /\ IF e.sequence > row.sequence \/ Duplicate
          THEN /\ row' = [sequence |-> e.sequence, payload |-> e.payload]
               /\ worker' = [worker EXCEPT ![w].pc = "publish"]
               /\ UNCHANGED <<call, envelope, lock>>
          ELSE /\ Finish(w, "error")
               /\ UNCHANGED row
     /\ UNCHANGED <<clock, faults, frame, agent, network, jobs, published, history>>

\* The transaction fails; the client gets 500.
AcceptFails(w) ==
  /\ worker[w].pc = "accept"
  /\ Fault
  /\ Finish(w, "error")
  /\ UNCHANGED <<clock, frame, agent, network, jobs, row, published, history>>

\* Publish, for a duplicate as well: the first acceptance may not have got
\* this far.
WorkerPublish(w) ==
  LET e == envelope[worker[w].request]
  IN /\ worker[w].pc = "publish"
     /\ published' = e.payload
     /\ shown' = shown \cup {e.payload}
     /\ Finish(w, "ok")
     /\ UNCHANGED <<clock, faults, frame, agent, network, jobs, row, signed, confirmed>>

\* The server process dies and starts again with the row it committed.
ServerRestart ==
  /\ Fault
  /\ jobs' = <<>>
  /\ worker' = [w \in Workers |-> [pc |-> "idle", request |-> None]]
  /\ lock' = None
  /\ published' = 0
  /\ envelope' = [r \in Requests |-> IF r \in network THEN envelope[r] ELSE None]
  /\ UNCHANGED <<clock, frame, agent, call, network, row, history>>

-----------------------------------------------------------------------------
AgentStep == Take \/ Sign \/ (\E r \in Requests : Post(r)) \/ Receive \/ RequestFails

WorkerStep(w) ==
  WorkerTake(w) \/ WorkerVerify(w) \/ WorkerAccept(w) \/ WorkerPublish(w)

Next ==
  \/ Tick
  \/ EnginePublish
  \/ AgentStep
  \/ SaveFails
  \/ ClientTimeout
  \/ AgentCrash
  \/ AgentRestart
  \/ \E r \in Requests : Lose(r) \/ Arrive(r)
  \/ \E w \in Workers : WorkerStep(w) \/ AcceptFails(w)
  \/ ServerRestart

\* The sender loop retries for ever and the supervisor restarts the agent.
\* The network does not lose every request; timeouts of answers on their way
\* are among the bounded faults.
Fairness ==
  /\ WF_vars(AgentStep)
  /\ WF_vars(AgentRestart)
  /\ \A r \in Requests : WF_vars(Lose(r) \/ Arrive(r)) /\ SF_vars(Arrive(r))
  /\ \A w \in Workers : WF_vars(WorkerStep(w)) /\ SF_vars(WorkerVerify(w))

Spec == Init /\ [][Next]_vars
FairSpec == Spec /\ Fairness

-----------------------------------------------------------------------------
(* Properties.                                                             *)

\* Type correctness; a request carries an envelope while it is in flight.
TypeOK ==
  /\ clock \in 0..MaxClock
  /\ faults \in 0..MaxFaults
  /\ frame \in 0..MaxFrames
  /\ up \in BOOLEAN
  /\ latest \in Seq(1..MaxFrames) /\ Len(latest) <= Buffer
  /\ snapshot \in 0..MaxFrames
  /\ sequence \in Nat
  /\ saved \in Nat
  /\ pending \in Envelopes \cup {None}
  /\ waiting \in Requests \cup {None}
  /\ response \in {None, "ok", "error"}
  /\ network \subseteq Requests
  /\ envelope \in [Requests -> Envelopes \cup {None}]
  /\ jobs \in Seq(Requests) /\ Len(jobs) <= JobCapacity
  /\ worker \in [Workers -> [pc : {"idle", "lock", "accept", "publish"},
                             request : Requests \cup {None}]]
  /\ lock \in Workers \cup {None}
  /\ row \in [sequence : Nat, payload : 0..MaxFrames]
  /\ published \in 0..MaxFrames
  /\ signed \subseteq Envelopes
  /\ shown \subseteq 1..MaxFrames
  /\ confirmed \subseteq 1..MaxFrames
  /\ \A r \in network : envelope[r] # None
  /\ \A w \in Workers : worker[w].pc # "idle" =>
       worker[w].request # None /\ envelope[worker[w].request] # None

\* No sequence number is ever signed for two payloads, whatever crashes and
\* failed writes come between: the server could only refuse the second one,
\* and the agent would retry it for ever.
SequenceNamesOnePayload ==
  \A e, d \in signed : e.sequence = d.sequence => e.payload = d.payload

\* A snapshot the agent counts as delivered has been published to the
\* registry, even if the server died between accepting and publishing it.
ConfirmedWasShown == confirmed \subseteq shown

\* The registry never goes back to an older snapshot of the feeder, although
\* late requests, duplicates and several workers compete.
RegistryNeverRegresses ==
  [][published' >= published \/ published' = 0]_published

\* A signed delivery ends: it is accepted, unless the agent crashes.
SignedDeliveryCompletes == pending # None ~> pending = None

\* The same as long as the envelope does not grow too old: lost requests, late
\* answers, a full queue, failed writes and restarts only delay it.
FreshDeliveryCompletes == pending # None ~> (pending = None \/ ~InSkew(pending))

\* Across crashes, failed writes, duplicates and late answers a sequence names
\* one payload, and what the agent counts as delivered has been published.
DeliverySound == TypeOK /\ SequenceNamesOnePayload /\ ConfirmedWasShown

=============================================================================
