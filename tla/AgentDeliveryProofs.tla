------------------------- MODULE AgentDeliveryProofs -------------------------
(***************************************************************************)
(* Proofs about AgentDelivery, for any number of workers and requests, any *)
(* capacities and any number of faults: DeliverySound and                  *)
(* RegistryNeverRegresses.                                                 *)
(*                                                                         *)
(* The argument: numbers that were signed are covered by the number saved, *)
(* so a restart does not sign one again (SequenceOK); later numbers carry  *)
(* later snapshots (OrderOK); a request is in one place and carries a      *)
(* signed envelope until it is answered (FlightOK); the answer that the    *)
(* client waits for is the one to its pending envelope (CallOK); and the   *)
(* worker that has accepted an envelope holds the lock, so the row still   *)
(* names that envelope when it publishes (LockOK).                         *)
(***************************************************************************)
EXTENDS AgentDelivery, TLAPS

USE CapacityAssumption, BoundAssumption, NoneAssumption
    DEF CapacityAssumption, BoundAssumption, NoneAssumption

\* The number on disk covers every number signed; memory is not behind it.
SequenceOK ==
  /\ saved <= sequence
  /\ \A e \in signed : e.sequence <= saved

\* Nothing that is still to be signed is older than what was signed.
OrderOK ==
  /\ \A e, d \in signed : e.sequence > d.sequence => e.payload >= d.payload
  /\ \A e \in signed : e.payload <= frame
  /\ snapshot <= frame
  /\ \A i \in DOMAIN latest : latest[i] <= frame /\ latest[i] >= snapshot
  /\ \A e \in signed : /\ snapshot # 0 => e.payload <= snapshot
                       /\ \A i \in DOMAIN latest : e.payload <= latest[i]

Busy(w) == worker[w].pc # "idle"

\* A request is in the network, in the queue or with one worker, and never in
\* two of these places or twice in one.
FlightOK ==
  /\ \A i \in DOMAIN jobs : jobs[i] \notin network /\ envelope[jobs[i]] # None
  /\ \A i, j \in DOMAIN jobs : jobs[i] = jobs[j] => i = j
  /\ \A w \in Workers : Busy(w) =>
       /\ worker[w].request \notin network
       /\ \A i \in DOMAIN jobs : jobs[i] # worker[w].request
  /\ \A v, w \in Workers : Busy(v) /\ Busy(w) /\ worker[v].request = worker[w].request
       => v = w

\* What is pending or under way was signed.
SignedOK ==
  /\ pending # None => pending \in signed
  /\ \A r \in Requests : envelope[r] # None => envelope[r] \in signed

\* The request the client waits for carries its pending envelope.
CallOK ==
  /\ waiting # None => pending # None /\ envelope[waiting] \in {None, pending}
  /\ response # None => waiting # None
  /\ response = "ok" => pending.payload \in shown

\* The row names an envelope that was signed, at least as late as what the
\* registry shows; the worker that has accepted holds the lock.
LockOK ==
  /\ \/ row.sequence = 0 /\ row.payload = 0
     \/ \E e \in signed : row.sequence = e.sequence /\ row.payload = e.payload
  /\ published <= row.payload
  /\ \A w \in Workers : worker[w].pc \in {"accept", "publish"} => lock = w
  /\ \A w \in Workers : worker[w].pc = "publish" =>
       row.payload = envelope[worker[w].request].payload

IInv ==
  /\ TypeOK
  /\ FlightOK
  /\ SequenceOK
  /\ OrderOK
  /\ SignedOK
  /\ CallOK
  /\ LockOK
  /\ SequenceNamesOnePayload
  /\ ConfirmedWasShown

-----------------------------------------------------------------------------
LEMMA InitInv == Init => IInv
<1> SUFFICES ASSUME Init PROVE IInv
  OBVIOUS
<1>1. TypeOK
  BY DEF Init, TypeOK
<1>2. FlightOK /\ SequenceOK /\ OrderOK /\ SignedOK /\ CallOK
  BY DEF Init, FlightOK, Busy, SequenceOK, OrderOK, SignedOK, CallOK
<1>3. LockOK
  BY DEF Init, LockOK
<1> QED
  BY <1>1, <1>2, <1>3 DEF Init, IInv, SequenceNamesOnePayload, ConfirmedWasShown

\* Next by its actions.
LEMMA NextCases ==
  ASSUME [Next]_vars
  PROVE  \/ Tick \/ EnginePublish \/ Take \/ Sign \/ SaveFails
         \/ \E r \in Requests : Post(r)
         \/ Receive \/ RequestFails \/ ClientTimeout \/ AgentCrash \/ AgentRestart
         \/ \E r \in Requests : Lose(r)
         \/ \E r \in Requests : Arrive(r)
         \/ \E w \in Workers : WorkerTake(w)
         \/ \E w \in Workers : WorkerVerify(w)
         \/ \E w \in Workers : WorkerAccept(w)
         \/ \E w \in Workers : WorkerPublish(w)
         \/ \E w \in Workers : AcceptFails(w)
         \/ ServerRestart
         \/ UNCHANGED vars
  BY DEF Next, AgentStep, WorkerStep

WorkerStates ==
  [pc : {"idle", "lock", "accept", "publish"}, request : Requests \cup {None}]

\* The worker's request is over and in no place any more.
LEMMA FinishEffect ==
  ASSUME IInv, NEW w \in Workers, NEW outcome \in {"ok", "error"},
         Busy(w), Finish(w, outcome), UNCHANGED <<network, jobs>>
  PROVE  /\ worker[w].request \in Requests
         /\ envelope[worker[w].request] \in Envelopes
         /\ worker' \in [Workers -> WorkerStates]
         /\ worker'[w].pc = "idle"
         /\ \A v \in Workers \ {w} : worker'[v] = worker[v]
         /\ envelope' = [envelope EXCEPT ![worker[w].request] = None]
         /\ envelope' \in [Requests -> Envelopes \cup {None}]
         /\ \A r \in network : envelope'[r] # None
         /\ \A v \in Workers : Busy(v)' =>
              worker'[v].request # None /\ envelope'[worker'[v].request] # None
         /\ FlightOK'
         /\ waiting' = waiting
         /\ response' \in {None, "ok", "error"}
         /\ response' # response => waiting = worker[w].request /\ response' = outcome
         /\ lock' = None
<1> USE DEF Busy
<1>1. /\ worker[w].request \in Requests
      /\ envelope[worker[w].request] \in Envelopes
      /\ envelope' = [envelope EXCEPT ![worker[w].request] = None]
      /\ envelope' \in [Requests -> Envelopes \cup {None}]
  BY DEF IInv, TypeOK, Finish, Respond
<1>2. /\ worker' \in [Workers -> WorkerStates]
      /\ worker'[w].pc = "idle"
      /\ \A v \in Workers \ {w} : worker'[v] = worker[v]
  BY DEF IInv, TypeOK, Finish, WorkerStates
<1>3. \A r \in network : envelope'[r] # None
  BY <1>1 DEF IInv, TypeOK, FlightOK
<1>4. \A v \in Workers : Busy(v)' =>
              worker'[v].request # None /\ envelope'[worker'[v].request] # None
  BY <1>1, <1>2 DEF IInv, TypeOK, FlightOK
<1>5. FlightOK'
  <2>1. \A i \in DOMAIN jobs : jobs[i] \in Requests
    BY DEF IInv, TypeOK
  <2> QED
    BY <1>1, <1>2, <2>1 DEF IInv, FlightOK
<1>6. /\ waiting' = waiting
      /\ response' \in {None, "ok", "error"}
      /\ response' # response => waiting = worker[w].request /\ response' = outcome
      /\ lock' = None
  BY DEF IInv, TypeOK, Finish, Respond
<1> QED
  BY <1>1, <1>2, <1>3, <1>4, <1>5, <1>6

LEMMA TypeStep == IInv /\ [Next]_vars => TypeOK' /\ FlightOK'
<1> SUFFICES ASSUME IInv, [Next]_vars PROVE TypeOK' /\ FlightOK'
  OBVIOUS
<1> USE DEF agent, call, server, history, Fault, Busy
<1>1. ASSUME UNCHANGED <<jobs, worker, network, envelope>> PROVE FlightOK'
  BY <1>1 DEF IInv, FlightOK
<1>2. CASE Tick
  BY <1>1, <1>2 DEF Tick, IInv, TypeOK
<1>3. CASE EnginePublish
  <2>1. /\ latest' \in Seq(1..MaxFrames) /\ Len(latest') <= Buffer
    <3> DEFINE kept == IF Len(latest) < Buffer THEN latest ELSE Tail(latest)
    <3>1. latest \in Seq(1..MaxFrames) /\ Len(latest) <= Buffer /\ Len(latest) \in Nat
      BY DEF IInv, TypeOK
    <3>2. kept \in Seq(1..MaxFrames) /\ Len(kept) < Buffer
      <4>1. CASE Len(latest) < Buffer
        BY <3>1, <4>1
      <4>2. CASE ~(Len(latest) < Buffer)
        <5>1. latest # <<>> /\ Len(latest) = Buffer
          BY <3>1, <4>2
        <5>2. Tail(latest) \in Seq(1..MaxFrames) /\ Len(Tail(latest)) = Len(latest) - 1
          BY <3>1, <5>1
        <5> QED
          BY <4>2, <5>1, <5>2
      <4> QED
        BY <4>1, <4>2
    <3>3. frame + 1 \in 1..MaxFrames /\ latest' = Append(kept, frame + 1)
      BY <1>3 DEF EnginePublish, IInv, TypeOK
    <3> HIDE DEF kept
    <3> QED
      BY <3>2, <3>3
  <2> QED
    BY <1>1, <1>3, <2>1 DEF EnginePublish, IInv, TypeOK
<1>4. CASE Take
  BY <1>1, <1>4 DEF Take, IInv, TypeOK
<1>5. CASE Sign
  <2>1. pending' \in Envelopes
    BY <1>5 DEF Sign, IInv, TypeOK, Envelopes
  <2> QED
    BY <1>1, <1>5, <2>1 DEF Sign, IInv, TypeOK
<1>6. CASE SaveFails
  BY <1>1, <1>6 DEF SaveFails, IInv, TypeOK
<1>7. ASSUME NEW r \in Requests, Post(r) PROVE TypeOK' /\ FlightOK'
  <2>1. r \notin network /\ \A i \in DOMAIN jobs : jobs[i] # r /\ jobs[i] \in Requests
    BY <1>7 DEF Post, IInv, TypeOK, FlightOK
  <2>2. \A w \in Workers : Busy(w) => worker[w].request # r /\ worker[w].request \in Requests
    BY <1>7 DEF Post, IInv, TypeOK
  <2>3. pending \in Envelopes /\ envelope' = [envelope EXCEPT ![r] = pending]
    BY <1>7 DEF Post, IInv, TypeOK
  <2>4. TypeOK'
    BY <1>7, <2>1, <2>2, <2>3 DEF Post, IInv, TypeOK
  <2>5. FlightOK'
    BY <1>7, <2>1, <2>2, <2>3 DEF Post, IInv, TypeOK, FlightOK
  <2> QED
    BY <2>4, <2>5
<1>8. CASE Receive
  <2>1. response = "ok" => pending \in Envelopes
    BY DEF IInv, TypeOK, CallOK
  <2>2. confirmed' \subseteq 1..MaxFrames
    BY <1>8, <2>1 DEF Receive, IInv, TypeOK, Envelopes
  <2> QED
    BY <1>1, <1>8, <2>2 DEF Receive, IInv, TypeOK
<1>9. CASE RequestFails
  BY <1>1, <1>9 DEF RequestFails, IInv, TypeOK
<1>10. CASE ClientTimeout
  BY <1>1, <1>10 DEF ClientTimeout, IInv, TypeOK
<1>11. CASE AgentCrash
  <2>1. latest' \in Seq(1..MaxFrames) /\ Len(latest') <= Buffer
    BY <1>11 DEF AgentCrash
  <2> QED
    <3>1. faults' \in 0..MaxFaults
      BY <1>11 DEF AgentCrash, IInv, TypeOK
    <3>2. UNCHANGED <<clock, frame, sequence, saved, network, envelope, server, history>>
      BY <1>11 DEF AgentCrash
    <3>3. /\ up' = FALSE /\ snapshot' = 0 /\ pending' = None /\ waiting' = None
          /\ response' = None
      BY <1>11 DEF AgentCrash
    <3>4. /\ up' \in BOOLEAN /\ snapshot' \in 0..MaxFrames
          /\ pending' \in Envelopes \cup {None}
          /\ waiting' \in Requests \cup {None} /\ response' \in {None, "ok", "error"}
      <4>1. up' \in BOOLEAN /\ pending' \in Envelopes \cup {None}
        BY <3>3
      <4>2. snapshot' \in 0..MaxFrames
        BY <3>3
      <4>3. waiting' \in Requests \cup {None} /\ response' \in {None, "ok", "error"}
        BY <3>3
      <4> QED
        BY <4>1, <4>2, <4>3
    <3>5. TypeOK'
      BY <2>1, <3>1, <3>2, <3>4 DEF IInv, TypeOK
    <3> QED
      BY <1>1, <3>2, <3>5
<1>12. CASE AgentRestart
  BY <1>1, <1>12 DEF AgentRestart, IInv, TypeOK
<1>13. ASSUME NEW r \in Requests, Lose(r) PROVE TypeOK' /\ FlightOK'
  <2>1. \A i \in DOMAIN jobs : jobs[i] # r /\ jobs[i] \in Requests
    BY <1>13 DEF Lose, IInv, TypeOK, FlightOK
  <2>2. \A w \in Workers : Busy(w) => worker[w].request # r /\ worker[w].request \in Requests
    BY <1>13 DEF Lose, IInv, TypeOK, FlightOK
  <2>3. TypeOK'
    BY <1>13, <2>2 DEF Lose, IInv, TypeOK
  <2>4. FlightOK'
    BY <1>13, <2>1, <2>2 DEF Lose, IInv, TypeOK, FlightOK
  <2> QED
    BY <2>3, <2>4
<1>14. ASSUME NEW r \in Requests, Arrive(r) PROVE TypeOK' /\ FlightOK'
  <2>1. \A i \in DOMAIN jobs : jobs[i] # r /\ jobs[i] \in Requests
    BY <1>14 DEF Arrive, IInv, TypeOK, FlightOK
  <2>2. \A w \in Workers : Busy(w) => worker[w].request # r /\ worker[w].request \in Requests
    BY <1>14 DEF Arrive, IInv, TypeOK, FlightOK
  <2>3. CASE Len(jobs) < JobCapacity
    <3>1. /\ jobs' = Append(jobs, r) /\ jobs' \in Seq(Requests) /\ Len(jobs') <= JobCapacity
          /\ UNCHANGED <<call, envelope, worker>>
      <4>1. jobs \in Seq(Requests) /\ Len(jobs) \in Nat
        BY DEF IInv, TypeOK
      <4>2. jobs' = Append(jobs, r) /\ UNCHANGED <<call, envelope, worker>>
        BY <1>14, <2>3 DEF Arrive
      <4> QED
        BY <2>3, <4>1, <4>2
    <3>2. TypeOK'
      BY <1>14, <3>1 DEF Arrive, IInv, TypeOK
    <3>3. FlightOK'
      <4>1. /\ DOMAIN jobs' = 1..(Len(jobs) + 1) /\ DOMAIN jobs = 1..Len(jobs)
            /\ jobs'[Len(jobs) + 1] = r
            /\ \A i \in 1..Len(jobs) : jobs'[i] = jobs[i]
        BY <3>1 DEF IInv, TypeOK
      <4>2. envelope[r] # None /\ r \notin network'
        BY <1>14 DEF Arrive, IInv, TypeOK
      <4>3. Len(jobs) \in Nat
        BY DEF IInv, TypeOK
      <4> QED
        <5>1. \A i \in DOMAIN jobs' : jobs'[i] \notin network' /\ envelope[jobs'[i]] # None
          BY <1>14, <4>1, <4>2, <4>3 DEF Arrive, IInv, FlightOK
        <5>2. \A i, j \in DOMAIN jobs' : jobs'[i] = jobs'[j] => i = j
          BY <2>1, <4>1, <4>3 DEF IInv, FlightOK
        <5>3. \A w \in Workers : Busy(w) =>
                /\ worker[w].request \notin network'
                /\ \A i \in DOMAIN jobs' : jobs'[i] # worker[w].request
          BY <1>14, <2>2, <4>1, <4>3 DEF Arrive, IInv, FlightOK
        <5> QED
          BY <3>1, <5>1, <5>2, <5>3 DEF IInv, FlightOK
    <3> QED
      BY <3>2, <3>3
  <2>4. CASE ~(Len(jobs) < JobCapacity)
    <3>1. /\ UNCHANGED <<jobs, worker, waiting>>
          /\ envelope' = [envelope EXCEPT ![r] = None]
          /\ response' \in {None, "ok", "error"}
      BY <1>14, <2>4 DEF Arrive, Respond, IInv, TypeOK
    <3>2. TypeOK'
      BY <1>14, <2>2, <3>1 DEF Arrive, IInv, TypeOK
    <3>3. FlightOK'
      BY <1>14, <2>1, <2>2, <3>1 DEF Arrive, IInv, TypeOK, FlightOK
    <3> QED
      BY <3>2, <3>3
  <2> QED
    BY <2>3, <2>4
<1>15. ASSUME NEW w \in Workers, WorkerTake(w) PROVE TypeOK' /\ FlightOK'
  <2>1. /\ jobs' = Tail(jobs) /\ jobs' \in Seq(Requests) /\ Len(jobs') <= JobCapacity
        /\ Head(jobs) = jobs[1] /\ 1 \in DOMAIN jobs /\ jobs[1] \in Requests
        /\ \A i \in DOMAIN jobs' : i + 1 \in DOMAIN jobs /\ jobs'[i] = jobs[i + 1] /\ i # 0
    BY <1>15 DEF WorkerTake, IInv, TypeOK
  <2>2. /\ worker'[w].pc = "lock" /\ worker'[w].request = jobs[1]
        /\ \A v \in Workers \ {w} : worker'[v] = worker[v]
        /\ worker' \in [Workers -> WorkerStates]
    BY <1>15, <2>1 DEF WorkerTake, IInv, TypeOK, WorkerStates
  <2>3. TypeOK'
    BY <1>15, <2>1, <2>2 DEF WorkerTake, IInv, TypeOK, FlightOK, WorkerStates
  <2>4. FlightOK'
    <3>1. \A i \in DOMAIN jobs' : jobs'[i] \notin network /\ envelope[jobs'[i]] # None
      BY <2>1 DEF IInv, FlightOK
    <3>2. \A i, j \in DOMAIN jobs' : jobs'[i] = jobs'[j] => i = j
      <4> SUFFICES ASSUME NEW i \in DOMAIN jobs', NEW j \in DOMAIN jobs', jobs'[i] = jobs'[j]
                   PROVE  i = j
        OBVIOUS
      <4>1. i \in Nat /\ j \in Nat
        BY <2>1
      <4>2. i + 1 = j + 1
        BY <2>1 DEF IInv, FlightOK
      <4> QED
        BY <4>1, <4>2
    <3>3. \A v \in Workers : Busy(v)' =>
            /\ worker'[v].request \notin network
            /\ \A i \in DOMAIN jobs' : jobs'[i] # worker'[v].request
      <4>1. \A i \in DOMAIN jobs' : jobs'[i] # jobs[1]
        <5> SUFFICES ASSUME NEW i \in DOMAIN jobs', jobs'[i] = jobs[1] PROVE FALSE
          OBVIOUS
        <5>1. i + 1 = 1 /\ i \in Nat /\ i # 0
          BY <2>1 DEF IInv, FlightOK
        <5> QED
          BY <5>1
      <4> QED
        BY <2>1, <2>2, <4>1 DEF IInv, FlightOK
    <3>4. \A u, v \in Workers :
            Busy(u)' /\ Busy(v)' /\ worker'[u].request = worker'[v].request => u = v
      BY <2>1, <2>2 DEF IInv, FlightOK
    <3> QED
      BY <1>15, <3>1, <3>2, <3>3, <3>4 DEF WorkerTake, FlightOK
  <2> QED
    BY <2>3, <2>4
<1>16. ASSUME NEW w \in Workers, NEW outcome \in {"ok", "error"}, Busy(w),
              Finish(w, outcome),
              clock' \in 0..MaxClock, faults' \in 0..MaxFaults, published' \in 0..MaxFrames,
              shown' \subseteq 1..MaxFrames,
              UNCHANGED <<frame, agent, network, jobs, row, signed, confirmed>>
       PROVE  TypeOK' /\ FlightOK'
  <2>1. FlightOK'
    BY <1>16, FinishEffect
  <2>2. /\ worker' \in [Workers -> WorkerStates]
        /\ envelope' \in [Requests -> Envelopes \cup {None}]
        /\ \A r \in network : envelope'[r] # None
        /\ \A v \in Workers : worker'[v].pc # "idle" =>
             worker'[v].request # None /\ envelope'[worker'[v].request] # None
        /\ waiting' = waiting /\ response' \in {None, "ok", "error"} /\ lock' = None
    BY <1>16, FinishEffect
  <2>3. TypeOK'
    BY <1>16, <2>2 DEF IInv, TypeOK, WorkerStates
  <2> QED
    BY <2>1, <2>3
<1>17. ASSUME NEW w \in Workers, NEW p \in {"accept", "publish"}, Busy(w),
              worker' = [worker EXCEPT ![w].pc = p],
              lock' \in Workers \cup {None}, row' \in [sequence : Nat, payload : 0..MaxFrames],
              UNCHANGED <<clock, faults, frame, agent, call, network, envelope, jobs,
                          published, history>>
       PROVE  TypeOK' /\ FlightOK'
  <2>1. /\ worker' \in [Workers -> WorkerStates]
        /\ \A v \in Workers : worker'[v].request = worker[v].request
        /\ \A v \in Workers : Busy(v)' => Busy(v)
    <3>1. worker \in [Workers -> WorkerStates]
      BY DEF IInv, TypeOK, WorkerStates
    <3>2. [worker[w] EXCEPT !.pc = p] \in WorkerStates
          /\ [worker[w] EXCEPT !.pc = p].request = worker[w].request
      BY <1>17, <3>1 DEF WorkerStates
    <3>3. PICK x \in WorkerStates : x = [worker[w] EXCEPT !.pc = p] /\ x.request = worker[w].request
      BY <3>2
    <3>4. worker' = [worker EXCEPT ![w] = x]
      BY <1>17, <3>3
    <3>5. worker' \in [Workers -> WorkerStates]
      BY <3>1, <3>4
    <3>6. \A v \in Workers : worker'[v] = IF v = w THEN x ELSE worker[v]
      BY <3>1, <3>4
    <3>7. \A v \in Workers : Busy(v)' => Busy(v)
      BY <1>17, <3>6 DEF Busy
    <3> QED
      BY <3>3, <3>5, <3>6, <3>7
  <2>2. TypeOK'
    BY <1>17, <2>1 DEF IInv, TypeOK, WorkerStates
  <2>3. FlightOK'
    BY <1>17, <2>1 DEF IInv, FlightOK
  <2> QED
    BY <2>2, <2>3
<1>18. ASSUME NEW w \in Workers, WorkerVerify(w) PROVE TypeOK' /\ FlightOK'
  BY <1>16, <1>17, <1>18 DEF WorkerVerify, IInv, TypeOK
<1>19. ASSUME NEW w \in Workers, WorkerAccept(w) PROVE TypeOK' /\ FlightOK'
  <2> DEFINE e == envelope[worker[w].request]
  <2>1. e \in Envelopes
    BY <1>19 DEF WorkerAccept, IInv, TypeOK
  <2>2. [sequence |-> e.sequence, payload |-> e.payload] \in [sequence : Nat, payload : 0..MaxFrames]
    BY <2>1 DEF Envelopes
  <2> QED
    BY <1>16, <1>17, <1>19, <2>2 DEF WorkerAccept, IInv, TypeOK
<1>20. ASSUME NEW w \in Workers, WorkerPublish(w) PROVE TypeOK' /\ FlightOK'
  <2> DEFINE e == envelope[worker[w].request]
  <2>1. e \in Envelopes
    BY <1>20 DEF WorkerPublish, IInv, TypeOK
  <2>2. e.payload \in 1..MaxFrames
    BY <2>1 DEF Envelopes
  <2> QED
    <3>1. published' \in 0..MaxFrames /\ shown' \subseteq 1..MaxFrames
      <4>1. published' = e.payload /\ shown' = shown \cup {e.payload}
        BY <1>20 DEF WorkerPublish
      <4>2. shown \subseteq 1..MaxFrames
        BY DEF IInv, TypeOK
      <4>3. published' \in 0..MaxFrames
        BY <2>2, <4>1
      <4>4. shown' \subseteq 1..MaxFrames
        BY <2>2, <4>1, <4>2
      <4> QED
        BY <4>3, <4>4
    <3>2. Busy(w) /\ Finish(w, "ok") /\ clock' \in 0..MaxClock /\ faults' \in 0..MaxFaults
      BY <1>20 DEF WorkerPublish, IInv, TypeOK
    <3> QED
      <4>1. UNCHANGED <<frame, agent, network, jobs, row, signed, confirmed>>
        BY <1>20 DEF WorkerPublish
      <4> QED
        BY <1>16, <3>1, <3>2, <4>1
<1>21. ASSUME NEW w \in Workers, AcceptFails(w) PROVE TypeOK' /\ FlightOK'
  <2>1. Busy(w) /\ Finish(w, "error") /\ clock' \in 0..MaxClock /\ faults' \in 0..MaxFaults
    BY <1>21 DEF AcceptFails, IInv, TypeOK
  <2>2. published' \in 0..MaxFrames /\ shown' \subseteq 1..MaxFrames
    BY <1>21 DEF AcceptFails, IInv, TypeOK
  <2> QED
    BY <1>16, <1>21, <2>1, <2>2 DEF AcceptFails
<1>22. CASE ServerRestart
  <2>1. /\ worker' \in [Workers -> WorkerStates]
        /\ \A v \in Workers : worker'[v].pc = "idle"
        /\ envelope' \in [Requests -> Envelopes \cup {None}]
        /\ \A r \in network : envelope'[r] # None
    BY <1>22 DEF ServerRestart, IInv, TypeOK, WorkerStates
  <2>2. TypeOK'
    BY <1>22, <2>1 DEF ServerRestart, IInv, TypeOK, WorkerStates
  <2>3. FlightOK'
    BY <1>22, <2>1 DEF ServerRestart, FlightOK
  <2> QED
    BY <2>2, <2>3
<1>23. CASE UNCHANGED vars
  BY <1>1, <1>23 DEF vars, IInv, TypeOK
<1> QED
  BY <1>2, <1>3, <1>4, <1>5, <1>6, <1>7, <1>8, <1>9, <1>10, <1>11, <1>12, <1>13, <1>14,
     <1>15, <1>18, <1>19, <1>20, <1>21, <1>22, <1>23, NextCases

-----------------------------------------------------------------------------
\* The agent's steps that do not sign leave its numbers and their order.
LEMMA AgentStepOK ==
  ASSUME IInv, TypeOK', [Next]_vars
  PROVE  SequenceOK' /\ OrderOK' /\ SequenceNamesOnePayload'
<1> USE DEF agent, call, server, history, Fault
<1>1. /\ sequence \in Nat /\ saved \in Nat /\ frame \in Nat /\ snapshot \in Nat
      /\ \A e \in signed : e.sequence \in Nat /\ e.payload \in Nat
      /\ latest \in Seq(1..MaxFrames) /\ \A i \in DOMAIN latest : latest[i] \in Nat
  <2>1. /\ sequence \in Nat /\ saved \in Nat /\ frame \in Nat /\ snapshot \in Nat
        /\ latest \in Seq(1..MaxFrames) /\ signed \subseteq Envelopes
    BY DEF IInv, TypeOK
  <2>2. \A i \in DOMAIN latest : latest[i] \in Nat
    BY <2>1
  <2>3. \A e \in Envelopes : e.sequence \in Nat /\ e.payload \in Nat
    BY DEF Envelopes
  <2> QED
    BY <2>1, <2>2, <2>3
<1>2. CASE UNCHANGED <<sequence, saved, signed, frame, snapshot, latest>>
  BY <1>2 DEF IInv, SequenceOK, OrderOK, SequenceNamesOnePayload
<1>3. CASE EnginePublish
  <2> DEFINE kept == IF Len(latest) < Buffer THEN latest ELSE Tail(latest)
  <2>1. \A i \in DOMAIN kept : \E j \in DOMAIN latest : kept[i] = latest[j]
    <3>1. CASE Len(latest) < Buffer
      BY <3>1
    <3>2. CASE ~(Len(latest) < Buffer)
      <4>1. latest # <<>> /\ Len(latest) \in Nat
        BY <1>1, <3>2
      <4>2. \A i \in DOMAIN Tail(latest) :
              i + 1 \in DOMAIN latest /\ Tail(latest)[i] = latest[i + 1]
        BY <1>1, <4>1
      <4> QED
        BY <3>2, <4>2
    <3> QED
      BY <3>1, <3>2
  <2>2. kept \in Seq(1..MaxFrames)
    <3>1. Len(latest) \in Nat /\ (~(Len(latest) < Buffer) => latest # <<>>)
      BY <1>1
    <3>2. latest # <<>> => Tail(latest) \in Seq(1..MaxFrames)
      BY <1>1
    <3> QED
      BY <1>1, <3>1, <3>2
  <2>3. latest' = Append(kept, frame + 1) /\ frame' = frame + 1
        /\ UNCHANGED <<sequence, saved, signed, snapshot>>
    BY <1>3 DEF EnginePublish
  <2> HIDE DEF kept
  <2>4. \A i \in DOMAIN latest' :
          latest'[i] = frame + 1 \/ \E j \in DOMAIN latest : latest'[i] = latest[j]
    BY <2>1, <2>2, <2>3
  <2>5. OrderOK'
    <3>1. \A i \in DOMAIN latest' :
            /\ latest'[i] <= frame + 1 /\ latest'[i] >= snapshot
            /\ \A e \in signed : e.payload <= latest'[i]
      BY <1>1, <2>4 DEF IInv, OrderOK
    <3>2. snapshot <= frame + 1 /\ \A e \in signed : e.payload <= frame + 1
      BY <1>1 DEF IInv, OrderOK
    <3> QED
      BY <2>3, <3>1, <3>2 DEF IInv, OrderOK
  <2> QED
    BY <2>3, <2>5 DEF IInv, SequenceOK, SequenceNamesOnePayload
<1>4. CASE Take
  <2>1. /\ latest' = <<>> /\ UNCHANGED <<sequence, saved, signed, frame>>
        /\ \E i \in DOMAIN latest : snapshot' = latest[i]
    <3>1. Len(latest) \in DOMAIN latest
      BY <1>1, <1>4 DEF Take
    <3> QED
      BY <1>4, <3>1 DEF Take
  <2>2. DOMAIN latest' = {}
    BY <2>1
  <2>3. OrderOK'
    BY <1>1, <2>1, <2>2 DEF IInv, OrderOK
  <2> QED
    BY <2>1, <2>3 DEF IInv, SequenceOK, SequenceNamesOnePayload
<1>5. CASE Sign
  <2>1. /\ snapshot # 0 /\ sequence' = sequence + 1 /\ saved' = sequence + 1
        /\ pending'.sequence = sequence + 1 /\ pending'.payload = snapshot
        /\ signed' = signed \cup {pending'}
        /\ UNCHANGED <<frame, snapshot, latest>>
    BY <1>5 DEF Sign
  <2>2. SequenceOK'
    BY <1>1, <2>1 DEF IInv, SequenceOK
  <2>3. \A e \in signed : e.sequence < pending'.sequence /\ e.payload <= pending'.payload
    BY <1>1, <2>1 DEF IInv, SequenceOK, OrderOK
  <2>4. OrderOK'
    BY <1>1, <2>1, <2>3 DEF IInv, OrderOK
  <2>5. SequenceNamesOnePayload'
    BY <1>1, <2>1, <2>3 DEF IInv, SequenceNamesOnePayload
  <2> QED
    BY <2>2, <2>4, <2>5
<1>6. CASE SaveFails
  BY <1>1, <1>6 DEF SaveFails, IInv, SequenceOK, OrderOK, SequenceNamesOnePayload
<1>7. CASE Receive \/ AgentCrash
  <2>1. /\ snapshot' \in {0, snapshot}
        /\ latest' = latest \/ latest' = <<>>
        /\ UNCHANGED <<sequence, saved, signed, frame>>
    BY <1>7 DEF Receive, AgentCrash
  <2>2. latest' = <<>> => DOMAIN latest' = {}
    OBVIOUS
  <2>3. OrderOK'
    BY <1>1, <2>1, <2>2 DEF IInv, OrderOK
  <2> QED
    BY <2>1, <2>3 DEF IInv, SequenceOK, SequenceNamesOnePayload
<1>8. CASE AgentRestart
  BY <1>1, <1>8 DEF AgentRestart, IInv, SequenceOK, OrderOK, SequenceNamesOnePayload
<1>9. UNCHANGED <<sequence, saved, signed, frame, snapshot, latest>>
      \/ EnginePublish \/ Take \/ Sign \/ SaveFails \/ Receive \/ AgentCrash \/ AgentRestart
  BY NextCases DEF Tick, Post, RequestFails, ClientTimeout, Lose, Arrive, WorkerTake,
    WorkerVerify, WorkerAccept, WorkerPublish, AcceptFails, ServerRestart, vars
<1> QED
  BY <1>2, <1>3, <1>4, <1>5, <1>6, <1>7, <1>8, <1>9

\* The answer to a request the client waits for is about its pending envelope.
LEMMA RespondOK ==
  ASSUME IInv, NEW r \in Requests, NEW outcome \in {"ok", "error"},
         envelope[r] # None, Respond(r, outcome), UNCHANGED <<pending, signed>>,
         shown \subseteq shown', outcome = "ok" => envelope[r].payload \in shown'
  PROVE  SignedOK' /\ CallOK'
<1>1. envelope' = [envelope EXCEPT ![r] = None] /\ UNCHANGED waiting
      /\ response' = IF waiting = r THEN outcome ELSE response
  BY DEF Respond
<1>2. SignedOK'
  BY <1>1 DEF IInv, TypeOK, SignedOK
<1>3. waiting = r => pending = envelope[r]
  BY DEF IInv, CallOK
<1>4. CallOK'
  BY <1>1, <1>3 DEF IInv, TypeOK, CallOK
<1> QED
  BY <1>2, <1>4

LEMMA CallStep == ASSUME IInv, TypeOK', [Next]_vars PROVE SignedOK' /\ CallOK' /\ ConfirmedWasShown'
<1> USE DEF agent, call, server, history, Fault
<1>1. CASE UNCHANGED <<pending, envelope, waiting, response, signed, shown, confirmed>>
  BY <1>1 DEF IInv, SignedOK, CallOK, ConfirmedWasShown
<1>2. CASE Sign
  <2>1. waiting = None /\ response = None
    BY <1>2 DEF Sign, IInv, CallOK
  <2> QED
    BY <1>2, <2>1 DEF Sign, IInv, SignedOK, CallOK, ConfirmedWasShown
<1>3. ASSUME NEW r \in Requests, Post(r) PROVE SignedOK' /\ CallOK' /\ ConfirmedWasShown'
  BY <1>3 DEF Post, IInv, TypeOK, SignedOK, CallOK, ConfirmedWasShown
<1>4. CASE Receive
  BY <1>4 DEF Receive, IInv, SignedOK, CallOK, ConfirmedWasShown
<1>5. CASE RequestFails \/ ClientTimeout \/ AgentCrash
  BY <1>5 DEF RequestFails, ClientTimeout, AgentCrash, IInv, SignedOK, CallOK,
    ConfirmedWasShown
<1>6. ASSUME NEW r \in Requests, Lose(r) PROVE SignedOK' /\ CallOK' /\ ConfirmedWasShown'
  BY <1>6 DEF Lose, IInv, TypeOK, SignedOK, CallOK, ConfirmedWasShown
<1>7. ASSUME NEW r \in Requests, Arrive(r) PROVE SignedOK' /\ CallOK' /\ ConfirmedWasShown'
  <2>1. CASE Len(jobs) < JobCapacity
    BY <1>1, <1>7, <2>1 DEF Arrive
  <2>2. CASE ~(Len(jobs) < JobCapacity)
    <3>1. envelope[r] # None
      BY <1>7 DEF Arrive, IInv, TypeOK
    <3>2. Respond(r, "error") /\ UNCHANGED <<pending, signed, shown, confirmed>>
      BY <1>7, <2>2 DEF Arrive
    <3>3. SignedOK' /\ CallOK'
      BY <3>1, <3>2, RespondOK
    <3> QED
      BY <3>2, <3>3 DEF IInv, ConfirmedWasShown
  <2> QED
    BY <2>1, <2>2
<1>8. ASSUME NEW w \in Workers, NEW outcome \in {"ok", "error"}, Busy(w), Finish(w, outcome),
             UNCHANGED <<pending, signed, confirmed>>,
             shown \subseteq shown',
             outcome = "ok" => envelope[worker[w].request].payload \in shown'
      PROVE  SignedOK' /\ CallOK' /\ ConfirmedWasShown'
  <2>1. worker[w].request \in Requests /\ envelope[worker[w].request] # None
    BY <1>8 DEF IInv, TypeOK, Busy
  <2>2. SignedOK' /\ CallOK'
    BY <1>8, <2>1, RespondOK DEF Finish
  <2> QED
    BY <1>8, <2>2 DEF IInv, ConfirmedWasShown
<1>9. ASSUME NEW w \in Workers, WorkerVerify(w) \/ WorkerAccept(w) \/ AcceptFails(w)
      PROVE  SignedOK' /\ CallOK' /\ ConfirmedWasShown'
  <2>1. Busy(w) /\ UNCHANGED <<pending, signed, shown, confirmed>>
    BY <1>9 DEF WorkerVerify, WorkerAccept, AcceptFails, Busy
  <2>2. Finish(w, "error") \/ UNCHANGED <<envelope, waiting, response>>
    BY <1>9 DEF WorkerVerify, WorkerAccept, AcceptFails
  <2> QED
    BY <1>1, <1>8, <2>1, <2>2
<1>10. ASSUME NEW w \in Workers, WorkerPublish(w)
       PROVE  SignedOK' /\ CallOK' /\ ConfirmedWasShown'
  <2>1. /\ Busy(w) /\ Finish(w, "ok") /\ UNCHANGED <<pending, signed, confirmed>>
        /\ shown' = shown \cup {envelope[worker[w].request].payload}
    BY <1>10 DEF WorkerPublish, Busy
  <2> QED
    BY <1>8, <2>1
<1>11. CASE ServerRestart
  <2>1. \A r \in Requests : envelope'[r] \in {None, envelope[r]}
    BY <1>11 DEF ServerRestart
  <2>2. waiting # None => waiting \in Requests
    BY DEF IInv, TypeOK
  <2> QED
    BY <1>11, <2>1, <2>2 DEF ServerRestart, IInv, SignedOK, CallOK, ConfirmedWasShown
<1>12. \/ UNCHANGED <<pending, envelope, waiting, response, signed, shown, confirmed>>
       \/ Sign \/ Receive \/ RequestFails \/ ClientTimeout \/ AgentCrash
       \/ \E r \in Requests : Post(r)
       \/ \E r \in Requests : Lose(r)
       \/ \E r \in Requests : Arrive(r)
       \/ \E w \in Workers : WorkerVerify(w) \/ WorkerAccept(w) \/ AcceptFails(w)
       \/ \E w \in Workers : WorkerPublish(w)
       \/ ServerRestart
  BY NextCases DEF Tick, EnginePublish, Take, SaveFails, AgentRestart, WorkerTake, vars
<1> QED
  BY <1>1, <1>2, <1>3, <1>4, <1>5, <1>6, <1>7, <1>9, <1>10, <1>11, <1>12

\* The worker at the acceptance or the publication holds the lock.
LEMMA LockStep == ASSUME IInv, TypeOK', [Next]_vars PROVE LockOK'
<1> USE DEF agent, call, server, history, Fault
<1>1. /\ \A e \in signed : e.sequence \in Nat \ {0} /\ e.payload \in Nat
      /\ row.sequence \in Nat /\ row.payload \in Nat /\ published \in Nat
      /\ signed \subseteq signed'
  <2>1. signed \subseteq Envelopes /\ row \in [sequence : Nat, payload : 0..MaxFrames]
        /\ published \in 0..MaxFrames
    BY DEF IInv, TypeOK
  <2>2. \A e \in Envelopes : e.sequence \in Nat \ {0} /\ e.payload \in Nat
    BY DEF Envelopes
  <2>3. signed \subseteq signed'
    BY NextCases DEF Tick, EnginePublish, Take, Sign, SaveFails, Post, Receive, RequestFails,
      ClientTimeout, AgentCrash, AgentRestart, Lose, Arrive, WorkerTake, WorkerVerify,
      WorkerAccept, WorkerPublish, AcceptFails, ServerRestart, vars
  <2> QED
    BY <2>1, <2>2, <2>3
<1>2. ASSUME UNCHANGED <<row, published, lock, worker>>,
             \A w \in Workers : Busy(w) => envelope'[worker[w].request] = envelope[worker[w].request]
      PROVE  LockOK'
  BY <1>1, <1>2 DEF IInv, LockOK, Busy
<1>3. CASE UNCHANGED <<row, published, lock, worker, envelope>>
  BY <1>2, <1>3
<1>4. ASSUME NEW r \in Requests, Post(r) \/ Lose(r) \/ Arrive(r) PROVE LockOK'
  <2>1. UNCHANGED <<row, published, lock, worker>>
    BY <1>4 DEF Post, Lose, Arrive
  <2>2. \A q \in Requests \ {r} : envelope'[q] = envelope[q]
    BY <1>4 DEF Post, Lose, Arrive, Respond, IInv, TypeOK
  <2>3. \A w \in Workers : Busy(w) => worker[w].request # r /\ worker[w].request \in Requests
    <3>1. envelope[r] = None \/ r \in network
      BY <1>4 DEF Post, Lose, Arrive
    <3>2. \A w \in Workers : Busy(w) =>
            /\ worker[w].request \in Requests /\ envelope[worker[w].request] # None
            /\ worker[w].request \notin network
      BY DEF IInv, TypeOK, FlightOK, Busy
    <3> QED
      BY <3>1, <3>2
  <2> QED
    BY <1>2, <2>1, <2>2, <2>3
<1>5. ASSUME NEW w \in Workers, WorkerTake(w) PROVE LockOK'
  <2>1. worker'[w].pc = "lock" /\ \A v \in Workers \ {w} : worker'[v] = worker[v]
    BY <1>5 DEF WorkerTake, IInv, TypeOK
  <2> QED
    BY <1>1, <1>5, <2>1 DEF WorkerTake, IInv, LockOK
<1>6. ASSUME NEW w \in Workers, NEW outcome \in {"ok", "error"}, Busy(w), Finish(w, outcome),
             UNCHANGED <<network, jobs, row>>, published' <= row.payload,
             lock = None \/ lock = w
      PROVE  LockOK'
  <2>1. /\ worker'[w].pc = "idle"
        /\ \A v \in Workers \ {w} : worker'[v] = worker[v]
    BY <1>6, FinishEffect
  <2>2. \A v \in Workers \ {w} : worker[v].pc \notin {"accept", "publish"}
    BY <1>6 DEF IInv, LockOK
  <2> QED
    BY <1>1, <1>6, <2>1, <2>2 DEF IInv, LockOK
<1>7. ASSUME NEW w \in Workers, WorkerVerify(w) PROVE LockOK'
  <2>1. Busy(w) /\ lock = None /\ UNCHANGED <<network, jobs, row, published>>
    BY <1>7 DEF WorkerVerify, Busy
  <2>2. CASE InSkew(envelope[worker[w].request])
    <3>1. lock' = w /\ UNCHANGED envelope /\ worker' = [worker EXCEPT ![w].pc = "accept"]
      BY <1>7, <2>2 DEF WorkerVerify
    <3>2. \A v \in Workers : worker[v].pc \notin {"accept", "publish"}
      BY <2>1 DEF IInv, LockOK
    <3>3. worker'[w].pc = "accept" /\ \A v \in Workers \ {w} : worker'[v] = worker[v]
      BY <3>1 DEF IInv, TypeOK
    <3> QED
      BY <1>1, <2>1, <3>1, <3>2, <3>3 DEF IInv, LockOK
  <2>3. CASE ~InSkew(envelope[worker[w].request])
    <3>1. Finish(w, "error")
      BY <1>7, <2>3 DEF WorkerVerify
    <3>2. published' <= row.payload
      BY <2>1 DEF IInv, LockOK
    <3> QED
      BY <1>6, <2>1, <3>1, <3>2
  <2> QED
    BY <2>2, <2>3
<1>8. ASSUME NEW w \in Workers, WorkerAccept(w) PROVE LockOK'
  <2> DEFINE e == envelope[worker[w].request]
             Accepted == \/ e.sequence > row.sequence
                         \/ e.sequence = row.sequence /\ e.payload = row.payload
  <2>1. /\ worker[w].pc = "accept" /\ Busy(w) /\ lock = w
        /\ UNCHANGED <<network, jobs, published>>
    BY <1>8 DEF WorkerAccept, Busy, IInv, LockOK
  <2>2. worker[w].request \in Requests /\ e \in signed
    BY <2>1 DEF IInv, TypeOK, SignedOK, Busy
  <2>3. CASE Accepted
    <3>1. /\ row' = [sequence |-> e.sequence, payload |-> e.payload]
          /\ worker' = [worker EXCEPT ![w].pc = "publish"]
          /\ UNCHANGED <<lock, envelope>>
      BY <1>8, <2>3 DEF WorkerAccept
    <3>2. /\ worker'[w].pc = "publish" /\ worker'[w].request = worker[w].request
          /\ \A v \in Workers \ {w} : worker'[v] = worker[v]
      BY <3>1 DEF IInv, TypeOK
    <3>3. \A v \in Workers \ {w} : worker[v].pc \notin {"accept", "publish"}
      BY <2>1 DEF IInv, LockOK
    <3>4. row'.sequence = e.sequence /\ row'.payload = e.payload
      BY <3>1
    <3>5. e.payload >= row.payload
      <4>1. e.sequence \in Nat /\ e.payload \in Nat
        BY <1>1, <2>2
      <4>2. CASE row.sequence = 0 /\ row.payload = 0
        BY <4>1, <4>2
      <4>3. CASE \E d \in signed : row.sequence = d.sequence /\ row.payload = d.payload
        <5>1. PICK d \in signed : row.sequence = d.sequence /\ row.payload = d.payload
          BY <4>3
        <5>2. e.sequence > d.sequence \/ e.payload = d.payload
          BY <2>3, <5>1
        <5>3. e.payload >= d.payload
          BY <2>2, <4>1, <5>1, <5>2 DEF IInv, OrderOK
        <5> QED
          BY <5>1, <5>3
      <4> QED
        BY <4>2, <4>3 DEF IInv, LockOK
    <3>6. published' <= row'.payload
      <4>1. published <= row.payload /\ e.payload \in Nat
        BY <1>1, <2>2 DEF IInv, LockOK
      <4> QED
        BY <1>1, <2>1, <3>4, <3>5, <4>1
    <3>7. \E d \in signed' : row'.sequence = d.sequence /\ row'.payload = d.payload
      BY <1>1, <2>2, <3>4
    <3>8. \A v \in Workers : worker'[v].pc \in {"accept", "publish"} => v = w
      BY <3>2, <3>3
    <3>9. row'.payload = envelope'[worker'[w].request].payload
      BY <3>1, <3>2, <3>4
    <3> QED
      BY <2>1, <3>1, <3>6, <3>7, <3>8, <3>9 DEF LockOK
  <2>4. CASE ~Accepted
    <3>1. Finish(w, "error") /\ UNCHANGED row
      BY <1>8, <2>4 DEF WorkerAccept
    <3>2. published' <= row.payload
      BY <2>1 DEF IInv, LockOK
    <3> QED
      BY <1>6, <2>1, <3>1, <3>2
  <2> QED
    BY <2>3, <2>4
<1>9. ASSUME NEW w \in Workers, AcceptFails(w) PROVE LockOK'
  <2>1. /\ Busy(w) /\ lock = w /\ Finish(w, "error")
        /\ UNCHANGED <<network, jobs, row, published>>
    BY <1>9 DEF AcceptFails, Busy, IInv, LockOK
  <2>2. published' <= row.payload
    BY <2>1 DEF IInv, LockOK
  <2> QED
    BY <1>6, <2>1, <2>2
<1>10. ASSUME NEW w \in Workers, WorkerPublish(w) PROVE LockOK'
  <2>1. /\ Busy(w) /\ lock = w /\ Finish(w, "ok") /\ UNCHANGED <<network, jobs, row>>
        /\ published' = row.payload
    BY <1>10 DEF WorkerPublish, Busy, IInv, LockOK
  <2> QED
    BY <1>1, <1>6, <2>1
<1>11. CASE ServerRestart
  BY <1>1, <1>11 DEF ServerRestart, IInv, LockOK
<1>12. \/ UNCHANGED <<row, published, lock, worker, envelope>>
       \/ \E r \in Requests : Post(r) \/ Lose(r) \/ Arrive(r)
       \/ \E w \in Workers : WorkerTake(w)
       \/ \E w \in Workers : WorkerVerify(w)
       \/ \E w \in Workers : WorkerAccept(w)
       \/ \E w \in Workers : WorkerPublish(w)
       \/ \E w \in Workers : AcceptFails(w)
       \/ ServerRestart
  BY NextCases DEF Tick, EnginePublish, Take, Sign, SaveFails, Receive, RequestFails,
    ClientTimeout, AgentCrash, AgentRestart, vars
<1> QED
  BY <1>3, <1>4, <1>5, <1>7, <1>8, <1>9, <1>10, <1>11, <1>12

-----------------------------------------------------------------------------
LEMMA Inductive == Spec => []IInv
<1>1. IInv /\ [Next]_vars => IInv'
  BY TypeStep, AgentStepOK, CallStep, LockStep DEF IInv
<1> QED
  BY InitInv, <1>1, PTL DEF Spec

\* Type correctness; a request in flight carries an envelope.
THEOREM TypeCorrect == Spec => []TypeOK
<1>1. IInv => TypeOK
  BY DEF IInv
<1> QED
  BY Inductive, <1>1, PTL

\* Whatever crashes and failed saves of the credentials come between, Send
\* never signs one sequence number for two payloads.
THEOREM SequenceNamesPayload == Spec => []SequenceNamesOnePayload
<1>1. IInv => SequenceNamesOnePayload
  BY DEF IInv
<1> QED
  BY Inductive, <1>1, PTL

\* What the agent counts as delivered has been published, even if the server
\* died between AcceptFeederSequence and Publish.
THEOREM ConfirmedIsShown == Spec => []ConfirmedWasShown
<1>1. IInv => ConfirmedWasShown
  BY DEF IInv
<1> QED
  BY Inductive, <1>1, PTL

\* The three together, for any number of workers, requests and faults.
THEOREM DeliveryIsSound == Spec => []DeliverySound
<1>1. IInv => DeliverySound
  BY DEF IInv, DeliverySound
<1> QED
  BY Inductive, <1>1, PTL

\* Late requests, duplicates and competing workers never make the registry go
\* back to an older snapshot of the feeder: the lock is held from the
\* acceptance to the publication, and later numbers carry later snapshots.
THEOREM RegistryIsMonotonic == Spec => RegistryNeverRegresses
<1>1. IInv /\ [Next]_vars => [published' >= published \/ published' = 0]_published
  <2> SUFFICES ASSUME IInv, [Next]_vars, published' # published
               PROVE  published' >= published \/ published' = 0
    OBVIOUS
  <2>1. ServerRestart \/ \E w \in Workers : WorkerPublish(w)
    BY NextCases DEF Tick, EnginePublish, Take, Sign, SaveFails, Post, Receive, RequestFails,
      ClientTimeout, AgentCrash, AgentRestart, Lose, Arrive, WorkerTake, WorkerVerify,
      WorkerAccept, AcceptFails, vars, server
  <2>2. CASE ServerRestart
    BY <2>2 DEF ServerRestart
  <2>3. ASSUME NEW w \in Workers, WorkerPublish(w) PROVE published' >= published
    <3>1. published' = row.payload /\ published <= row.payload
      BY <2>3 DEF WorkerPublish, IInv, LockOK
    <3>2. published \in Nat /\ row.payload \in Nat
      BY DEF IInv, TypeOK
    <3> QED
      BY <3>1, <3>2
  <2> QED
    BY <2>1, <2>2, <2>3
<1> QED
  BY Inductive, <1>1, PTL DEF Spec, RegistryNeverRegresses

=============================================================================
