--------------------------- MODULE AircraftFailover ---------------------------
(***************************************************************************)
(* The choice among the ordered aircraft providers                         *)
(* (internal/source/failover.go).                                          *)
(*                                                                         *)
(* The aircraft poller calls FetchAircraft again and again.  One call may  *)
(* ask several providers in turn, and each of them may fail or recover     *)
(* between any two requests.  Priority is position: provider 0 is asked    *)
(* first.  The context of the calls ends only at shutdown.                 *)
(***************************************************************************)
EXTENDS Integers

CONSTANTS
  N,                 \* number of providers
  RecoverySuccesses  \* probes needed before returning to a provider

ASSUME CountAssumption == N \in Nat \ {0} /\ RecoverySuccesses \in Nat \ {0}

Providers == 0..(N - 1)
NoProvider == -1  \* no provider, as in failover.active

VARIABLES
  up,          \* the providers that answer now
  active,      \* failover.active
  recoveries,  \* failover.recoveries
  pc,          \* the call under way: "idle", "probe" or "lower"
  index,       \* the provider it asks next
  recovered,   \* recoveredIndex
  cancelled,   \* the context is done
  served,      \* history: provider of the frame of the last call, or NoProvider
  failed,      \* history: providers that failed in the call under way
  streak       \* history: requests each provider has answered in a row since
               \* it last failed, counted up to RecoverySuccesses

failoverVars ==
  <<up, active, recoveries, pc, index, recovered, cancelled, served, failed, streak>>

FailoverInit ==
  /\ up \in SUBSET Providers
  /\ active = NoProvider
  /\ recoveries = [p \in Providers |-> 0]
  /\ pc = "idle"
  /\ index = 0
  /\ recovered = NoProvider
  /\ cancelled = FALSE
  /\ served = NoProvider
  /\ failed = {}
  /\ streak = [p \in Providers |-> 0]

-----------------------------------------------------------------------------
\* A provider fails or recovers.
Toggle(p) ==
  /\ up' = IF p \in up THEN up \ {p} ELSE up \cup {p}
  /\ UNCHANGED <<active, recoveries, pc, index, recovered, cancelled, served,
                 failed, streak>>

CancelCalls ==
  /\ ~cancelled
  /\ cancelled' = TRUE
  /\ UNCHANGED <<up, active, recoveries, pc, index, recovered, served, failed, streak>>

-----------------------------------------------------------------------------
(* FetchAircraft.                                                          *)

\* Without an active provider fetchInitial tries them all.
FetchAircraft ==
  /\ pc = "idle"
  /\ ~cancelled
  /\ pc' = IF active = NoProvider THEN "lower" ELSE "probe"
  /\ index' = 0
  /\ recovered' = NoProvider
  /\ failed' = {}
  /\ UNCHANGED <<up, active, recoveries, cancelled, served, streak>>

\* fetch: the provider that is asked answers, and the context has not ended.
Answers ==
  /\ ~cancelled
  /\ index \in up
  /\ streak' = [streak EXCEPT ![index] = IF @ < RecoverySuccesses THEN @ + 1 ELSE @]
  /\ UNCHANGED <<up, cancelled, failed>>

Refuses ==
  /\ ~cancelled
  /\ index \notin up
  /\ streak' = [streak EXCEPT ![index] = 0]
  /\ failed' = failed \cup {index}
  /\ UNCHANGED <<up, cancelled>>

activate(p) ==
  /\ active' = p
  /\ recoveries' = [q \in Providers |-> 0]

\* The call ends with a frame of p, or with an error.
Return(p) ==
  /\ pc' = "idle"
  /\ served' = p
  /\ UNCHANGED <<index, recovered>>

\* A provider before the active one answers its probe.
ProbeAnswers ==
  /\ pc = "probe"
  /\ index < active
  /\ Answers
  /\ IF recoveries[index] + 1 >= RecoverySuccesses
       THEN activate(index) /\ Return(index)
       ELSE /\ recoveries' = [recoveries EXCEPT ![index] = @ + 1]
            /\ recovered' = IF recovered = NoProvider THEN index ELSE recovered
            /\ index' = index + 1
            /\ UNCHANGED <<active, pc, served>>

\* Mutant of ProbeFails: a failed probe does not reset the count.
ProbeFailsKeeps ==
  /\ pc = "probe"
  /\ index < active
  /\ Refuses
  /\ index' = index + 1
  /\ UNCHANGED <<active, recoveries, pc, recovered, served>>

ProbeFails ==
  /\ pc = "probe"
  /\ index < active
  /\ Refuses
  /\ recoveries' = [recoveries EXCEPT ![index] = 0]
  /\ index' = index + 1
  /\ UNCHANGED <<active, pc, recovered, served>>

\* Mutant of ActiveAnswers: success counts as an activation.
ActiveAnswersActivates ==
  /\ pc = "probe"
  /\ index = active
  /\ Answers
  /\ Return(active)
  /\ activate(active)

\* The active provider answers; a provider that is recovering has to wait.
ActiveAnswers ==
  /\ pc = "probe"
  /\ index = active
  /\ Answers
  /\ Return(active)
  /\ UNCHANGED <<active, recoveries>>

\* Use the frame of the first provider whose probe was answered, or go on to
\* the providers after the active one.
ActiveFails ==
  /\ pc = "probe"
  /\ index = active
  /\ Refuses
  /\ IF recovered # NoProvider
       THEN activate(recovered) /\ Return(recovered)
       ELSE /\ pc' = "lower"
            /\ index' = active + 1
            /\ UNCHANGED <<active, recoveries, recovered, served>>

\* fetchLower takes the first provider that answers.
LowerAnswers ==
  /\ pc = "lower"
  /\ index < N
  /\ Answers
  /\ activate(index)
  /\ Return(index)

LowerFails ==
  /\ pc = "lower"
  /\ index < N
  /\ Refuses
  /\ index' = index + 1
  /\ UNCHANGED <<active, recoveries, pc, recovered, served>>

\* All providers have failed; the active one stays.
AllFail ==
  /\ pc = "lower"
  /\ index = N
  /\ Return(NoProvider)
  /\ UNCHANGED <<up, active, recoveries, cancelled, failed, streak>>

\* The context ends: the request fails, and with it the call.
CallCancelled ==
  /\ pc # "idle"
  /\ cancelled
  /\ index < N
  /\ recoveries' = IF pc = "probe" /\ index < active
                     THEN [recoveries EXCEPT ![index] = 0] ELSE recoveries
  /\ Return(NoProvider)
  /\ UNCHANGED <<up, active, cancelled, failed, streak>>

-----------------------------------------------------------------------------
Call ==
  \/ ProbeAnswers \/ ProbeFails
  \/ ActiveAnswers \/ ActiveFails
  \/ LowerAnswers \/ LowerFails \/ AllFail
  \/ CallCancelled

FailoverNext ==
  \/ \E p \in Providers : Toggle(p)
  \/ CancelCalls
  \/ FetchAircraft
  \/ Call

\* The poller keeps calling, and every request ends (the clients time out).
FailoverFairness == WF_failoverVars(FetchAircraft \/ Call)

FailoverSpec == FailoverInit /\ [][FailoverNext]_failoverVars
FairFailoverSpec == FailoverSpec /\ FailoverFairness

-----------------------------------------------------------------------------
(* Properties.                                                             *)

\* Type correctness; no count of recoveries ever reaches the threshold, and
\* providers after the active one have none.
FailoverTypeOK ==
  /\ up \subseteq Providers
  /\ active \in Providers \cup {NoProvider}
  /\ recoveries \in [Providers -> 0..(RecoverySuccesses - 1)]
  /\ pc \in {"idle", "probe", "lower"}
  /\ index \in 0..N
  /\ recovered \in Providers \cup {NoProvider}
  /\ cancelled \in BOOLEAN
  /\ served \in Providers \cup {NoProvider}
  /\ failed \subseteq Providers
  /\ streak \in [Providers -> 0..RecoverySuccesses]
  /\ \A p \in Providers : p >= active => recoveries[p] = 0

\* A frame is always one of the provider that is active afterwards, so the
\* provider shown with a snapshot is the provider of its aircraft.
ServedIsActive == pc = "idle" /\ served # NoProvider => served = active

\* The active provider gives way to one of higher priority only after that one
\* has answered RecoverySuccesses requests in a row, or after the active one
\* has failed in this call: a flapping provider does not take over.
StableFailback ==
  [][active # NoProvider /\ active' < active =>
       streak'[active'] = RecoverySuccesses \/ active \in failed']_failoverVars

\* The active provider gives way to one of lower priority only if every
\* provider before that one has failed in this call.
LowerOnlyIfAllFailed ==
  [][active' > active => \A p \in Providers : p < active' => p \in failed']_failoverVars

\* Once the providers settle, the first that answers becomes active and stays
\* so, unless the process stops.
SettlesOnFirst ==
  \A p \in Providers :
    <>[](p \in up /\ \A q \in Providers : q < p => q \notin up)
      => <>[](active = p \/ cancelled)

\* A frame is of the provider left active, and the active provider changes only
\* for one that has proved stable or because every one before it has failed.
FailoverSound == [](FailoverTypeOK /\ ServedIsActive) /\ StableFailback /\ LowerOnlyIfAllFailed

=============================================================================
