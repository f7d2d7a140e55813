----------------------------- MODULE MCMonitors -----------------------------
(***************************************************************************)
(* TLC instance of Monitors: deployments that each exercise one monitor.   *)
(***************************************************************************)
EXTENDS Monitors

CONSTANTS f1, f2, p1, p2, p3, a1, a2, a3, c1, c2

Obs(ground, nm, low, departing, approaching) ==
  [readsb |-> TRUE, position |-> TRUE, ground |-> ground, nm |-> nm, low |-> low,
   departing |-> departing, approaching |-> approaching]
Parked == Obs(TRUE, 1, TRUE, FALSE, FALSE)
Climbing == Obs(FALSE, 6, FALSE, TRUE, FALSE)
Descending == Obs(FALSE, 4, TRUE, FALSE, TRUE)
Passing == Obs(FALSE, 11, FALSE, FALSE, FALSE)
Far == Obs(FALSE, 20, FALSE, FALSE, FALSE)
Lost == [Parked EXCEPT !.position = FALSE]
Foreign == [Far EXCEPT !.readsb = FALSE]

\* What a poll found of the source, a poll that found nothing new, and frames.
Health(status) == [health |-> [s \in {"aircraft"} |-> status], fetched |-> FALSE]
Repeated == [health |-> <<>>, fetched |-> FALSE]
Frame(aircraft) == [health |-> <<>>, fetched |-> TRUE, aircraft |-> aircraft]
Alone(o) == Frame([a \in Aircraft |-> IF a = a1 THEN o ELSE NotSeen])
Only(S) == Frame([a \in Aircraft |-> IF a \in S THEN Far ELSE NotSeen])
Deployment(planeAlert, center, gaps, until, S, T, U) ==
  [planeAlert |-> planeAlert, center |-> center, gaps |-> gaps, until |-> until,
   snapshots |-> [p \in Pollers |-> CASE p = p1 -> S [] p = p2 -> T [] p = p3 -> U]]
AnyHealth == {Health(status) : status \in {"healthy", "degraded", "offline", "disabled"}}

MCFeederOf == [p \in Pollers |-> IF p = p3 THEN f2 ELSE f1]
MCPolls == [p \in Pollers |-> IF p = p2 THEN {} ELSE Sources]
MCDeployments ==
  { Deployment(FALSE, NoCenter, {1}, 5, AnyHealth, {Repeated}, {}),
    Deployment(FALSE, NoCenter, {1}, 4, AnyHealth, {Repeated}, {Health("offline")}),
    Deployment(TRUE, NoCenter, {1}, 3, {Only({a1, a2})}, {}, {Only({a1}), Alone(Foreign)}),
    Deployment(FALSE, c1, {1}, 10, {Alone(o) : o \in {Parked, Climbing, Far}}, {}, {}),
    Deployment(FALSE, c1, {1}, 8, {Alone(o) : o \in {Parked, Climbing, Lost}}, {}, {}),
    Deployment(FALSE, c1, {1}, 7, {Alone(o) : o \in {Parked, Descending, Passing, Far}}, {}, {}),
    Deployment(FALSE, c1, {6}, 12, {Only({a1, a2}), Only({a3})}, {}, {Only({a1, a2})}),
    Deployment(FALSE, c1, {6}, 6, {Only({a1, a2})}, {Only({a3})}, {Only({a1, a2})}) }
MCListed == <<{a1}, {a1, a2}>>
=============================================================================
