---------------------------- MODULE MCAlertQueue ----------------------------
(***************************************************************************)
(* TLC instance of AlertQueue: two goroutines raise two emergencies and    *)
(* three normal alerts, two of them for one condition and aircraft, while  *)
(* the alert pump pops.                                                    *)
(***************************************************************************)
EXTENDS AlertQueue, TLC

CONSTANTS e1, e2, n1, n2, n3, k1, k2, p1, p2, pump

MCKeyOf == [a \in Alerts |-> IF a = n3 THEN k2 ELSE k1]

=============================================================================
