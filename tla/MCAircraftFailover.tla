------------------------- MODULE MCAircraftFailover -------------------------
(***************************************************************************)
(* TLC instances of AircraftFailover.                                      *)
(***************************************************************************)
EXTENDS AircraftFailover
=============================================================================
