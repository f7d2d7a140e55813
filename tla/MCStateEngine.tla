---------------------------- MODULE MCStateEngine ----------------------------
(***************************************************************************)
(* TLC instances of StateEngine, with both pollers.                        *)
(***************************************************************************)
EXTENDS StateEngine
=============================================================================
