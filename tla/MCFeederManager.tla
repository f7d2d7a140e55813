--------------------------- MODULE MCFeederManager ---------------------------
(***************************************************************************)
(* TLC instances of FeederManager: two feeders.                            *)
(***************************************************************************)
EXTENDS FeederManager
=============================================================================
