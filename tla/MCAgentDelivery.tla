--------------------------- MODULE MCAgentDelivery ---------------------------
(***************************************************************************)
(* TLC instances of AgentDelivery.                                         *)
(***************************************************************************)
EXTENDS AgentDelivery
=============================================================================
