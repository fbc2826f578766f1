--------------------------- MODULE MCAgentDelivery ---------------------------
(***************************************************************************)
(* Instances of AgentDelivery for TLC: one command k1.                      *)
(***************************************************************************)
EXTENDS AgentDelivery

CONSTANT k1
=============================================================================
