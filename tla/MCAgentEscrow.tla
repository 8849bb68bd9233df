--------------------------- MODULE MCAgentEscrow ---------------------------
(* Instances of AgentEscrow for TLC. *)
EXTENDS AgentEscrow
=============================================================================
