-------------------------- MODULE MCGatewayRouter --------------------------
(* Instances of GatewayRouter for TLC. *)
EXTENDS GatewayRouter
=============================================================================
