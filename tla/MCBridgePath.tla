---------------------------- MODULE MCBridgePath ----------------------------
(* An instance of BridgePath for TLC. *)
EXTENDS BridgePath

CONSTANTS s1, s3

MCInitialSigners == <<s1, s3>>
=============================================================================
