----------------------------- MODULE MCRouterV2 -----------------------------
(* An instance of RouterV2 for TLC: two results, and their hashes. *)
EXTENDS RouterV2

CONSTANTS yes, no, hashOfYes, hashOfNo

MCHashOf(result) == IF result = yes THEN hashOfYes ELSE hashOfNo
=============================================================================
