--------------------------- MODULE MCReconcileQueue ---------------------------
(* An instance of ReconcileQueue for TLC. *)
EXTENDS ReconcileQueue
=============================================================================
