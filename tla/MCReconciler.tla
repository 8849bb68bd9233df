---------------------------- MODULE MCReconciler ----------------------------
(* Instances of Reconciler for TLC: the index and the workers of one request. *)
EXTENDS Reconciler, TLC

WorkerSymmetry == Permutations(Workers)
=============================================================================
