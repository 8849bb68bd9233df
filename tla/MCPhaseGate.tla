------------------------------ MODULE MCPhaseGate ------------------------------
(* An instance of PhaseGate for TLC: two works, one that should pass and one *)
(* that should fail.                                                         *)
EXTENDS PhaseGate, TLC

CONSTANTS work1, work2

MCWorks == <<work1, work2>>
MCExpected == [w \in {work1, work2} |-> IF w = work1 THEN "PASS" ELSE "FAIL"]
MCSymmetry == Permutations(Handlers)
MCDefects == {"schema", "uri", "digest"}
=============================================================================
