CONSTANTS
  Workers = {w1, w2}
  Nobody = Nobody
  MaxSubmissions = 2
  MaxCrashes = 1
  ExecutionMayFail = TRUE
  StateMayBeLost = TRUE
SPECIFICATION Spec
INVARIANTS StatusIsBacked NoReturnWithoutResult ReturnedOnce
PROPERTIES NeverBackwards
SYMMETRY WorkerSymmetry
CHECK_DEADLOCK FALSE
