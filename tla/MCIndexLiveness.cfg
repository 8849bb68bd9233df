CONSTANTS
  Workers = {w1}
  Nobody = Nobody
  MaxSubmissions = 2
  MaxCrashes = 2
  ExecutionMayFail = TRUE
  StateMayBeLost = TRUE
SPECIFICATION FairSpec
PROPERTIES IndexCatchesUpUnlessOverwritten UndisturbedRequestReturns
CHECK_DEADLOCK FALSE
