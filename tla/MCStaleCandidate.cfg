CONSTANTS
  Workers = {w1, w2}
  Nobody = Nobody
  MaxSubmissions = 2
  MaxCrashes = 0
  ExecutionMayFail = FALSE
  StateMayBeLost = FALSE
SPECIFICATION FairSpec
PROPERTIES EveryRequestReturns
CHECK_DEADLOCK FALSE
