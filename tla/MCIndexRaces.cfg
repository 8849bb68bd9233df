CONSTANTS
  Workers = {w1, w2}
  Nobody = Nobody
  MaxSubmissions = 2
  MaxCrashes = 0
  ExecutionMayFail = TRUE
  StateMayBeLost = FALSE
SPECIFICATION FairSpec
PROPERTIES IndexCatchesUpUnlessOverwritten
CHECK_DEADLOCK FALSE
