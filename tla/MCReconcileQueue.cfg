CONSTANTS
  Requests = {r1, stuck, broken}
  Stuck = {stuck}
  Broken = {broken}
  Workers = {w1, w2}
  Nobody = Nobody
  Limit = 2
  Stages = 1
  MaxDelay = 2
  MaxAttempts = 1
  MaxFaults = 1
  MaxRetries = 1
SPECIFICATION FairSpec
PROPERTIES DelayIsKept EveryRequestIsServed
CHECK_DEADLOCK FALSE
