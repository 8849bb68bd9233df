CONSTANTS
  work1 = work1
  work2 = work2
  Works <- MCWorks
  Expected <- MCExpected
  Defects <- MCDefects
  Nobody = Nobody
  Handlers = {h1, h2}
  Required = 2
  MaxJobs = 3
  MaxRuns = 2
  MaxFaults = 1
SYMMETRY MCSymmetry
SPECIFICATION Spec
INVARIANTS RegistrationIsIdempotent RegisteredCanBeServed PassedReportIsBacked EveryFailureLosesOneJob
CHECK_DEADLOCK FALSE
