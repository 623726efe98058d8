SPECIFICATION Spec
CONSTANTS
  w1 = w1
  w2 = w2
  j1 = j1
  j2 = j2
  Workers <- TwoWorkers
  Jobs <- TwoJobs
  NoJob = NoJob
  Keys = {k1, k2}
  Internal = Internal
  External = External
  Batch = 3
  Deadlines = FALSE
  MaxTx = 3
  MaxRuns = 2
SYMMETRY Symmetry
CHECK_DEADLOCK FALSE
INVARIANT RegistrationsReachBackend
