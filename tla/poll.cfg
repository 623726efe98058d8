SPECIFICATION FairSpec
CONSTANTS
  k1 = k1
  k2 = k2
  k3 = k3
  k4 = k4
  c1 = c1
  c2 = c2
  Keys <- FourKeys
  BadKeys = {k4}
  Contracts <- TwoContracts
  BadAddrs = {c2}
  Relations <- TwoRelations
  Punctual <- OnePunctual
  MaxConcurrentProbe = 2
  ParallelRequests = 1
  Timeout = 2
  MaxSpan = 1
  Grace = 2
  MaxLag = 1
INVARIANTS TypeOK StatusesComplete RejectedForCause PollInv
PROPERTY RunReturns
