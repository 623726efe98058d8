SPECIFICATION Spec
CONSTANTS
  w1 = w1
  w2 = w2
  j1 = j1
  j2 = j2
  p1 = p1
  p2 = p2
  a1 = a1
  a2 = a2
  c1 = c1
  c2 = c2
  Workers <- TwoWorkers
  Jobs <- TwoJobs
  NoJob = NoJob
  Providers <- OneProvider
  Addrs <- OneAddr
  Addr <- OneOwn
  Contracts <- OneContract
  Other = Other
  MaxTx = 2
  MaxLosses = 1
SYMMETRY Symmetry
INVARIANTS TypeOK WalletsCovered RelationsReachBackend WalletInv OnceInv
CHECK_DEADLOCK FALSE
PROPERTY ImplementsFeed
