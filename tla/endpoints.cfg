SPECIFICATION FairSpec
CONSTANTS
  p1 = p1
  p2 = p2
  b1 = b1
  b2 = b2
  b3 = b3
  b4 = b4
  b5 = b5
  b6 = b6
  ip1 = ip1
  ip2 = ip2
  Providers = {p1, p2}
  Home <- MCHome
  IPs = {ip1, ip2}
  NoIP = NoIP
  Null = Null
  NullInfo = {p1}
  NewRows = {p1}
  Bags <- MCBags
  Outages <- MCOutages
  EndpointTTL = 1
  Interval = 1
  Timeout = 1
  EndpointMaxAge = 2
  Stamps = {TRUE, FALSE}
  MaxMoves = 1
  MaxFaults = 1
  MaxConcurrentBags = 1
  MaxBagsPerProvider = 5
  BagsSamplePercent = 50
  MaxChecked = 11
INVARIANTS TypeOK AddressIsRecent FreshIsRecent AgeInv ReasonsComplete ChecksInv SkipsAfterRunOfFailures
PROPERTY InfoCatchesUp
