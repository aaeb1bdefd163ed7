SPECIFICATION FairSpec
CONSTANTS
  a1 = a1
  a2 = a2
  k1 = k1
  k2 = k2
  r1 = r1
  r2 = r2
  Addr <- Addrs
  Key <- Keys
  Req <- Requests
  MaxPeers = 1
  PoolSize = 5
  Attempts = 2
  MaxIssue = 2
  MaxFaults = 1
INVARIANTS CapHolds OwnInnerAddress  NoDeadlock EtagTruthful
PROPERTY InterfaceFollows
