SPECIFICATION FairSpec
CONSTANTS
  A = A
  B = B
  socks = socks
  tor = tor
  r1 = r1
  r2 = r2
  p1 = p1
  p2 = p2
  e1 = e1
  e2 = e2
  e3 = e3
  e4 = e4
  Account <- Accounts
  Service <- Services
  Report <- Reports
  Ingest <- Requests
  Samples <- SamplesOf
  Rate <- RateOf
  Expiry <- ByExpiry
  Owner <- OwnerOf
  Volume <- VolumeOf
  Granted <- AtFirst
  Stale <- Buffered
  Million = 4
  MaxSample = 8
  MaxFaults = 1
  MaxElapsed = 1
INVARIANTS BookedOnce ChargedExactly TotalsKept
PROPERTIES DrawnInOrder AuthzCatchesUp
CHECK_DEADLOCK FALSE
