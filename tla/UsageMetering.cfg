SPECIFICATION FairSpec
CONSTANTS
  k1 = k1
  k2 = k2
  Key <- Two
  MaxTraffic = 2
  BufferCap = 2
  Faults = {"crash", "corrupt", "recovery", "persist", "lost", "nft", "reset", "revoke"}
  MaxFaults = 3
INVARIANTS TypeOK CountedOnce NothingLost
PROPERTY EventuallyBilled
