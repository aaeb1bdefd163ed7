SPECIFICATION FairSpec
CONSTANTS
  a1 = a1
  a2 = a2
  Addr <- Two
  MaxRev = 3
  MaxGap = 0
  MassRevokeMin = 0
  MassRevokeAllowed = FALSE
  FullSyncEnabled = FALSE
  Faults = {"crash", "flush", "outage", "failclosed", "nft", "persist", "acklost", "corrupt", "compact"}
  MaxFaults = 1
INVARIANTS StrayCovered MissingExplained MemoFresh
PROPERTY Converges
