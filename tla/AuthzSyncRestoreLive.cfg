SPECIFICATION RestoreFairSpec
CONSTANTS
  a1 = a1
  a2 = a2
  Addr <- Two
  MaxRev = 2
  MaxGap = 0
  MassRevokeMin = 1
  MassRevokeAllowed = FALSE
  FullSyncEnabled = FALSE
  Faults = {}
  MaxFaults = 0
  MaxRestores = 1
PROPERTY RestoreConverges
