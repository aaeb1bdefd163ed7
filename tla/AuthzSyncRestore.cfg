SPECIFICATION RestoreSpec
CONSTANTS
  a1 = a1
  a2 = a2
  Addr <- Two
  MaxRev = 2
  MaxGap = 0
  MassRevokeMin = 1
  MassRevokeAllowed = FALSE
  FullSyncEnabled = TRUE
  Faults = {"crash", "corrupt", "persist"}
  MaxFaults = 1
  MaxRestores = 1
SYMMETRY Symmetry
INVARIANT MirrorsRestored
PROPERTY CursorBackOnlyByFull
