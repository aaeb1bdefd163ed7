SPECIFICATION Spec
CONSTANTS
  k1 = k1
  k2 = k2
  Key <- One
  MaxTraffic = 2
  BufferCap = 2
  Faults = {"crash", "persist", "corrupt", "recovery"}
  MaxFaults = 2
INVARIANT NeverDoubleCounts
