SPECIFICATION WhitelistSpec
CONSTANTS
  h1 = h1
  h2 = h2
  t1 = t1
  t2 = t2
  t3 = t3
  Own = Own
  Host <- TwoHosts
  Tx <- ThreeTx
SYMMETRY Symmetry
INVARIANTS AttachedByConsent NeverStranded
