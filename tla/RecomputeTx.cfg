SPECIFICATION TxSpec
CONSTANTS
  a1 = a1
  a2 = a2
  t1 = t1
  t2 = t2
  Addr <- TwoAddr
  Tx <- TwoTx
  MaxRev = 4
  MaxGap = 3
  MaxBegun = 3
  Rollbacks = TRUE
 
PROPERTY ImplementsLog
