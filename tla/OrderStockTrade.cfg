CONSTANTS
  t1 = t1
  t2 = t2
  t3 = t3
  t4 = t4
  pa = pa
  pb = pb
  va = va
  Null = Null
  Nobody = Nobody
  Number = Number
  Txns <- Txns4
  Products <- MCProducts
  Variants <- MCVariants
  ParentOf <- MCParentOf
  InitStock <- MCStock
  InitTracked <- MCProducts
  Requests <- TradeRequests
SPECIFICATION Spec
SYMMETRY Symmetry4
INVARIANTS
  RestoredAtMostOnce
  StockReconciles
  TillNeverDeadlocks
PROPERTIES
  Serializable
