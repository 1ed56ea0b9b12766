CONSTANTS
  t1 = t1
  t2 = t2
  t3 = t3
  ordA = ordA
  ordB = ordB
  donA = donA
  k1 = k1
  k2 = k2
  Nobody = Nobody
  Txns <- MCTxns
  Series <- MCSeries
  Locks <- MCLocks
  LockOf <- MCLockOf
  MaxRows = 2
SPECIFICATION FairSpec
INVARIANTS
  GapFree
PROPERTIES
  ImplementsCounter
  HandlersEnd
CHECK_DEADLOCK FALSE
