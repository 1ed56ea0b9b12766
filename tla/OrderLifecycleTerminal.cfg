CONSTANTS
  t1 = t1
  t2 = t2
  t3 = t3
  web = web
  pos = pos
  don = don
  plg = plg
  Nobody = Nobody
  Txns <- MCTxns
  Entities <- MCEntities
  KindOf <- MCKindOf
  Requests <- CancelRaceRequests
SPECIFICATION Spec
PROPERTY TerminalIsFinal
