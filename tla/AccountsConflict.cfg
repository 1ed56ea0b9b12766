CONSTANTS
  t1 = t1
  t2 = t2
  t3 = t3
  ann = ann
  bob = bob
  cat = cat
  dan = dan
  root = root
  acme = acme
  bistro = bistro
  corner = corner
  ea = ea
  eb = eb
  ec = ec
  er = er
  pd1 = pd1
  None = None
  Txns <- MCTxns
  Subs <- MCSubs
  Emails <- MCEmails
  TokenEmail <- MCTokenEmail
  Tenants <- MCTenants
  MaxMembers = 8
  Requests <- AllRequests
  InitUsers <- MCInitUsers
  InitTenants <- MCInitTenants
  InitMembers <- MCInitMembers
  Deactivated = {}
  PlatformAdmins = {root}
  FlushesBeforeText = FALSE
SPECIFICATION Spec
SYMMETRY Symmetry3
INVARIANT ConflictIsReal
