CONSTANTS
  a1 = a1
  a2 = a2
  v1 = v1
  ann = ann
  vis = vis
  Nobody = Nobody
  Chats <- MCChats
  Users <- MCUsers
  UserOf <- MCUserOf
  Estimate <- MCEstimate
  Usages <- MCUsages
  RateLimit <- MCRateLimit
  HardLimit = 6
  LastMonth = 2
SPECIFICATION Spec
SYMMETRY ChatSymmetry
INVARIANTS
  HardLimitHolds
  FailedCallsFree
  ConversationIsOwn
