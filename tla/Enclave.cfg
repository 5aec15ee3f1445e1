CONSTANTS
  None = None
  Missing = None
  FutureSkew = 1
  w1 = w1
  r1 = r1
  r2 = r2
  m1 = m1
  Own = Own
  MaxU256 = 100
  KeyLen = 1
  Base = 3
  ChunkDigits = 2
  Prime = 11
  TicksPerSecond = 2
  MaxDecisionAge = 1
  MaxApprovalAge = 0
  MaxApprovals = 64
  Wallets <- MCWallets
  Requests <- MCRequests
  Configs <- MCConfigs
  Seeds <- MCSeeds
  Coefficients <- MCCoefficients
  Decisions <- MCDecisions
  Asks <- MCAsks
  MaxAges <- MCMaxAges
  Altered <- MCAltered
  PolicyKey <- PolicySecret
  MaxTime = 4
  MaxIssued = 1
  MaxApproved = 2
  MaxCalls = 1
SYMMETRY MCSymmetry
SPECIFICATION Spec
CHECK_DEADLOCK FALSE
INVARIANTS
  
  
  SignedWithTheWalletsKey
  ListedSharesAreReadable
  BackendsAgree
  
  
