SPECIFICATION MCSpec
CONSTANTS
  a1 = a1
  n1 = n1
  n2 = n2
  w1 = w1
  w2 = w2
  NoWallet = NoWallet
  Requests = {r1, r2}
  Approvers = {a1, n1, n2}
  ApprovalIds = {p1, p2}
  NoApproval = NoApproval
  Calls = {c1, c2}
  Submissions = {t1, t2}
  NestedOf <- MCNestedOf
  Thresholds = {0, 1, 2}
  MaxMembers = 2
  MAX_NESTING_DEPTH = 3
  MAX_APPROVAL_AGE = 1
  Ages <- MCAges
  HashLen = 3
  DefaultLimit = 2
  LimitCap = 3
SYMMETRY ServiceSymmetry
INVARIANTS RevocationIsRespected   
 
CHECK_DEADLOCK FALSE
