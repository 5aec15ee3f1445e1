SPECIFICATION Spec
CONSTANTS
  Requests = {r1}
  Wallets = {w1}
  Approvers = {a1, a2}
  NoApproval = NoApproval
  Total = 3
  ShareThreshold = 2
  Quorum = 2
  MaxCrashes = 1
  MaxInflight = 1
SYMMETRY Symmetry
INVARIANTS TypeOK SignedOnlyIfAuthorised SignatureIsExplained  LiveWalletHasShares
PROPERTIES TrailIsOrdered
CHECK_DEADLOCK FALSE
