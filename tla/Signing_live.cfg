SPECIFICATION FairSpec
CONSTANTS
  Requests = {r1}
  Wallets = {w1}
  Approvers = {a1}
  NoApproval = NoApproval
  Total = 2
  ShareThreshold = 2
  Quorum = 1
  MaxCrashes = 1
  MaxInflight = 1
PROPERTIES SignReturns
CHECK_DEADLOCK FALSE
