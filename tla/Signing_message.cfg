SPECIFICATION Spec
CONSTANTS
  Requests = {r1}
  Wallets = {w1}
  Approvers = {a1}
  NoApproval = NoApproval
  Total = 2
  ShareThreshold = 2
  Quorum = 1
  MaxCrashes = 0
  MaxInflight = 1
INVARIANT CountedApprovalsAreForTheMessage
CHECK_DEADLOCK FALSE
