SPECIFICATION FairSpec
CONSTANTS
  Requests = {r1}
  Approvers = {a1, a2}
  ApprovalIds = {p1, p2}
  NoApproval = NoApproval
  Tasks = {t1, t2}
  Threshold = 2
  Timeout = 2
  Backoff = 1
  MaxTime = 3
INVARIANTS CollectedQuorum AnswersStayTrue TimeoutIsHonest
PROPERTIES StoreIsLedger CollectorReturns 
CHECK_DEADLOCK FALSE
