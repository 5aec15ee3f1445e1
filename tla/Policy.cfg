CONSTANTS
  None = None
  MaxU256 = 100
  t1 = t1
  t2 = t2
  t3 = t3
  Own = Own
  Other = Other
  Selector = Selector
  Tasks <- MCTasks
  Policies <- MCPolicies
  Requests <- MCRequests
  Restrictions <- MCRestrictions
  Hours <- MCHours
  Chains <- MCChains
  Scale = 2
  MaxTime = 1
SPECIFICATION Spec
SYMMETRY MCSymmetry
CHECK_DEADLOCK FALSE
INVARIANTS
  LoadedPolicyNeverFails
  TokensMatchDecision
  LimitedByOwnRequests
  StricterRulesNeverPermitMore
  WindowsPartitionTheDay
  StaticPolicyAgrees
  DecoderReadsTheEnvelope
