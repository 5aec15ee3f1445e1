SPECIFICATION Spec
CONSTANTS
  refilling = refilling
  fixed = fixed
  Keys <- MCKeys
  Capacity <- MCCapacity
  Refill <- MCRefill
  Tasks = {t1, t2}
  MaxTime = 5
SYMMETRY Symmetry
INVARIANTS BudgetUpToSkew NeverStarved
CHECK_DEADLOCK FALSE
