SPECIFICATION Spec
CONSTANTS
  MaxEvents = 5
  MaxCrashes = 2
INVARIANT EveryEventIsChained
CHECK_DEADLOCK FALSE
