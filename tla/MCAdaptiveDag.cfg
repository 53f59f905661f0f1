CONSTANTS
  Keep = 50
  EndStep = 120
SPECIFICATION ADSpec
INVARIANT
  PredictsFromParent
CHECK_DEADLOCK FALSE
