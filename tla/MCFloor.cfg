CONSTANTS
  Bootstrap = 1
  Extension = 1
  MinSteps = 2
  FloorGrace = 2
  Violations = 2
  LastUpdateStep = 4
SPECIFICATION RepSpec
INVARIANT
  FloorTakesMinSteps
CHECK_DEADLOCK FALSE
