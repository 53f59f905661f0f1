CONSTANTS
  LastStep = 6
  FlushInterval = 2
  MaxLines = 3
  MaxChanges = 3
SPECIFICATION ProcessSpec
INVARIANT
  FlushedInTime
CHECK_DEADLOCK FALSE
