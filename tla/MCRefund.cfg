CONSTANTS
  n1 = n1
  n2 = n2
  n3 = n3
  lock = lock
  Manager = {n1, n2, n3}
  Lock = {lock}
  Home <- MCHome
  Away <- MCAway
  Expiry = 1
  LastShardStep = 3
SPECIFICATION CSSpec
INVARIANT
  RefundedOnlyIfUnconsumed
CHECK_DEADLOCK FALSE
