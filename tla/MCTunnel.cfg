SPECIFICATION Spec
CONSTANTS
  ConnectTimeout = 1
  TransferTimeouts = {0, 2}
  MaxBytes = 3
  BufSize = 2
INVARIANTS OkMeansComplete LifeIsBounded
PROPERTY ConnectionEnds
CHECK_DEADLOCK FALSE
