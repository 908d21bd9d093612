SPECIFICATION Spec
CONSTANTS
  NOps = 2
  OpType <- TimerType
  Compensable <- First
  Timed <- Nothing
  Caught <- Nothing
  Raises = FALSE
  MaxAttempts = 1
  MaxSignals = 0
  MaxCrashes = 1
  MaxStoreErrors = 0
  MaxStaleStarts = 0
INVARIANT RolledBackNeverCompletes
CHECK_DEADLOCK FALSE
