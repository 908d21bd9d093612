SPECIFICATION Spec
CONSTANTS
  Type <- WaitsAndStep
  Fallible <- Third
  CanCancel = TRUE
  NSignals = 1
  MaxLives = 2
  MaxStops = 1
INVARIANTS
  OneOutcome
  ReplayedIsUndone
  NotConsumedAgain
CHECK_DEADLOCK FALSE
