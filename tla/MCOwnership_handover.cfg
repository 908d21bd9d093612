SPECIFICATION FairSpec
CONSTANTS
  Workers = {w1, w2}
  Nobody = Nobody
  NSteps = 2
  Fallible <- MCFallible
  CanCancel = TRUE
  MaxLapses = 1
  MaxHeartbeatErrors = 1
  MaxCrashes = 1
INVARIANTS
  JournalAgreement
  SoleDriver
PROPERTIES
  OneExecution
  RunEnds
CHECK_DEADLOCK FALSE
