SPECIFICATION FairSpec
CONSTANTS
  NOps = 6
  OpType <- EngineType
  Compensable <- Third
  Timed <- Second
  Caught <- Second
  Raises = FALSE
  MaxAttempts = 2
  MaxSignals = 1
  MaxCrashes = 1
  MaxStoreErrors = 1
  MaxStaleStarts = 1
INVARIANTS
  IInv
  AttemptBudget
  FinishedNeverReruns
  UndoneInReverse
  CancelledOnlyIfAsked
PROPERTIES
  SagaComplete
  CompletedIsFinal
  CancelEnds
  RunEnds
CHECK_DEADLOCK FALSE
