SPECIFICATION FairSpec
CONSTANTS
  Conns <- MCConns
  Limit = 1
  QueueSize = 1
  Slow = 2
  MaxEvents = 2
PROPERTIES
  CatchesUp
  StreamIsTold
CHECK_DEADLOCK FALSE
