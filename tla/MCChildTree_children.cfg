SPECIFICATION FairSpec
CONSTANTS
  Workers <- MCWorkers
  Nobody = "nobody"
  MaxFaults = 1
  MaxCancels = 1
INVARIANTS
  OutcomeIsTheChilds
  NoOrphans
  OneTrace
PROPERTIES
  TreeEnds
CHECK_DEADLOCK FALSE
