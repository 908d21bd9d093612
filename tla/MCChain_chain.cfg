SPECIFICATION FairSpec
CONSTANTS
  Workers <- MCWorkers
  NLinks = 3
  Keep = 1
  Nobody = "nobody"
  MaxFaults = 1
INVARIANTS
  KeepsNewest
  TagsCarried
PROPERTIES
  IsOneComputation
  ResultReturns
CHECK_DEADLOCK FALSE
