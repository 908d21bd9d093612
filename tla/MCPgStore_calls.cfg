SPECIFICATION Spec
CONSTANTS
  Workers <- MCWorkers
  Call <- MCCall
  Keys <- MCKeys
  Numbers <- MCNumbers
  Nobody = "nobody"
  MaxLosses = 1
INVARIANTS
  TagsKept
  SignalsKept
PROPERTIES
  Atomically
  CallsAnswered
CHECK_DEADLOCK FALSE
