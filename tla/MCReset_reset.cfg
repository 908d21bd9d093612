SPECIFICATION FairSpec
CONSTANTS
  Workers <- MCWorkers
  Nobody = "nobody"
  Ghost = "ghost"
  MaxResets = 2
  MaxFaults = 2
INVARIANTS
  JournalOfOneRun
  AccountsAgree
  NoLeaseLeftBehind
PROPERTIES
  EndsUnlessTorn
CHECK_DEADLOCK FALSE
