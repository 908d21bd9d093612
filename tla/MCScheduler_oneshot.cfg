SPECIFICATION FairSpec
CONSTANTS
  Workers = {w1, w2}
  Registered = {w1}
  SkipOverlap = TRUE
  NextAfter <- SpecNext
  FirstFireAt <- SpecFirst
  NoTick = NoTick
  Never = NoTick
  Minutes = 2
  Hours = 4
  Days = 7
  MonthDay <- MCMonthDay
  WeekDay <- MCWeekDay
  Gap = 5
  Fold = 14
  Kind = "at"
  Seconds = 2
  At = 1
  Expression <- Night
  Expressions <- MCExpressions
  MaxTime = 4
  MaxClientCalls = 0
  MaxFailures = 2
PROPERTIES
  OneShotFires
CHECK_DEADLOCK FALSE
