SPECIFICATION Spec
CONSTANTS
  Workers = {w1}
  Registered = {w1}
  SkipOverlap = TRUE
  NextAfter <- SpecNext
  FirstFireAt <- SpecFirst
  NoTick = NoTick
  Never = NoTick
  Minutes = 2
  Hours = 4
  Days = 7
  MonthDay <- MCMonthDay
  WeekDay <- MCWeekDay
  Gap = 5
  Fold = 14
  Kind = "cron"
  Seconds = 2
  At = 1
  Expression <- Night
  Expressions <- MCExpressions
  MaxTime = 14
  MaxClientCalls = 0
  MaxFailures = 2
INVARIANTS
  SkipPreventsOverlap
  CronFindsNext
CHECK_DEADLOCK FALSE
