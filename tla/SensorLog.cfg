CONSTANTS
  WEEK = 2
  ROW_TICKS = 2
  HALF = 2
  TIME_MOD = 32
  MaxTime = 4
  MaxMishaps = 1
  Never = Never
SPECIFICATION MCSpec
INVARIANT StatusIsTrue
PROPERTY LogIsAWeekDeep
PROPERTY EmptiedWeekly
PROPERTY SomebodyLogs
PROPERTY StopIsObeyed
