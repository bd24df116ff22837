CONSTANTS
  NumChannels = 1
  QUEUE_CAP = 3
  OnLevels = {1}
  Modes = {white}
  WhiteNoise = white
  NoRequest = NoRequest
  RetryTicks = 2
  SECOND = 2
  LABEL_TICKS = 2
  Stale = Stale
  MaxClicks = 2
  MaxPlugs = 1
  MaxHot = 1
  MaxTime = 9
SPECIFICATION MCSpec
CHECK_DEADLOCK FALSE
PROPERTY CardsCurrent
PROPERTY LogMatchesSettles
PROPERTY UptimeIsHonest
