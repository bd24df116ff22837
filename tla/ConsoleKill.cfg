CONSTANTS
  NumChannels = 2
  QUEUE_CAP = 4
  OnLevels = {1, 3}
  Modes = {white}
  WhiteNoise = white
  NoRequest = NoRequest
  RetryTicks = 2
  MaxClicks = 2
  MaxPlugs = 1
SPECIFICATION MCSpec
INVARIANT TrippedEndsOff
