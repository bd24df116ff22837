CONSTANTS
  MaxCalls = 4
  NumChannels = 2
  QUEUE_CAP = 2
  OnLevels = {1, 3}
  Modes = {white}
  WhiteNoise = white
  NoRequest = NoRequest
SPECIFICATION MCSpec
INVARIANT TypeOK
INVARIANT MemoMatchesPipeline
INVARIANT NoRepeatedCommand
INVARIANT RadioFollowsChannel
INVARIANT SavedIsShownOrUnderWay
PROPERTY QueueIsFifo
PROPERTY OffTakesEffect
