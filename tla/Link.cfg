CONSTANTS
  Units = {2, 13}
  MaxCuts = 1
  Requests <- SomeCommands
  QUEUE_CAP = 2
  NoRequest = NoRequest
  PARSE_BUF_SIZE = 24
SPECIFICATION MCSpec
INVARIANT LineIsLossless
INVARIANT NothingForged
INVARIANT RecoversSoon
PROPERTY RingIsFifo
