CONSTANTS
  Readings = {cool, hot}
  PublishEvery = 3
  OpenEvery = 2
  Nothing = Nothing
SPECIFICATION ShareSpec
INVARIANT FreshIsCurrent
PROPERTY SeenThroughService
PROPERTY SeenDirectly
PROPERTY ServiceReopens
