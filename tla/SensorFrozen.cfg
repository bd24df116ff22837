CONSTANTS
  Readings = {cool, hot}
  PublishEvery = 3
  OpenEvery = 2
  Nothing = Nothing
SPECIFICATION ShareSpec
PROPERTY NothingFrozen
