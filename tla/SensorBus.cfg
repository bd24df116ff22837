CONSTANTS
  SENSOR_MAX_UNITS = 2
  LINE_CAP = 4
  Nothing = Nothing
SPECIFICATION Spec
INVARIANT OwnReadingsInStep
INVARIANT OnlyVouchedFor
PROPERTY EveryUnitAsked
PROPERTY DeadPortNoticed
