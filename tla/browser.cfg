SPECIFICATION Spec
CONSTANTS
  Scanners = {a, b}
  Views = {grid, detail}
  Debounce = 5
  ReconnectPeriod = 2
  ConnectTimeout = 5
  Leaves = TRUE
  MaxLogins = 2
INVARIANTS
  ViewsCounted
  TopicsCover
  IndicatorFollows
PROPERTY NoFlapping
CHECK_DEADLOCK FALSE
