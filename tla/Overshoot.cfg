CONSTANTS
  App = app
  Controller = controller
  TicksSWMaxSize = 2
  RefPeriod = 1
  TickCounts = {1, 2}
  SemMax = 2
  MaxTime = 2
  MaxTicks = 2
SPECIFICATION Spec
PROPERTIES
  NoOvershoot
CHECK_DEADLOCK FALSE
