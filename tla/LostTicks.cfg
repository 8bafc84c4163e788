CONSTANTS
  App = app
  Controller = controller
  TicksSWMaxSize = 2
  RefPeriod = 1
  TickCounts = {1}
  SemMax = 2
  MaxTime = 2
  MaxTicks = 2
SPECIFICATION Spec
INVARIANTS
  TicksConserved
CHECK_DEADLOCK FALSE
