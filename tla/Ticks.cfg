CONSTANTS
  App = app
  Controller = controller
  TicksSWMaxSize = 2
  RefPeriod = 1
  TickCounts = {1, 2}
  SemMax = 2
  MaxTime = 2
  MaxTicks = 2
SPECIFICATION Spec
INVARIANTS
  TypeOK
  ConservedUnlessRaced
  PeriodsOrdered
  WindowCovers
  CoverInv
  ThroughputNotNegative
PROPERTIES
  SleepPaced
CHECK_DEADLOCK FALSE
