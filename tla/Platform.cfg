CONSTANTS
  Apps = {p1, p2}
  Self = self
  Main = main
  NumberOfCores = 1
  Quotas = {1, 300}
  NotTold = NotTold
  GrepHits <- GrepSelf
  Domains = {"d1", "d2"}
  DomainOf <- TwoDomains
  Jitter <- OneOff
  nCores = 3
  Counting = {1, 2}
  Switching = {1, 2}
  LongAt = 6
  MaxTicks = 2
  SensorNames = {"SocW", "CpuW"}
  Values = {2, 5}
  Noise = 5
  MaxSamples = 2
SPECIFICATION Spec
INVARIANTS
  TypeOK
  InForceUnlessRefused
  CpusTogether
  NextIsLeastAbove
  OrderAccepted
PROPERTIES
  RaiseNeverLowers
  PinnedOrFree
  LoadOfEach
  AverageOfRecent
CHECK_DEADLOCK FALSE
