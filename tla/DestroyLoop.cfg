CONSTANTS
  p1 = p1
  p2 = p2
  NoPid = NoPid
  MainGroup = MainGroup
  MayStay = {p1, p2, c1, MainGroup}
  Pids = {p1, p2}
  Controllers = {c1}
  Cores = {0}
  MaxApps = 1
  RunOrder <- SafeOrder
  GrepHits <- GrepSelf
  Interruptible = FALSE
  MaxSpawns = 1
SPECIFICATION Spec
SYMMETRY Symmetry
PROPERTIES
  RegisterDestroyReturns
CHECK_DEADLOCK FALSE
