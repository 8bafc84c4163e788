CONSTANTS
  p1 = p1
  p2 = p2
  NoPid = NoPid
  MainGroup = MainGroup
  MayStay = {p1, p2, c1, MainGroup}
  Pids = {p1, p2}
  Controllers = {c1}
  Cores = {0}
  MaxApps = 2
  RunOrder <- SafeOrder
  GrepHits <- GrepSelf
  Interruptible = TRUE
  MaxSpawns = 1
SPECIFICATION Spec
SYMMETRY Symmetry
INVARIANTS
  MutualExclusion
CHECK_DEADLOCK FALSE
