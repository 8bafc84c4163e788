CONSTANTS
  p1 = p1
  p2 = p2
  NoPid = NoPid
  MainGroup = MainGroup
  MayStay = {c1}
  Pids = {p1, p2}
  Controllers = {c1, c2}
  Cores = {0}
  MaxApps = 1
  RunOrder <- DeclaredOrder
  GrepHits <- GrepSelf
  Interruptible = FALSE
  MaxSpawns = 1
SPECIFICATION Spec
SYMMETRY Symmetry
PROPERTIES
  ImplementsRegistry
INVARIANTS
  MutualExclusion
  LockInv
  QueueBounded
  RoomForWriters
  CleanShutdown
CHECK_DEADLOCK FALSE
