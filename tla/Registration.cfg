CONSTANTS
  p1 = p1
  p2 = p2
  NoPid = NoPid
  MainGroup = MainGroup
  MayStay = {p1, p2, c1, MainGroup}
  Pids = {p1, p2}
  Controllers = {c1}
  Cores = {0, 1}
  MaxApps = 2
  RunOrder <- SafeOrder
  GrepHits <- GrepSelf
  Interruptible = FALSE
  MaxSpawns = 2
SPECIFICATION Spec
SYMMETRY Symmetry
INVARIANTS
  TypeOK
  NoLostAttach
  NoDoubleRegistration
  CoreConservation
  RegisteredHaveGroup
  RegisteredHaveData
  DetachedAreRegistered
PROPERTIES
  KillOnlyDetached
  InOrder
CHECK_DEADLOCK FALSE
