SPECIFICATION Spec
CONSTANTS
  Requests = {r1, r2}
  Viewers = {v1}
  Catalogs = {c1}
  Plans = {p1}
  Direct = Direct
  None = None
  MaxGenerations = 1
  MaxPendingHandoffs = 2
  MaxHandoffsPerViewer = 1
  MaxResolvedHandoffs = 1
  LeaseTTL = 2
  DirectTTL = 3
  ManifestWait = 1
  MaxTime = 0
  Ops = {"plan", "direct", "seek", "handoff", "stop", "catalog", "cancel", "fail", "viewer", "exit", "subtitle", "sweep", "budget"}
SYMMETRY Symmetry
CHECK_DEADLOCK FALSE
INVARIANTS
  TypeOK
  CreatesAccounted
  RevokedCreateFails
  ResourcesOwned
