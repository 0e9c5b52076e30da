SPECIFICATION Spec
CONSTANTS
  Requests = {r1, r2, r3}
  Viewers = {v1}
  Catalogs = {c1}
  Plans = {p1}
  Direct = Direct
  None = None
  MaxGenerations = 1
  MaxPendingHandoffs = 2
  MaxHandoffsPerViewer = 1
  MaxResolvedHandoffs = 1
  LeaseTTL = 2
  DirectTTL = 3
  ManifestWait = 1
  MaxTime = 0
  Ops = {"plan", "seek", "replace", "handoff", "owner", "cancel", "fail"}
SYMMETRY Symmetry
CHECK_DEADLOCK FALSE
INVARIANTS
  LeaseConsistency
  CapacityBound
  ReplacementsAccounted
  ControlsReturn
