SPECIFICATION FairSpec
CONSTANTS
  Requests = {r1, r2}
  Viewers = {v1}
  Catalogs = {c1}
  Plans = {p1}
  Direct = Direct
  None = None
  MaxGenerations = 1
  MaxPendingHandoffs = 2
  MaxHandoffsPerViewer = 1
  MaxResolvedHandoffs = 1
  LeaseTTL = 1
  DirectTTL = 1
  ManifestWait = 1
  MaxTime = 2
  Ops = {"plan", "handoff", "touch", "sweep"}
CHECK_DEADLOCK FALSE
PROPERTIES
  JanitorSparesLive
  AbandonedReclaimed
  HandoffsEnd
