SPECIFICATION ServerSpec
CONSTANTS
  Parts = {"catalog", "versions", "artwork"}
  x = x
  r1 = r1
  r2 = r2
  la = la
  lb = lb
  Gone = Gone
  Contents = {x, y}
  Roots = {r1, r2, r3}
  Libraries = {la, lb}
  Locations = {1, 2, 3}
  Paths = {1, 2}
  FirstDisk <- MCDisk
  FirstLocations <- MCLocations
  MassRemovalMinimum = 1
  MassRemovalPercent = 60
  MaxChanges = 4
  MaxScans = 2
  Anchors = {1, 2, 3}
  LastAnchor = 3
  Audience = {a1}
  Labels = {0, 1}
  Coordinates <- MCCoordinates
  RankOf <- MCRank
  BitrateOf <- MCBitrate
  AllowedTo <- MCAllowed
  Devices <- MCDevices
  MaxVersionEdits = 2
  MaxVersionPlans = 2
  ProviderIds = {i1, i2}
  NoId = NoId
  MaxArtworks = 5
  MaxArtSteps = 3
CHECK_DEADLOCK FALSE
INVARIANTS
  CatalogInv
  ReviewExact
  VersionsInv
  AutoIsBest
  ArtworkInv
PROPERTIES
  ProtectedSourcesKept
  OwnerConfirms
