SPECIFICATION ServerSpec
CONSTANTS
  Parts = {"catalog"}
  x = x
  r1 = r1
  r2 = r2
  la = la
  lb = lb
  Gone = Gone
  Contents = {x}
  Roots = {r1, r2, r3}
  Libraries = {la}
  Locations = {1, 2}
  Paths = {1}
  FirstDisk <- MCCopies
  FirstLocations <- MCOneLocation
  MassRemovalMinimum = 1
  MassRemovalPercent = 60
  MaxChanges = 6
  MaxScans = 2
  Anchors = {1, 2, 3}
  LastAnchor = 3
  Audience = {a1}
  Labels = {0, 1}
  Coordinates <- MCCoordinates
  RankOf <- MCRank
  BitrateOf <- MCBitrate
  AllowedTo <- MCAllowed
  Devices <- MCDevices
  MaxVersionEdits = 2
  MaxVersionPlans = 1
  ProviderIds = {i1, i2}
  NoId = NoId
  MaxArtworks = 5
  MaxArtSteps = 3
CHECK_DEADLOCK FALSE
PROPERTY
  UnreadSourcesKept
