SPECIFICATION ProfilesSpec
CONSTANTS
  Titles = {t1, t2}
  Players = {p1, p2}
  NumberedPlayers = {p1}
  Nobody = Nobody
  MaxSent = 2
  MaxGeneration = 3
  HouseProfiles = {p1}
  Secrets = {x1, x2}
  NoSecret = NoSecret
  Guests = {g1, g2}
  MaxGuesses = 2
  HashSlots = 1
  MaxHouseChanges = 2
  MaxHouseRestarts = 1
CHECK_DEADLOCK FALSE
INVARIANTS
  ViewingInv
  ViewerWritesKept
  HouseInv
  SessionsCurrent
PROPERTIES
  ProgressRefines
  LockHolds
