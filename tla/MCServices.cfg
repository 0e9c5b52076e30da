SPECIFICATION ServicesSpec
CONSTANTS
  MaxBackups = 2
  Destinations = {d1, d2}
  RetainCount = 2
  BudgetBytes = 3
  BackupCancellers = {c1}
  MaxBackupRestarts = 1
  ScreenIds = {s1}
  Tokens = {t1}
  Controllers = {k1, k2}
  Profiles = {p1}
  Undrawn = Undrawn
  MaxScreens = 1
  MaxAuthorities = 2
  ChannelCap = 1
  ScreenTTL = 1
  MaxScreenTime = 1
  MaxRuns = 3
  IOErrors = TRUE
CHECK_DEADLOCK FALSE
INVARIANTS
  BackupInv
  NewestArchiveKept
  ScreensInv
  ReportedIsShown
  PriorKept
  SettledWhole
  RestoredIsTarget
PROPERTIES
  BackupsEnd
  SocketsEnd
