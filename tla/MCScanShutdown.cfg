SPECIFICATION ScanJobsSpec
CONSTANTS
  ScanLibraries = {l1}
  MaxScanJobs = 1
  MaxScanAttempts = 2
  ScanHistory = 1
  ScanCancellers = {}
  MaxScanRestarts = 0
  NoIntent = NoIntent
CHECK_DEADLOCK FALSE
PROPERTY
  RunnerDrains
