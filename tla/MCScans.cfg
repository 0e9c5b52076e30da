SPECIFICATION ScanJobsSpec
CONSTANTS
  ScanLibraries = {l1}
  MaxScanJobs = 2
  MaxScanAttempts = 2
  ScanHistory = 1
  ScanCancellers = {c1}
  MaxScanRestarts = 1
  NoIntent = NoIntent
CHECK_DEADLOCK FALSE
INVARIANTS
  ScanJobsInv
  OutcomesTrue
PROPERTIES
  QueuedJobsEnd
