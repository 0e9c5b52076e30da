SPECIFICATION RestoreSpec
CONSTANTS
  MaxRuns = 3
  IOErrors = FALSE
CHECK_DEADLOCK FALSE
INVARIANT RerunRecovers
