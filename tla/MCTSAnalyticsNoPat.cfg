SPECIFICATION Spec
CONSTANTS
  PIDs <- MCPIDs
  Contents <- MCContents
  Files <- WideFiles
  MaxWide = 2
  MaxRuns = 2
  MaxTimes = 0
  Tails = {0}
  SyncLimit = 1
  Percent = 3
  MAX_COUNT = 100
  LIST_LIMIT = 100
  MAX_PRINTED = 2
  Loop <- MCLoop
INVARIANT ReportedIdWasRead
CHECK_DEADLOCK FALSE
