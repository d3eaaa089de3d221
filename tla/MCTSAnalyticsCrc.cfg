SPECIFICATION Spec
CONSTANTS
  PIDs <- MCPIDs
  Contents <- MCContents
  Files <- TimeFiles
  MaxWide = 0
  MaxRuns = 0
  MaxTimes = 2
  Tails = {0}
  SyncLimit = 1
  Percent = 3
  MAX_COUNT = 100
  LIST_LIMIT = 100
  MAX_PRINTED = 2
  Loop <- MCLoop
PROPERTY TimesPassedTheirCrc
CHECK_DEADLOCK FALSE
