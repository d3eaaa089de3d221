SPECIFICATION Spec
CONSTANTS
  PIDs <- MCPIDs
  Contents <- MCContents
  Files <- WideFiles
  MaxWide = 3
  MaxRuns = 6
  MaxTimes = 0
  Tails = {0, 5}
  SyncLimit = 1
  Percent = 3
  MAX_COUNT = 100
  LIST_LIMIT = 100
  MAX_PRINTED = 2
  Loop <- MCLoop
INVARIANTS TypeOK NotTSExact EveryPacketOnce HashCoversFile DropListsAreJson ProgramsAreOfPat
PROPERTIES FirstPatStays ImplementsAnalysis AnalysisEnds
CHECK_DEADLOCK FALSE
