SPECIFICATION MCSpec
CONSTANTS
  PIDs <- MCPIDs
  Contents <- MCContents
  Content = "a"
  MaxSeen = 5
INVARIANTS TypeOK BeforeIsLastSeen CountsExact MarkedIsLastPrinted
CHECK_DEADLOCK FALSE
