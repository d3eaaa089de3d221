SPECIFICATION MCSpec
CONSTANTS
  PIDs <- MCPIDs
  Contents <- MCContents
  Content = "a"
  MaxSeen = 5
INVARIANT TotalIsPacketCount
CHECK_DEADLOCK FALSE
