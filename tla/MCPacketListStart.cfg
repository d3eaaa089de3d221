SPECIFICATION MCSpec
CONSTANTS
  PIDs <- MCPIDs
  Contents <- MCContents
  Content = "a"
  MaxOffered = 4
INVARIANT StartGivenUpIsNotRead
