SPECIFICATION FairSpec
CONSTANTS
  WaitsForMemory = TRUE
  Watches = TRUE
  TreeLimit = TRUE
  Windows = TRUE
  MaxFailures = 2
INVARIANTS
  ExitCodeTellsWhy
  NothingLeftRunning
  LogIsOfThisCommand
PROPERTIES
  RunReturns
