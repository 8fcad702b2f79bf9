SPECIFICATION OutcomeSpec
CONSTANTS
  MaxLogs = 2
  Kept <- AllLines
  LimitsOn = FALSE
  Windows = FALSE
  MayCancel = FALSE
INVARIANT BuildFailureIsCompileError
