SPECIFICATION RunFilesSpec
CHECK_DEADLOCK FALSE
CONSTANTS
  N = 3
  Skipped <- OneSkipped
  MaxEdits = 1
  Edits <- FirstOnly
  Commands <- PlainAndResumed
  Budgeted = TRUE
  CacheOn = TRUE
  MayFail = TRUE
  Discoverable = {1}
  FreshStatuses = {"killed", "survived", "not_covered"}
  MaxRuns = 2
  MaxSourceEdits = 1
  MaxCommands = 2
  FailUnder = 0
  FailOnTimeout = TRUE
  FailOnCompileError = FALSE
  FailOnRegression = TRUE
  FailOnNewSurvivors = TRUE
INVARIANTS
  VerdictsWereObserved
  BaselinesWerePublished
  HistoryKeepsRuns
  ExitTellsOfReport
  BrokenBaselineFailsRun
  AcceptedIsNotLost
PROPERTIES
  RefinesObservedRuns
  StaleResultsRejected
