SPECIFICATION Spec
CONSTANTS
  N = 2
  Skipped <- Nobody
  MaxEdits = 0
  Edits <- Nobody
  Commands <- Resumed
  Budgeted = FALSE
  CacheOn = FALSE
  MayFail = FALSE
INVARIANTS
  ReportKeepsObserved
