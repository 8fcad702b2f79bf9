SPECIFICATION Spec
CONSTANTS
  N = 2
  Skipped <- Nobody
  MaxEdits = 0
  Edits <- Nobody
  Commands <- PlainAndResumed
  Budgeted = FALSE
  CacheOn = TRUE
  MayFail = FALSE
INVARIANTS
  ReusedVerdictsAreKept
