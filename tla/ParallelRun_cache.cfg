SPECIFICATION Spec
CONSTANTS
  w1 = w1
  w2 = w2
  N = 3
  Workers <- TwoWorkers
  Quarantined <- Nobody
  Suppressed <- Nobody
  Uncovered <- Nobody
  CacheMode = "incremental"
  Budgeted = FALSE
  CallerMayCancel = FALSE
INVARIANTS
  CacheHoldsEndedTests
