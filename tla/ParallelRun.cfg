SPECIFICATION FairSpec
CONSTANTS
  w1 = w1
  w2 = w2
  N = 4
  Workers <- TwoWorkers
  Quarantined <- OneQuarantined
  Suppressed <- OneSuppressed
  Uncovered <- OneUncovered
  CacheMode = "incremental"
  Budgeted = TRUE
  CallerMayCancel = TRUE
INVARIANTS
  NoMutantRunTwice
  SuccessIsComplete
  PendingIsSuffix
  CheckpointIsComplete
PROPERTIES
  VerdictsAreFinal
  ErrorFailsTheRun
  RefinesMutationRun
