SPECIFICATION Spec
CONSTANTS
  Kind <- Comparison
  Disabled <- Nobody
  Resuming <- Nobody
  RepoOf <- OneRow
  MaxEdits = 1
  MaxMissing = 1
INVARIANTS
  RedefinedJobsAreExecuted
