SPECIFICATION Spec
CONSTANTS
  Kind <- FourJobs
  Disabled <- SecondSmoke
  Resuming <- OnlyBenchmark
  RepoOf <- TwoTools
  MaxEdits = 1
  MaxMissing = 2
INVARIANTS
  ResumedJobsAreCurrent
  RowsAreRecordedOnce
  DoneIsRecorded
PROPERTIES
  ResumedComparisonsKeepRows
