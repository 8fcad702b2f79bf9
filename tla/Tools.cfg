SPECIFICATION Spec
CHECK_DEADLOCK FALSE
CONSTANTS
  Systems = {"release", "upgrade", "wave", "comparison", "pool", "outcome", "selection", "mutators", "tree"}
  MaxLogs = 4
  Kept = 7
  LimitsOn = TRUE
  Windows = TRUE
  MayCancel = TRUE
  Tree <- SmallTree
  Modules <- TopModule
  RunConfigs <- SelectionConfigs
  QuarantineFile <- TwoQuarantined
  Rules <- TwoRules
  MaxTime = 2
  SourceFiles <- MutatedFiles
  Workers = {1, 2}
  Configs <- TreeConfigs
  Covers <- TreeCovers
  MaxRuns = 1
  MaxEdits = 1
  Corpus <- TwoEntries
  Asked = {}
  Limit = 0
  Refs = {"none", "v1"}
  FirstRef <- PinnedRef
  Reports <- OneReport
  FailedReports <- OneFailedReport
  Thresholds <- FirstMeasured
  Seconds = {1}
  MaxSessions = 2
  MaxCorpusEdits = 1
  Tools <- TwoTools
  Targets = {"./...", "./pkg"}
  Modes <- ThreeModes
  Counts <- TwoCounts
  MaxComparisons = 2
  ReleaseTargets = {"linux", "windows"}
  Smoked = "linux"
  MaxAttempts = 2
  Repos = {"r1", "r2"}
  Mutants <- ThreeMutants
  Group <- OneGroup
  NoGroup = "none"
  WaveReports <- TwoReports
  Kinds = {"runner_error", "config_error"}
  GoVersions = {0, 3}
  ActionMin = 2
INVARIANTS
  PublishedSetIsOneBuild
  UploadedTreesAreSound
  VerifiedUpgradeReadOldRelease
  SummaryCountsWhatRan
  CleanResultsAreOfWholeReports
  FullRowsAreFresh
  StudiesAreFair
  PassesAreEarned
  SmokeTellsOwnRuns
  VerdictsTellWhatHappened
  ShardsPartition
  ExcusesAreAccountable
  EquivalentTagsChangeNothing
  StrongerProfilesKeepMutants
  HitsAreOfKeyedTree
  WorkdirsAreRemoved
