SPECIFICATION Spec
CONSTANTS
  Mib = 1
  FullReadThreshold = 2
  Datas <- TwoFiles
  Levels <- MixedLevels
  FreshTimes = TRUE
  MaxWrites = 2
  MaxRuns = 2
INVARIANTS
  VerdictIsTrue
  CacheHitIsSound
  ChangedMeansChanged
CHECK_DEADLOCK FALSE
