SPECIFICATION Spec
CONSTANTS
  Mib = 1
  FullReadThreshold = 1
  Datas <- TwoSizes
  Levels <- HalfLevel
  FreshTimes = TRUE
  MaxWrites = 2
  MaxRuns = 2
INVARIANTS
  VerdictIsTrue
CHECK_DEADLOCK FALSE
