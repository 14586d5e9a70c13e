SPECIFICATION Spec
CONSTANTS
  Paths <- ThreePaths
  Above <- ThreeAbove
  SizeOf <- DataSizes
  Respelt <- UnlikeCase
  None = None
  Datas = {"y"}
  Targets = {"t"}
  Trees <- OneTree
  Modes = {"Content"}
  Kinds = {"live", "offline", "capture", "captureOnly"}
  MaxChanges = 2
  MaxRuns = 2
INVARIANTS
  ResumeEqualsFresh
  OfflineIsFaithful
PROPERTIES
  NothingForgotten
CHECK_DEADLOCK FALSE
