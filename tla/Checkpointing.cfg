CONSTANTS
  Paths = {a, b, c}
  Modes = {content, size}
  None = None
  MaxRuns = 2
  MaxFaults = 2
SPECIFICATION Spec
SYMMETRY PathSymmetry
INVARIANTS
  CheckpointSurvives
  NoRowLost
  NoDuplicateRows
  CompletedIsWhole
  ReportedSaveIsOnDisk
CHECK_DEADLOCK FALSE
