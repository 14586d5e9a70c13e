SPECIFICATION Spec
CONSTANTS
  Objects <- SixObjects
  Top = "top"
  KindOf <- Kinds
  BaseOf <- Bases
  RunStarts = {0, 3}
  Metafiles = {"m"}
  FirstTree <- SmallTree
  NewNames = {"n"}
  Layouts <- SomeLayouts
  MaxTroubles = 1
  VolumeRootRec = 9
  None = None
INVARIANTS
  SuccessIsComplete
  NothingInvented
  FailsOnlyWithWin32
CHECK_DEADLOCK FALSE
