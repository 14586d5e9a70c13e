SPECIFICATION Spec
CONSTANTS
  Objects <- SixObjects
  Top = "top"
  KindOf <- Kinds
  BaseOf <- Bases
  RunStarts = {0, 4}
  Metafiles = {"m"}
  FirstTree <- VolumeTree
  NewNames = {"n"}
  Layouts <- PlainLayout
  MaxTroubles = 0
  VolumeRootRec = 3
  None = None
INVARIANTS
  LoopSafe
CHECK_DEADLOCK FALSE
