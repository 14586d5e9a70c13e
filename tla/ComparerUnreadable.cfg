CONSTANTS
  Empty = Empty
  Root = Root
  Keys <- TreeKeys
  Entries <- Tree
  SideOf <- TreeSide
  KeyOf <- TreeKey
  Below <- TreeBelow
  DirEntries <- TreeDirs
  Unreadable <- SourceDir
  ClassOf <- Class
  HashOutcomes = {"Identical", "Mismatch"}
  Steps = 1
  BatchSize = 2
  MaxOutstanding = 0
SPECIFICATION Spec
INVARIANT
  NoFabricatedVerdict
