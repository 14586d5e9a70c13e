CONSTANTS
  Empty = Empty
  Root = Root
  Keys <- TreeKeys
  Entries <- LoneTree
  SideOf <- LoneSide
  KeyOf <- LoneKey
  Below <- LoneBelow
  DirEntries <- LoneDirs
  Unreadable <- DestDir
  ClassOf <- Class
  HashOutcomes = {"Identical", "Mismatch"}
  Steps = 2
  BatchSize = 2
  MaxOutstanding = 0
SPECIFICATION FairSpec
INVARIANTS
  OneVerdictPerEntry
  NoFabricatedVerdict
  SuccessIsComplete
  CleanRunAccountsForAll
  ResultIsFinal
PROPERTY
  RunReturns
