CONSTANTS
  top = top
  x = x
  e = e
  y = y
  f1 = f1
  f2 = f2
  l1 = l1
  l2 = l2
  Absent = Absent
  Paths <- MCPaths
  Files = {f1, f2}
  Links = {l1, l2}
  SourceTrees <- MCSourceTrees
  DestTrees <- MCDestTrees
  MaxRounds = 2
  MaxMishaps = 1
SPECIFICATION Spec
INVARIANTS
  SyncConverges
  DoneMeansDone
  EveryActionReported
PROPERTY
  OnlyDescribedTouched
