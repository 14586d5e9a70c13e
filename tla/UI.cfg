SPECIFICATION Spec
CONSTANTS
  SourceRoots = {"s"}
  DestRoots = {"d"}
  NoRoot = ""
  Roots <- MCRoots
  Sessions <- MCSessions
  ScanRows <- MCScanRows
  Surplus <- MCSurplus
  SideStates <- MCSideStates
  MaxEvents = 4
INVARIANTS
  OneOperationAtATime
  TypedRootsWin
  CountersMatchRows
  SuspendsOncePerRun
PROPERTIES
  Quits
CHECK_DEADLOCK FALSE
