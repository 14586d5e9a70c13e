CONSTANTS
  Workers = {w1, w2}
  Clients = {c1, c2}
  MaxOutstanding = 1
  MaxTasks = 3
SPECIFICATION FairSpec
INVARIANTS
  CountersExact
  WaitAllDrains
  WaitAllDequeues
  DestructorFinishesTasks
PROPERTIES
  EveryTaskFinishes
  WaitsReturn
