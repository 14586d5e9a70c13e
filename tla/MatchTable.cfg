CONSTANTS
  k1 = k1
  k2 = k2
  k3 = k3
  k4 = k4
  Empty = Empty
  Keys <- MCKeys
  Entries <- MixedEntries
  SideOf <- MixedSideOf
  KeyOf <- MixedKeyOf
  ShardOf <- MCShardOf
  HighWater = 1
SPECIFICATION FairSpec
INVARIANTS
  PendingIsTableSize
  SourceBounded
  NoLostWakeup
PROPERTIES
  BothWorkersEnd
  ImplementsPairing
