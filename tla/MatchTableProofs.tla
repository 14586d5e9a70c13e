-------------------------- MODULE MatchTableProofs --------------------------
(* The safety properties of MatchTable and its refinement of Pairing, for  *)
(* every set of keys, every shard assignment and every high-water mark.    *)
EXTENDS MatchTable, FiniteSetTheorems, TLAPS

(***************************************************************************)
(* The inductive invariant.                                                *)
(***************************************************************************)

InShard(s) == pc[s] \in {"count", "uncount"}

\* A worker inside a shard excludes the other from it, and a stored entry that
\* is not counted yet cannot be taken.
ShardInv ==
  /\ IsFiniteSet(StoredKeys)
  /\ \A s \in Sides : pc[s] = "count" => slot[KeyOf[cur[s]]] = cur[s]
  /\ InShard(Src) /\ InShard(Dst) =>
       ShardOf[KeyOf[cur[Src]]] # ShardOf[KeyOf[cur[Dst]]]

FeedInv ==
  /\ \A s \in Sides : done[s] <=> pc[s] \in {"release", "end"}
  /\ \A s \in Sides : pc[s] \in BeforeShard => cur[s] \notin feed[s]

\* A source that has passed the throttle finds room until it stores.
RoomInv ==
  pc[Src] = "shard" /\ ~done[Dst] /\ ~cancel =>
    Cardinality(StoredKeysOf(Src)) < HighWater

PendingExact ==
  pending = Cardinality(StoredKeys) + Uncounted(Src) + Uncounted(Dst)

IInv ==
  TypeOK /\ ShardInv /\ FeedInv /\ PendingExact /\ RoomInv /\ SourceBounded
  /\ NoLostWakeup

(***************************************************************************)
(* Facts about states that satisfy the type and shard invariants.          *)
(***************************************************************************)

\* The two sides.
LEMMA SidesFact == Sides = {0, 1} /\ Src = 0 /\ Dst = 1 /\ Src \in Sides /\ Dst \in Sides
                   /\ Src # Dst /\ \A s \in Sides : P!Other(s) \in Sides /\ P!Other(s) # s
BY DEF Sides, Src, Dst, P!Sides, P!Src, P!Dst, P!Other

\* The entry a worker is at is one of its side.
LEMMA EntryFact ==
  ASSUME TypeOK, NEW s \in Sides, pc[s] \in Inserting
  PROVE  /\ cur[s] \in Entries /\ SideOf[cur[s]] = s /\ cur[s] # Empty
         /\ KeyOf[cur[s]] \in Keys
BY MatchTableAssumption DEF TypeOK, P!EntriesOf

\* pending_ is never negative: an uncounted store occupies a key of its own.
LEMMA PendingNonNegative ==
  ASSUME TypeOK, ShardInv, PendingExact
  PROVE  pending >= 0
<1> USE SidesFact
<1>0. Cardinality(StoredKeys) \in Nat
  BY FS_CardinalityType DEF ShardInv
<1>1. ASSUME NEW s \in Sides, pc[s] = "count"
      PROVE  KeyOf[cur[s]] \in StoredKeys
  BY <1>1, EntryFact DEF ShardInv, StoredKeys, Inserting
<1>2. ASSUME NEW s \in Sides, pc[s] = "count"
      PROVE  Cardinality(StoredKeys) >= 1
  BY <1>0, <1>1, <1>2, FS_EmptySet DEF ShardInv
<1>3. ASSUME pc[Src] = "count", pc[Dst] = "count"
      PROVE  Cardinality(StoredKeys) >= 2
  <2> DEFINE k == KeyOf[cur[Src]]
             l == KeyOf[cur[Dst]]
  <2>1. k \in StoredKeys /\ l \in StoredKeys /\ k # l
    BY <1>1, <1>3 DEF ShardInv, InShard
  <2>2. /\ IsFiniteSet(StoredKeys \ {k})
        /\ Cardinality(StoredKeys \ {k}) = Cardinality(StoredKeys) - 1
    BY <2>1, FS_RemoveElement DEF ShardInv
  <2>3. Cardinality(StoredKeys \ {k}) # 0
    BY <2>1, <2>2, FS_EmptySet
  <2>4. Cardinality(StoredKeys \ {k}) \in Nat
    BY <2>2, FS_CardinalityType
  <2> QED BY <1>0, <2>2, <2>3, <2>4
<1> QED BY <1>0, <1>2, <1>3 DEF PendingExact, Uncounted

\* The source's share of the table is at most pending_, except while the source
\* itself is inside a shard.
LEMMA SourceShare ==
  ASSUME TypeOK, ShardInv, PendingExact, ~InShard(Src)
  PROVE  Cardinality(StoredKeysOf(Src)) <= pending
<1> USE SidesFact
<1>0. /\ Cardinality(StoredKeys) \in Nat
      /\ IsFiniteSet(StoredKeys)
      /\ StoredKeysOf(Src) \subseteq StoredKeys
  BY FS_CardinalityType DEF ShardInv, StoredKeysOf
<1>1. /\ IsFiniteSet(StoredKeysOf(Src))
      /\ Cardinality(StoredKeysOf(Src)) \in Nat
      /\ Cardinality(StoredKeysOf(Src)) <= Cardinality(StoredKeys)
  BY <1>0, FS_Subset, FS_CardinalityType
<1>2. CASE pc[Dst] = "count"
  <2> DEFINE l == KeyOf[cur[Dst]]
  <2>1. l \in StoredKeys /\ l \notin StoredKeysOf(Src)
    BY <1>2, EntryFact DEF ShardInv, StoredKeys, StoredKeysOf, Inserting
  <2>2. StoredKeysOf(Src) \subseteq StoredKeys \ {l}
    BY <1>0, <2>1
  <2>3. /\ IsFiniteSet(StoredKeys \ {l})
        /\ Cardinality(StoredKeys \ {l}) = Cardinality(StoredKeys) - 1
    BY <1>0, <2>1, FS_RemoveElement
  <2>4. Cardinality(StoredKeysOf(Src)) <= Cardinality(StoredKeys) - 1
    BY <2>2, <2>3, FS_Subset
  <2> QED BY <1>0, <1>1, <1>2, <2>4 DEF PendingExact, Uncounted, InShard
<1>3. CASE pc[Dst] # "count"
  BY <1>0, <1>1, <1>3 DEF PendingExact, Uncounted, InShard
<1> QED BY <1>2, <1>3

(***************************************************************************)
(* Type correctness.                                                       *)
(***************************************************************************)

\* The types hold at the start.
LEMMA InitTypeOK == Init => TypeOK
<1> SUFFICES ASSUME Init PROVE TypeOK
  OBVIOUS
<1> USE SidesFact DEF Init
<1>1. /\ slot \in [Keys -> Entries \cup {Empty}]
      /\ \A k \in Keys : slot[k] = Empty
  OBVIOUS
<1>2. /\ pc \in [Sides -> PcValues]
      /\ pc[Dst] \notin {"gate", "lock", "pred", "block", "parked"}
      /\ \A s \in Sides : pc[s] \notin Inserting
  BY DEF PcValues, Inserting, BeforeShard
<1>3. feed \in [Sides -> SUBSET Entries] /\ \A s \in Sides : feed[s] = P!EntriesOf(s)
  BY DEF P!EntriesOf
<1>4. /\ pending \in Int /\ done \in [Sides -> BOOLEAN] /\ cancel \in BOOLEAN
      /\ cur \in [Sides -> Entries \cup {Empty}]
  <2>1. done \in [Sides -> BOOLEAN] /\ cancel \in BOOLEAN
    BY Zenon
  <2>2. pending \in Int
    OBVIOUS
  <2>3. cur \in [Sides -> Entries \cup {Empty}]
    OBVIOUS
  <2> QED BY <2>1, <2>2, <2>3
<1>5. pairs \in SUBSET (Entries \X Entries) /\ replaced \in SUBSET Entries
  <2>1. pairs = {} /\ replaced = {}
    OBVIOUS
  <2> QED BY ONLY <2>1
<1> QED BY <1>1, <1>2, <1>3, <1>4, <1>5 DEF TypeOK

\* Every step keeps the types.
LEMMA NextTypeOK == TypeOK /\ [Next]_vars => TypeOK'
<1> SUFFICES ASSUME TypeOK, [Next]_vars PROVE TypeOK'
  OBVIOUS
<1> USE SidesFact DEF TypeOK, MovePc, PcValues, Inserting, BeforeShard
<1>1. ASSUME NEW s \in Sides, Report(s) PROVE TypeOK'
  BY <1>1 DEF Report, P!EntriesOf
<1>2. ASSUME NEW s \in Sides, EnumerationEnds(s) PROVE TypeOK'
  BY <1>2 DEF EnumerationEnds
<1>3. CASE Gate
  BY <1>3 DEF Gate
<1>4. CASE LockCv
  BY <1>4 DEF LockCv
<1>5. CASE Predicate
  BY <1>5 DEF Predicate
<1>6. CASE Block
  BY <1>6 DEF Block
<1>7. CASE SpuriousWakeup
  BY <1>7 DEF SpuriousWakeup
<1>8. ASSUME NEW s \in Sides, ShardUpdate(s) PROVE TypeOK'
  <2> DEFINE e == cur[s]
  <2>0. e \in Entries /\ KeyOf[e] \in Keys /\ SideOf[e] = s
    BY <1>8, EntryFact DEF ShardUpdate
  <2>1. slot' \in [Keys -> Entries \cup {Empty}] /\ replaced' \in SUBSET Entries
        /\ \A k \in Keys : slot'[k] # Empty => KeyOf[slot'[k]] = k
    BY <1>8, <2>0 DEF ShardUpdate, P!StoreIn, P!ReplaceIn, P!MatchIn
  <2>2. pairs' \in SUBSET (Entries \X Entries)
    BY <1>8, <2>0 DEF ShardUpdate, P!StoreIn, P!ReplaceIn, P!MatchIn, P!Pair
  <2>3. pc' \in [Sides -> PcValues] /\ \A t \in Sides : t # s => pc'[t] = pc[t]
        /\ pc'[s] \in {"count", "uncount", "next"}
    BY <1>8 DEF ShardUpdate
  <2>4. UNCHANGED <<pending, done, cancel, cur, feed>> /\ pc[s] = "shard"
    BY <1>8 DEF ShardUpdate
  <2> QED BY <2>1, <2>2, <2>3, <2>4
<1>9. ASSUME NEW s \in Sides, CountStored(s) PROVE TypeOK'
  BY <1>9 DEF CountStored
<1>10. ASSUME NEW s \in Sides, CountTaken(s) PROVE TypeOK'
  BY <1>10 DEF CountTaken
<1>11. ASSUME NEW s \in Sides, NotifyOne(s) PROVE TypeOK'
  BY <1>11 DEF NotifyOne, WakeSource
<1>12. ASSUME NEW s \in Sides, StoreDone(s) PROVE TypeOK'
  BY <1>12 DEF StoreDone
<1>13. ASSUME NEW s \in Sides, NotifyAll(s) PROVE TypeOK'
  BY <1>13 DEF NotifyAll, WakeSource
<1>14. CASE RequestCancel
  BY <1>14 DEF RequestCancel
<1>15. CASE UNCHANGED vars
  BY <1>15 DEF vars
<1> QED
  BY <1>1, <1>2, <1>3, <1>4, <1>5, <1>6, <1>7, <1>8, <1>9, <1>10, <1>11, <1>12,
     <1>13, <1>14, <1>15 DEF Next, Worker, Joined

\* Every variable keeps its type; in particular only the source ever parks.
THEOREM TypeCorrect == Spec => []TypeOK
BY InitTypeOK, NextTypeOK, PTL DEF Spec

(***************************************************************************)
(* The inductive invariant is preserved.                                   *)
(***************************************************************************)

\* The invariant holds at the start.
LEMMA InitIInv == Init => IInv
<1> SUFFICES ASSUME Init PROVE IInv
  OBVIOUS
<1> USE SidesFact DEF Init
<1>1. TypeOK
  BY InitTypeOK
<1>2. StoredKeys = {} /\ StoredKeysOf(Src) = {}
  BY DEF StoredKeys, StoredKeysOf
<1>3. ShardInv /\ Cardinality(StoredKeys) = 0 /\ Cardinality(StoredKeysOf(Src)) = 0
  BY <1>2, FS_EmptySet DEF ShardInv, InShard
<1>4. FeedInv
  BY DEF FeedInv, BeforeShard
<1>5. PendingExact /\ RoomInv /\ SourceBounded /\ NoLostWakeup
  BY <1>3, MatchTableAssumption
     DEF PendingExact, RoomInv, SourceBounded, NoLostWakeup, Uncounted
<1> QED BY <1>1, <1>3, <1>4, <1>5 DEF IInv

\* The steps that leave the shards alone and do not touch pending_.
LEMMA QuietStep ==
  ASSUME IInv, TypeOK', UNCHANGED <<slot, pending>>,
         \A s \in Sides : Uncounted(s)' = Uncounted(s),
         \A s \in Sides : InShard(s)' <=> InShard(s),
         \A s \in Sides : (pc[s] = "count")' <=> pc[s] = "count",
         \A s \in Sides : InShard(s) => cur'[s] = cur[s]
  PROVE  /\ ShardInv' /\ PendingExact'
         /\ StoredKeys' = StoredKeys /\ StoredKeysOf(Src)' = StoredKeysOf(Src)
<1> USE SidesFact
<1>1. StoredKeys' = StoredKeys /\ StoredKeysOf(Src)' = StoredKeysOf(Src)
  BY DEF StoredKeys, StoredKeysOf
<1>2. PendingExact'
  BY <1>1 DEF IInv, PendingExact
<1>3. ASSUME NEW s \in Sides, pc'[s] = "count" PROVE slot'[KeyOf[cur'[s]]] = cur'[s]
  BY <1>3 DEF IInv, ShardInv, InShard
<1>4. ASSUME InShard(Src)', InShard(Dst)'
      PROVE  ShardOf[KeyOf[cur'[Src]]] # ShardOf[KeyOf[cur'[Dst]]]
  BY <1>4 DEF IInv, ShardInv
<1>5. IsFiniteSet(StoredKeys')
  BY <1>1 DEF IInv, ShardInv
<1> QED BY <1>1, <1>2, <1>3, <1>4, <1>5 DEF ShardInv

\* Steps that change neither the table nor the pairs.
LEMMA QuietActions ==
  ASSUME IInv, TypeOK', NEW s \in Sides,
         \/ Report(s) \/ EnumerationEnds(s) \/ Gate \/ LockCv \/ Predicate \/ Block
         \/ SpuriousWakeup \/ NotifyOne(s) \/ StoreDone(s) \/ NotifyAll(s)
         \/ RequestCancel
  PROVE  IInv'
<1> USE SidesFact DEF MovePc, WakeSource
<1>0. pc \in [Sides -> PcValues] /\ pending \in Int /\ HighWater \in Nat
      /\ cur \in [Sides -> Entries \cup {Empty}] /\ feed \in [Sides -> SUBSET Entries]
      /\ done \in [Sides -> BOOLEAN]
  BY MatchTableAssumption DEF IInv, TypeOK
<1>1. /\ UNCHANGED <<slot, pending>>
      /\ \A t \in Sides : Uncounted(t)' = Uncounted(t)
      /\ \A t \in Sides : InShard(t)' <=> InShard(t)
      /\ \A t \in Sides : (pc[t] = "count")' <=> pc[t] = "count"
      /\ \A t \in Sides : InShard(t) => cur'[t] = cur[t]
  BY <1>0 DEF Uncounted, InShard, Report, EnumerationEnds, Gate, LockCv, Predicate,
     Block, SpuriousWakeup, NotifyOne, StoreDone, NotifyAll, RequestCancel
<1>2. /\ ShardInv' /\ PendingExact'
      /\ StoredKeys' = StoredKeys /\ StoredKeysOf(Src)' = StoredKeysOf(Src)
  BY <1>1, QuietStep
<1>3. FeedInv'
  BY <1>0 DEF IInv, FeedInv, BeforeShard, Report, EnumerationEnds, Gate, LockCv,
     Predicate, Block, SpuriousWakeup, NotifyOne, StoreDone, NotifyAll, RequestCancel
<1>4. (~done[Dst] /\ ~cancel)' => ~done[Dst] /\ ~cancel
  BY <1>0 DEF Report, EnumerationEnds, Gate, LockCv, Predicate, Block,
     SpuriousWakeup, NotifyOne, StoreDone, NotifyAll, RequestCancel
<1>5. SourceBounded'
  BY <1>2, <1>4 DEF IInv, SourceBounded
<1>6. ASSUME (pc[Src] = "shard" /\ ~done[Dst] /\ ~cancel)'
      PROVE  Cardinality(StoredKeysOf(Src)) < HighWater
  <2>1. CASE pc[Src] = "shard"
    BY <1>4, <1>6, <2>1 DEF IInv, RoomInv
  <2>2. CASE pc[Src] # "shard"
    <3>1. pending < HighWater /\ ~InShard(Src)
      BY <1>0, <1>4, <1>6, <2>2 DEF Report, EnumerationEnds, Gate, LockCv, Predicate,
         MayProceed, Block, SpuriousWakeup, NotifyOne, StoreDone, NotifyAll,
         RequestCancel, InShard
    <3>2. Cardinality(StoredKeysOf(Src)) <= pending
      BY <3>1, SourceShare DEF IInv
    <3>3. Cardinality(StoredKeysOf(Src)) \in Nat
      <4>1. StoredKeysOf(Src) \in SUBSET StoredKeys
        BY DEF StoredKeysOf
      <4> QED BY <4>1, FS_Subset, FS_CardinalityType DEF IInv, ShardInv
    <3> QED BY <1>0, <3>1, <3>2, <3>3
  <2> QED BY <2>1, <2>2
<1>7. RoomInv'
  BY <1>2, <1>6, <1>0 DEF RoomInv
<1>8. NoLostWakeup'
  BY <1>0 DEF IInv, NoLostWakeup, FeedInv, Report, EnumerationEnds, Gate, LockCv,
     Predicate, MayProceed, Block, SpuriousWakeup, NotifyOne, StoreDone, NotifyAll,
     RequestCancel, HoldsCvMutex
<1> QED BY <1>2, <1>3, <1>5, <1>7, <1>8 DEF IInv

\* Steps that count.
LEMMA CountActions ==
  ASSUME IInv, TypeOK', NEW s \in Sides, CountStored(s) \/ CountTaken(s)
  PROVE  IInv'
<1> USE SidesFact DEF MovePc
<1>0. /\ pc \in [Sides -> PcValues] /\ pending \in Int /\ HighWater \in Nat
      /\ done \in [Sides -> BOOLEAN]
      /\ Cardinality(StoredKeys) \in Nat
  BY MatchTableAssumption, FS_CardinalityType DEF IInv, TypeOK, ShardInv
<1>1. /\ UNCHANGED <<slot, done, cancel, cur, feed>>
      /\ StoredKeys' = StoredKeys /\ StoredKeysOf(Src)' = StoredKeysOf(Src)
  BY DEF CountStored, CountTaken, StoredKeys, StoredKeysOf
<1>2. ShardInv'
  BY <1>0, <1>1 DEF IInv, ShardInv, InShard, CountStored, CountTaken
<1>3. FeedInv'
  BY <1>0, <1>1 DEF IInv, FeedInv, BeforeShard, CountStored, CountTaken
<1>4. PendingExact'
  BY <1>0, <1>1 DEF IInv, PendingExact, Uncounted, CountStored, CountTaken
<1>5. RoomInv' /\ SourceBounded'
  BY <1>0, <1>1 DEF IInv, RoomInv, SourceBounded, CountStored, CountTaken
<1>6. NoLostWakeup'
  BY <1>0, <1>1 DEF IInv, NoLostWakeup, CountStored, CountTaken
<1> QED BY <1>2, <1>3, <1>4, <1>5, <1>6 DEF IInv

\* The update of a shard.
LEMMA ShardAction ==
  ASSUME IInv, TypeOK', NEW s \in Sides, ShardUpdate(s)
  PROVE  IInv'
<1> USE SidesFact
<1> DEFINE e == cur[s]
           k == KeyOf[e]
<1>0. /\ pc \in [Sides -> PcValues] /\ pending \in Int /\ HighWater \in Nat
      /\ slot \in [Keys -> Entries \cup {Empty}]
      /\ IsFiniteSet(StoredKeys)
      /\ Cardinality(StoredKeys) \in Nat
      /\ Cardinality(StoredKeysOf(Src)) \in Nat
      /\ IsFiniteSet(StoredKeysOf(Src))
  <2>1. StoredKeysOf(Src) \in SUBSET StoredKeys
    BY DEF StoredKeysOf
  <2> QED BY <2>1, MatchTableAssumption, FS_Subset, FS_CardinalityType
             DEF IInv, TypeOK, ShardInv
<1>1. /\ e \in Entries /\ e # Empty /\ k \in Keys /\ SideOf[e] = s
      /\ pc[s] = "shard" /\ ~HoldsShard(P!Other(s), k)
      /\ UNCHANGED <<pending, done, cancel, cur, feed>>
  BY EntryFact DEF IInv, ShardUpdate, Inserting, BeforeShard
<1>2. \A t \in Sides : t # s => pc'[t] = pc[t] /\ (InShard(t) => ShardOf[KeyOf[cur[t]]] # ShardOf[k])
  BY <1>0, <1>1 DEF ShardUpdate, HoldsShard, InShard
<1>3. pc'[s] \in {"count", "uncount", "next"} /\ pc' \in [Sides -> PcValues]
  BY <1>0 DEF ShardUpdate, PcValues
<1>4. FeedInv'
  BY <1>1, <1>2, <1>3 DEF IInv, FeedInv, BeforeShard
<1>5. NoLostWakeup'
  BY <1>1, <1>2, <1>3 DEF IInv, NoLostWakeup
\* What the other worker has in its shard is under another key.
<1>6. ASSUME slot' = [slot EXCEPT ![k] = e] \/ slot' = [slot EXCEPT ![k] = Empty],
             NEW t \in Sides, pc'[t] = "count", t # s
      PROVE  slot'[KeyOf[cur'[t]]] = cur'[t]
  <2>1. pc[t] = "count" /\ cur'[t] = cur[t] /\ InShard(t)
    BY <1>1, <1>2, <1>6 DEF InShard
  <2>2. slot[KeyOf[cur[t]]] = cur[t]
    BY <2>1 DEF IInv, ShardInv
  <2>3. KeyOf[cur[t]] \in Keys /\ KeyOf[cur[t]] # k
    BY <1>2, <1>6, <2>1, EntryFact DEF IInv, Inserting
  <2> QED BY <1>0, <1>6, <2>1, <2>2, <2>3
<1>7. InShard(Src)' /\ InShard(Dst)' => ShardOf[KeyOf[cur'[Src]]] # ShardOf[KeyOf[cur'[Dst]]]
  BY <1>1, <1>2 DEF InShard
<1>8. CASE P!StoreIn(e)
  <2>1. slot[k] = Empty /\ slot' = [slot EXCEPT ![k] = e] /\ pc' = [pc EXCEPT ![s] = "count"]
    BY <1>1, <1>8 DEF ShardUpdate, P!StoreIn, P!ReplaceIn, P!MatchIn
  <2>2. StoredKeys' = StoredKeys \cup {k} /\ k \notin StoredKeys
    BY <1>0, <1>1, <2>1 DEF StoredKeys
  <2>3. /\ s = Src => StoredKeysOf(Src)' = StoredKeysOf(Src) \cup {k} /\ k \notin StoredKeysOf(Src)
        /\ s # Src => StoredKeysOf(Src)' = StoredKeysOf(Src)
    BY <1>0, <1>1, <2>1 DEF StoredKeys, StoredKeysOf
  <2>4. IsFiniteSet(StoredKeys)' /\ Cardinality(StoredKeys)' = Cardinality(StoredKeys) + 1
    BY <1>0, <2>2, FS_AddElement
  <2>5. ShardInv'
    BY <1>0, <1>1, <1>6, <1>7, <2>1, <2>4 DEF ShardInv
  <2>6. PendingExact'
    BY <1>0, <1>1, <1>2, <2>1, <2>4 DEF IInv, PendingExact, Uncounted
  <2>7. s = Src => Cardinality(StoredKeysOf(Src)') = Cardinality(StoredKeysOf(Src)) + 1
    BY <1>0, <2>3, FS_AddElement
  <2>8. SourceBounded' /\ RoomInv'
    BY <1>0, <1>1, <1>2, <1>3, <2>3, <2>7 DEF IInv, SourceBounded, RoomInv
  <2> QED BY <1>4, <1>5, <2>5, <2>6, <2>8 DEF IInv
<1>9. CASE P!ReplaceIn(e)
  <2>1. /\ slot[k] # Empty /\ SideOf[slot[k]] = s
        /\ slot' = [slot EXCEPT ![k] = e] /\ pc' = [pc EXCEPT ![s] = "next"]
    BY <1>1, <1>9 DEF ShardUpdate, P!StoreIn, P!ReplaceIn, P!MatchIn
  <2>2. StoredKeys' = StoredKeys /\ StoredKeysOf(Src)' = StoredKeysOf(Src)
    BY <1>0, <1>1, <2>1 DEF StoredKeys, StoredKeysOf
  <2>3. ShardInv'
    BY <1>0, <1>1, <1>6, <1>7, <2>1, <2>2 DEF ShardInv
  <2>4. PendingExact'
    BY <1>0, <1>1, <1>2, <2>1, <2>2 DEF IInv, PendingExact, Uncounted
  <2>5. SourceBounded' /\ RoomInv'
    BY <1>0, <1>1, <1>2, <1>3, <2>2 DEF IInv, SourceBounded, RoomInv
  <2> QED BY <1>4, <1>5, <2>3, <2>4, <2>5 DEF IInv
<1>10. CASE P!MatchIn(e)
  <2>1. /\ slot[k] # Empty /\ SideOf[slot[k]] # s
        /\ slot' = [slot EXCEPT ![k] = Empty] /\ pc' = [pc EXCEPT ![s] = "uncount"]
    BY <1>1, <1>10 DEF ShardUpdate, P!StoreIn, P!ReplaceIn, P!MatchIn
  <2>2. StoredKeys' = StoredKeys \ {k} /\ k \in StoredKeys
    BY <1>0, <1>1, <2>1 DEF StoredKeys
  <2>3. StoredKeysOf(Src)' \in SUBSET StoredKeysOf(Src)
    BY <1>0, <1>1, <2>1 DEF StoredKeys, StoredKeysOf
  <2>4. IsFiniteSet(StoredKeys)' /\ Cardinality(StoredKeys)' = Cardinality(StoredKeys) - 1
    BY <1>0, <2>2, FS_RemoveElement
  <2>5. ShardInv'
    BY <1>0, <1>1, <1>6, <1>7, <2>1, <2>4 DEF ShardInv
  <2>6. PendingExact'
    BY <1>0, <1>1, <1>2, <2>1, <2>4 DEF IInv, PendingExact, Uncounted
  <2>7. /\ Cardinality(StoredKeysOf(Src)') \in Nat
        /\ Cardinality(StoredKeysOf(Src)') <= Cardinality(StoredKeysOf(Src))
    BY <1>0, <2>3, FS_Subset, FS_CardinalityType
  <2>8. SourceBounded' /\ RoomInv'
    BY <1>0, <1>1, <1>2, <1>3, <2>7 DEF IInv, SourceBounded, RoomInv
  <2> QED BY <1>4, <1>5, <2>5, <2>6, <2>8 DEF IInv
<1> QED BY <1>8, <1>9, <1>10 DEF ShardUpdate

\* Every step keeps the invariant.
LEMMA NextIInv == IInv /\ [Next]_vars => IInv'
<1> SUFFICES ASSUME IInv, [Next]_vars PROVE IInv'
  OBVIOUS
<1>1. TypeOK'
  BY NextTypeOK DEF IInv
<1>2. ASSUME NEW s \in Sides, Worker(s) PROVE IInv'
  BY <1>1, <1>2, QuietActions, CountActions, ShardAction DEF Worker
<1>3. CASE SpuriousWakeup \/ RequestCancel
  BY <1>1, <1>3, SidesFact, QuietActions
<1>4. CASE UNCHANGED vars
  BY <1>4 DEF vars, IInv, TypeOK, ShardInv, FeedInv, PendingExact, RoomInv,
     SourceBounded, NoLostWakeup, InShard, Uncounted, StoredKeys, StoredKeysOf
<1> QED BY <1>2, <1>3, <1>4 DEF Next, Joined

\* The inductive invariant holds in every reachable state.
LEMMA InvariantIInv == Spec => []IInv
BY InitIInv, NextIInv, PTL DEF Spec

\* pending_ counts the table exactly and never wraps below zero.
THEOREM PendingThm == Spec => []PendingIsTableSize
<1>1. IInv => PendingIsTableSize
  BY PendingNonNegative DEF IInv, PendingExact, PendingIsTableSize
<1> QED BY <1>1, InvariantIInv, PTL

\* The throttle bounds the source's share of the table at the high-water mark.
THEOREM SourceBoundedThm == Spec => []SourceBounded
BY InvariantIInv, PTL DEF IInv

\* A source that blocks on the throttle is never left without a wakeup on its
\* way once there is room or the destination has finished.
THEOREM NoLostWakeupThm == Spec => []NoLostWakeup
BY InvariantIInv, PTL DEF IInv

(***************************************************************************)
(* The table implements the atomic pairing: the map update is P!Insert,    *)
(* storing done_ is P!Close, and every other step is a stutter.            *)
(***************************************************************************)

ClosedSides == {s \in {0, 1} : pc[s] \in {"release", "end"}}

\* The initial states are initial states of Pairing.
LEMMA InitRefines == Init => P!Init
<1> SUFFICES ASSUME Init PROVE P!Init
  OBVIOUS
<1>1. \A s \in {0, 1} : pc[s] = "next" /\ feed[s] = P!EntriesOf(s)
  BY SidesFact DEF Init
<1>2. ToCome = [s \in P!Sides |-> P!EntriesOf(s)]
  BY <1>1 DEF ToCome, BeforeShard, P!Sides, P!Src, P!Dst
<1>3. ClosedSides = {}
  BY <1>1 DEF ClosedSides
<1> QED BY <1>2, <1>3 DEF Init, P!Init, ClosedSides

\* A step that changes neither the table nor what is to come is a stutter.
LEMMA StutterRefines ==
  ASSUME UNCHANGED <<slot, pairs, replaced>>,
         \A t \in {0, 1} : ToCome'[t] = ToCome[t],
         \A t \in {0, 1} : pc'[t] \in {"release", "end"} <=> pc[t] \in {"release", "end"}
  PROVE  UNCHANGED P!pvars
<1>1. ToCome' = ToCome
  BY DEF ToCome
<1>2. ClosedSides' = ClosedSides
  BY DEF ClosedSides
<1> QED BY <1>1, <1>2 DEF P!pvars, ClosedSides

\* What is still to come, seen as in Pairing.
LEMMA ToComeOf ==
  ASSUME NEW t \in {0, 1}
  PROVE  /\ ToCome[t] = feed[t] \cup (IF pc[t] \in BeforeShard THEN {cur[t]} ELSE {})
         /\ ToCome'[t] = feed'[t] \cup (IF pc'[t] \in BeforeShard THEN {cur'[t]} ELSE {})
BY DEF ToCome

\* Steps that Pairing does not see.
LEMMA QuietRefines ==
  ASSUME IInv,
         \/ \E s \in Sides :
              \/ Report(s) \/ EnumerationEnds(s)
              \/ s = Src /\ (Gate \/ LockCv \/ Predicate \/ Block)
              \/ CountStored(s) \/ CountTaken(s) \/ NotifyOne(s) \/ NotifyAll(s)
         \/ SpuriousWakeup \/ RequestCancel
  PROVE  UNCHANGED P!pvars
<1> USE SidesFact DEF MovePc, WakeSource
<1>1. /\ pc \in [Sides -> PcValues] /\ cur \in [Sides -> Entries \cup {Empty}]
      /\ feed \in [Sides -> SUBSET Entries]
  BY DEF IInv, TypeOK
<1>2. UNCHANGED <<slot, pairs, replaced>>
  BY DEF Report, EnumerationEnds, Gate, LockCv, Predicate, Block, SpuriousWakeup,
     CountStored, CountTaken, NotifyOne, NotifyAll, RequestCancel
<1>3. \A t \in {0, 1} : pc'[t] \in {"release", "end"} <=> pc[t] \in {"release", "end"}
  BY <1>1 DEF Report, EnumerationEnds, Gate, LockCv, Predicate, Block, SpuriousWakeup,
     CountStored, CountTaken, NotifyOne, NotifyAll, RequestCancel
<1>4. ASSUME NEW t \in {0, 1} PROVE ToCome'[t] = ToCome[t]
  <2>1. CASE \E s \in Sides : Report(s)
    <3>1. PICK s \in Sides : Report(s)
      BY <2>1
    <3>2. PICK e \in feed[s] : /\ cur' = [cur EXCEPT ![s] = e]
                               /\ feed' = [feed EXCEPT ![s] = @ \ {e}]
      BY <3>1 DEF Report
    <3>3. /\ pc[s] \notin BeforeShard /\ pc'[s] \in BeforeShard
          /\ \A u \in Sides : u # s => pc'[u] = pc[u]
      BY <1>1, <3>1 DEF Report, BeforeShard
    <3>4. CASE t = s
      BY <1>1, <3>2, <3>3, <3>4, ToComeOf
    <3>5. CASE t # s
      BY <1>1, <3>2, <3>3, <3>5, ToComeOf
    <3> QED BY <3>4, <3>5
  <2>2. CASE ~\E s \in Sides : Report(s)
    <3>1. UNCHANGED <<cur, feed>> /\ (pc'[t] \in BeforeShard <=> pc[t] \in BeforeShard)
      BY <1>1, <2>2 DEF EnumerationEnds, Gate, LockCv, Predicate, Block,
         SpuriousWakeup, CountStored, CountTaken, NotifyOne, NotifyAll,
         RequestCancel, BeforeShard
    <3> QED BY <3>1, ToComeOf
  <2> QED BY <2>1, <2>2
<1> QED BY <1>2, <1>3, <1>4, StutterRefines

\* The update of a shard is an insertion of Pairing.
LEMMA ShardRefines ==
  ASSUME IInv, NEW s \in Sides, ShardUpdate(s)
  PROVE  P!Insert(s)
<1> USE SidesFact
<1> DEFINE e == cur[s]
<1>1. /\ pc \in [Sides -> PcValues] /\ feed \in [Sides -> SUBSET Entries]
      /\ pc[s] = "shard" /\ UNCHANGED <<cur, feed>> /\ e \notin feed[s]
      /\ pc'[s] \notin BeforeShard \cup {"release", "end"}
      /\ \A t \in Sides : t # s => pc'[t] = pc[t]
  BY DEF IInv, TypeOK, FeedInv, ShardUpdate, BeforeShard
<1>2. e \in ToCome[s] /\ s \notin ClosedSides /\ P!InsertIn(e)
  BY <1>1, ToComeOf DEF BeforeShard, ClosedSides, ShardUpdate, P!InsertIn
<1>3. ToCome' = [ToCome EXCEPT ![s] = @ \ {e}]
  <2>1. ToCome'[s] = ToCome[s] \ {e}
    BY <1>1, ToComeOf DEF BeforeShard
  <2>2. \A t \in {0, 1} : t # s => ToCome'[t] = ToCome[t]
    BY <1>1, ToComeOf
  <2> QED BY <2>1, <2>2 DEF ToCome
<1>4. ClosedSides' = ClosedSides
  BY <1>1 DEF ClosedSides
<1> QED BY <1>2, <1>3, <1>4 DEF P!Insert, ClosedSides

\* The end of a side is one of Pairing.
LEMMA CloseRefines ==
  ASSUME IInv, NEW s \in Sides, StoreDone(s)
  PROVE  P!Close(s)
<1> USE SidesFact
<1>1. /\ pc \in [Sides -> PcValues] /\ UNCHANGED <<slot, pairs, replaced, cur, feed>>
      /\ pc[s] = "close" /\ pc' = [pc EXCEPT ![s] = "release"]
  BY DEF IInv, TypeOK, StoreDone, MovePc
<1>2. ToCome' = ToCome
  <2>1. \A t \in {0, 1} : ToCome'[t] = ToCome[t]
    BY <1>1, ToComeOf DEF BeforeShard
  <2> QED BY <2>1 DEF ToCome
<1>3. s \notin ClosedSides /\ ClosedSides' = ClosedSides \cup {s}
  BY <1>1 DEF ClosedSides
<1> QED BY <1>1, <1>2, <1>3 DEF P!Close, ClosedSides

\* MatchTable implements Pairing, for every instance of the constants.
THEOREM Refinement == Spec => P!Spec
<1>1. ASSUME IInv, [Next]_vars PROVE [P!Next]_(P!pvars)
  <2>1. ASSUME NEW s \in Sides, Worker(s) PROVE P!Next \/ UNCHANGED P!pvars
    BY <1>1, <2>1, ShardRefines, CloseRefines, QuietRefines DEF Worker, P!Next, Sides
  <2>2. CASE SpuriousWakeup \/ RequestCancel
    BY <1>1, <2>2, QuietRefines
  <2>3. CASE UNCHANGED vars
    BY <2>3, StutterRefines DEF vars, ToCome
  <2> QED BY <1>1, <2>1, <2>2, <2>3 DEF Next, Joined
<1> QED BY <1>1, InitRefines, InvariantIInv, PTL DEF Spec, P!Spec

(***************************************************************************)
(* The promises of Pairing, at the image of the refinement mapping.        *)
(***************************************************************************)

\* An entry still to come has left no trace, and what has a trace has the key
\* and side it is filed under. With it the invariants of Pairing are inductive.
Filed ==
  /\ \A s \in P!Sides : ToCome[s] \subseteq P!EntriesOf(s)
  /\ \A k \in Keys : slot[k] # Empty => KeyOf[slot[k]] = k
  /\ \A e \in Entries : e \in ToCome[SideOf[e]] =>
       slot[KeyOf[e]] # e /\ e \notin P!Paired /\ e \notin replaced
  /\ \A e \in P!Paired : slot[KeyOf[e]] # e

\* A dropped entry was superseded by another of its side and key.
ReplacedHaveTwin == \A e \in replaced : e \in Entries /\ ~P!UniqueKey(KeyOf[e])

PairingInv ==
  /\ P!TypeOK /\ Filed /\ ReplacedHaveTwin
  /\ P!PairsAreMatches /\ P!NothingLost /\ P!StoredAwaitsPeer

\* The invariant holds at the start.
LEMMA PairingInit == P!Init => PairingInv
BY MatchTableAssumption DEF P!Init, PairingInv, P!TypeOK, Filed, P!PairsAreMatches, P!NothingLost,
   ReplacedHaveTwin, P!StoredAwaitsPeer, P!Paired, P!EntriesOf, P!Sides, P!Src, P!Dst

\* An insertion keeps it.
LEMMA PairingInsert ==
  ASSUME PairingInv, NEW s \in P!Sides, P!Insert(s)
  PROVE  PairingInv'
<1> USE MatchTableAssumption DEF P!Sides, P!Src, P!Dst
<1>1. PICK e \in ToCome[s] : P!InsertIn(e) /\ ToCome' = [ToCome EXCEPT ![s] = @ \ {e}]
  BY DEF P!Insert
<1>2. /\ e \in Entries /\ SideOf[e] = s /\ KeyOf[e] \in Keys
      /\ slot[KeyOf[e]] # e /\ e \notin P!Paired /\ e \notin replaced /\ e # Empty
  BY DEF PairingInv, P!TypeOK, Filed, P!EntriesOf, P!Insert
<1>3. CASE P!StoreIn(e)
  <2> USE <1>1, <1>2, <1>3 DEF P!StoreIn
  <2>1. P!TypeOK'
    BY DEF PairingInv, P!TypeOK
  <2>2. Filed'
    BY DEF PairingInv, P!TypeOK, Filed, P!Paired, P!EntriesOf
  <2>3. P!PairsAreMatches' /\ ReplacedHaveTwin'
    BY DEF PairingInv, P!PairsAreMatches, ReplacedHaveTwin, P!UniqueKey
  <2>4. P!NothingLost'
    BY DEF PairingInv, P!TypeOK, P!NothingLost, P!Paired
  <2>5. P!StoredAwaitsPeer'
    BY DEF PairingInv, P!TypeOK, Filed, P!StoredAwaitsPeer, P!NothingLost, ReplacedHaveTwin,
           P!PairsAreMatches, P!Paired, P!UniqueKey
  <2> QED BY <2>1, <2>2, <2>3, <2>4, <2>5 DEF PairingInv
<1>4. CASE P!ReplaceIn(e)
  <2> USE <1>1, <1>2, <1>4 DEF P!ReplaceIn
  <2>1. P!TypeOK'
    BY DEF PairingInv, P!TypeOK
  <2>2. Filed'
    BY DEF PairingInv, P!TypeOK, Filed, P!Paired, P!EntriesOf
  <2>3. P!PairsAreMatches' /\ ReplacedHaveTwin'
    BY DEF PairingInv, P!TypeOK, Filed, P!PairsAreMatches, ReplacedHaveTwin, P!UniqueKey
  <2>4. P!NothingLost'
    BY DEF PairingInv, P!TypeOK, P!NothingLost, P!Paired
  <2>5. P!StoredAwaitsPeer'
    BY DEF PairingInv, P!TypeOK, Filed, P!StoredAwaitsPeer, P!UniqueKey
  <2> QED BY <2>1, <2>2, <2>3, <2>4, <2>5 DEF PairingInv
<1>5. CASE P!MatchIn(e)
  <2> DEFINE f == slot[KeyOf[e]]
  <2> USE <1>1, <1>2, <1>5 DEF P!MatchIn, P!Pair
  <2>0. /\ f \in Entries /\ KeyOf[f] = KeyOf[e] /\ SideOf[f] # SideOf[e]
        /\ f \notin P!Paired
        /\ SideOf[e] = P!Src => pairs' = pairs \cup {<<e, f>>}
        /\ SideOf[e] # P!Src => pairs' = pairs \cup {<<f, e>>}
    BY DEF PairingInv, P!TypeOK, Filed
  <2>a. PICK q \in Entries \X Entries :
          pairs' = pairs \cup {q} /\ {q[1], q[2]} = {e, f}
    <3>1. CASE SideOf[e] = P!Src
      <4> DEFINE r == <<e, f>>
      <4>1. r \in Entries \X Entries /\ r[1] = e /\ r[2] = f
        BY <2>0
      <4>2. {r[1], r[2]} = {e, f} /\ pairs' = pairs \cup {r}
        BY <4>1, <2>0, <3>1
      <4> HIDE DEF r
      <4> QED BY <4>1, <4>2
    <3>2. CASE SideOf[e] # P!Src
      <4> DEFINE r == <<f, e>>
      <4>1. r \in Entries \X Entries /\ r[1] = f /\ r[2] = e
        BY <2>0
      <4>2. {r[1], r[2]} = {e, f} /\ pairs' = pairs \cup {r}
        BY <4>1, <2>0, <3>2
      <4> HIDE DEF r
      <4> QED BY <4>1, <4>2
    <3> QED BY <3>1, <3>2
  <2>1. P!TypeOK'
    BY <2>0 DEF PairingInv, P!TypeOK
  <2>2. P!Paired' = P!Paired \cup {e, f}
    <3>1. \A x \in Entries : x \in P!Paired' <=> x \in P!Paired \/ x \in {q[1], q[2]}
      BY <2>a DEF P!Paired
    <3> QED BY <3>1, <2>a, <2>0 DEF P!Paired
  <2>3. Filed'
    <3> HIDE DEF P!MatchIn, P!Pair
    <3>1. /\ slot' = [slot EXCEPT ![KeyOf[e]] = Empty]
          /\ replaced' = replaced
      BY DEF P!MatchIn
    <3>2. \A x \in Entries : KeyOf[x] = KeyOf[e] => slot'[KeyOf[x]] # x
      BY <3>1 DEF PairingInv, P!TypeOK
    <3>3. /\ \A t \in P!Sides : ToCome'[t] \subseteq P!EntriesOf(t)
          /\ \A k \in Keys : slot'[k] # Empty => KeyOf[slot'[k]] = k
      BY <3>1 DEF PairingInv, P!TypeOK, Filed, P!EntriesOf
    <3>4. ASSUME NEW x \in Entries, x \in ToCome'[SideOf[x]]
          PROVE  slot'[KeyOf[x]] # x /\ x \notin P!Paired' /\ x \notin replaced'
      <4>1. x # e /\ x \in ToCome[SideOf[x]]
        BY <3>4, <1>1 DEF PairingInv, P!TypeOK
      <4>2. x # f
        BY <4>1, <2>0 DEF PairingInv, P!TypeOK, Filed
      <4> QED BY <4>1, <4>2, <3>1, <3>2, <2>2 DEF PairingInv, P!TypeOK, Filed
    <3>5. \A x \in P!Paired' : slot'[KeyOf[x]] # x
      BY <3>1, <3>2, <2>0, <2>2 DEF PairingInv, P!TypeOK, Filed, P!Paired
    <3> QED BY <3>3, <3>4, <3>5 DEF Filed, P!EntriesOf
  <2>4. P!PairsAreMatches'
    BY <2>0 DEF PairingInv, P!TypeOK, P!PairsAreMatches, P!Paired
  <2>5. ReplacedHaveTwin'
    BY DEF PairingInv, ReplacedHaveTwin, P!UniqueKey
  <2>6. P!NothingLost'
    BY <2>0, <2>2 DEF PairingInv, P!TypeOK, P!NothingLost
  <2>7. P!StoredAwaitsPeer'
    BY <2>0 DEF PairingInv, P!TypeOK, Filed, P!StoredAwaitsPeer, P!UniqueKey
  <2> QED BY <2>1, <2>3, <2>4, <2>5, <2>6, <2>7 DEF PairingInv
<1> QED BY <1>1, <1>3, <1>4, <1>5 DEF P!InsertIn

\* Every step keeps it.
LEMMA PairingNext == PairingInv /\ [P!Next]_(P!pvars) => PairingInv'
<1> SUFFICES ASSUME PairingInv, [P!Next]_(P!pvars) PROVE PairingInv'
  OBVIOUS
<1>1. ASSUME NEW s \in P!Sides, P!Insert(s) PROVE PairingInv'
  BY <1>1, PairingInsert
<1>2. ASSUME NEW s \in P!Sides, P!Close(s) PROVE PairingInv'
  BY <1>2 DEF P!Close, PairingInv, P!TypeOK, Filed, P!PairsAreMatches, P!NothingLost,
     ReplacedHaveTwin, P!StoredAwaitsPeer, P!Paired, P!EntriesOf, P!UniqueKey
<1>3. CASE UNCHANGED P!pvars
  BY <1>3 DEF P!pvars, PairingInv, P!TypeOK, Filed, P!PairsAreMatches, P!NothingLost,
     ReplacedHaveTwin, P!StoredAwaitsPeer, P!Paired, P!EntriesOf, P!UniqueKey
<1> QED BY <1>1, <1>2, <1>3 DEF P!Next

\* What Pairing promises therefore holds at the code's grain too: pairs are
\* counterparts, nothing is lost, and what is left in the table once everything
\* was inserted has no counterpart.
THEOREM PairingPromisesThm == Spec => []PairingPromises
<1>1. PairingInv => PairingPromises
  BY DEF PairingInv, PairingPromises
<1> QED BY <1>1, PairingInit, PairingNext, Refinement, PTL DEF P!Spec
=============================================================================
