----------------------------- MODULE MatchTable -----------------------------
(***************************************************************************)
(* MatchTable (src/Comparison/MatchTable.h) and the two enumeration        *)
(* workers that drive it, at the grain of its locks: one worker per side   *)
(* streams entries through insert() and ends with setSideDone().           *)
(*                                                                         *)
(*  - a shard operation is two steps, the map update and the pending_      *)
(*    update, both under the shard mutex; pending_ is read without it;     *)
(*  - the source parks above the high-water mark: it takes cvMutex_,       *)
(*    evaluates the predicate and blocks, releasing the mutex; it is woken *)
(*    by a notify, or spuriously;                                          *)
(*  - the cancellation flag is raised by another thread at any time and    *)
(*    notifies nobody.                                                     *)
(*                                                                         *)
(* Mutexes are not variables: who holds one follows from the workers' pc.  *)
(* The display gauges (pendingSide_, peaks, throttle ticks) are left out.  *)
(*                                                                         *)
(* Definitions marked "Wrong" are no part of the model: each is a plausible *)
(* mistake in the definition that follows it, which a property must catch. *)
(***************************************************************************)
EXTENDS Integers, FiniteSets

CONSTANTS
  Keys, Entries, SideOf, KeyOf, Empty,  \* as in module Pairing
  ShardOf,     \* ShardOf[k]: the shard that holds key k
  HighWater    \* highWater_: pending entries at which the source parks

VARIABLES
  slot,        \* the shards' maps together: key -> entry or Empty
  pending,     \* pending_
  done,        \* done_[side]
  cancel,      \* *cancel_, raised by the user's thread
  pc, cur,     \* per worker: where it is, and the entry it is inserting
  feed,        \* per worker: what its enumerator has yet to report
  pairs, replaced  \* history: matched pairs, entries replaced by their side

vars == <<slot, pending, done, cancel, pc, cur, feed, pairs, replaced>>

-----------------------------------------------------------------------------
(* The linearization point of insert() is the map update: an entry already *)
(* taken from the enumerator but not yet in its shard is still to come,    *)
(* and a side is closed once done_ is stored.                              *)

BeforeShard == {"gate", "lock", "pred", "block", "parked", "shard"}

ToCome == [s \in {0, 1} |->
             feed[s] \cup (IF pc[s] \in BeforeShard THEN {cur[s]} ELSE {})]

P == INSTANCE Pairing WITH
       todo <- ToCome,
       closed <- {s \in {0, 1} : pc[s] \in {"release", "end"}}

Src   == P!Src
Dst   == P!Dst
Sides == P!Sides

ASSUME MatchTableAssumption ==
  /\ SideOf \in [Entries -> {0, 1}]
  /\ KeyOf \in [Entries -> Keys]
  /\ Empty \notin Entries
  /\ HighWater \in Nat \ {0}

HoldsShard(s, k) ==
  pc[s] \in {"count", "uncount"} /\ ShardOf[KeyOf[cur[s]]] = ShardOf[k]

HoldsCvMutex == pc[Src] \in {"pred", "block"}

MovePc(s, from, to) ==
  /\ pc[s] = from
  /\ pc' = [pc EXCEPT ![s] = to]

-----------------------------------------------------------------------------

Init ==
  /\ slot = [k \in Keys |-> Empty]
  /\ pending = 0
  /\ done = [s \in Sides |-> FALSE]
  /\ cancel = FALSE
  /\ pc = [s \in Sides |-> "next"]
  /\ cur = [s \in Sides |-> Empty]
  /\ feed = [s \in Sides |-> P!EntriesOf(s)]
  /\ pairs = {}
  /\ replaced = {}

\* The enumerator reports an entry; the callback polls the cancellation flag
\* before it inserts.
Report(s) ==
  /\ MovePc(s, "next", IF s = Src THEN "gate" ELSE "shard")
  /\ ~cancel
  /\ \E e \in feed[s] :
       /\ cur' = [cur EXCEPT ![s] = e]
       /\ feed' = [feed EXCEPT ![s] = @ \ {e}]
  /\ UNCHANGED <<slot, pending, done, cancel, pairs, replaced>>

\* The enumeration ends: exhausted, failed part-way, or stopped by the flag.
EnumerationEnds(s) ==
  /\ MovePc(s, "next", "close")
  /\ UNCHANGED <<slot, pending, done, cancel, cur, feed, pairs, replaced>>

\* Wrong: one entry too many passes the gate.
GateOffByOne ==
  /\ MovePc(Src, "gate", IF pending > HighWater THEN "lock" ELSE "shard")
  /\ UNCHANGED <<slot, pending, done, cancel, cur, feed, pairs, replaced>>

\* insert(): the source's unlocked look at pending_.
Gate ==
  /\ MovePc(Src, "gate", IF pending >= HighWater THEN "lock" ELSE "shard")
  /\ UNCHANGED <<slot, pending, done, cancel, cur, feed, pairs, replaced>>

\* insert(): acquire cvMutex_, first for the wait and again after a wakeup.
LockCv ==
  /\ MovePc(Src, "lock", "pred")
  /\ UNCHANGED <<slot, pending, done, cancel, cur, feed, pairs, replaced>>

MayProceed == pending < HighWater \/ done[Dst] \/ cancel

\* insert(): the wait predicate, evaluated under cvMutex_.
Predicate ==
  /\ MovePc(Src, "pred", IF MayProceed THEN "shard" ELSE "block")
  /\ UNCHANGED <<slot, pending, done, cancel, cur, feed, pairs, replaced>>

\* insert(): enter the wait, releasing cvMutex_.
Block ==
  /\ MovePc(Src, "block", "parked")
  /\ UNCHANGED <<slot, pending, done, cancel, cur, feed, pairs, replaced>>

SpuriousWakeup ==
  /\ MovePc(Src, "parked", "lock")
  /\ UNCHANGED <<slot, pending, done, cancel, cur, feed, pairs, replaced>>

\* Wrong: the shard mutex is not held over the update of pending_.
ShardUpdateUnlocked(s) ==
  LET e == cur[s] IN
  /\ pc[s] = "shard"
  /\ \/ P!StoreIn(e)   /\ pc' = [pc EXCEPT ![s] = "count"]
     \/ P!ReplaceIn(e) /\ pc' = [pc EXCEPT ![s] = "next"]
     \/ P!MatchIn(e)   /\ pc' = [pc EXCEPT ![s] = "uncount"]
  /\ UNCHANGED <<pending, done, cancel, cur, feed>>

\* Wrong: the matched peer is returned but stays in the table.
ShardUpdateKeepsPeer(s) ==
  LET e == cur[s] IN
  /\ pc[s] = "shard"
  /\ ~HoldsShard(P!Other(s), KeyOf[e])
  /\ \/ P!StoreIn(e)   /\ pc' = [pc EXCEPT ![s] = "count"]
     \/ P!ReplaceIn(e) /\ pc' = [pc EXCEPT ![s] = "next"]
     \/ /\ slot[KeyOf[e]] # Empty
        /\ SideOf[slot[KeyOf[e]]] # s
        /\ pairs' = pairs \cup {P!Pair(e, slot[KeyOf[e]])}
        /\ pc' = [pc EXCEPT ![s] = "uncount"]
        /\ UNCHANGED <<slot, replaced>>
  /\ UNCHANGED <<pending, done, cancel, cur, feed>>

\* insert(), under the shard mutex: store, replace or take the peer.
ShardUpdate(s) ==
  LET e == cur[s] IN
  /\ pc[s] = "shard"
  /\ ~HoldsShard(P!Other(s), KeyOf[e])
  /\ \/ P!StoreIn(e)   /\ pc' = [pc EXCEPT ![s] = "count"]
     \/ P!ReplaceIn(e) /\ pc' = [pc EXCEPT ![s] = "next"]
     \/ P!MatchIn(e)   /\ pc' = [pc EXCEPT ![s] = "uncount"]
  /\ UNCHANGED <<pending, done, cancel, cur, feed>>

\* insert(): pending_ follows the map before the shard mutex is released.
CountStored(s) ==
  /\ MovePc(s, "count", "next")
  /\ pending' = pending + 1
  /\ UNCHANGED <<slot, done, cancel, cur, feed, pairs, replaced>>

CountTaken(s) ==
  /\ MovePc(s, "uncount", "notify")
  /\ pending' = pending - 1
  /\ UNCHANGED <<slot, done, cancel, cur, feed, pairs, replaced>>

\* Notify under cvMutex_: a parked source wakes and goes back for the mutex.
WakeSource(s, to) ==
  pc' = [t \in Sides |-> IF t = s THEN to
                         ELSE IF t = Src /\ pc[t] = "parked" THEN "lock"
                         ELSE pc[t]]

\* Wrong: the notify does not take cvMutex_.
NotifyOneUnlocked(s) ==
  /\ pc[s] = "notify"
  /\ WakeSource(s, "next")
  /\ UNCHANGED <<slot, pending, done, cancel, cur, feed, pairs, replaced>>

\* insert(): after a match, with the shard released, notify_one.
NotifyOne(s) ==
  /\ pc[s] = "notify"
  /\ ~HoldsCvMutex
  /\ WakeSource(s, "next")
  /\ UNCHANGED <<slot, pending, done, cancel, cur, feed, pairs, replaced>>

\* setSideDone(): store done_, then notify_all under cvMutex_.
StoreDone(s) ==
  /\ MovePc(s, "close", "release")
  /\ done' = [done EXCEPT ![s] = TRUE]
  /\ UNCHANGED <<slot, pending, cancel, cur, feed, pairs, replaced>>

\* Wrong: a finished side wakes nobody.
NotifyAllForgotten(s) ==
  /\ pc[s] = "release"
  /\ ~HoldsCvMutex
  /\ pc' = [pc EXCEPT ![s] = "end"]
  /\ UNCHANGED <<slot, pending, done, cancel, cur, feed, pairs, replaced>>

NotifyAll(s) ==
  /\ pc[s] = "release"
  /\ ~HoldsCvMutex
  /\ WakeSource(s, "end")
  /\ UNCHANGED <<slot, pending, done, cancel, cur, feed, pairs, replaced>>

\* The user asks to stop; nobody is notified.
RequestCancel ==
  /\ ~cancel
  /\ cancel' = TRUE
  /\ UNCHANGED <<slot, pending, done, pc, cur, feed, pairs, replaced>>

\* Both workers joined: the table is only read from here on.
Joined ==
  /\ \A s \in Sides : pc[s] = "end"
  /\ UNCHANGED vars

Worker(s) ==
  \/ Report(s) \/ EnumerationEnds(s)
  \/ s = Src /\ (Gate \/ LockCv \/ Predicate \/ Block)
  \/ ShardUpdate(s) \/ CountStored(s) \/ CountTaken(s) \/ NotifyOne(s)
  \/ StoreDone(s) \/ NotifyAll(s)

Next ==
  \/ \E s \in Sides : Worker(s)
  \/ SpuriousWakeup
  \/ RequestCancel
  \/ Joined

Spec == Init /\ [][Next]_vars

\* The scheduler runs every worker thread that can move, an enumerator that has
\* entries delivers them or fails, and cvMutex_, whenever it is free over and
\* over, is eventually granted to a notifier that wants it (the source may take
\* it back after every spurious wakeup). Nobody owes a cancellation or a
\* spurious wakeup.
FairSpec ==
  /\ Spec
  /\ \A s \in Sides : WF_vars(Worker(s))
  /\ \A s \in Sides : SF_vars(NotifyOne(s)) /\ SF_vars(NotifyAll(s))


-----------------------------------------------------------------------------
(* Properties *)

PcValues ==
  {"next", "gate", "lock", "pred", "block", "parked", "shard", "count",
   "uncount", "notify", "close", "release", "end"}

\* Where a worker holds an entry it has not finished inserting.
Inserting == BeforeShard \cup {"count", "uncount"}

TypeOK ==
  /\ slot \in [Keys -> Entries \cup {Empty}]
  /\ pending \in Int
  /\ done \in [Sides -> BOOLEAN]
  /\ cancel \in BOOLEAN
  /\ pc \in [Sides -> PcValues]
  /\ pc[Dst] \notin {"gate", "lock", "pred", "block", "parked"}
  /\ cur \in [Sides -> Entries \cup {Empty}]
  /\ \A s \in Sides : pc[s] \in Inserting => cur[s] \in P!EntriesOf(s)
  /\ \A s \in Sides : feed[s] \subseteq P!EntriesOf(s)
  /\ feed \in [Sides -> SUBSET Entries]
  /\ pairs \in SUBSET (Entries \X Entries)
  /\ replaced \in SUBSET Entries
  /\ \A k \in Keys : slot[k] # Empty => KeyOf[slot[k]] = k

StoredKeys    == {k \in Keys : slot[k] # Empty}
StoredKeysOf(s) == {k \in StoredKeys : SideOf[slot[k]] = s}

\* What a worker inside a shard has not counted yet.
Uncounted(s) == CASE pc[s] = "count"   -> -1
                  [] pc[s] = "uncount" -> 1
                  [] OTHER             -> 0

\* pending_ is the number of entries the shards hold, up to the updates that
\* are under way inside a shard; in particular it never goes below zero, which
\* as a uint64_t would park the source for good.
PendingIsTableSize ==
  /\ pending = Cardinality(StoredKeys) + Uncounted(Src) + Uncounted(Dst)
  /\ pending >= 0

\* While the throttle is in force the source never holds more than the
\* high-water mark of unmatched entries in the table, however the destination
\* interleaves with its unlocked check.
SourceBounded ==
  ~done[Dst] /\ ~cancel => Cardinality(StoredKeysOf(Src)) <= HighWater

\* No wakeup is lost: whenever the source is blocked, or about to block, and
\* the destination has made room or finished, the destination is about to
\* notify. (Cancellation is the exception: it reaches a parked source only
\* when the destination sees it and finishes.)
NoLostWakeup ==
  /\ pc[Src] \in {"block", "parked"}
  /\ pending < HighWater \/ done[Dst]
  => pc[Dst] \in {"notify", "release"}

\* The source can never stay blocked for ever: both workers run to their end
\* and are joined, cancelled or not.
BothWorkersEnd == <>(\A s \in Sides : pc[s] = "end")

\* The table implements the atomic pairing of its abstract specification.
ImplementsPairing == P!Spec

\* What Pairing promises of an atomic insert holds at the grain of the locks:
\* only counterparts are paired, and none twice; no entry is lost; and what the
\* table still holds at the end has no counterpart, so it is rightly Missing or
\* Extra.
PairingPromises == P!PairsAreMatches /\ P!NothingLost /\ P!StoredAwaitsPeer
=============================================================================
