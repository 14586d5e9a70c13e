---------------------- MODULE ConcurrentComparerProofs ----------------------
(***************************************************************************)
(* The verdicts of the concurrent comparer are one per entry, those about  *)
(* entries on one side only are true, and its counters add up: for any     *)
(* trees, chains of back-ends, batch sizes and limits of the pool, however *)
(* the workers, the hash tasks and a cancellation interleave.              *)
(*                                                                         *)
(* First, the comparer implements Pairing, so that the promises of Pairing *)
(* hold of its pairs. Then the life of a pair: it is a                     *)
(* candidate of a worker, queued in the pool, or dealt with, and only what *)
(* is dealt with has a row.                                                *)
(***************************************************************************)
EXTENDS ConcurrentComparer, FiniteSetTheorems, TLAPS

P == INSTANCE Pairing WITH closed <- {s \in {0, 1} : status[s] # "Running"}

-----------------------------------------------------------------------------
(* The inductive invariant *)

TypeOK ==
  /\ todo \in [Sides -> SUBSET Entries]
  /\ wpc \in [Sides -> {"next", "walk", "full", "submit", "ended"}]
  /\ step \in [Sides -> Nat]
  /\ staged \in [Sides -> SUBSET (Entries \cup {Root})]
  /\ status \in [Sides -> {"Running", "Success", "Cancelled", "Failed"}]
  /\ scanned \in [Sides -> Nat]
  /\ cands \in [Sides -> SUBSET pairs]
  /\ queued \subseteq pairs /\ hashed \subseteq queued
  /\ done \in Nat /\ total \in Nat
  /\ DOMAIN stats = Statuses /\ \A v \in PairStatuses : stats[v] \in Nat
  /\ cancel \in BOOLEAN
  /\ phase \in {"workers", "leftovers", "drain", "done"}

\* A worker that has not ended runs while the main thread waits for it; what it
\* is called for later is to flush. Missing and Extra come last.
Control ==
  /\ \A s \in Sides :
       /\ status[s] = "Running" <=> phase = "workers" /\ wpc[s] # "ended"
       /\ wpc[s] \in {"next", "walk"} => phase = "workers"
       /\ phase \in {"drain", "done"} => wpc[s] = "ended"
       /\ phase \in {"drain", "done"} /\ Clean => cands[s] = {}
  /\ phase = "leftovers" => Clean
  /\ phase = "done" => queued = {}
  /\ post # {} => phase \in {"drain", "done"} /\ Clean

ErrorsOf(s) == {err \in errors : err[1] = s}

\* The errors of a side are those of its last attempt, once that is over.
WalksStand ==
  \A s \in Sides :
    /\ status[s] = "Success" => todo[s] \subseteq Hidden
    /\ wpc[s] = "next" /\ step[s] <= Steps => staged[s] = {}
    /\ ErrorsOf(s) = IF wpc[s] \in {"walk", "full", "submit"} /\ status[s] = "Running"
                     THEN {} ELSE {s} \X staged[s]

\* Pairs that have no row yet: candidates, and those whose task has not run.
Waiting == cands[Src] \cup cands[Dst] \cup (queued \ hashed)

\* A pair is with one worker or in the pool, and its row comes after that.
PairsApart ==
  /\ cands[Src] \cap cands[Dst] = {}
  /\ \A s \in Sides : cands[s] \cap queued = {}
  /\ \A r \in rows : /\ r.verdict \in PairStatuses
                     /\ \E p \in pairs \ Waiting : r.of = {p[1], p[2]}
  /\ \A q, r \in rows : q.of \cap r.of # {} => q = r

\* Missing and Extra rows are about entries left in the table.
PostStands ==
  post \subseteq {Row({e}, "Missing") : e \in Stored(Src)}
                \cup {Row({e}, "Extra") : e \in Stored(Dst)}

RowsWith(v) == {r \in rows : r.verdict = v}

\* How many pairs have a row.
Verdicts == Cardinality(RowsWith("Identical")) + Cardinality(RowsWith("Mismatch"))
            + Cardinality(RowsWith("ReadError")) + Cardinality(RowsWith("Changed"))

\* The counters of the sink and of the hash phase.
CountersExact ==
  /\ IsFiniteSet(pairs) /\ IsFiniteSet(rows) /\ IsFiniteSet(errors)
  /\ \A s \in Sides : IsFiniteSet(staged[s])
  /\ \A v \in PairStatuses : stats[v] = Counted(v)
  /\ total = Cardinality(cands[Src]) + Cardinality(cands[Dst]) + Cardinality(queued) + done

\* Every entry scanned is stored or in a pair, and every pair has a row or waits
\* for one, while nobody cancels, throws, or reports a key twice.
AllAccounted ==
  /\ ~cancel /\ thrown = {} =>
       Cardinality(pairs) = Verdicts + Cardinality(cands[Src]) + Cardinality(cands[Dst])
                            + Cardinality(queued \ hashed)
  /\ replaced = {} =>
       \A s \in Sides : /\ IsFiniteSet(Stored(s))
                        /\ scanned[s] = Cardinality(Stored(s)) + Cardinality(pairs)

LeftoversCounted ==
  phase \in {"drain", "done"} /\ Clean =>
    /\ stats["Missing"] = Cardinality(Stored(Src))
    /\ stats["Extra"] = Cardinality(Stored(Dst))

ResultStands == phase = "done" => result = rows \cup post

IInv ==
  /\ TypeOK /\ Control /\ WalksStand /\ PairsApart /\ PostStands
  /\ CountersExact /\ AllAccounted /\ LeftoversCounted /\ ResultStands

-----------------------------------------------------------------------------
(* The comparer implements Pairing: an entry callback is P!Insert, the end *)
(* of a side's enumeration is P!Close, every other step is a stutter.      *)

\* The two sides.
LEMMA SidesFact == Sides = {0, 1} /\ Src = 0 /\ Dst = 1 /\ Src \in Sides /\ Dst \in Sides
BY DEF Sides, Src, Dst

\* Inserting an entry is the same here and in Pairing.
LEMMA InsertInIs == ASSUME NEW e PROVE InsertIn(e) <=> P!InsertIn(e)
BY DEF InsertIn, P!InsertIn, StoreIn, P!StoreIn, ReplaceIn, P!ReplaceIn, MatchIn,
   P!MatchIn, Pair, P!Pair, Src, P!Src

\* Which workers still enumerate: what Pairing calls not closed.
WorkersRun ==
  /\ wpc \in [Sides -> {"next", "walk", "full", "submit", "ended"}]
  /\ status \in [Sides -> {"Running", "Success", "Cancelled", "Failed"}]
  /\ \A s \in Sides :
       /\ status[s] = "Running" <=> phase = "workers" /\ wpc[s] # "ended"
       /\ wpc[s] \in {"next", "walk"} => phase = "workers"

\* Before the workers start, both are to run.
LEMMA InitRuns == Init => WorkersRun
BY DEF Init, WorkersRun

\* A worker enumerates until it has its status, in every step.
LEMMA NextRuns == WorkersRun /\ [Next]_vars => WorkersRun'
<1> SUFFICES ASSUME WorkersRun, [Next]_vars
             PROVE  WorkersRun'
  OBVIOUS
<1> USE DEF walkVars, mainVars, tableVars, poolVars, sinkVars
<1>1. ASSUME NEW s \in Sides, StartAttempt(s) PROVE WorkersRun'
  BY <1>1 DEF StartAttempt, WorkersRun
<1>2. ASSUME NEW s \in Sides, GiveUp(s) PROVE WorkersRun'
  BY <1>2 DEF GiveUp, Finish, WorkersRun
<1>3. ASSUME NEW s \in Sides, Emit(s) PROVE WorkersRun'
  <2>1. /\ wpc[s] = "walk" /\ status' = status /\ phase' = phase
        /\ \/ wpc' = wpc
           \/ wpc' = [wpc EXCEPT ![s] = "full"]
           \/ wpc' = [wpc EXCEPT ![s] = "walk"]
    BY <1>3 DEF Emit, OnEntry, Classify
  <2> QED
    BY <2>1 DEF WorkersRun
<1>4. ASSUME NEW s \in Sides, ListingFails(s) PROVE WorkersRun'
  BY <1>4 DEF ListingFails, WorkersRun
<1>5. ASSUME NEW s \in Sides, WalkReturns(s) PROVE WorkersRun'
  BY <1>5 DEF WalkReturns, Finish, WorkersRun
<1>6. ASSUME NEW s \in Sides, FailsWithEntries(s) PROVE WorkersRun'
  BY <1>6 DEF FailsWithEntries, Finish, WorkersRun
<1>7. ASSUME NEW s \in Sides, FailsEmpty(s) PROVE WorkersRun'
  BY <1>7 DEF FailsEmpty, WorkersRun
<1>8. ASSUME NEW s \in Sides, Flush(s) PROVE WorkersRun'
  BY <1>8 DEF Flush, WaitRoom, SubmitBatch, WorkersRun
<1>9. CASE Main
  BY <1>9 DEF Main, Join, FlushLeftovers, FinalizeMissingExtra, Take, WorkersRun
<1>10. CASE Pool
  BY <1>10 DEF Pool, HashPair, TaskCompletes, WorkersRun
<1>11. CASE RequestCancel
  BY <1>11 DEF RequestCancel, WorkersRun
<1>12. CASE UNCHANGED vars
  BY <1>12 DEF vars, WorkersRun
<1> QED
  BY <1>1, <1>2, <1>3, <1>4, <1>5, <1>6, <1>7, <1>8, <1>9, <1>10, <1>11, <1>12
     DEF Next, Worker, Returned

\* A step that leaves the table and the states of the enumerations alone.
LEMMA StutterRefines ==
  ASSUME UNCHANGED <<tableVars, todo, status>>
  PROVE  UNCHANGED P!pvars
BY DEF tableVars, P!pvars

\* Reporting an entry is a step of Pairing.
LEMMA EmitRefines ==
  ASSUME WorkersRun, NEW s \in Sides, Emit(s)
  PROVE  P!Insert(s)
<1> USE SidesFact
<1>1. PICK e \in todo[s] : InsertIn(e) /\ todo' = [todo EXCEPT ![s] = @ \ {e}]
  BY DEF Emit, OnEntry
<1>2. status' = status /\ status[s] = "Running"
  BY DEF Emit, WorkersRun
<1>3. s \notin {t \in {0, 1} : status[t] # "Running"}
  BY <1>2
<1> QED
  BY <1>1, <1>2, <1>3, InsertInIs DEF P!Insert

\* The end of a worker is a step of Pairing.
LEMMA FinishRefines ==
  ASSUME WorkersRun, NEW s \in Sides, NEW st \in {"Success", "Cancelled", "Failed"},
         wpc[s] \in {"next", "walk"}, Finish(s, st), UNCHANGED <<tableVars, todo>>
  PROVE  P!Close(s)
<1> USE SidesFact
<1>1. s \notin {t \in {0, 1} : status[t] # "Running"}
  BY DEF WorkersRun
<1>2. {t \in {0, 1} : status'[t] # "Running"} = {t \in {0, 1} : status[t] # "Running"} \cup {s}
  BY DEF Finish, WorkersRun
<1> QED
  BY <1>1, <1>2 DEF P!Close, tableVars

\* Every step is a step of Pairing or leaves its variables alone.
LEMMA NextRefines ==
  ASSUME WorkersRun, [Next]_vars
  PROVE  [P!Next]_(P!pvars)
<1> USE DEF walkVars, mainVars
<1>0. P!Sides = Sides
  BY DEF P!Sides, Sides, P!Src, P!Dst, Src, Dst
<1>1. ASSUME NEW s \in Sides, GiveUp(s) \/ WalkReturns(s) \/ FailsWithEntries(s)
      PROVE  P!Close(s)
  <2>1. UNCHANGED <<tableVars, todo>> /\ wpc[s] \in {"next", "walk"}
    BY <1>1 DEF GiveUp, WalkReturns, FailsWithEntries
  <2>2. \E st \in {"Success", "Cancelled", "Failed"} : Finish(s, st)
    BY <1>1 DEF GiveUp, WalkReturns, FailsWithEntries
  <2> QED
    BY <2>1, <2>2, FinishRefines
<1>2. ASSUME NEW s \in Sides,
             StartAttempt(s) \/ ListingFails(s) \/ FailsEmpty(s) \/ Flush(s)
      PROVE  UNCHANGED <<tableVars, todo, status>>
  BY <1>2 DEF StartAttempt, ListingFails, FailsEmpty, Flush, WaitRoom, SubmitBatch
<1>3. ASSUME Main \/ Pool \/ RequestCancel \/ UNCHANGED vars
      PROVE  UNCHANGED <<tableVars, todo, status>>
  BY <1>3 DEF Main, Join, FlushLeftovers, FinalizeMissingExtra, Take, Pool, HashPair,
     TaskCompletes, RequestCancel, vars, tableVars
<1>4. ASSUME NEW s \in Sides, Worker(s)
      PROVE  P!Insert(s) \/ P!Close(s) \/ UNCHANGED P!pvars
  BY <1>1, <1>2, <1>4, EmitRefines, StutterRefines DEF Worker
<1> QED
  BY <1>0, <1>3, <1>4, StutterRefines DEF Next, Returned, P!Next

\* The concurrent comparer implements the atomic pairing of two streams, for
\* every instance of the constants.
THEOREM Refinement == Spec => P!Spec
<1>1. Init => P!Init
  BY DEF Init, P!Init, P!Sides, Sides, P!Src, P!Dst, Src, Dst, P!EntriesOf, EntriesOf
<1> QED
  BY <1>1, InitRuns, NextRuns, NextRefines, PTL DEF Spec, P!Spec

-----------------------------------------------------------------------------
(* The promises of Pairing *)

\* An entry still to come has left no trace, and what has a trace has the key
\* and side it is filed under. With it the invariants of Pairing are inductive.
Filed ==
  /\ \A s \in P!Sides : todo[s] \subseteq P!EntriesOf(s)
  /\ \A k \in Keys : slot[k] # Empty => KeyOf[slot[k]] = k
  /\ \A e \in Entries : e \in todo[SideOf[e]] =>
       slot[KeyOf[e]] # e /\ e \notin P!Paired /\ e \notin replaced
  /\ \A e \in P!Paired : slot[KeyOf[e]] # e

\* A dropped entry was superseded by another of its side and key.
ReplacedHaveTwin == \A e \in replaced : e \in Entries /\ ~P!UniqueKey(KeyOf[e])

PairingInv ==
  /\ P!TypeOK /\ Filed /\ ReplacedHaveTwin
  /\ P!PairsAreMatches /\ P!NothingLost /\ P!StoredAwaitsPeer

\* The invariant holds at the start.
LEMMA PairingInit == P!Init => PairingInv
BY PairingAssumption DEF P!Init, PairingInv, P!TypeOK, Filed, P!PairsAreMatches, P!NothingLost,
   ReplacedHaveTwin, P!StoredAwaitsPeer, P!Paired, P!EntriesOf, P!Sides, P!Src, P!Dst,
   Sides, Src, Dst

\* An insertion keeps it.
LEMMA PairingInsert ==
  ASSUME PairingInv, NEW s \in P!Sides, P!Insert(s)
  PROVE  PairingInv'
<1> USE PairingAssumption DEF P!Sides, P!Src, P!Dst, Sides, Src, Dst
<1>1. PICK e \in todo[s] : P!InsertIn(e) /\ todo' = [todo EXCEPT ![s] = @ \ {e}]
  BY DEF P!Insert
<1>2. /\ e \in Entries /\ SideOf[e] = s /\ KeyOf[e] \in Keys
      /\ slot[KeyOf[e]] # e /\ e \notin P!Paired /\ e \notin replaced /\ e # Empty
  BY DEF PairingInv, P!TypeOK, Filed, P!EntriesOf, P!Insert
<1>3. CASE P!StoreIn(e)
  <2> USE <1>1, <1>2, <1>3 DEF P!StoreIn
  <2>1. P!TypeOK'
    BY DEF PairingInv, P!TypeOK
  <2>2. Filed'
    BY DEF PairingInv, P!TypeOK, Filed, P!Paired, P!EntriesOf
  <2>3. P!PairsAreMatches' /\ ReplacedHaveTwin'
    BY DEF PairingInv, P!PairsAreMatches, ReplacedHaveTwin, P!UniqueKey
  <2>4. P!NothingLost'
    BY DEF PairingInv, P!TypeOK, P!NothingLost, P!Paired
  <2>5. P!StoredAwaitsPeer'
    BY DEF PairingInv, P!TypeOK, Filed, P!StoredAwaitsPeer, P!NothingLost, ReplacedHaveTwin,
           P!PairsAreMatches, P!Paired, P!UniqueKey
  <2> QED BY <2>1, <2>2, <2>3, <2>4, <2>5 DEF PairingInv
<1>4. CASE P!ReplaceIn(e)
  <2> USE <1>1, <1>2, <1>4 DEF P!ReplaceIn
  <2>1. P!TypeOK'
    BY DEF PairingInv, P!TypeOK
  <2>2. Filed'
    BY DEF PairingInv, P!TypeOK, Filed, P!Paired, P!EntriesOf
  <2>3. P!PairsAreMatches' /\ ReplacedHaveTwin'
    BY DEF PairingInv, P!TypeOK, Filed, P!PairsAreMatches, ReplacedHaveTwin, P!UniqueKey
  <2>4. P!NothingLost'
    BY DEF PairingInv, P!TypeOK, P!NothingLost, P!Paired
  <2>5. P!StoredAwaitsPeer'
    BY DEF PairingInv, P!TypeOK, Filed, P!StoredAwaitsPeer, P!UniqueKey
  <2> QED BY <2>1, <2>2, <2>3, <2>4, <2>5 DEF PairingInv
<1>5. CASE P!MatchIn(e)
  <2> DEFINE f == slot[KeyOf[e]]
  <2> USE <1>1, <1>2, <1>5 DEF P!MatchIn, P!Pair
  <2>0. /\ f \in Entries /\ KeyOf[f] = KeyOf[e] /\ SideOf[f] # SideOf[e]
        /\ f \notin P!Paired
        /\ SideOf[e] = P!Src => pairs' = pairs \cup {<<e, f>>}
        /\ SideOf[e] # P!Src => pairs' = pairs \cup {<<f, e>>}
    BY DEF PairingInv, P!TypeOK, Filed
  <2>a. PICK q \in Entries \X Entries :
          pairs' = pairs \cup {q} /\ {q[1], q[2]} = {e, f}
    <3>1. CASE SideOf[e] = P!Src
      <4> DEFINE r == <<e, f>>
      <4>1. r \in Entries \X Entries /\ r[1] = e /\ r[2] = f
        BY <2>0
      <4>2. {r[1], r[2]} = {e, f} /\ pairs' = pairs \cup {r}
        BY <4>1, <2>0, <3>1
      <4> HIDE DEF r
      <4> QED BY <4>1, <4>2
    <3>2. CASE SideOf[e] # P!Src
      <4> DEFINE r == <<f, e>>
      <4>1. r \in Entries \X Entries /\ r[1] = f /\ r[2] = e
        BY <2>0
      <4>2. {r[1], r[2]} = {e, f} /\ pairs' = pairs \cup {r}
        BY <4>1, <2>0, <3>2
      <4> HIDE DEF r
      <4> QED BY <4>1, <4>2
    <3> QED BY <3>1, <3>2
  <2>1. P!TypeOK'
    BY <2>0 DEF PairingInv, P!TypeOK
  <2>2. P!Paired' = P!Paired \cup {e, f}
    <3>1. \A x \in Entries : x \in P!Paired' <=> x \in P!Paired \/ x \in {q[1], q[2]}
      BY <2>a DEF P!Paired
    <3> QED BY <3>1, <2>a, <2>0 DEF P!Paired
  <2>3. Filed'
    <3> HIDE DEF P!MatchIn, P!Pair
    <3>1. /\ slot' = [slot EXCEPT ![KeyOf[e]] = Empty]
          /\ replaced' = replaced
      BY DEF P!MatchIn
    <3>2. \A x \in Entries : KeyOf[x] = KeyOf[e] => slot'[KeyOf[x]] # x
      BY <3>1 DEF PairingInv, P!TypeOK
    <3>3. /\ \A t \in P!Sides : todo'[t] \subseteq P!EntriesOf(t)
          /\ \A k \in Keys : slot'[k] # Empty => KeyOf[slot'[k]] = k
      BY <3>1 DEF PairingInv, P!TypeOK, Filed, P!EntriesOf
    <3>4. ASSUME NEW x \in Entries, x \in todo'[SideOf[x]]
          PROVE  slot'[KeyOf[x]] # x /\ x \notin P!Paired' /\ x \notin replaced'
      <4>1. x # e /\ x \in todo[SideOf[x]]
        BY <3>4, <1>1 DEF PairingInv, P!TypeOK
      <4>2. x # f
        BY <4>1, <2>0 DEF PairingInv, P!TypeOK, Filed
      <4> QED BY <4>1, <4>2, <3>1, <3>2, <2>2 DEF PairingInv, P!TypeOK, Filed
    <3>5. \A x \in P!Paired' : slot'[KeyOf[x]] # x
      BY <3>1, <3>2, <2>0, <2>2 DEF PairingInv, P!TypeOK, Filed, P!Paired
    <3> QED BY <3>3, <3>4, <3>5 DEF Filed, P!EntriesOf
  <2>4. P!PairsAreMatches'
    BY <2>0 DEF PairingInv, P!TypeOK, P!PairsAreMatches, P!Paired
  <2>5. ReplacedHaveTwin'
    BY DEF PairingInv, ReplacedHaveTwin, P!UniqueKey
  <2>6. P!NothingLost'
    BY <2>0, <2>2 DEF PairingInv, P!TypeOK, P!NothingLost
  <2>7. P!StoredAwaitsPeer'
    BY <2>0 DEF PairingInv, P!TypeOK, Filed, P!StoredAwaitsPeer, P!UniqueKey
  <2> QED BY <2>1, <2>3, <2>4, <2>5, <2>6, <2>7 DEF PairingInv
<1> QED BY <1>1, <1>3, <1>4, <1>5 DEF P!InsertIn

\* Every step keeps it.
LEMMA PairingNext == PairingInv /\ [P!Next]_(P!pvars) => PairingInv'
<1> SUFFICES ASSUME PairingInv, [P!Next]_(P!pvars) PROVE PairingInv'
  OBVIOUS
<1>1. ASSUME NEW s \in P!Sides, P!Insert(s) PROVE PairingInv'
  BY <1>1, PairingInsert
<1>2. ASSUME NEW s \in P!Sides, P!Close(s) PROVE PairingInv'
  BY <1>2 DEF P!Close, PairingInv, P!TypeOK, Filed, P!PairsAreMatches, P!NothingLost,
     ReplacedHaveTwin, P!StoredAwaitsPeer, P!Paired, P!EntriesOf, P!UniqueKey
<1>3. CASE UNCHANGED P!pvars
  BY <1>3 DEF P!pvars, PairingInv, P!TypeOK, Filed, P!PairsAreMatches, P!NothingLost,
     ReplacedHaveTwin, P!StoredAwaitsPeer, P!Paired, P!EntriesOf, P!UniqueKey
<1> QED BY <1>1, <1>2, <1>3 DEF P!Next

\* So the pairs of the comparer are what Pairing promises.
LEMMA PairingHolds == Spec => []PairingInv
BY PairingInit, PairingNext, Refinement, PTL DEF P!Spec

\* Each pair is a source and a destination entry of one key, no entry is lost,
\* and an entry whose key is reported once a side stays in the table only while
\* its counterpart is to come: at the grain of the callbacks of the two walks.
THEOREM PairingPromisesThm == Spec => [](P!PairsAreMatches /\ P!NothingLost /\ P!StoredAwaitsPeer)
BY PairingHolds, PTL DEF PairingInv

-----------------------------------------------------------------------------
(* The initial states *)

\* The invariant holds at the start.
LEMMA InitIInv == Init => IInv
<1> SUFFICES ASSUME Init PROVE IInv
  OBVIOUS
<1> USE SidesFact, ComparerAssumption DEF Init
<1>1. TypeOK /\ Control
  BY DEF TypeOK, Control, Clean, EntriesOf, Statuses, PairStatuses
<1>2. WalksStand
  <2>1. \A s \in Sides : ErrorsOf(s) = {} /\ {s} \X staged[s] = {}
    BY DEF ErrorsOf
  <2> QED
    BY <2>1 DEF WalksStand
<1>3. PairsApart /\ PostStands /\ LeftoversCounted /\ ResultStands
  BY DEF PairsApart, PostStands, LeftoversCounted, ResultStands
<1>4. \A s \in Sides : Stored(s) = {}
  BY PairingAssumption DEF Stored, EntriesOf
<1>5. IsFiniteSet({}) /\ Cardinality({}) = 0
  BY FS_EmptySet
<1>c. cands[Src] = {} /\ cands[Dst] = {}
  OBVIOUS
<1>6. CountersExact
  <2>1. \A v \in PairStatuses : stats[v] = Counted(v)
    <3> TAKE v \in PairStatuses
    <3>1. {r \in rows : r.verdict = v} = {} /\ errors = {} /\ stats[v] = 0
      BY DEF Statuses
    <3>2. Cardinality({r \in rows : r.verdict = v}) = 0 /\ Cardinality(errors) = 0
      BY <1>5, <3>1, Zenon
    <3> QED
      BY <3>1, <3>2 DEF Counted
  <2>2. total = Cardinality(cands[Src]) + Cardinality(cands[Dst]) + Cardinality(queued) + done
    BY <1>5, <1>c
  <2> QED
    BY <1>5, <2>1, <2>2 DEF CountersExact
<1>7. Verdicts = 0
  <2>1. \A v \in PairStatuses : RowsWith(v) = {}
    BY DEF RowsWith
  <2>2. \A v \in PairStatuses : Cardinality(RowsWith(v)) = 0
    BY <1>5, <2>1, Zenon
  <2> QED
    BY <2>2 DEF Verdicts, PairStatuses
<1>8. AllAccounted
  <2>1. queued \ hashed = {}
    OBVIOUS
  <2>2. Cardinality(pairs) = Verdicts + Cardinality(cands[Src]) + Cardinality(cands[Dst])
                             + Cardinality(queued \ hashed)
    BY <1>5, <1>7, <1>c, <2>1
  <2>3. \A s \in Sides : IsFiniteSet(Stored(s))
                         /\ scanned[s] = Cardinality(Stored(s)) + Cardinality(pairs)
    <3> TAKE s \in Sides
    <3>1. scanned[s] = 0 /\ Cardinality(pairs) = 0
      BY <1>5
    <3>2. IsFiniteSet(Stored(s)) /\ Cardinality(Stored(s)) = 0
      BY <1>4, <1>5, Zenon
    <3> QED
      BY <3>1, <3>2
  <2> QED
    BY <2>2, <2>3 DEF AllAccounted
<1> QED
  BY <1>1, <1>2, <1>3, <1>6, <1>8 DEF IInv

-----------------------------------------------------------------------------
(* Steps of the enumerations and of the main thread that leave the pairs    *)
(* and the sink alone                                                      *)

pairVars == <<slot, pairs, replaced, scanned, cands, queued, hashed, done, thrown,
              total, rows>>

\* What such a step keeps, whatever it does to the workers and their errors.
LEMMA PairsKept ==
  ASSUME IInv, UNCHANGED pairVars, cancel => cancel',
         /\ IsFiniteSet(errors') /\ \A s \in Sides : IsFiniteSet(staged'[s])
         /\ \A v \in PairStatuses : stats'[v] = Counted(v)'
  PROVE  PairsApart' /\ CountersExact' /\ AllAccounted'
<1> USE DEF pairVars, IInv
<1>1. PairsApart'
  BY DEF PairsApart, Waiting
<1>2. CountersExact'
  BY DEF CountersExact
<1>3. AllAccounted'
  <2>1. Verdicts' = Verdicts
    BY DEF Verdicts, RowsWith
  <2> QED
    BY <2>1 DEF AllAccounted, Stored
<1> QED
  BY <1>1, <1>2, <1>3

\* So does one that leaves the counters and the errors alone, too.
LEMMA SinkKept ==
  ASSUME IInv, UNCHANGED pairVars, UNCHANGED <<staged, stats, errors>>, cancel => cancel'
  PROVE  PairsApart' /\ CountersExact' /\ AllAccounted'
<1>1. \A v \in PairStatuses : Counted(v)' = Counted(v)
  BY DEF Counted, pairVars
<1> QED
  BY <1>1, PairsKept DEF IInv, CountersExact

\* The errors of an attempt enter the report once, and are counted there.
LEMMA ErrorsCounted ==
  ASSUME IInv, NEW s \in Sides, NEW errs, IsFiniteSet(errs), UNCHANGED rows,
         ErrorsOf(s) = {}, Retain(s, errs)
  PROVE  /\ IsFiniteSet(errors') /\ \A v \in PairStatuses : stats'[v] = Counted(v)'
         /\ \A v \in PairStatuses : stats'[v] \in Nat
         /\ DOMAIN stats' = Statuses
<1> DEFINE new == {s} \X errs
<1>1. errors' = errors \cup new
  BY DEF Retain
<1>2. IsFiniteSet({s}) /\ Cardinality({s}) = 1
  BY FS_Singleton
<1>3. IsFiniteSet(new) /\ Cardinality(new) = 1 * Cardinality(errs)
  BY <1>2, FS_Product
<1>n. /\ Cardinality(errs) \in Nat /\ Cardinality(errors) \in Nat
      /\ IsFiniteSet(errors)
  BY FS_CardinalityType DEF IInv, CountersExact
<1>4. errors \cap new = {}
  BY DEF ErrorsOf
<1> HIDE DEF new
<1>5. /\ IsFiniteSet(errors')
      /\ Cardinality(errors') = Cardinality(errors) + Cardinality(errs)
  <2>1. /\ IsFiniteSet(errors \cup new)
        /\ Cardinality(errors \cup new)
             = Cardinality(errors) + Cardinality(new) - Cardinality(errors \cap new)
    BY <1>3, <1>n, FS_Union
  <2>2. Cardinality(errors \cap new) = 0
    BY <1>4, FS_EmptySet, Zenon
  <2>3. Cardinality(new) = Cardinality(errs)
    BY <1>3, <1>n
  <2> QED
    BY <1>1, <1>n, <2>1, <2>2, <2>3
<1>6. /\ DOMAIN stats = Statuses /\ \A v \in PairStatuses : stats[v] \in Nat
      /\ stats' = [stats EXCEPT !["ReadError"] = @ + Cardinality(errs)]
  BY DEF IInv, TypeOK, Retain
<1>7. /\ DOMAIN stats' = Statuses
      /\ stats'["ReadError"] = stats["ReadError"] + Cardinality(errs)
      /\ \A v \in PairStatuses : v # "ReadError" => stats'[v] = stats[v]
  BY <1>6 DEF Statuses, PairStatuses
<1>8. ASSUME NEW v \in PairStatuses PROVE stats'[v] = Counted(v)'
  <2> DEFINE n == Cardinality({r \in rows : r.verdict = v})
  <2>1. stats[v] = n + (IF v = "ReadError" THEN Cardinality(errors) ELSE 0)
    BY DEF IInv, CountersExact, Counted
  <2>2. Counted(v)' = n + (IF v = "ReadError" THEN Cardinality(errors') ELSE 0)
    BY DEF Counted
  <2>3. n \in Nat
    <3>1. IsFiniteSet({r \in rows : r.verdict = v})
      BY FS_Subset DEF IInv, CountersExact
    <3> QED
      BY <3>1, FS_CardinalityType
  <2> HIDE DEF n
  <2> QED
    BY <1>5, <1>7, <1>n, <2>1, <2>2, <2>3
<1>9. \A v \in PairStatuses : stats'[v] \in Nat
  BY <1>6, <1>7, <1>n
<1> QED
  BY <1>5, <1>7, <1>8, <1>9

\* A step of a worker that is still enumerating, too, has no part in the
\* result: Missing and Extra come later.
LEMMA WalkKeeps ==
  ASSUME IInv, UNCHANGED pairVars, UNCHANGED <<post, phase, result, cancel>>,
         NEW s \in Sides, wpc[s] \in {"next", "walk"},
         /\ IsFiniteSet(errors') /\ \A t \in Sides : IsFiniteSet(staged'[t])
         /\ \A v \in PairStatuses : stats'[v] = Counted(v)'
  PROVE  /\ PairsApart' /\ PostStands' /\ CountersExact' /\ AllAccounted'
         /\ LeftoversCounted' /\ ResultStands'
<1>1. phase = "workers" /\ post = {}
  BY DEF IInv, Control
<1>2. PairsApart' /\ CountersExact' /\ AllAccounted'
  BY PairsKept
<1> QED
  BY <1>1, <1>2 DEF PostStands, LeftoversCounted, ResultStands

\* A back-end is tried.
LEMMA StartAttemptIInv ==
  ASSUME IInv, NEW s \in Sides, StartAttempt(s)
  PROVE  IInv'
<1> USE DEF StartAttempt, walkVars, mainVars, tableVars, poolVars, sinkVars
<1>1. TypeOK' /\ Control'
  BY DEF IInv, TypeOK, Control, Clean
<1>2. WalksStand'
  <2>1. ASSUME NEW t \in Sides
        PROVE  /\ status'[t] = status[t] /\ todo'[t] = todo[t] /\ staged'[t] = staged[t]
               /\ ErrorsOf(t)' = ErrorsOf(t)
               /\ t # s => wpc'[t] = wpc[t] /\ step'[t] = step[t]
    BY DEF ErrorsOf, IInv, TypeOK
  <2>2. staged[s] = {} /\ {s} \X staged[s] = {}
    BY DEF IInv, WalksStand
  <2>3. wpc'[s] \in {"next", "walk"}
    BY DEF IInv, TypeOK
  <2> QED
    BY <2>1, <2>2, <2>3 DEF IInv, WalksStand, TypeOK
<1>3. \A v \in PairStatuses : Counted(v)' = Counted(v)
  BY DEF Counted
<1> QED
  BY <1>1, <1>2, <1>3, WalkKeeps DEF IInv, CountersExact, pairVars

\* A side whose enumeration is over, its errors now in the sink.
LEMMA FinishIInv ==
  ASSUME IInv, NEW s \in Sides, NEW st \in {"Success", "Cancelled", "Failed"},
         wpc[s] \in {"next", "walk"}, Finish(s, st), st = "Success" => todo[s] \subseteq Hidden,
         UNCHANGED pairVars, UNCHANGED <<todo, step, post, phase, result, cancel>>,
         staged' \in [Sides -> SUBSET (Entries \cup {Root})],
         \A t \in Sides \ {s} : staged'[t] = staged[t], IsFiniteSet(staged'[s]),
         \/ wpc[s] = "walk" /\ Retain(s, staged'[s])
         \/ wpc[s] = "next" /\ UNCHANGED <<staged, errors, stats>>
  PROVE  IInv'
<1> USE DEF pairVars, Finish
<1>1. phase = "workers" /\ post = {} /\ status[s] = "Running"
  BY DEF IInv, Control, TypeOK
<1>c. /\ IsFiniteSet(errors') /\ \A v \in PairStatuses : stats'[v] = Counted(v)'
      /\ \A v \in PairStatuses : stats'[v] \in Nat
      /\ DOMAIN stats' = Statuses
  <2>1. CASE wpc[s] = "walk"
    <3>1. ErrorsOf(s) = {}
      BY <1>1, <2>1 DEF IInv, WalksStand
    <3> QED
      BY <2>1, <3>1, ErrorsCounted
  <2>2. CASE wpc[s] = "next"
    BY <2>2 DEF IInv, TypeOK, CountersExact, Counted
  <2> QED
    BY <2>1, <2>2
<1>s. \A t \in Sides : IsFiniteSet(staged'[t])
  BY DEF IInv, CountersExact
<1>2. TypeOK'
  BY <1>c DEF IInv, TypeOK
<1>3. Control'
  BY <1>1 DEF IInv, TypeOK, Control, Clean
<1>4. WalksStand'
  <2>1. ASSUME NEW t \in Sides, t # s
        PROVE  ErrorsOf(t)' = ErrorsOf(t)
    BY <2>1 DEF ErrorsOf, Retain
  <2>2. ErrorsOf(s)' = {s} \X staged'[s]
    <3>1. CASE wpc[s] = "walk"
      <4>1. ErrorsOf(s) = {}
        BY <1>1, <3>1 DEF IInv, WalksStand
      <4> QED
        BY <3>1, <4>1 DEF ErrorsOf, Retain
    <3>2. CASE wpc[s] = "next"
      BY <3>2 DEF IInv, WalksStand, ErrorsOf
    <3> QED
      BY <3>1, <3>2
  <2>3. wpc'[s] = "ended" /\ status'[s] = st
    BY DEF IInv, TypeOK
  <2>4. \A t \in Sides : t # s => wpc'[t] = wpc[t] /\ status'[t] = status[t]
    BY DEF IInv, TypeOK
  <2> QED
    BY <2>1, <2>2, <2>3, <2>4 DEF IInv, WalksStand
<1> QED
  BY <1>2, <1>3, <1>4, <1>c, <1>s, WalkKeeps DEF IInv

\* No back-end is left.
LEMMA GiveUpIInv ==
  ASSUME IInv, NEW s \in Sides, GiveUp(s)
  PROVE  IInv'
<1>1. PICK st \in {"Cancelled", "Failed"} : Finish(s, st)
  BY DEF GiveUp
<1> QED
  BY <1>1, FinishIInv DEF GiveUp, walkVars, mainVars, tableVars, poolVars, sinkVars,
     pairVars, IInv, TypeOK, CountersExact

\* A walk returns.
LEMMA WalkReturnsIInv ==
  ASSUME IInv, NEW s \in Sides, WalkReturns(s)
  PROVE  IInv'
<1>1. PICK st \in {"Success", "Cancelled"} :
        Finish(s, st) /\ (st = "Success" => todo[s] \subseteq Hidden)
  BY DEF WalkReturns, WalkOver
<1> QED
  BY <1>1, FinishIInv DEF WalkReturns, mainVars, tableVars, poolVars, pairVars, IInv, TypeOK,
     CountersExact

\* A walk fails after it reported entries.
LEMMA FailsWithEntriesIInv ==
  ASSUME IInv, NEW s \in Sides, FailsWithEntries(s)
  PROVE  IInv'
<1>1. PICK st \in {"Cancelled", "Failed"} : Finish(s, st)
  BY DEF FailsWithEntries
<1>2. /\ staged' \in [Sides -> SUBSET (Entries \cup {Root})]
      /\ \A t \in Sides \ {s} : staged'[t] = staged[t]
      /\ IsFiniteSet(staged'[s])
  BY FS_AddElement DEF FailsWithEntries, IInv, TypeOK, CountersExact
<1> QED
  BY <1>1, <1>2, FinishIInv DEF FailsWithEntries, mainVars, tableVars, poolVars, pairVars

\* A directory cannot be listed.
LEMMA ListingFailsIInv ==
  ASSUME IInv, NEW s \in Sides, ListingFails(s)
  PROVE  IInv'
<1> USE DEF ListingFails, mainVars, tableVars, poolVars, sinkVars
<1>1. PICK d \in Entries : staged' = [staged EXCEPT ![s] = @ \cup {d}]
  BY DEF UnreadableOn, EntriesOf
<1>2. TypeOK' /\ Control'
  BY <1>1 DEF IInv, TypeOK, Control, Clean
<1>3. WalksStand'
  <2>1. status[s] = "Running"
    BY DEF IInv, Control
  <2>2. \A t \in Sides : ErrorsOf(t)' = ErrorsOf(t) /\ (t # s => staged'[t] = staged[t])
    BY <1>1 DEF ErrorsOf, IInv, TypeOK
  <2> QED
    BY <2>1, <2>2 DEF IInv, WalksStand
<1>4. \A t \in Sides : IsFiniteSet(staged'[t])
  BY <1>1, FS_AddElement DEF IInv, TypeOK, CountersExact
<1>5. \A v \in PairStatuses : Counted(v)' = Counted(v)
  BY DEF Counted
<1> QED
  BY <1>2, <1>3, <1>4, <1>5, WalkKeeps DEF IInv, CountersExact, pairVars

\* A walk fails before its first entry.
LEMMA FailsEmptyIInv ==
  ASSUME IInv, NEW s \in Sides, FailsEmpty(s)
  PROVE  IInv'
<1> USE ComparerAssumption DEF FailsEmpty, mainVars, tableVars, poolVars
<1>1. /\ staged' \in [Sides -> SUBSET (Entries \cup {Root})]
      /\ \A t \in Sides : t # s => staged'[t] = staged[t]
      /\ status[s] = "Running"
  <2>1. CASE step[s] < Steps
    BY <2>1 DEF IInv, TypeOK, Control
  <2>2. CASE ~(step[s] < Steps)
    BY <2>2 DEF IInv, TypeOK, Control
  <2> QED
    BY <2>1, <2>2
<1>s. \A t \in Sides : IsFiniteSet(staged'[t])
  <2>1. \A t \in Sides : IsFiniteSet(staged[t])
    BY DEF IInv, CountersExact
  <2>2. staged'[s] = {} \/ staged'[s] = staged[s] \cup {Root}
    BY DEF IInv, TypeOK
  <2>3. IsFiniteSet(staged'[s])
    <3>1. IsFiniteSet({}) /\ IsFiniteSet(staged[s] \cup {Root})
      BY <2>1, FS_EmptySet, FS_AddElement
    <3> QED
      BY <2>2, <3>1, Zenon
  <2> QED
    BY <1>1, <2>1, <2>3
<1>c. /\ IsFiniteSet(errors') /\ \A v \in PairStatuses : stats'[v] = Counted(v)'
      /\ \A v \in PairStatuses : stats'[v] \in Nat
      /\ DOMAIN stats' = Statuses
  <2>1. CASE step[s] < Steps
    BY <2>1 DEF IInv, TypeOK, CountersExact, Counted
  <2>2. CASE ~(step[s] < Steps)
    <3>1. ErrorsOf(s) = {} /\ Retain(s, staged'[s]) /\ rows' = rows
      BY <1>1, <2>2 DEF IInv, WalksStand
    <3> QED
      BY <1>s, <3>1, ErrorsCounted
  <2> QED
    BY <2>1, <2>2
<1>2. TypeOK'
  BY <1>1, <1>c DEF IInv, TypeOK
<1>3. Control'
  BY DEF IInv, TypeOK, Control, Clean
<1>4. WalksStand'
  <2>1. ErrorsOf(s) = {}
    BY <1>1 DEF IInv, WalksStand
  <2>2. ErrorsOf(s)' = {s} \X staged'[s]
    <3>1. CASE step[s] < Steps
      <4>1. staged'[s] = {} /\ errors' = errors
        BY <3>1 DEF IInv, TypeOK
      <4> QED
        BY <2>1, <4>1 DEF ErrorsOf
    <3>2. CASE ~(step[s] < Steps)
      BY <2>1, <3>2 DEF ErrorsOf, Retain
    <3> QED
      BY <3>1, <3>2
  <2>3. ASSUME NEW t \in Sides, t # s
        PROVE  ErrorsOf(t)' = ErrorsOf(t)
    <3>1. CASE step[s] < Steps
      BY <3>1 DEF ErrorsOf
    <3>2. CASE ~(step[s] < Steps)
      BY <2>3, <3>2 DEF ErrorsOf, Retain
    <3> QED
      BY <3>1, <3>2
  <2>4. wpc'[s] = "next" /\ (step'[s] <= Steps => staged'[s] = {})
    <3>1. wpc'[s] = "next" /\ step'[s] = step[s] + 1 /\ step[s] \in Nat
      BY DEF IInv, TypeOK
    <3>2. CASE step[s] < Steps
      BY <3>1, <3>2 DEF IInv, TypeOK
    <3>3. CASE ~(step[s] < Steps)
      BY <3>1, <3>3
    <3> QED
      BY <3>2, <3>3
  <2>5. \A t \in Sides : t # s => wpc'[t] = wpc[t] /\ step'[t] = step[t]
    BY DEF IInv, TypeOK
  <2> QED
    BY <1>1, <2>2, <2>3, <2>4, <2>5 DEF IInv, WalksStand
<1> QED
  <2>1. UNCHANGED pairVars
    BY DEF pairVars, sinkVars
  <2> QED
    BY <1>2, <1>3, <1>4, <1>c, <1>s, <2>1, WalkKeeps DEF IInv

\* A worker waits for room among the tasks.
LEMMA WaitRoomIInv ==
  ASSUME IInv, NEW s \in Sides, WaitRoom(s)
  PROVE  IInv'
<1> USE DEF WaitRoom, walkVars, mainVars, tableVars, poolVars, sinkVars
<1>1. TypeOK' /\ Control'
  BY DEF IInv, TypeOK, Control, Clean
<1>2. WalksStand'
  BY DEF IInv, WalksStand, ErrorsOf, TypeOK
<1>3. PairsApart' /\ CountersExact' /\ AllAccounted'
  BY SinkKept DEF pairVars
<1>4. PostStands' /\ LeftoversCounted' /\ ResultStands'
  BY DEF IInv, PostStands, LeftoversCounted, ResultStands, Clean, Stored
<1> QED
  BY <1>1, <1>2, <1>3, <1>4 DEF IInv

\* Both workers are joined.
LEMMA JoinIInv == IInv /\ Join => IInv'
<1> SUFFICES ASSUME IInv, Join PROVE IInv'
  OBVIOUS
<1> USE DEF Join, walkVars, tableVars, poolVars, sinkVars
<1>1. TypeOK' /\ Control'
  BY DEF IInv, TypeOK, Control, Clean
<1>2. WalksStand'
  BY DEF IInv, WalksStand, ErrorsOf
<1>3. PairsApart' /\ CountersExact' /\ AllAccounted'
  BY SinkKept DEF pairVars
<1>4. PostStands' /\ LeftoversCounted' /\ ResultStands'
  BY DEF IInv, PostStands, LeftoversCounted, ResultStands, Clean, Stored
<1> QED
  BY <1>1, <1>2, <1>3, <1>4 DEF IInv

\* The last batches are handed over.
LEMMA FlushLeftoversIInv == IInv /\ FlushLeftovers => IInv'
<1> SUFFICES ASSUME IInv, FlushLeftovers PROVE IInv'
  OBVIOUS
<1> USE DEF FlushLeftovers, walkVars, mainVars, tableVars, poolVars, sinkVars
<1>1. TypeOK' /\ Control'
  BY DEF IInv, TypeOK, Control, Clean
<1>2. WalksStand'
  BY DEF IInv, WalksStand, ErrorsOf, TypeOK, Control
<1>3. PairsApart' /\ CountersExact' /\ AllAccounted'
  BY SinkKept DEF pairVars
<1>4. PostStands' /\ LeftoversCounted' /\ ResultStands'
  BY DEF IInv, PostStands, LeftoversCounted, ResultStands, Clean, Stored
<1> QED
  BY <1>1, <1>2, <1>3, <1>4 DEF IInv

\* The result is taken when no task is left.
LEMMA TakeIInv == IInv /\ Take => IInv'
<1> SUFFICES ASSUME IInv, Take PROVE IInv'
  OBVIOUS
<1> USE DEF Take, walkVars, tableVars, poolVars, sinkVars
<1>1. TypeOK' /\ Control'
  BY DEF IInv, TypeOK, Control, Clean
<1>2. WalksStand'
  BY DEF IInv, WalksStand, ErrorsOf
<1>3. PairsApart' /\ CountersExact' /\ AllAccounted'
  BY SinkKept DEF pairVars
<1>4. PostStands' /\ LeftoversCounted' /\ ResultStands'
  BY DEF IInv, PostStands, LeftoversCounted, ResultStands, Clean, Stored
<1> QED
  BY <1>1, <1>2, <1>3, <1>4 DEF IInv

\* A request to cancel.
LEMMA RequestCancelIInv == IInv /\ RequestCancel => IInv'
<1> SUFFICES ASSUME IInv, RequestCancel PROVE IInv'
  OBVIOUS
<1> USE DEF RequestCancel, walkVars, mainVars, tableVars, poolVars, sinkVars
<1>1. TypeOK' /\ Control'
  BY DEF IInv, TypeOK, Control, Clean
<1>2. WalksStand'
  BY DEF IInv, WalksStand, ErrorsOf
<1>3. PairsApart' /\ CountersExact' /\ AllAccounted'
  BY SinkKept DEF pairVars
<1>4. PostStands' /\ LeftoversCounted' /\ ResultStands'
  BY DEF IInv, PostStands, LeftoversCounted, ResultStands, Clean, Stored
<1> QED
  BY <1>1, <1>2, <1>3, <1>4 DEF IInv

\* What found no counterpart becomes Missing or Extra.
LEMMA FinalizeMissingExtraIInv == IInv /\ FinalizeMissingExtra => IInv'
<1> SUFFICES ASSUME IInv, FinalizeMissingExtra PROVE IInv'
  OBVIOUS
<1> USE SidesFact DEF FinalizeMissingExtra, walkVars, tableVars, poolVars
<1>1. /\ stats' = [stats EXCEPT !["Missing"] = Cardinality(Stored(Src)),
                                !["Extra"]   = Cardinality(Stored(Dst))]
      /\ DOMAIN stats = Statuses
  BY DEF IInv, TypeOK
<1>2. /\ stats'["Missing"] = Cardinality(Stored(Src))
      /\ stats'["Extra"] = Cardinality(Stored(Dst))
      /\ \A v \in PairStatuses : stats'[v] = stats[v]
      /\ DOMAIN stats' = Statuses
  BY <1>1 DEF Statuses, PairStatuses
<1>3. TypeOK' /\ Control'
  BY <1>2 DEF IInv, TypeOK, Control, Clean
<1>4. WalksStand'
  BY DEF IInv, WalksStand, ErrorsOf
<1>5. PairsApart'
  BY DEF IInv, PairsApart, Waiting
<1>6. PostStands'
  <2>1. /\ Listed(Src) \subseteq Stored(Src) /\ Stored(Src)' = Stored(Src)
        /\ Listed(Dst) \subseteq Stored(Dst) /\ Stored(Dst)' = Stored(Dst)
    BY DEF Listed, Stored
  <2>2. /\ {Row({e}, "Missing") : e \in Listed(Src)}
             \subseteq {Row({e}, "Missing") : e \in Stored(Src)}
        /\ {Row({e}, "Extra") : e \in Listed(Dst)}
             \subseteq {Row({e}, "Extra") : e \in Stored(Dst)}
    BY <2>1
  <2> QED
    BY <2>1, <2>2 DEF PostStands
<1>7. CountersExact'
  BY <1>2 DEF IInv, CountersExact, Counted
<1>8. AllAccounted'
  <2>1. Verdicts' = Verdicts
    BY DEF Verdicts, RowsWith
  <2> QED
    BY <2>1 DEF IInv, AllAccounted, Stored
<1>9. LeftoversCounted' /\ ResultStands'
  BY <1>2 DEF LeftoversCounted, ResultStands, Stored
<1> QED
  BY <1>3, <1>4, <1>5, <1>6, <1>7, <1>8, <1>9 DEF IInv

-----------------------------------------------------------------------------
(* Pairs and their rows                                                    *)

\* Wherever the row of a pair comes from, it is that pair's first, and it is
\* counted under its verdict.
LEMMA RowAdded ==
  ASSUME IInv, PairingInv', pairs \subseteq pairs',
         NEW p \in pairs', p \notin pairs \ Waiting, Waiting' = Waiting \ {p},
         NEW v \in PairStatuses,
         rows' = rows \cup {Row({p[1], p[2]}, v)},
         stats' = [stats EXCEPT ![v] = @ + 1], errors' = errors
  PROVE  /\ \A r \in rows' : /\ r.verdict \in PairStatuses
                             /\ \E q \in pairs' \ Waiting' : r.of = {q[1], q[2]}
         /\ \A q, r \in rows' : q.of \cap r.of # {} => q = r
         /\ IsFiniteSet(rows')
         /\ \A w \in PairStatuses : stats'[w] = Counted(w)'
         /\ DOMAIN stats' = Statuses /\ \A w \in PairStatuses : stats'[w] \in Nat
         /\ stats'["Missing"] = stats["Missing"] /\ stats'["Extra"] = stats["Extra"]
         /\ Verdicts' = Verdicts + 1
<1> DEFINE new == Row({p[1], p[2]}, v)
<1>1. new.of = {p[1], p[2]} /\ new.verdict = v
  BY DEF Row
<1>2. ASSUME NEW r \in rows
      PROVE  /\ r.verdict \in PairStatuses
             /\ \E q \in pairs' \ Waiting' : r.of = {q[1], q[2]} /\ q # p
  BY DEF IInv, PairsApart
<1>3. ASSUME NEW r \in rows
      PROVE  r.of \cap {p[1], p[2]} = {}
  <2>1. PICK q \in pairs' : r.of = {q[1], q[2]} /\ q # p
    BY <1>2
  <2>2. {p[1], p[2]} \cap {q[1], q[2]} # {} => p = q
    <3>1. \A x, y \in pairs' : {x[1], x[2]} \cap {y[1], y[2]} # {} => x = y
      <4>1. P!TypeOK' /\ P!PairsAreMatches'
        BY DEF PairingInv
      <4> SUFFICES ASSUME NEW x \in pairs', NEW y \in pairs',
                          {x[1], x[2]} \cap {y[1], y[2]} # {}
                   PROVE  x = y
        OBVIOUS
      <4>2. /\ SideOf[x[1]] = 0 /\ SideOf[x[2]] = 1 /\ SideOf[y[1]] = 0 /\ SideOf[y[2]] = 1
            /\ x[1] = y[1] \/ x[2] = y[2] => x = y
        BY <4>1 DEF P!PairsAreMatches, P!Src, P!Dst
      <4> QED
        BY <4>2
    <3> QED
      BY <3>1
  <2> QED
    BY <2>1, <2>2
<1>4. new \notin rows
  <2>1. {p[1], p[2]} # {}
    OBVIOUS
  <2> QED
    BY <1>1, <1>3, <2>1
<1> HIDE DEF new
<1>5. rows' = rows \cup {new}
  BY DEF new
<1>6. ASSUME NEW r \in rows'
      PROVE  /\ r.verdict \in PairStatuses
             /\ \E q \in pairs' \ Waiting' : r.of = {q[1], q[2]}
  BY <1>1, <1>2, <1>5
<1>7. ASSUME NEW q \in rows', NEW r \in rows', q.of \cap r.of # {}
      PROVE  q = r
  BY <1>1, <1>3, <1>5, <1>7 DEF IInv, PairsApart
<1>8. IsFiniteSet(rows')
  BY <1>5, FS_AddElement DEF IInv, CountersExact
<1>9. /\ DOMAIN stats = Statuses /\ \A w \in PairStatuses : stats[w] \in Nat
      /\ v \in Statuses /\ \A w \in PairStatuses : w \in Statuses
  BY DEF IInv, TypeOK, Statuses
<1>10. /\ DOMAIN stats' = Statuses /\ stats'[v] = stats[v] + 1
       /\ \A w \in Statuses : w # v => stats'[w] = stats[w]
  BY <1>9
<1>11. \A w \in PairStatuses : stats'[w] \in Nat
  BY <1>9, <1>10
<1>12. stats'["Missing"] = stats["Missing"] /\ stats'["Extra"] = stats["Extra"]
  BY <1>10 DEF Statuses, PairStatuses
<1>13. ASSUME NEW w \in PairStatuses
       PROVE  /\ Cardinality(RowsWith(w)) \in Nat
              /\ Cardinality(RowsWith(w)') = Cardinality(RowsWith(w)) + (IF w = v THEN 1 ELSE 0)
  <2>1. IsFiniteSet(RowsWith(w)) /\ Cardinality(RowsWith(w)) \in Nat
    BY FS_Subset, FS_CardinalityType DEF IInv, CountersExact, RowsWith
  <2>2. CASE w = v
    <3>1. RowsWith(w)' = RowsWith(w) \cup {new} /\ new \notin RowsWith(w)
      BY <1>1, <1>4, <1>5, <2>2 DEF RowsWith
    <3> QED
      BY <2>1, <2>2, <3>1, FS_AddElement
  <2>3. CASE w # v
    <3>1. RowsWith(w)' = RowsWith(w)
      BY <1>1, <1>5, <2>3 DEF RowsWith
    <3> QED
      BY <2>1, <2>3, <3>1
  <2> QED
    BY <2>2, <2>3
<1>14. ASSUME NEW w \in PairStatuses
       PROVE  stats'[w] = Counted(w)'
  <2> DEFINE listed == IF w = "ReadError" THEN Cardinality(errors) ELSE 0
  <2>1. /\ stats[w] = Cardinality(RowsWith(w)) + listed
        /\ Counted(w)' = Cardinality(RowsWith(w)') + listed
    BY DEF IInv, CountersExact, Counted, RowsWith
  <2>2. listed \in Nat
    BY FS_CardinalityType DEF IInv, CountersExact
  <2> HIDE DEF listed
  <2> QED
    BY <1>9, <1>10, <1>13, <2>1, <2>2
<1>15. Verdicts' = Verdicts + 1
  BY <1>13 DEF Verdicts, PairStatuses
<1> QED
  BY <1>6, <1>7, <1>8, <1>10, <1>11, <1>12, <1>14, <1>15

\* How many pairs have a row is a number.
LEMMA VerdictsNat == IInv => Verdicts \in Nat
<1> SUFFICES ASSUME IInv PROVE Verdicts \in Nat
  OBVIOUS
<1>1. \A v : Cardinality(RowsWith(v)) \in Nat
  BY FS_Subset, FS_CardinalityType DEF IInv, CountersExact, RowsWith
<1> QED
  BY <1>1 DEF Verdicts

\* The pairs, in batches, queued or hashed, are finitely many.
LEMMA SharesFinite ==
  ASSUME IInv
  PROVE  /\ \A s \in Sides : IsFiniteSet(cands[s]) /\ Cardinality(cands[s]) \in Nat
         /\ IsFiniteSet(queued) /\ Cardinality(queued) \in Nat
         /\ IsFiniteSet(queued \ hashed) /\ Cardinality(queued \ hashed) \in Nat
         /\ IsFiniteSet(pairs) /\ Cardinality(pairs) \in Nat
<1>1. /\ IsFiniteSet(pairs) /\ queued \subseteq pairs
      /\ \A s \in Sides : cands[s] \subseteq pairs
  BY DEF IInv, TypeOK, CountersExact
<1> QED
  BY <1>1, FS_Subset, FS_CardinalityType

\* A batch goes from a worker to the pool.
LEMMA SubmitBatchIInv ==
  ASSUME IInv, NEW s \in Sides, SubmitBatch(s)
  PROVE  IInv'
<1> USE SidesFact DEF SubmitBatch, walkVars, mainVars, tableVars, sinkVars
<1>1. /\ cands'[s] = {} /\ \A t \in Sides : t # s => cands'[t] = cands[t]
      /\ queued' = queued \cup cands[s] /\ hashed' = hashed
      /\ cands[s] \cap queued = {} /\ hashed \subseteq queued
      /\ \A t \in Sides : cands[t] \in SUBSET pairs
  BY DEF IInv, TypeOK, PairsApart
<1>2. TypeOK' /\ Control'
  BY DEF IInv, TypeOK, Control, Clean
<1>3. WalksStand'
  BY DEF IInv, WalksStand, ErrorsOf, TypeOK, Control
<1>4. PairsApart'
  <2>1. Waiting' = Waiting
    BY <1>1 DEF Waiting
  <2>2. /\ (cands[Src] \cap cands[Dst])' = {}
        /\ \A t \in Sides : (cands[t] \cap queued)' = {}
    BY <1>1 DEF IInv, PairsApart
  <2> QED
    BY <2>1, <2>2 DEF IInv, PairsApart
<1>5. /\ Cardinality(queued') = Cardinality(queued) + Cardinality(cands[s])
      /\ Cardinality(queued' \ hashed') = Cardinality(queued \ hashed) + Cardinality(cands[s])
      /\ Cardinality(cands'[s]) = 0
  <2>1. queued' \ hashed' = (queued \ hashed) \cup cands[s]
    BY <1>1
  <2>2. queued \cap cands[s] = {} /\ (queued \ hashed) \cap cands[s] = {}
    BY <1>1
  <2>3. /\ Cardinality(queued \cup cands[s])
             = Cardinality(queued) + Cardinality(cands[s]) - Cardinality(queued \cap cands[s])
        /\ Cardinality((queued \ hashed) \cup cands[s])
             = Cardinality(queued \ hashed) + Cardinality(cands[s])
               - Cardinality((queued \ hashed) \cap cands[s])
    BY SharesFinite, FS_Union
  <2>4. Cardinality({}) = 0
    BY FS_EmptySet
  <2>5. /\ Cardinality(queued \cup cands[s]) = Cardinality(queued) + Cardinality(cands[s])
        /\ Cardinality((queued \ hashed) \cup cands[s])
             = Cardinality(queued \ hashed) + Cardinality(cands[s])
    <3>1. /\ Cardinality(queued) \in Nat /\ Cardinality(queued \ hashed) \in Nat
          /\ Cardinality(cands[s]) \in Nat
      BY SharesFinite
    <3>2. /\ Cardinality(queued \cap cands[s]) = 0
          /\ Cardinality((queued \ hashed) \cap cands[s]) = 0
      BY <2>2, <2>4, Zenon
    <3> QED
      BY <2>3, <3>1, <3>2
  <2> QED
    BY <1>1, <2>1, <2>4, <2>5
<1>6. /\ Cardinality(cands'[Src]) + Cardinality(cands'[Dst]) + Cardinality(queued')
           = Cardinality(cands[Src]) + Cardinality(cands[Dst]) + Cardinality(queued)
      /\ Cardinality(cands'[Src]) + Cardinality(cands'[Dst]) + Cardinality(queued' \ hashed')
           = Cardinality(cands[Src]) + Cardinality(cands[Dst]) + Cardinality(queued \ hashed)
  <2>1. CASE s = Src
    BY <1>1, <1>5, <2>1, SharesFinite
  <2>2. CASE s = Dst
    BY <1>1, <1>5, <2>2, SharesFinite
  <2> QED
    BY <2>1, <2>2
<1>7. /\ Cardinality(cands'[Src]) \in Nat /\ Cardinality(cands'[Dst]) \in Nat
      /\ Cardinality(queued') \in Nat /\ Cardinality(queued' \ hashed') \in Nat
  BY <1>1, <1>5, SharesFinite
<1>8. CountersExact'
  BY <1>6, <1>7, SharesFinite DEF IInv, TypeOK, CountersExact, Counted
<1>9. AllAccounted'
  <2>1. Verdicts' = Verdicts /\ Verdicts \in Nat
    BY VerdictsNat DEF Verdicts, RowsWith
  <2>2. (~cancel /\ thrown = {})' =>
          Cardinality(pairs') = Verdicts' + Cardinality(cands'[Src]) + Cardinality(cands'[Dst])
                                + Cardinality(queued' \ hashed')
    BY <1>6, <1>7, <2>1, SharesFinite DEF IInv, AllAccounted
  <2> QED
    BY <2>2 DEF IInv, AllAccounted, Stored
<1>10. PostStands' /\ LeftoversCounted' /\ ResultStands'
  BY DEF IInv, PostStands, LeftoversCounted, ResultStands, Clean, Stored
<1> QED
  BY <1>2, <1>3, <1>4, <1>8, <1>9, <1>10 DEF IInv

\* A hash task is over.
LEMMA TaskCompletesIInv ==
  ASSUME IInv, NEW p \in queued, TaskCompletes(p)
  PROVE  IInv'
<1> USE DEF TaskCompletes, walkVars, mainVars, tableVars, sinkVars
<1>1. TypeOK' /\ Control'
  BY DEF IInv, TypeOK, Control, Clean
<1>2. WalksStand'
  BY DEF IInv, WalksStand, ErrorsOf
<1>3. queued' \ hashed' = queued \ hashed
  OBVIOUS
<1>4. PairsApart'
  BY <1>3 DEF IInv, PairsApart, Waiting
<1>5. CountersExact'
  <2>1. Cardinality(queued') = Cardinality(queued) - 1
    BY SharesFinite, FS_RemoveElement
  <2>2. total' = Cardinality(cands'[Src]) + Cardinality(cands'[Dst]) + Cardinality(queued') + done'
    BY <2>1, SharesFinite, SidesFact DEF IInv, TypeOK, CountersExact
  <2>3. \A v \in PairStatuses : Counted(v)' = Counted(v)
    BY DEF Counted
  <2> QED
    BY <2>2, <2>3 DEF IInv, CountersExact
<1>6. AllAccounted'
  BY <1>3 DEF IInv, AllAccounted, Verdicts, RowsWith, Stored
<1>7. PostStands' /\ LeftoversCounted' /\ ResultStands'
  BY DEF IInv, PostStands, LeftoversCounted, ResultStands, Clean, Stored
<1> QED
  BY <1>1, <1>2, <1>4, <1>5, <1>6, <1>7 DEF IInv

\* A hash task gives its verdict.
LEMMA HashPairIInv ==
  ASSUME IInv, PairingInv', NEW p \in queued, HashPair(p)
  PROVE  IInv'
<1> USE DEF HashPair, walkVars, mainVars, tableVars
<1>1. /\ UNCHANGED <<pairs, cands, queued>> /\ hashed' = hashed \cup {p} /\ p \notin hashed
      /\ p \in pairs
  BY DEF IInv, TypeOK
<1>2. Waiting' = Waiting \ {p}
  BY <1>1, SidesFact DEF IInv, PairsApart, Waiting
<1>3. p \in Waiting
  BY <1>1 DEF Waiting
<1>4. Cardinality(queued' \ hashed') = Cardinality(queued \ hashed) - 1
  <2>1. queued' \ hashed' = (queued \ hashed) \ {p} /\ p \in queued \ hashed
    BY <1>1
  <2> QED
    BY <2>1, SharesFinite, FS_RemoveElement
<1>5. WalksStand' /\ Control' /\ PostStands'
  BY DEF IInv, WalksStand, ErrorsOf, Control, Clean, PostStands, Stored
<1>6. CASE \E v \in HashOutcomes :
             /\ rows' = rows \cup {Row({p[1], p[2]}, v)}
             /\ stats' = [stats EXCEPT ![v] = @ + 1]
             /\ UNCHANGED thrown
  <2>1. PICK v \in PairStatuses : /\ rows' = rows \cup {Row({p[1], p[2]}, v)}
                                  /\ stats' = [stats EXCEPT ![v] = @ + 1]
    BY <1>6, ComparerAssumption DEF ComparerAssumption
  <2>2. thrown' = thrown /\ errors' = errors
    BY <1>6
  <2> HIDE DEF HashPair
  <2>3. pairs \subseteq pairs' /\ p \in pairs' /\ p \notin pairs \ Waiting
    BY <1>1, <1>3
  <2>4. /\ \A r \in rows' : /\ r.verdict \in PairStatuses
                            /\ \E q \in pairs' \ Waiting' : r.of = {q[1], q[2]}
        /\ \A q, r \in rows' : q.of \cap r.of # {} => q = r
        /\ IsFiniteSet(rows')
        /\ \A w \in PairStatuses : stats'[w] = Counted(w)'
        /\ DOMAIN stats' = Statuses /\ \A w \in PairStatuses : stats'[w] \in Nat
        /\ stats'["Missing"] = stats["Missing"] /\ stats'["Extra"] = stats["Extra"]
        /\ Verdicts' = Verdicts + 1
    BY <1>2, <2>1, <2>2, <2>3, RowAdded
  <2> USE DEF HashPair
  <2>5. TypeOK'
    BY <1>1, <2>4 DEF IInv, TypeOK
  <2>6. PairsApart'
    BY <2>4 DEF IInv, PairsApart
  <2>7. CountersExact'
    BY <2>4 DEF IInv, CountersExact
  <2>8. AllAccounted'
    <3>1. Verdicts \in Nat
      BY VerdictsNat
    <3>2. (~cancel /\ thrown = {})' =>
            Cardinality(pairs') = Verdicts' + Cardinality(cands'[Src])
                                  + Cardinality(cands'[Dst]) + Cardinality(queued' \ hashed')
      BY <1>4, <2>2, <2>4, <3>1, SharesFinite, SidesFact DEF IInv, AllAccounted
    <3> QED
      BY <3>2 DEF IInv, AllAccounted, Stored
  <2>9. LeftoversCounted' /\ ResultStands'
    BY <2>4 DEF IInv, Control, LeftoversCounted, ResultStands, Clean, Stored
  <2> QED
    BY <1>5, <2>5, <2>6, <2>7, <2>8, <2>9 DEF IInv
<1>7. CASE UNCHANGED <<rows, stats>> /\ (cancel \/ thrown' # {})
  <2>1. TypeOK'
    BY <1>1, <1>7 DEF IInv, TypeOK
  <2>2. PairsApart'
    BY <1>1, <1>2, <1>7 DEF IInv, PairsApart
  <2>3. CountersExact' /\ LeftoversCounted' /\ ResultStands'
    BY <1>7 DEF IInv, CountersExact, Counted, LeftoversCounted, ResultStands, Clean, Stored
  <2>4. AllAccounted'
    BY <1>7 DEF IInv, AllAccounted, Stored
  <2> QED
    BY <1>5, <2>1, <2>2, <2>3, <2>4 DEF IInv
<1> QED
  <2>1. \/ \E v \in HashOutcomes :
             /\ rows' = rows \cup {Row({p[1], p[2]}, v)}
             /\ stats' = [stats EXCEPT ![v] = @ + 1]
             /\ UNCHANGED thrown
        \/ UNCHANGED <<rows, stats>> /\ (cancel \/ thrown' # {})
    OBVIOUS
  <2> QED
    BY <1>6, <1>7, <2>1

-----------------------------------------------------------------------------
(* The entry callback                                                      *)

\* What an insert does to the table: nothing is paired and the entry is stored,
\* anew or over one of its own side and key; or it forms one new pair with the
\* stored entry, which leaves the table.
LEMMA InsertEffect ==
  ASSUME IInv, PairingInv, PairingInv', NEW s \in Sides, NEW e \in todo[s], InsertIn(e)
  PROVE  /\ e \in Entries /\ SideOf[e] = s
         /\ \/ /\ pairs' = pairs
               /\ \/ /\ Stored(s)' = Stored(s) \cup {e} /\ e \notin Stored(s)
                     /\ replaced' = replaced
                     /\ \A t \in Sides : t # s => Stored(t)' = Stored(t)
                  \/ replaced' # {}
            \/ /\ replaced' = replaced
               /\ \E p \in pairs' : pairs' = pairs \cup {p} /\ p \notin pairs
               /\ \E f : \E t \in Sides : /\ t # s
                                          /\ f \in Stored(t) /\ Stored(t)' = Stored(t) \ {f}
                                          /\ Stored(s)' = Stored(s)
<1> USE SidesFact, PairingAssumption
<1>1. /\ P!TypeOK /\ Filed /\ P!PairsAreMatches'
      /\ P!Src = 0 /\ P!Dst = 1 /\ P!Sides = {0, 1}
  BY DEF PairingInv, P!Src, P!Dst, P!Sides
<1>2. /\ e \in Entries /\ SideOf[e] = s /\ KeyOf[e] \in Keys /\ e # Empty
      /\ slot[KeyOf[e]] # e /\ e \notin P!Paired
      /\ slot \in [Keys -> Entries \cup {Empty}]
      /\ \A k \in Keys : slot[k] # Empty => KeyOf[slot[k]] = k
  BY <1>1 DEF P!TypeOK, Filed, P!EntriesOf
<1>3. CASE StoreIn(e)
  <2>1. /\ slot' = [slot EXCEPT ![KeyOf[e]] = e] /\ slot[KeyOf[e]] = Empty
        /\ pairs' = pairs /\ replaced' = replaced
    BY <1>3 DEF StoreIn
  <2>2. \A x \in Entries : slot'[KeyOf[x]] = x <=> slot[KeyOf[x]] = x \/ x = e
    BY <1>2, <2>1
  <2>3. Stored(s)' = Stored(s) \cup {e} /\ e \notin Stored(s)
    BY <1>2, <2>2 DEF Stored, EntriesOf
  <2>4. \A t \in Sides : t # s => Stored(t)' = Stored(t)
    BY <1>2, <2>2 DEF Stored, EntriesOf
  <2> QED
    BY <1>2, <2>1, <2>3, <2>4
<1>4. CASE ReplaceIn(e)
  BY <1>2, <1>4 DEF ReplaceIn
<1>5. CASE MatchIn(e)
  <2>1. /\ slot[KeyOf[e]] # Empty /\ SideOf[slot[KeyOf[e]]] # SideOf[e]
        /\ slot' = [slot EXCEPT ![KeyOf[e]] = Empty]
        /\ pairs' = pairs \cup {Pair(e, slot[KeyOf[e]])} /\ replaced' = replaced
    BY <1>5 DEF MatchIn
  <2>2. PICK f \in Entries : f = slot[KeyOf[e]] /\ KeyOf[f] = KeyOf[e]
    BY <1>2, <2>1
  <2>3. PICK t \in Sides : t = SideOf[f] /\ t # s
    BY <1>2, <2>1, <2>2
  <2>4. \E p \in pairs' : pairs' = pairs \cup {p} /\ p \notin pairs
    <3> DEFINE p == Pair(e, f)
    <3>1. pairs' = pairs \cup {p}
      BY <2>1, <2>2
    <3>2. e \in {p[1], p[2]}
      BY DEF Pair
    <3> HIDE DEF p
    <3>3. p \in pairs => e \in P!Paired
      BY <1>2, <3>2 DEF P!Paired
    <3> QED
      BY <1>2, <3>1, <3>3
  <2>5. \A x \in Entries : slot'[KeyOf[x]] = x <=> slot[KeyOf[x]] = x /\ x # f
    BY <1>2, <2>1, <2>2
  <2>6. \A u \in Sides : Stored(u)' = Stored(u) \ {f}
    BY <2>5 DEF Stored, EntriesOf
  <2>7. f \in Stored(t) /\ f \notin Stored(s)
    BY <2>2, <2>3 DEF Stored, EntriesOf
  <2>8. Stored(t)' = Stored(t) \ {f} /\ Stored(s)' = Stored(s)
    BY <2>6, <2>7
  <2> QED
    BY <1>2, <2>1, <2>3, <2>4, <2>7, <2>8
<1> QED
  BY <1>3, <1>4, <1>5 DEF InsertIn

\* While nobody repeats a key, what a side scanned is what it has in the table
\* and in the pairs.
LEMMA ScannedAccounted ==
  ASSUME IInv, PairingInv, PairingInv', NEW s \in Sides, NEW e \in todo[s], InsertIn(e),
         scanned' = [scanned EXCEPT ![s] = @ + 1], replaced' = {}
  PROVE  \A u \in Sides : /\ IsFiniteSet(Stored(u)')
                          /\ scanned'[u] = Cardinality(Stored(u)') + Cardinality(pairs')
<1>1. /\ e \in Entries /\ replaced = {}
      /\ \/ /\ pairs' = pairs
            /\ Stored(s)' = Stored(s) \cup {e} /\ e \notin Stored(s)
            /\ \A t \in Sides : t # s => Stored(t)' = Stored(t)
         \/ /\ \E p \in pairs' : pairs' = pairs \cup {p} /\ p \notin pairs
            /\ \E f : \E t \in Sides : /\ t # s
                                       /\ f \in Stored(t) /\ Stored(t)' = Stored(t) \ {f}
                                       /\ Stored(s)' = Stored(s)
  BY InsertEffect
<1>2. \A u \in Sides : /\ IsFiniteSet(Stored(u))
                       /\ scanned[u] = Cardinality(Stored(u)) + Cardinality(pairs)
  BY <1>1 DEF IInv, AllAccounted
<1>3. /\ scanned'[s] = scanned[s] + 1
      /\ \A u \in Sides : u # s => scanned'[u] = scanned[u]
  BY DEF IInv, TypeOK
<1>4. \A u \in Sides : Cardinality(Stored(u)) \in Nat
  BY <1>2, FS_CardinalityType
<1>5. Cardinality(pairs) \in Nat /\ IsFiniteSet(pairs)
  BY SharesFinite
<1>6. CASE /\ pairs' = pairs
           /\ Stored(s)' = Stored(s) \cup {e} /\ e \notin Stored(s)
           /\ \A t \in Sides : t # s => Stored(t)' = Stored(t)
  <2>1. IsFiniteSet(Stored(s)') /\ Cardinality(Stored(s)') = Cardinality(Stored(s)) + 1
    BY <1>2, <1>6, FS_AddElement
  <2>2. ASSUME NEW u \in Sides
        PROVE  /\ IsFiniteSet(Stored(u)')
               /\ scanned'[u] = Cardinality(Stored(u)') + Cardinality(pairs')
    <3>1. CASE u = s
      BY <1>2, <1>3, <1>4, <1>5, <1>6, <2>1, <3>1
    <3>2. CASE u # s
      BY <1>2, <1>3, <1>6, <3>2
    <3> QED
      BY <3>1, <3>2
  <2> QED
    BY <2>2
<1>7. ASSUME NEW p \in pairs', pairs' = pairs \cup {p}, p \notin pairs,
             NEW f, NEW t \in Sides, t # s, f \in Stored(t),
             Stored(t)' = Stored(t) \ {f}, Stored(s)' = Stored(s)
      PROVE  \A u \in Sides : /\ IsFiniteSet(Stored(u)')
                              /\ scanned'[u] = Cardinality(Stored(u)') + Cardinality(pairs')
  <2>1. Cardinality(pairs') = Cardinality(pairs) + 1
    BY <1>5, <1>7, FS_AddElement
  <2>2. IsFiniteSet(Stored(t)') /\ Cardinality(Stored(t)') = Cardinality(Stored(t)) - 1
    BY <1>2, <1>7, FS_RemoveElement
  <2>3. scanned'[s] = Cardinality(Stored(s)') + Cardinality(pairs')
    BY <1>2, <1>3, <1>4, <1>5, <1>7, <2>1
  <2>4. scanned'[t] = Cardinality(Stored(t)') + Cardinality(pairs')
    BY <1>2, <1>3, <1>4, <1>5, <1>7, <2>1, <2>2
  <2>5. IsFiniteSet(Stored(s)')
    BY <1>2, <1>7
  <2>6. \A u \in Sides : u = s \/ u = t
    BY <1>7, SidesFact
  <2> QED
    BY <2>2, <2>3, <2>4, <2>5, <2>6
<1> QED
  BY <1>1, <1>6, <1>7

\* A worker reports an entry, which finds its counterpart or waits for it.
LEMMA EmitIInv ==
  ASSUME IInv, PairingInv, PairingInv', NEW s \in Sides, Emit(s)
  PROVE  IInv'
<1> USE SidesFact
<1>1. PICK e \in todo[s] : /\ todo' = [todo EXCEPT ![s] = @ \ {e}]
                           /\ OnEntry(s, e)
  BY DEF Emit
<1>2. /\ InsertIn(e) /\ scanned' = [scanned EXCEPT ![s] = @ + 1]
      /\ IF pairs' = pairs THEN UNCHANGED <<rows, stats, cands, total, wpc>>
                           ELSE \E p \in pairs' \ pairs : Classify(s, p)
  BY <1>1 DEF OnEntry
<1>3. /\ wpc[s] = "walk" /\ ~cancel /\ phase = "workers" /\ status[s] = "Running" /\ post = {}
      /\ UNCHANGED <<step, staged, status, queued, hashed, done, thrown, errors, post,
                     phase, result, cancel>>
  BY DEF Emit, poolVars, mainVars, IInv, Control
<1>4. /\ pairs' = pairs
      \/ \E p \in pairs' : pairs' = pairs \cup {p} /\ p \notin pairs
  BY <1>2, InsertEffect
<1>5. pairs \subseteq pairs'
  BY <1>4
<1>6. /\ todo' \in [Sides -> SUBSET Entries] /\ scanned' \in [Sides -> Nat]
      /\ todo'[s] \subseteq todo[s] /\ \A t \in Sides : t # s => todo'[t] = todo[t]
  BY <1>1, <1>2 DEF IInv, TypeOK
<1>7. /\ wpc' \in [Sides -> {"next", "walk", "full", "submit", "ended"}]
      /\ wpc'[s] \in {"walk", "full"}
      /\ \A t \in Sides : t # s => wpc'[t] = wpc[t]
  BY <1>2, <1>3 DEF Classify, IInv, TypeOK
<1>8. Control'
  BY <1>3, <1>7 DEF IInv, Control, Clean
<1>9. WalksStand'
  <2>1. \A t \in Sides : ErrorsOf(t)' = ErrorsOf(t) /\ staged'[t] = staged[t]
    BY <1>3 DEF ErrorsOf
  <2> QED
    BY <1>3, <1>6, <1>7, <2>1 DEF IInv, WalksStand
<1>10. PostStands' /\ LeftoversCounted' /\ ResultStands'
  BY <1>3 DEF PostStands, LeftoversCounted, ResultStands
<1>11. replaced' = {} =>
         \A u \in Sides : /\ IsFiniteSet(Stored(u)')
                          /\ scanned'[u] = Cardinality(Stored(u)') + Cardinality(pairs')
  BY <1>2, ScannedAccounted
<1>12. CASE pairs' = pairs
  <2>1. UNCHANGED <<rows, stats, cands, total>>
    BY <1>2, <1>12
  <2>2. TypeOK'
    BY <1>3, <1>6, <1>7, <1>12, <2>1 DEF IInv, TypeOK
  <2>3. PairsApart'
    BY <1>3, <1>12, <2>1 DEF IInv, PairsApart, Waiting
  <2>4. CountersExact'
    BY <1>3, <1>12, <2>1 DEF IInv, CountersExact, Counted
  <2>5. AllAccounted'
    BY <1>3, <1>11, <1>12, <2>1 DEF IInv, AllAccounted, Verdicts, RowsWith
  <2> QED
    BY <1>8, <1>9, <1>10, <2>2, <2>3, <2>4, <2>5 DEF IInv
<1>13. ASSUME NEW p \in pairs', pairs' = pairs \cup {p}, p \notin pairs
       PROVE  IInv'
  <2>1. Classify(s, p)
    BY <1>2, <1>13
  <2>2. IsFiniteSet(pairs') /\ Cardinality(pairs') = Cardinality(pairs) + 1
    BY <1>13, SharesFinite, FS_AddElement
  <2>3. /\ p \notin Waiting /\ p \notin queued
        /\ \A t \in Sides : p \notin cands[t]
        /\ \A t \in Sides : cands[t] \subseteq pairs'
        /\ queued \subseteq pairs'
    BY <1>5, <1>13 DEF IInv, TypeOK, Waiting
  <2>4. CASE ClassOf[KeyOf[p[1]]] = "Candidate"
    <3>1. /\ cands' = [cands EXCEPT ![s] = @ \cup {p}] /\ total' = total + 1
          /\ UNCHANGED <<rows, stats>>
      BY <2>1, <2>4 DEF Classify
    <3>2. /\ cands' \in [Sides -> SUBSET pairs'] /\ cands'[s] = cands[s] \cup {p}
          /\ \A t \in Sides : t # s => cands'[t] = cands[t]
      BY <2>3, <3>1 DEF IInv, TypeOK
    <3>3. TypeOK'
      BY <1>3, <1>6, <1>7, <2>3, <3>1, <3>2 DEF IInv, TypeOK
    <3>4. Waiting' = Waiting \cup {p}
      BY <1>3, <3>2 DEF Waiting
    <3>5. PairsApart'
      <4>1. \A q \in pairs \ Waiting : q \in pairs' \ Waiting'
        BY <1>13, <3>4
      <4>2. (cands[Src] \cap cands[Dst])' = {} /\ \A t \in Sides : (cands[t] \cap queued)' = {}
        BY <1>3, <2>3, <3>2 DEF IInv, PairsApart
      <4> QED
        BY <3>1, <4>1, <4>2 DEF IInv, PairsApart
    <3>6. Cardinality(cands'[Src]) + Cardinality(cands'[Dst])
            = Cardinality(cands[Src]) + Cardinality(cands[Dst]) + 1
      <4>1. Cardinality(cands'[s]) = Cardinality(cands[s]) + 1
        BY <2>3, <3>2, SharesFinite, FS_AddElement
      <4>n. Cardinality(cands[Src]) \in Nat /\ Cardinality(cands[Dst]) \in Nat
        BY SharesFinite
      <4>2. CASE s = Src
        <5>1. cands'[Dst] = cands[Dst]
          BY <3>2, <4>2
        <5> QED
          BY <4>n, <4>1, <4>2, <5>1
      <4>3. CASE s = Dst
        <5>1. cands'[Src] = cands[Src]
          BY <3>2, <4>3
        <5> QED
          BY <4>n, <4>1, <4>3, <5>1
      <4> QED
        BY <4>2, <4>3
    <3>7. Cardinality(cands'[Src]) \in Nat /\ Cardinality(cands'[Dst]) \in Nat
      BY <3>2, SharesFinite, FS_AddElement, FS_CardinalityType
    <3>8. CountersExact'
      BY <1>3, <2>2, <3>1, <3>6, <3>7, SharesFinite DEF IInv, TypeOK, CountersExact, Counted
    <3>9. AllAccounted'
      <4>1. Verdicts' = Verdicts /\ Verdicts \in Nat
        BY <3>1, VerdictsNat DEF Verdicts, RowsWith
      <4>2. (~cancel /\ thrown = {})' =>
              Cardinality(pairs') = Verdicts' + Cardinality(cands'[Src])
                                    + Cardinality(cands'[Dst]) + Cardinality(queued' \ hashed')
        BY <1>3, <2>2, <3>6, <3>7, <4>1, SharesFinite DEF IInv, AllAccounted
      <4> QED
        BY <1>11, <4>2 DEF AllAccounted
    <3> QED
      BY <1>8, <1>9, <1>10, <3>3, <3>5, <3>8, <3>9 DEF IInv
  <2>5. CASE ClassOf[KeyOf[p[1]]] # "Candidate"
    <3>1. PICK v \in PairStatuses : /\ rows' = rows \cup {Row({p[1], p[2]}, v)}
                                    /\ stats' = [stats EXCEPT ![v] = @ + 1]
                                    /\ UNCHANGED <<cands, total>>
      <4>1. KeyOf[p[1]] \in Keys
        BY PairingAssumption DEF PairingInv, P!TypeOK
      <4>2. ClassOf[KeyOf[p[1]]] \in PairStatuses
        BY <2>5, <4>1, ComparerAssumption DEF ComparerAssumption
      <4> QED
        BY <2>1, <2>5, <4>2 DEF Classify
    <3>2. Waiting' = Waiting /\ Waiting = Waiting \ {p}
      BY <1>3, <2>3, <3>1 DEF Waiting
    <3>3. /\ \A r \in rows' : /\ r.verdict \in PairStatuses
                              /\ \E q \in pairs' \ Waiting' : r.of = {q[1], q[2]}
          /\ \A q, r \in rows' : q.of \cap r.of # {} => q = r
          /\ IsFiniteSet(rows')
          /\ \A w \in PairStatuses : stats'[w] = Counted(w)'
          /\ DOMAIN stats' = Statuses /\ \A w \in PairStatuses : stats'[w] \in Nat
          /\ Verdicts' = Verdicts + 1
      BY <1>3, <1>5, <1>13, <3>1, <3>2, RowAdded
    <3>4. TypeOK'
      BY <1>3, <1>6, <1>7, <2>3, <3>1, <3>3 DEF IInv, TypeOK
    <3>5. PairsApart'
      BY <1>3, <3>1, <3>3 DEF IInv, PairsApart
    <3>6. CountersExact'
      BY <1>3, <2>2, <3>1, <3>3 DEF IInv, CountersExact
    <3>7. AllAccounted'
      <4>1. Verdicts \in Nat
        BY VerdictsNat
      <4>2. (~cancel /\ thrown = {})' =>
              Cardinality(pairs') = Verdicts' + Cardinality(cands'[Src])
                                    + Cardinality(cands'[Dst]) + Cardinality(queued' \ hashed')
        BY <1>3, <2>2, <3>1, <3>3, <4>1, SharesFinite DEF IInv, AllAccounted
      <4> QED
        BY <1>11, <4>2 DEF AllAccounted
    <3> QED
      BY <1>8, <1>9, <1>10, <3>4, <3>5, <3>6, <3>7 DEF IInv
  <2> QED
    BY <2>4, <2>5
<1> QED
  BY <1>4, <1>12, <1>13

-----------------------------------------------------------------------------
(* What the invariant gives                                                *)

\* Every step keeps the invariant, given that of the pairing.
LEMMA NextIInv == IInv /\ PairingInv /\ PairingInv' /\ [Next]_vars => IInv'
<1> SUFFICES ASSUME IInv, PairingInv, PairingInv', [Next]_vars
             PROVE  IInv'
  OBVIOUS
<1>1. ASSUME NEW s \in Sides, Worker(s) PROVE IInv'
  BY <1>1, StartAttemptIInv, GiveUpIInv, EmitIInv, ListingFailsIInv, WalkReturnsIInv,
     FailsWithEntriesIInv, FailsEmptyIInv, WaitRoomIInv, SubmitBatchIInv DEF Worker, Flush
<1>2. CASE Main
  BY <1>2, JoinIInv, FlushLeftoversIInv, FinalizeMissingExtraIInv, TakeIInv DEF Main
<1>3. CASE Pool
  BY <1>3, HashPairIInv, TaskCompletesIInv DEF Pool
<1>4. CASE RequestCancel
  BY <1>4, RequestCancelIInv
<1>5. CASE UNCHANGED vars
  <2> USE <1>5 DEF vars, IInv
  <2>1. TypeOK' /\ Control' /\ WalksStand'
    BY DEF TypeOK, Control, WalksStand, ErrorsOf, Clean
  <2>2. PairsApart' /\ CountersExact' /\ AllAccounted'
    BY SinkKept DEF pairVars
  <2>3. PostStands' /\ LeftoversCounted' /\ ResultStands'
    BY DEF PostStands, LeftoversCounted, ResultStands, Clean, Stored
  <2> QED
    BY <2>1, <2>2, <2>3
<1> QED
  BY <1>1, <1>2, <1>3, <1>4, <1>5 DEF Next, Returned

\* The inductive invariant holds: what happened to every pair and what the counters
\* say of it, from the match to the verdict.
THEOREM IInvHolds == Spec => []IInv
BY InitIInv, NextIInv, PairingHolds, PTL DEF Spec

\* However pairing, hashing, fallback and cancellation interleave, no entry gets
\* two rows and each counter is the number of rows of its verdict.
THEOREM OneVerdictEach == Spec => []OneVerdictPerEntry
<1>1. IInv /\ PairingInv => OneVerdictPerEntry
  <2> SUFFICES ASSUME IInv, PairingInv PROVE OneVerdictPerEntry
    OBVIOUS
  <2> USE SidesFact, PairingAssumption
  <2>1. ASSUME NEW r \in post
        PROVE  \E e \in Entries : /\ r.of = {e} /\ e \notin P!Paired /\ slot[KeyOf[e]] = e
                                  /\ r = Row({e}, IF SideOf[e] = Src THEN "Missing" ELSE "Extra")
    <3>1. \/ \E e \in Stored(Src) : r = Row({e}, "Missing")
          \/ \E e \in Stored(Dst) : r = Row({e}, "Extra")
      BY DEF IInv, PostStands
    <3>2. \A s \in Sides : \A e \in Stored(s) :
            e \in Entries /\ SideOf[e] = s /\ e \notin P!Paired /\ slot[KeyOf[e]] = e
      BY DEF Stored, EntriesOf, PairingInv, Filed
    <3> QED
      BY <3>1, <3>2 DEF Row
  <2>2. ASSUME NEW r \in rows, NEW e \in r.of
        PROVE  e \in P!Paired
    <3>1. PICK p \in pairs : r.of = {p[1], p[2]}
      BY DEF IInv, PairsApart
    <3> QED
      BY <2>2, <3>1 DEF P!Paired, PairingInv, P!TypeOK
  <2>3. ASSUME NEW q \in rows, NEW r \in post
        PROVE  q.of \cap r.of = {}
    <3>1. PICK e : r.of = {e} /\ e \notin P!Paired
      BY <2>1
    <3>2. e \notin q.of
      BY <2>2, <3>1
    <3> QED  BY <3>1, <3>2
  <2>4. ASSUME NEW q \in post, NEW r \in post, q.of \cap r.of # {}
        PROVE  q = r
    <3>1. PICK d \in Entries : /\ q.of = {d}
                               /\ q = Row({d}, IF SideOf[d] = Src THEN "Missing" ELSE "Extra")
      BY <2>1
    <3>2. PICK e \in Entries : /\ r.of = {e}
                               /\ r = Row({e}, IF SideOf[e] = Src THEN "Missing" ELSE "Extra")
      BY <2>1
    <3>3. d = e
      BY <2>4, <3>1, <3>2
    <3> QED
      BY <3>1, <3>2, <3>3
  <2>5. ASSUME NEW q \in rows, NEW r \in rows, q.of \cap r.of # {}
        PROVE  q = r
    BY <2>5 DEF IInv, PairsApart
  <2>6. \A q, r \in rows \cup post : q.of \cap r.of # {} => q = r
    BY <2>3, <2>4, <2>5
  <2> QED
    BY <2>6 DEF OneVerdictPerEntry, IInv, CountersExact
<1> QED
  BY <1>1, IInvHolds, PairingHolds, PTL

\* A side that counts as a success reported all it could see, and the report has
\* the errors of its last attempt and of no other.
THEOREM SuccessesAreComplete == Spec => []SuccessIsComplete
<1>1. IInv => SuccessIsComplete
  BY DEF IInv, Control, WalksStand, ErrorsOf, SuccessIsComplete
<1> QED
  BY <1>1, IInvHolds, PTL

\* A clean run accounts for every entry it scanned.
THEOREM CleanRunsAccountForAll == Spec => []CleanRunAccountsForAll
<1>1. IInv => CleanRunAccountsForAll
  <2> DEFINE counted == stats["Identical"] + stats["Mismatch"] + stats["ReadError"]
                        + stats["Changed"]
             failed  == Cardinality(errors)
  <2> SUFFICES ASSUME IInv, phase = "done", Clean, ~cancel, thrown = {}, replaced = {}
               PROVE  /\ scanned[Src] + failed = counted + stats["Missing"]
                      /\ scanned[Dst] + failed = counted + stats["Extra"]
    BY DEF CleanRunAccountsForAll
  <2> USE SidesFact
  <2>1. cands[Src] = {} /\ cands[Dst] = {} /\ queued \ hashed = {}
    BY DEF IInv, Control
  <2>c. counted = Verdicts + failed
    <3>1. /\ failed \in Nat
          /\ \A v \in PairStatuses : Cardinality(RowsWith(v)) \in Nat
      BY FS_Subset, FS_CardinalityType DEF IInv, CountersExact, RowsWith
    <3>2. \A v \in PairStatuses :
            stats[v] = Cardinality(RowsWith(v)) + (IF v = "ReadError" THEN failed ELSE 0)
      BY DEF IInv, CountersExact, Counted, RowsWith
    <3> QED
      BY <3>1, <3>2 DEF Verdicts, PairStatuses
  <2>2. /\ Verdicts \in Nat /\ failed \in Nat
        /\ \A s \in Sides : IsFiniteSet(Stored(s))
    BY VerdictsNat, FS_CardinalityType DEF IInv, CountersExact, AllAccounted
  <2>3. \A s \in Sides : Cardinality(Stored(s)) \in Nat
    BY <2>2, FS_CardinalityType
  <2>4. Cardinality({}) = 0
    BY FS_EmptySet
  <2>5. Cardinality(pairs) = Verdicts
    BY <2>1, <2>2, <2>4 DEF IInv, AllAccounted
  <2>6. stats["Missing"] = Cardinality(Stored(Src)) /\ stats["Extra"] = Cardinality(Stored(Dst))
    BY DEF IInv, LeftoversCounted
  <2> QED
    <3> HIDE DEF counted, failed
    <3> QED
      BY <2>2, <2>3, <2>5, <2>6, <2>c DEF IInv, AllAccounted
<1> QED
  BY <1>1, IInvHolds, PTL

\* What was returned is all there is, and a clean run has dealt with every
\* candidate.
THEOREM ResultsAreFinal == Spec => []ResultIsFinal
<1>1. IInv => ResultIsFinal
  <2> SUFFICES ASSUME IInv, phase = "done"
               PROVE  result = rows \cup post /\ (Clean => done = total)
    BY DEF ResultIsFinal
  <2>1. result = rows \cup post /\ queued = {}
    BY DEF IInv, ResultStands, Control
  <2>2. ASSUME Clean PROVE done = total
    <3>1. cands[Src] = {} /\ cands[Dst] = {}
      BY <2>2, SidesFact DEF IInv, Control
    <3>2. Cardinality({}) = 0
      BY FS_EmptySet
    <3> QED
      BY <2>1, <3>1, <3>2 DEF IInv, TypeOK, CountersExact
  <2> QED
    BY <2>1, <2>2
<1> QED
  BY <1>1, IInvHolds, PTL

\* What a run must find on the disks for its Missing and Extra rows to be true.
\* No two names of one side fold to the key of an entry of the other: the second
\* would find its counterpart gone, paired with the first.
CounterpartsAreUnique ==
  \A e, f \in Entries : SideOf[e] # SideOf[f] /\ KeyOf[e] = KeyOf[f] => P!UniqueKey(KeyOf[e])

\* And what is below a directory that cannot be listed is on its side only, or
\* its counterpart is reported as missing.
HiddenHasNoPeer ==
  \A f \in Hidden : \A e \in Entries : SideOf[e] # SideOf[f] => KeyOf[e] # KeyOf[f]

\* Then an entry reported as Missing or Extra has no counterpart, whichever side
\* failed, fell back to another back-end or was cancelled.
THEOREM NothingIsFabricated ==
  ASSUME CounterpartsAreUnique, HiddenHasNoPeer
  PROVE  Spec => []NoFabricatedVerdict
<1>1. IInv /\ PairingInv => NoFabricatedVerdict
  <2> SUFFICES ASSUME IInv, PairingInv,
                      NEW r \in post, NEW e \in r.of, NEW f \in Entries,
                      SideOf[f] # SideOf[e], KeyOf[f] = KeyOf[e]
               PROVE  FALSE
    BY DEF NoFabricatedVerdict
  <2> USE SidesFact, PairingAssumption
  <2>1. e \in Entries /\ slot[KeyOf[e]] = e
    <3>1. \/ \E x \in Stored(Src) : r = Row({x}, "Missing")
          \/ \E x \in Stored(Dst) : r = Row({x}, "Extra")
      BY DEF IInv, PostStands
    <3>2. e \in Stored(Src) \/ e \in Stored(Dst)
      BY <3>1 DEF Row
    <3> QED
      BY <3>2 DEF Stored, EntriesOf
  <2>2. f \in todo[SideOf[f]]
    BY <2>1, CounterpartsAreUnique DEF CounterpartsAreUnique, PairingInv, P!StoredAwaitsPeer
  <2>3. f \in Hidden
    <3>1. Clean
      BY DEF IInv, Control
    <3> QED
      BY <2>2, <3>1 DEF Clean, IInv, WalksStand
  <2> QED
    BY <2>1, <2>3, HiddenHasNoPeer DEF HiddenHasNoPeer
<1> QED
  BY <1>1, IInvHolds, PairingHolds, PTL
=============================================================================
