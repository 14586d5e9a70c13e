------------------------- MODULE ConcurrentComparer -------------------------
(***************************************************************************)
(* ConcurrentComparer::runImpl in Content mode (src/Comparison/            *)
(* ConcurrentComparer.cpp) with the hash tasks it hands to the pool        *)
(* (HashPhase.cpp): two workers walk their side through a chain of         *)
(* back-ends, pair entries through the match table, classify the pairs and *)
(* submit the same-size ones for hashing; the main thread joins them,      *)
(* flushes what is left, derives Missing and Extra, waits for the pool and *)
(* takes the results.                                                      *)
(*                                                                         *)
(*  - an insert is atomic: MatchTable implements Pairing, where it is;      *)
(*  - the pool is the set of submitted pairs without a completion: what    *)
(*    ThreadPool guarantees of waitAll() and waitOutstandingBelow();       *)
(*  - an enumerator is IFileEnumerator as runOneStep uses it: it reports   *)
(*    entries in any order, may fail at any moment, may stop early and     *)
(*    still return true once it saw the cancellation, and cannot list some *)
(*    directories. The last back-end (Win32) reports an error for such a   *)
(*    directory and goes on; the others (MFT) give up at the end.          *)
(*                                                                         *)
(* What a pair is, short of hashing, is a constant of its key; what a hash *)
(* task finds is chosen when it runs.                                      *)
(*                                                                         *)
(* Definitions marked "Wrong" are no part of the model: each is a plausible *)
(* mistake in the definition that follows it, which a property must catch. *)
(***************************************************************************)
EXTENDS PairTable

CONSTANTS
  Below,          \* Below[e]: the entries of e's side inside directory e
  DirEntries,     \* the entries that are directories
  Unreadable,     \* directories whose content cannot be listed
  ClassOf,        \* ClassOf[k]: "Candidate", or the verdict of a pair of key k
  HashOutcomes,   \* verdicts a hash task may reach
  Steps,          \* back-ends in a side's enumeration plan
  BatchSize,      \* kHashBatchSize
  MaxOutstanding, \* kHashMaxOutstanding
  Root            \* the error of an enumerator that gives up

VARIABLES
  todo,        \* per side: entries its enumerator has not reported
  wpc,         \* per worker: where it is
  step,        \* per worker: back-end being tried
  emitted,     \* per worker: this attempt has reported an entry
  staged,      \* per worker: this attempt's errors
  status,      \* sourceStatus, destStatus
  scanned,     \* per side: entries counted by onEntry
  cands,       \* candidatesA, candidatesB
  queued,      \* submitted pairs not yet completed in the pool
  hashed,      \* of these, the ones whose task has folded its outcome
  done, total, \* hashDone_, totalCandidates_
  rows, stats, \* ConcurrentSink: verdict rows and counters
  errors,      \* ConcurrentSink: enumeration error rows
  post,        \* Missing and Extra rows
  cancel,      \* *cancel_
  phase,       \* how far runImpl is
  result,      \* the rows returned
  thrown       \* history: pairs whose task threw

vars == <<slot, pairs, replaced, todo, wpc, step, emitted, staged, status, scanned,
          cands, queued, hashed, done, total, rows, stats, errors,
          post, cancel, phase, result, thrown>>

tableVars  == <<slot, pairs, replaced>>
walkVars   == <<todo, step, emitted, staged, status, scanned>>
poolVars   == <<queued, hashed, done, thrown>>
sinkVars   == <<rows, stats, errors>>
mainVars   == <<post, phase, result>>

\* "ReadError" is AccessDenied as well: two statuses and counters of one kind.
PairStatuses == {"Identical", "Mismatch", "ReadError", "Changed"}
Statuses     == PairStatuses \cup {"Missing", "Extra"}

ASSUME ComparerAssumption ==
  /\ ClassOf \in [Keys -> PairStatuses \cup {"Candidate"}]
  /\ HashOutcomes \subseteq PairStatuses
  /\ Root \notin Entries
  /\ Below \in [Entries -> SUBSET Entries]
  /\ Unreadable \subseteq DirEntries
  /\ DirEntries \subseteq Entries
  /\ Steps \in Nat \ {0}
  /\ BatchSize \in Nat \ {0}
  /\ MaxOutstanding \in Nat

\* Entries an enumerator never gets to see.
Hidden == UNION {Below[d] : d \in Unreadable}

Init ==
  /\ slot = [k \in Keys |-> Empty]
  /\ pairs = {} /\ replaced = {}
  /\ todo = [s \in Sides |-> EntriesOf(s)]
  /\ wpc = [s \in Sides |-> "next"]
  /\ step = [s \in Sides |-> 1]
  /\ emitted = [s \in Sides |-> FALSE]
  /\ staged = [s \in Sides |-> {}]
  /\ status = [s \in Sides |-> "Running"]
  /\ scanned = [s \in Sides |-> 0]
  /\ cands = [s \in Sides |-> {}]
  /\ queued = {} /\ hashed = {} /\ done = 0 /\ total = 0 /\ thrown = {}
  /\ rows = {} /\ stats = [v \in Statuses |-> 0] /\ errors = {}
  /\ post = {}
  /\ cancel = FALSE
  /\ phase = "workers"
  /\ result = {}

-----------------------------------------------------------------------------
(* runEnumWorker: the chain of back-ends *)

Finish(s, st) ==
  /\ wpc' = [wpc EXCEPT ![s] = "ended"]
  /\ status' = [status EXCEPT ![s] = st]

\* Top of the loop: the flag, then the factory of the next back-end.
StartAttempt(s) ==
  /\ wpc[s] = "next"
  /\ ~cancel
  /\ step[s] <= Steps
  /\ \/ /\ wpc' = [wpc EXCEPT ![s] = "walk"]
        /\ UNCHANGED step
     \/ /\ step' = [step EXCEPT ![s] = @ + 1]     \* no such back-end
        /\ UNCHANGED wpc
  /\ UNCHANGED <<tableVars, todo, emitted, staged, status, scanned, cands, poolVars,
                 total, sinkVars, mainVars, cancel>>

\* Stopped by the flag, or out of back-ends.
GiveUp(s) ==
  /\ wpc[s] = "next"
  /\ cancel \/ step[s] > Steps
  /\ Finish(s, IF cancel THEN "Cancelled" ELSE "Failed")
  /\ UNCHANGED <<tableVars, todo, step, emitted, staged, scanned, cands, poolVars,
                 total, sinkVars, mainVars, cancel>>

Row(es, v) == [of |-> es, verdict |-> v]

\* ClassifyMatched: a verdict at once, or a candidate for the hash phase, which
\* is flushed when the worker holds a full batch.
Classify(s, p) ==
  LET v == ClassOf[KeyOf[p[1]]] IN
  IF v = "Candidate"
  THEN /\ cands' = [cands EXCEPT ![s] = @ \cup {p}]
       /\ total' = total + 1
       /\ wpc' = [wpc EXCEPT ![s] = IF Cardinality(cands'[s]) >= BatchSize
                                    THEN "full" ELSE "walk"]
       /\ UNCHANGED <<rows, stats>>
  ELSE /\ rows' = rows \cup {Row({p[1], p[2]}, v)}
       /\ stats' = [stats EXCEPT ![v] = @ + 1]
       /\ UNCHANGED <<cands, total, wpc>>

\* onEntry: the entry is counted, inserted, and the pair it completes classified.
OnEntry(s, e) ==
  /\ scanned' = [scanned EXCEPT ![s] = @ + 1]
  /\ InsertIn(e)
  /\ IF pairs' = pairs
     THEN UNCHANGED <<rows, stats, cands, total, wpc>>
     ELSE \E p \in pairs' \ pairs : Classify(s, p)

\* The entry callback: an enumerator reports one more entry.
Emit(s) ==
  /\ wpc[s] = "walk"
  /\ ~cancel
  /\ \E e \in todo[s] \ Hidden :
       /\ todo' = [todo EXCEPT ![s] = @ \ {e}]
       /\ OnEntry(s, e)
  /\ emitted' = [emitted EXCEPT ![s] = TRUE]
  /\ UNCHANGED <<step, staged, status, poolVars, errors, mainVars, cancel>>

UnreadableOn(s) == (EntriesOf(s) \cap Unreadable) \ Hidden

\* The error callback: a directory already reported cannot be listed.
ListingFails(s) ==
  /\ wpc[s] = "walk"
  /\ \E d \in UnreadableOn(s) \ (todo[s] \cup staged[s]) :
       staged' = [staged EXCEPT ![s] = @ \cup {d}]
  /\ UNCHANGED <<tableVars, todo, wpc, step, emitted, status, scanned, cands,
                 poolVars, total, sinkVars, mainVars, cancel>>

\* flushErrors: each error of a retained attempt is a row (onError), counted where
\* the read errors of the pairs are.
Retain(s, errs) ==
  /\ errors' = errors \cup ({s} \X errs)
  /\ stats' = [stats EXCEPT !["ReadError"] = @ + Cardinality(errs)]

\* enumerate() has nothing left to report: it returns true. So it does when it
\* saw the flag and stopped early.
WalkOver(s) ==
  \/ cancel
  \/ /\ todo[s] \subseteq Hidden
     /\ UnreadableOn(s) \subseteq staged[s]
     /\ step[s] = Steps \/ UnreadableOn(s) = {}

\* Wrong: an enumerator that returns true is believed whatever the flag says.
WalkReturnsUnchecked(s) ==
  /\ wpc[s] = "walk"
  /\ WalkOver(s)
  /\ Finish(s, "Success")
  /\ Retain(s, staged[s])
  /\ UNCHANGED <<tableVars, todo, step, emitted, staged, scanned, cands, poolVars,
                 total, rows, mainVars, cancel>>

\* The flag is looked at again before the walk counts as finished.
WalkReturns(s) ==
  /\ wpc[s] = "walk"
  /\ WalkOver(s)
  /\ Finish(s, IF cancel THEN "Cancelled" ELSE "Success")
  /\ Retain(s, staged[s])
  /\ UNCHANGED <<tableVars, todo, step, emitted, staged, scanned, cands, poolVars,
                 total, rows, mainVars, cancel>>

\* enumerate() returns false, having reported entries: too late to fall back.
\* Also when it was cancelled.
FailsWithEntries(s) ==
  /\ wpc[s] = "walk"
  /\ cancel \/ emitted[s]
  /\ Finish(s, IF cancel THEN "Cancelled" ELSE "Failed")
  /\ staged' = [staged EXCEPT ![s] = @ \cup {Root}]
  /\ Retain(s, staged'[s])
  /\ UNCHANGED <<tableVars, todo, step, emitted, scanned, cands, poolVars, total,
                 rows, mainVars, cancel>>

\* Wrong: the same back-end is tried again.
FailsEmptyRetried(s) ==
  /\ wpc[s] = "walk"
  /\ ~cancel /\ ~emitted[s]
  /\ wpc' = [wpc EXCEPT ![s] = "next"]
  /\ staged' = [staged EXCEPT ![s] = {}]
  /\ UNCHANGED <<tableVars, todo, step, emitted, status, scanned, cands, poolVars,
                 total, sinkVars, mainVars, cancel>>

\* enumerate() returns false before any entry: the attempt and its errors are
\* discarded for the next back-end, unless this was the last one.
FailsEmpty(s) ==
  /\ wpc[s] = "walk"
  /\ ~cancel /\ ~emitted[s]
  /\ step' = [step EXCEPT ![s] = @ + 1]
  /\ wpc' = [wpc EXCEPT ![s] = "next"]
  /\ IF step[s] < Steps
     THEN staged' = [staged EXCEPT ![s] = {}] /\ UNCHANGED <<errors, stats>>
     ELSE staged' = [staged EXCEPT ![s] = @ \cup {Root}] /\ Retain(s, staged'[s])
  /\ UNCHANGED <<tableVars, todo, emitted, status, scanned, cands, poolVars, total,
                 rows, mainVars, cancel>>

-----------------------------------------------------------------------------
(* FlushHashCandidates, by a worker with a full batch or by the main thread *)
(* for what the workers left                                               *)

\* waitOutstandingBelow(kHashMaxOutstanding)
WaitRoom(s) ==
  /\ wpc[s] = "full"
  /\ Cardinality(queued) <= MaxOutstanding
  /\ wpc' = [wpc EXCEPT ![s] = "submit"]
  /\ UNCHANGED <<tableVars, walkVars, cands, poolVars, total, sinkVars, mainVars,
                 cancel>>

\* Wrong: the submitted candidates are not removed from the worker's list.
SubmitBatchKept(s) ==
  /\ wpc[s] = "submit"
  /\ queued' = queued \cup cands[s]
  /\ wpc' = [wpc EXCEPT ![s] = IF phase = "workers" THEN "walk" ELSE "ended"]
  /\ UNCHANGED <<tableVars, walkVars, cands, hashed, done, thrown, total, sinkVars,
                 mainVars, cancel>>

\* SubmitHashCandidates for one batch: a worker flushes as soon as it holds one,
\* so that is all it holds.
SubmitBatch(s) ==
  /\ wpc[s] = "submit"
  /\ queued' = queued \cup cands[s]
  /\ cands' = [cands EXCEPT ![s] = {}]
  /\ wpc' = [wpc EXCEPT ![s] = IF phase = "workers" THEN "walk" ELSE "ended"]
  /\ UNCHANGED <<tableVars, walkVars, hashed, done, thrown, total, sinkVars,
                 mainVars, cancel>>

-----------------------------------------------------------------------------
(* The hash tasks *)

\* HashOneCandidateInto folds one verdict into the sink; a task that sees the
\* flag before it is done folds none, and one that throws neither.
HashPair(p) ==
  /\ p \in queued \ hashed
  /\ hashed' = hashed \cup {p}
  /\ \/ /\ \E v \in HashOutcomes :
             /\ rows' = rows \cup {Row({p[1], p[2]}, v)}
             /\ stats' = [stats EXCEPT ![v] = @ + 1]
        /\ UNCHANGED thrown
     \/ /\ cancel
        /\ UNCHANGED <<rows, stats, thrown>>
     \/ /\ thrown' = thrown \cup {p}
        /\ UNCHANGED <<rows, stats>>
  /\ UNCHANGED <<tableVars, walkVars, wpc, cands, queued, done, total, errors,
                 mainVars, cancel>>

\* Whatever became of the task, it is counted, then completed by the pool.
TaskCompletes(p) ==
  /\ p \in queued \cap hashed
  /\ done' = done + 1
  /\ queued' = queued \ {p}
  /\ hashed' = hashed \ {p}
  /\ UNCHANGED <<tableVars, walkVars, wpc, cands, thrown, total, sinkVars, mainVars,
                 cancel>>

-----------------------------------------------------------------------------
(* runImpl *)

\* Wrong: one side's success is enough to report Missing and Extra.
EitherClean == \E s \in Sides : status[s] = "Success"

Clean == \A s \in Sides : status[s] = "Success"

Join ==
  /\ phase = "workers"
  /\ \A s \in Sides : wpc[s] = "ended"
  /\ phase' = IF Clean THEN "leftovers" ELSE "drain"
  /\ UNCHANGED <<tableVars, walkVars, wpc, cands, poolVars, total, sinkVars, post,
                 result, cancel>>

\* FlushHashCandidates(candidatesA), then FlushHashCandidates(candidatesB).
FlushLeftovers ==
  /\ phase = "leftovers"
  /\ \A s \in Sides : wpc[s] = "ended"
  /\ \E s \in Sides :
       /\ cands[s] # {}
       /\ s = Dst => cands[Src] = {}
       /\ wpc' = [wpc EXCEPT ![s] = "full"]
  /\ UNCHANGED <<tableVars, walkVars, cands, poolVars, total, sinkVars, mainVars,
                 cancel>>

\* A non-empty missing or extra directory is left to its children's rows.
Listed(s) == {e \in Stored(s) : e \in DirEntries => Below[e] \cap Stored(s) = {}}

\* Wrong: the directories that are not listed are not counted either.
FinalizeListedOnly ==
  /\ phase = "leftovers"
  /\ \A s \in Sides : wpc[s] = "ended" /\ cands[s] = {}
  /\ post' = {Row({e}, "Missing") : e \in Listed(Src)}
             \cup {Row({e}, "Extra") : e \in Listed(Dst)}
  /\ stats' = [stats EXCEPT !["Missing"] = Cardinality(Listed(Src)),
                            !["Extra"]   = Cardinality(Listed(Dst))]
  /\ phase' = "drain"
  /\ UNCHANGED <<tableVars, walkVars, wpc, cands, poolVars, total, rows, errors,
                 result, cancel>>

\* finalizeMissingExtra: every unmatched entry is counted.
FinalizeMissingExtra ==
  /\ phase = "leftovers"
  /\ \A s \in Sides : wpc[s] = "ended" /\ cands[s] = {}
  /\ post' = {Row({e}, "Missing") : e \in Listed(Src)}
             \cup {Row({e}, "Extra") : e \in Listed(Dst)}
  /\ stats' = [stats EXCEPT !["Missing"] = Cardinality(Stored(Src)),
                            !["Extra"]   = Cardinality(Stored(Dst))]
  /\ phase' = "drain"
  /\ UNCHANGED <<tableVars, walkVars, wpc, cands, poolVars, total, rows, errors,
                 result, cancel>>

\* Wrong: the sink is taken while tasks are still running.
TakeEarly ==
  /\ phase = "drain"
  /\ result' = rows \cup post
  /\ phase' = "done"
  /\ UNCHANGED <<tableVars, walkVars, wpc, cands, poolVars, total, sinkVars, post,
                 cancel>>

\* waitAll(), then sink.take().
Take ==
  /\ phase = "drain"
  /\ queued = {}
  /\ result' = rows \cup post
  /\ phase' = "done"
  /\ UNCHANGED <<tableVars, walkVars, wpc, cands, poolVars, total, sinkVars, post,
                 cancel>>

RequestCancel ==
  /\ ~cancel
  /\ phase # "done"
  /\ cancel' = TRUE
  /\ UNCHANGED <<tableVars, walkVars, wpc, cands, poolVars, total, sinkVars,
                 mainVars>>

Returned == phase = "done" /\ queued = {} /\ UNCHANGED vars

-----------------------------------------------------------------------------

Flush(s)  == WaitRoom(s) \/ SubmitBatch(s)
Worker(s) == StartAttempt(s) \/ GiveUp(s) \/ Emit(s) \/ ListingFails(s)
             \/ WalkReturns(s) \/ FailsWithEntries(s) \/ FailsEmpty(s) \/ Flush(s)
Main      == Join \/ FlushLeftovers \/ FinalizeMissingExtra \/ Take
Pool      == \E p \in queued : HashPair(p) \/ TaskCompletes(p)

Next ==
  \/ \E s \in Sides : Worker(s)
  \/ Main
  \/ Pool
  \/ RequestCancel
  \/ Returned

Spec == Init /\ [][Next]_vars

\* Every thread that can move does, an enumerator delivers its entries or ends,
\* and the pool serves its tasks.
FairSpec ==
  /\ Spec
  /\ \A s \in Sides : WF_vars(Worker(s))
  /\ WF_vars(Main)
  /\ WF_vars(Pool)

-----------------------------------------------------------------------------
(* Properties *)

\* The rows counted under a verdict: those of pairs and, among the read errors,
\* those of directories that could not be listed.
Counted(v) ==
  Cardinality({r \in rows : r.verdict = v})
  + (IF v = "ReadError" THEN Cardinality(errors) ELSE 0)

\* No entry gets two verdicts, however pairing, hashing, fallback and
\* cancellation interleave, and the counters agree with the rows.
OneVerdictPerEntry ==
  /\ \A q, r \in rows \cup post : q.of \cap r.of # {} => q = r
  /\ \A v \in PairStatuses : stats[v] = Counted(v)

\* A partial enumeration never fabricates a verdict: what is reported Missing or
\* Extra does not exist on the other side, whichever side failed, fell back to
\* another back-end or was cancelled.
NoFabricatedVerdict ==
  \A r \in post : \A e \in r.of : \A f \in Entries :
    SideOf[f] # SideOf[e] => KeyOf[f] # KeyOf[e]

\* A side counts as a success only when it reported every entry it has, and only
\* the errors of its retained attempt reach the report.
SuccessIsComplete ==
  \A s \in Sides :
    /\ status[s] = "Success" => todo[s] \subseteq Hidden
    /\ status[s] # "Running" => {err \in errors : err[1] = s} = {s} \X staged[s]

\* A clean run that was not cancelled and lost no task accounts for every entry:
\* each side's scanned count is the pairs plus its missing or extra entries. The
\* counters of the verdicts hold more than pairs: a directory that cannot be
\* listed is scanned as an entry and counted once more as an error.
CleanRunAccountsForAll ==
  phase = "done" /\ Clean /\ ~cancel /\ thrown = {} /\ replaced = {} =>
    LET verdicts == stats["Identical"] + stats["Mismatch"] + stats["ReadError"]
                    + stats["Changed"]
    IN  /\ scanned[Src] + Cardinality(errors) = verdicts + stats["Missing"]
        /\ scanned[Dst] + Cardinality(errors) = verdicts + stats["Extra"]

\* Nothing is added to the sink once it was taken, and the candidates of a clean
\* run have all been dealt with by then.
ResultIsFinal ==
  phase = "done" => result = rows \cup post /\ (Clean => done = total)

\* runImpl always returns, cancelled or not: no worker waits for the other for
\* ever, and the pool always makes room.
RunReturns == <>(phase = "done")
=============================================================================
