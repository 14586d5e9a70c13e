# A TLA+ model of Backup Verifier (CheckSyncFiles)

Backup Verifier compares two file trees, A (source) and B (destination), path by path. It can stop
and resume, it can compare with a snapshot of a source that is not there, and it can bring B in line
with A. These modules model the parts of it where the difficulty is in the order of things: threads
that share a table and a pool, walks that fail half-way, files that are written while they are
hashed, files that are replaced while the process may die, verdicts that are reused after the trees
have changed, a plan that runs on a tree which is no longer the one it was made for, and a window
over three threads.

Every definition is translated from the C++ source; `PROJECT.json` maps it to its lines. Paths below
are relative to `src/src/`.

## 1. The system

| component | state it keeps | operations | what is hard |
|---|---|---|---|
| Match table `Comparison/MatchTable.h` | sharded map key → entry, `pending_`, `done_`, a condition variable | insert, setSideDone, remaining | two workers, a counter read without its lock, backpressure, cancellation that notifies nobody |
| Thread pool `Threading/` | queue, `issued_`, `completed_`, `taskErrors_`, `stopping_` | submit, waitAll, waitOutstandingBelow, destruction | notification after unlock, waiting by counters, tasks that throw |
| Concurrent comparison `Comparison/ConcurrentComparer.cpp`, `HashPhase.cpp`, `ConcurrentSink.h`, `ClassifyUtil.cpp` | the two above, a batch per worker, the sink, two statuses | run | fallback from one enumerator to another, partial walks, cancellation, one verdict per entry |
| Hashing `Hashing/`, `Comparison/HashPhase.cpp` | digest cache in memory and on disk | HashOneSide, HashOneCandidateInto, ComputePartialReadPlan, Load/Save | files that change under the reader, keys by time, a cache truncated by a crash, rounding |
| Enumerators, file index `Filesystem/` | the walk, parsed records, a last-wins map, the snapshot file | enumerate, build, Read/WriteSnapshot | directories that cannot be listed, early stop that looks like success, a volume that changes under the parser, damaged records |
| Session files `Session/SessionStore.cpp` | journal, context, previous context | SaveSession, AppendJournal, LoadSession | crash between any two file operations, failed appends |
| Resume planning `Session/ResumePlan.cpp`, `SessionLogic.cpp`, `Comparison/ResumeEnumerators.h` | – | PlanResume, CheckResumeCompatible | which saved verdict may be reused, what an unreadable directory hides |
| Scan controller `ScanController.cpp` | pending rows, pump thread, what the report says | run | four kinds of runs, pump and main thread, retries, final save, resume |
| Synchronisation `Sync/` | a plan, the destination, a report | BuildSyncPlan, BuildSingleActionPlan, ExecutePlan | order of actions, guarded deletion, failures, live changes, retries |
| Scan orchestrator `ScanOrchestrator.cpp` | flags and results shared by the interface and three threads | start…, stop, request…, take…, snapshot, shutdown | who may run with whom, joining outside the lock, a stop or an outcome that comes late |
| Single-file verification `Comparison/SingleVerify.cpp` | – | VerifySingleFile, ApplySingleResult | an outcome applied to rows that changed meanwhile |
| User interface `UI/AppUI.cpp` | the rows on display, the roots they were found under, standby flags | event handlers, render, Poll… | results taken in the middle of a frame, events behind QUIT |
| Serial comparison, paths, export, profiling, command line, diagnostic tools | | | see section 6 |

How they interact: the interface calls the orchestrator, which runs the controller on a thread of
its own. The controller enumerates or loads the sides and runs the concurrent comparison. That
starts one worker per side; the workers insert what they enumerate into the match table, classify
the pairs, and submit pairs of equal size to the thread pool, whose tasks hash both files, look into
the digest cache and write into the sink and, when a session is kept, into the row sink. A pump
thread of the controller moves rows from there into the session files, from which a later run makes
a resume plan. Rows that differ can be turned into a synchronisation plan, which the orchestrator
runs on a third thread, and one row can be verified again on another.

What makes each correct:

- *match table*: pairs are matches, nothing is lost, what is left has no counterpart; the source
  stays bounded and is never parked for good;
- *pool*: the counters are exact, what a returned wait means, nothing is dropped, all waits end;
- *comparison*: one verdict per entry, none from a partial walk, and always a result;
- *hashing*: a verdict is true of the listed files whatever is written meanwhile; a digest is found
  only for the content it was computed from; a partial read reads something, once, inside the file;
- *enumeration*: a build that succeeds is complete and invents nothing;
- *session*: what was acknowledged survives, nothing is doubled, what is reported is on disk;
- *resume*: a resumed run says what a fresh one would, an offline run what the captured source would;
- *synchronisation*: content no row describes is not touched; it converges, also after having been
  interrupted; the report is true;
- *orchestrator and interface*: one operation at a time, typed roots are kept, counters are those of
  the rows, one standby per run, closing the window ends the program.

## 2. Modules

```
PairTable ── Pairing
    │           ▲ (P == INSTANCE Pairing WITH ..., in both modules below)
    ├── MatchTable ── MatchTableProofs
    └── ConcurrentComparer ── ConcurrentComparerProofs
ThreadPool ── ThreadPoolProofs
PartialRead ── HashPhase ── HashPhaseProofs
ResumePlan ── ScanRuns ── ScanRunsProofs
NtfsVolume ── MftEnumerator
SessionFiles ── Checkpointing ── CheckpointingProofs
SyncPlan ── SyncExecutor ── SyncExecutorProofs
SingleVerify ── ScanOrchestrator ── AppUI ── AppUIProofs
```

Every module that a run checks has a module `MC...` with its instances and a `.cfg`.

Definitions whose comment begins with "Wrong" are no part of any model. Each is a plausible mistake
in the definition after it; substituted for that definition, it makes one of the properties fail.

**PairTable, Pairing** – the abstract specification of the match table. `PairTable` holds the effect
of one insert (`StoreIn`, `ReplaceIn`, `MatchIn`, for the outcomes Inserted, Replaced, Matched) on the
table as a function from folded keys to entries. `Pairing` lets two sides insert their entries
atomically, in any order, until they close.

**MatchTable** – the same at the grain of the locks. An insert is: the unlocked check against the
high-water mark, the wait with its predicate and block (a spurious wakeup may come at any time), the
map update, the counter update, and the notification, which takes the mutex of the condition
variable. `setSideDone` stores the flag and notifies everyone. The mutexes are not variables: who
holds which follows from where the workers are. The refinement mapping takes the map update as the
point where an insert happens, counts an entry a worker holds before it as still to come, and has a
side closed once `done_` is stored.

**ThreadPool** – submit, both waits, the worker loop and the destructor. Clients, and running tasks,
submit; the predicate and the sleep are one step (both are under `mutex_`), submit's notification is
another (it is after the unlock). A task is its number, so the queue is a set served smallest first.

**ConcurrentComparer** – `runImpl` in Content mode. Inserts are atomic, which is what `MatchTable`
shows, and the pool is a set of submitted pairs, with what `ThreadPool` shows about waiting. The
enumerators are modelled by what the callers may see: entries in any order, failure before or after
the first entry, an early stop at cancellation, and directories that cannot be listed (the last
back-end reports them and goes on, the others give up at the end). The outcome of a hash task is
chosen when it runs; it may also throw. A directory that could not be listed becomes a row and raises
a counter of the pairs' read errors, as `onError` does; AccessDenied and ReadError are one kind here.

**SessionFiles** – journal, context and previous context, and the atomic steps by which
`WriteAtomic`, `SaveSession` and `AppendJournal` change them. Renaming is atomic, so a context is
whole or absent; an append may leave a part of its rows and half a record. A context carries the
sequence of records its trailer was computed from: size and checksum agree exactly when the
sequences do.

**Checkpointing** – runs of the controller on one session base: fresh or resumed; with or without a
pump; rows captured by the comparison; `doCheckpoint` step by step; the final save, or the
interrupted one; any file operation failing; cancellation; the process dying anywhere, after which
the next run starts. There is one program counter for a save since `checkpointMutex` admits one.
Which loaded rows a resume keeps is left open (any subsequence of them), so nothing here depends on
`PlanResume`.

**SyncPlan** – the rows of a comparison of two trees and the plan `BuildSyncPlan` or
`BuildSingleActionPlan` makes of them. A tree is a function from paths to what lies there: nothing,
one of a few file contents or link targets, a directory, or a reparse point of an unsupported kind.
The plan is a set of actions and a partial order: the code's order of groups and, among directories,
ancestors first or last. Two unrelated directories may come in either order.

**SyncExecutor** – `ExecutePlan`. Every action is a step, except for `DeleteDirGuarded`, whose walk
is modelled with its stack of frames, one child at a time, since other actors can come between. A
failed operation leaves any of the states it can leave (a copy: what was there, nothing, a part, all
of it). A plan that copies may be refused before its first action, for want of space, with one
anonymous item for a report. Other actors put files into the destination; the process dies; the user
cancels. Then the next round compares and plans again.

**PartialRead** – `ComputePartialReadPlan` and `EffectiveLevel`, formula by formula, with the MiB and
the threshold as constants so that small files have plans too.

**HashPhase** – one pair of files of equal size over several runs: list both sides, open, take the
first stat, look into the cache, read block by block, take the second stat, store, decide, save the
cache entry by entry. Other programs write at any moment, a synchronisation copies A over B, the
process dies anywhere. One pair is enough: pairs share only the cache, in which they have no key in
common. A digest is the sequence of blocks that was read. The second stat may fail, which the code
does not take for a change; the history variable `missed` records when one fails that would have
told a change.

**ResumePlan** – entries, the verdicts of a comparison of two listings (the reference: the serial
comparison with the classification both comparers share), and `PlanResume`, which splits a journal
against two fresh listings into reused rows and a remainder. A path is the same for both sides, as
the keys of the code are folded; the directories that could not be listed are compared as they are
spelled, so `Respelt` names the paths that the two sides spell in different case.

**ScanRuns** – the controller as a sequence of runs over two trees that change between and during
them: live, offline, capturing, capturing without comparing; each fresh or resumed, interrupted or
killed anywhere. Between runs the journal and the snapshot stay. Rows that `HashPhase` decides are
decided here by content at once; how the session reaches the disk is left to `Checkpointing`.

**NtfsVolume** – no code of the program: what its parser and tests take a volume to be. Objects with
base and extension records, attribute lists, names (with DOS names), index roots and blocks, reuse
of records, parts that are damaged, and what Win32 would show of the same tree.

**MftEnumerator** – `enumerate` in its phases: the opening of the volume, which may be refused, the
sweep with the merge of extension records (pass A), where a read that fails is the last of its run of
clusters, the attribute lists (pass B), the root check, the walk by index and by parent pointers, the fallback
of a directory to Win32, and `BuildSideIndex`, which drops everything and starts over with Win32 if
the build fails.

**SingleVerify** – the verdict of one path from what its two sides are now, and `ApplySingleResult`,
which corrects rows and counters with it.

**ScanOrchestrator** – its methods at the grain of critical sections. A start checks, joins the old
thread outside the lock, checks again; the worker publishes, then notifies. Two history variables
tell what the user put into a field (`typed`) and whether a snapshot has taken the place of the source
since (`displaced`).

**AppUI** – the event loop over it: handle the queued events, take a snapshot, draw. Handlers that
start work go through the two critical sections of the orchestrator; a frame copies new results,
folds in a finished verification or synchronisation and may suspend the machine.

## 3. Runs

| run | question | instance |
|---|---|---|
| `match_table` | the table keeps its counters and its bound, loses no wakeup, ends, and implements `Pairing` | 4 keys in 2 shards, 7 entries with a key one side reports twice, high-water mark 1 |
| `thread_pool` | counters, the meaning of both waits and of the destructor, nothing is slept over, everything ends | 2 workers, 2 clients, 3 tasks that may submit and may throw |
| `comparer` | one verdict per entry, none fabricated, success means complete, clean runs add up, the result is final, it returns | a directory on each side alone, one of them unlistable, 3 common files of which 2 are hashed, 2 back-ends, batches of 2, cap 0 |
| `comparer_unreadable` (violation) | does an unlistable source directory fabricate Extra rows? | a directory with a file on both sides |
| `hash_phase` | verdicts are true, the cache is sound, nothing unchanged is called changed | files of 3 blocks that keep their size, levels of both patterns, 2 writes, 2 runs, failing stats, no time comes back |
| `hash_cache_hit` (violation) | is the cache without influence on verdicts when a file grows between listing and hashing? | files of 2 and 3 blocks, half of each read, 2 writes, 2 runs, no time comes back |
| `mft` | a build that succeeds is complete and invents nothing, and fails only with Win32 | 6 objects, some four thousand layouts, one damaged part, one failed read or one change |
| `mft_volume_root` (violation) | is the walk of a volume's root loop-safe? | one plain layout |
| `checkpointing` | acknowledged rows survive, none is doubled or lost, the report is true | 3 paths, 2 settings, 2 runs, 2 faults, crashes anywhere |
| `scan_runs` | resumed is as good as fresh, offline as captured, and no path is forgotten | 3 paths, of which 2 are spelled differently on the sides, 2 runs of 4 kinds, 2 changes of the trees |
| `sync` | two rounds converge, touch only what rows describe, and report the truth | all trees over 4 paths of 3 levels, one mishap |
| `ui` | exclusion of the operations, typed roots, counters, standby, the end of the program | 1 root per field for the user and another for the sessions, 3 results, 4 events, every interleaving with the threads |

**Bounds and why they are enough.**

- *Match table*: a mark of 1 parks the source at its first unmatched entry; the keys hold a pair, a
  key of each side alone and a key reported twice, and share shards with one another and not. The
  proofs hold for all sizes and marks.
- *Pool*: with 3 tasks and 2 workers a task can be overtaken by a later one, a wait can be joined by
  a concurrent submission, and both workers can sleep while one notification is on its way.
- *Comparer*: two back-ends give success, fallback with nothing reported, and failure after
  something was; two candidates fill one worker's batch or are left over, one in each, also at
  cancellation; with a cap of 0 both workers can be at the backpressure check. Destination
  directories may be unlistable in `comparer`; `comparer_unreadable` shows the source side.
- *Hashing*: three blocks are the smallest file with a block the plan skips; the levels read all of
  it, both ends, or the block in the middle. Two writes change a file under the read and change it
  again before the next look; two runs are one that saves and one that loads.
- *MFT*: a directory below a directory, a file with two links, a deleted file and a file of the
  volume, with attributes in extension records whose number is above or below, lists in the record
  or apart, index blocks or none, DOS names, and each part damaged in turn or each name changed. The
  MFT has two runs of clusters, and the read may fail at every record.
- *Checkpointing*: three rows give a journal with a declared part, an orphaned tail and rows that
  joined the queue after the failed append. Two faults are a failure and a failed retry. Two runs
  are a crash and the resume after it. Permuting paths changes nothing, hence the symmetry.
- *Scan runs*: a file in a directory and one beside it; a file is written (with the same size or
  another), removed, replaced by a directory or a link, or its directory locked. Two changes let one
  fall between the runs and one into a run. Content mode only: the other modes compare less.
- *Sync*: every shape of a tree with a directory, two children of it, and a child below one of these
  occurs on either side, with same and different content, links and unsupported reparse points on
  the destination. With one mishap in two rounds the second plan meets whatever the first one left.
  The source has no unsupported reparse points (they are skipped as on the destination) and no
  second file content (contents only need to differ between the sides).
- *UI*: four events are, for instance, start, start again, stop and quit; or a scan, a row menu, a
  verification from it and quitting before its outcome is folded; or typing a root, arming a session,
  typing over what it filled in and disarming it. A new scan while the outcome of a verification
  waits takes more events than the run has; the proofs of section 5 have no bound on them.

Deadlock is checked in the runs of the table, the pool, the comparer and the synchronisation, where a
component that has finished says so by a stuttering step (`Joined`, `Gone`, `Returned`, `Rest`). The
other runs end where their bound on runs, changes or events is reached, and a deadlock there would
say nothing.

**Fairness.** Safety is checked without any. `MatchTable`: weak fairness of each worker – the
scheduler runs a thread that can run, and an enumerator delivers or ends – and strong fairness for
getting the condition variable's mutex, which the source may take back after every spurious wakeup.
No fairness for cancellation or spurious wakeups. `ThreadPool`: weak fairness of the workers, of
clients inside a call, and of the destructor; nobody has to call. Tasks end. `ConcurrentComparer`:
weak fairness of the workers, the main thread and the pool. `AppUI`: weak fairness of the loop and of
each thread, a scan being bound to end only once it was told to stop; no event has to come. The other
modules have only safety properties.

## 4. What the violations show

1. `NoFabricatedVerdict` with an unlistable source directory – the Win32 walk reports the error and
   returns true, so the side is a success and what the destination has below is reported Extra (and
   a synchronisation would delete it).
2. `VerdictIsTrue` when a file grows between listing and hashing – what is read is planned from the
   listed size (`HashPhase.cpp:41`), but the digest is stored under the size and time found when the
   file was opened (`HashUtil.cpp:115`), and the key does not say which ranges were read
   (`HashCache.cpp:27-43`). The run itself says ChangedDuringScan; the next one lists the file as it
   is, hits the cache, and compares digests of different ranges. `HashCache.h:16-18` says the cache
   never changes a verdict, `HashUtil.h:24-25` that a hit under the current size and time is sound.
3. `LoopSafe` on the root of a volume – the root is its own parent, which the root check even asks
   for; the parent-pointer union makes it a child of itself, and no filter stops it, though
   `MftEnumerator.h:36` gives the walk the loop-safety of the Win32 one.

Further disagreements between the code and what its comments or documents say, each met while
modelling and described here without a run of its own. Where a behaviour is part of a model, the
properties are stated so as to hold beside it, and say what they except; what no model has is marked
*not modelled*.

- *Pool*: `waitAll()` compares a snapshot of `issued_` with the completions of any task
  (`ThreadPool.cpp:35`), so while another thread submits, later tasks can stand in for an earlier one
  that still runs; `ThreadPool.h:68` promises every earlier task. What holds is `WaitAllDrains`
  (nobody submits meanwhile, as in the comparer) and `WaitAllDequeues`, both proved.
- *Comparer*: a hash task that throws is counted and leaves no row (`HashPhase.cpp:308`);
  `ScanController.h:164-166` says it is reported as a read error. Missing and Extra are still
  reported when the cancellation arrives after both walks (`ConcurrentComparer.h:45`). The
  destination worker is never throttled.
- *Hashing*: the digest of a file that changed while it was read is stored all the same, under the
  size and time it had before (`HashUtil.cpp:115`). A copy that keeps its modification time, which is
  what a synchronisation makes (`SyncFs.cpp:141`), can bring these back, and the cache then answers
  for a file it has not read; hence `FreshTimes` in the runs and in the theorems. A second stat that
  fails is not taken as a change (`HashUtil.cpp:107-113`), so a file written to while it is read can
  get a false verdict; `VerdictIsTrue` excepts the pairs this happened to (`missed`). The capture
  hashes without any second stat; a run that only captures never saves the cache.
- *Session*: `SaveSession` renames the journal before the context and nothing ties records to
  settings: a fresh run in another mode that dies in between leaves rows that a resume reads under
  the old settings (`SessionStore.cpp:746`, `ScanSession.h:49-53`). The row trigger of the pump
  subtracts unsigned numbers in the wrong order (`ScanController.cpp:527`) and may ask for a
  checkpoint early. Progress figures are read one after the other (`ConcurrentComparer.cpp:269`; *not modelled*).
- *Resume*: a row of a link is reused as long as both sides are directories of any sort
  (`ResumePlan.cpp:234`, `ResumePlan.h:7-16`). Errors of the source walk, and all errors when nothing
  remains, never reach the report (`ScanController.cpp:786-803`); a capture that also compares loses
  them too, since the results are overwritten (1059, comment at 630). Compatibility is checked
  against the mode asked for, so a degraded session is refused when the same command is repeated.
  Error directories are compared with rows as they are spelled (`ResumePlan.cpp:20-24`), though
  everything else goes by folded names. A row has the spelling of one side, the destination's unless
  the path is missing there; if the other side spells a directory differently and cannot list it, the
  row is not found to be under it, and a path that is only there is dropped in silence, where
  `ResumePlan.h:23-26` says that the plan is refused. `NothingForgotten` excepts exactly these paths;
  without the exception it fails in the run. A directory that one side renames in case between two
  runs has the same effect and is not modelled. Rows of one mode can be saved
  under another: a Content session that is resumed offline from a snapshot without digests is lowered
  to Size (`ScanController.cpp:566-571`), after which the reused rows, computed under Content, are
  saved with the new ones as those of a Size session (485, 1107), although the comments there say
  that the "journaled rows were produced under" the mode saved. A later live resume in Size mode
  accepts the session and reports a reused ContentMismatch of two files of one size, which a fresh
  Size run calls identical. `SessionTells` failed in this way while it was being checked, with both modes
  in `Modes`, one path and one change; hence `ModeKept` in the proofs. Other roots than the
  session's are only warned of (`ScanOrchestrator.cpp:215-250`; the
  roots of a session are in `AppUI`, the trees behind them in `ScanRuns`, and no module has both).
- *Snapshot*: it is written in place, so a crash destroys the one before it. A read snapshot brings
  its own case-sensitivity (*not modelled*).
- *Synchronisation*: a directory that both sides have gets no row, so one that is empty in the source
  and held only Extra entries is deleted (`SyncPlan.cpp:271`, `SyncPlan.h:42`); `SyncConverges` says
  what holds. A manual replacement of an empty directory by a link deletes it and then refuses the
  link (`SyncExecutor.cpp:158`, `SyncPlan.h:51`). `SyncPlan.h:15-16` gives another order of the groups
  than `SyncPlan.cpp:298-304`. A plan refused by the free-space precheck is reported as a single
  failed item that names no action (`SyncExecutor.cpp:218-233`), so `EveryActionReported` has this as
  its second case. The main README calls the program read-only.
- *Interface*: `render()` lowers the flag that asks for a frame at its end, and may erase what a
  worker raised meanwhile, so that results stay hidden until the next event (`AppUI.cpp:2580`, 791).
  The roots of the rows are read from the fields when the results arrive (`AppUI.cpp:2001`,
  `AppUI.h:192-194`). Text editing leaves the anchor behind and can put it between the halves of a
  surrogate pair (`AppUI.cpp:1842`, `AppUI.h:160-161`; *not modelled*). A run that starts and ends between two frames
  leaves the rows of the one before on display (2004). Arming a snapshot clears the source, also one
  that was typed (`ScanOrchestrator.cpp:177`); `TypedRootsWin` excepts it, by `displaced`.
- *MFT*: `MftEnumerator.cpp` says that a stale reference makes the scan incomplete, where only that
  directory is walked with Win32; and that a directory denied by an ACL is unreadable through both
  back-ends, while `Win32Enumerator` returns true for it. It also says that "a partial index is never
  reported as a successful scan" (78). A read of the sweep that fails ends its run of clusters
  without a word (1417). As a rule the records that are missing then make the directories that list
  them fall back to Win32; but if they are an extension record with a part of a directory's index and
  the records of what that part lists, nothing refers to the latter any more, and they are missing
  from a build that succeeds. `SuccessIsComplete` promises nothing below such a directory; without
  this exception it fails in the run.

## 5. Proofs

TLAPS proves these for all values of the constants, from the assumptions named in the modules
(`PairingAssumption`, `MatchTableAssumption`, `ThreadPoolAssumption`, `PartialReadAssumption`,
`HashPhaseAssumption`, `CheckpointingAssumption`, `ComparerAssumption`, `TreesAssumption`,
`SyncAssumption`, `OrchestratorAssumption`: entries have a side and a key, sizes and bounds are
numbers, the mark and a batch are positive, there is a finite non-empty set of workers, a volume has
finitely many paths, and so on). TLC evaluates each of them in the runs. Every inductive invariant
was checked by TLC as an invariant of the component's run before it was proved. Bounds such as
`MaxRuns` or `MaxMishaps` are constants like the others: the theorems hold for any number of runs,
failures and events.

`TreesAssumption` is a name of two modules. In `SyncExecutor` it says that a tree has finitely many
paths. In `ScanRuns` it describes the trees the first run finds: an entry lies in directories,
nothing has a time in the future, and two files of one path, size and time are one file. Without the
last a session could not tell a file from another that was there first, whatever the code did; what
is written later has a time of its own in the model.

*Pairing.* What it promises, `PairsAreMatches`, `NothingLost` and `StoredAwaitsPeer`, is proved for
each of the two that implement it (`PairingPromisesThm` in `MatchTableProofs` and in
`ConcurrentComparerProofs`), of the abstract state their refinement mapping shows. The inductive
invariant adds to these that an entry is filed under its own key and that a replaced entry has a
twin of its side (`Filed`, `ReplacedHaveTwin`). `StoredAwaitsPeer` then follows from `NothingLost`: a
counterpart that is not to come is stored, paired or replaced, and all three contradict a slot held
by the other side.

*MatchTable.* `TypeCorrect`, `PendingThm`, `SourceBoundedThm`, `NoLostWakeupThm`, `Refinement` and,
through it, `PairingPromisesThm`. The inductive invariant `IInv` has, beside the type invariant:
`ShardInv` (two workers inside shards are in different ones, and a worker that is to count has its
entry in the slot), `FeedInv` (a done flag is where the worker is; an entry in hand is not in the
feed), `PendingExact` (the counter equals the table up to the updates in progress) and `RoomInv`: a
source that has passed the throttle *still* finds room when it stores. This is the step that a
reading of the code does not give away: between the unlocked check and the store only the
destination moves, and nothing it does adds an unmatched entry of the source. `pending` never
negative follows because a worker about to count has its own entry in the table. The refinement
takes one lemma for the quiet steps (they stutter), one for the map update (an insert) and one for
the close.

*ThreadPool.* `CountersExactThm`, `WaitAllDrainsThm`, `WaitAllDequeuesThm`,
`DestructorFinishesTasksThm`. The invariant partitions the submitted tasks into queued, in a worker,
and finished (`PartitionInv`, `JobInv`), says the queue is a suffix of the numbers (`FifoInv`), that
errors are counted before completions (`ErrorsInv`), that a drained client has seen enough
completions (`TargetInv`) and that workers leave only an empty, stopping pool (`StopInv`).
`WaitAllDequeues` needs the counting argument: completions up to a target and a queue that is a
suffix leave no queued task below it.

*ConcurrentComparer.* `Refinement`: it implements `Pairing`, so its pairs are what *Pairing*
promises (`PairingPromisesThm`). `OneVerdictEach`, `SuccessesAreComplete`, `CleanRunsAccountForAll`,
`ResultsAreFinal`, `NothingIsFabricated`. `IInv` follows the life of a pair: it is a candidate of
one worker, queued in the pool, or dealt with (`PairsApart`), and only what is dealt with has a row;
what a walk has not delivered is still to come or hidden below an unlistable directory
(`WalksStand`); Missing and Extra rows are stored entries and come last (`PostStands`); every entry
scanned is stored or in a pair, as long as no key comes twice, and every pair has a row or waits for
one (`AllAccounted`), the counters are those of the rows, an error of a walk being a row and a count
of its own (`CountersExact`, `LeftoversCounted`), and
the result is the rows when nothing is queued any more (`Control`, `ResultStands`).
`NothingIsFabricated` has two hypotheses about the trees: `CounterpartsAreUnique`, no two names of
one side fold to the key of an entry of the other, and `HiddenHasNoPeer`, nothing below an
unlistable directory has a counterpart. The run `comparer` has trees of this kind, and
`comparer_unreadable` shows that the second is needed.

*Checkpointing.* `CheckpointsSurvive`, `JournalHasNoDuplicates`, `NoRowIsLost`,
`CompletedSessionsAreWhole`, `ReportedSavesAreOnDisk`, for any paths and settings, any number of
runs, failed operations and deaths of the process. The argument is about `RunRows`, the rows of the
run in the order they go to the journal: what was written, then pending, then captured. A save only
moves the border between the first two, whether it succeeds or not, and captured rows join at the
end. `IInv` says besides that no path is in two of the three (`RowsApart`), that the records behind
the declared part of the journal are the next pending rows, which is why `AppendJournal` may drop
them (`OrphansArePending`), where an append stands (`AppendStands`), that the declared part is a
prefix of the journal for every context a load can choose (`JournalStands`), and what was
acknowledged is in it (`AckedStands`, `CompletedStands`).

*HashPhase.* `RoundedIsExact`: the split into quotient and remainder rounds as the unsplit formula
does, for every size. `PlanIsSound`: every plan that is not a full read reads at least one block,
stays in the file and reads none twice; the case that needs care is a percentage that rounds up to
the last, incomplete block. `VerdictsAreTrue`, `CacheHitsAreSound`, `ChangedHasCause`, for files of
any length and content and any number of runs and writes, under two hypotheses: `FreshTimes` (no
modification time comes back) and `PlansFit` (a level other than a full read is only asked of files
that keep their size). Neither can be dropped, see section 4. `IInv`: no time known is ahead of the
clock (`TimesPast`); a file with the time it was listed with is the listed one (`ListedStands`); a
digest kept in memory or on disk under the time a file has is that of the file (`EntriesSound`);
what was read is a prefix of the plan unless the time has moved (`ReadStands`); a digest of a side
not marked as changed is that of the listed file unless a second stat has missed it (`DigestStands`); what is marked has changed
(`ChangedStands`); a save cut short tears only a key that memory has (`TornInCache`).

*ScanRuns.* `NothingForgottenThm`, `ResumeEqualsFreshThm`, `OfflineIsFaithfulThm`, for any trees, any
number of runs of each kind, and whatever is written, copied, removed or locked between and during
them. A run knows a file again by its path, size and time, so the argument is about the files known
of at a path: in either tree, in the listings of a run, in the snapshot. `BInv` says that no two of
them share size and time without being one file (`FilesAreKnown`), since what is written has a time
of its own and a copy keeps the one it had; what a run has in memory in each of its phases
(`Control`); that the listings of a run over trees at rest are the trees (`QuietLists`); and that a
digest of a file still the one listed is its own (`DigestsStand`).

`NothingForgotten` needs no more: a path of the session that gets no row was listed on neither side,
so if it is there it is below a locked directory; the topmost of these can be seen and is reported
(`HiddenIsReported`), and then the plan is refused and the run does not complete, if the row has the
spelling of that side or the sides agree on the directory's; otherwise it is one of the paths that
the property excepts. The other two
need that the rows of the session are true (`SessionTells`): under a mode that may be asked for
again, a row gives the right verdict of every two files it fits by size and time, the source's as it
is or as the snapshot has it (`SourceFiles`), the destination's as it is or as a copy of the source
may make it (`DestFiles`). This holds after a run because a fresh row was made from what was listed,
and a reused one was true before and fitted.

Both have the hypothesis `[]ModeKept`: no resumed run has its mode lowered to one that a later run
may ask for. Without it they are false of the code, see *Resume* in section 4. `ModeKeptThm` derives
it where Content and Size runs do not share a session, and `OneModeResumes` then has both theorems
without a condition; the run `scan_runs` is of this kind.

*SyncExecutor.* `AllReported`, `DoneStaysDone`, `NothingElseTouched`, `Converges`, for any trees,
any rounds of comparing and executing, failures, cancellations, deaths and files put in by others.
`AllReported` has a case of its own for a plan that was refused: until something of it was done the
destination is as it was compared but for what others put there (`UntouchedYet`), which is when the
precheck comes. `PlanFacts` lists what every plan, full or manual, satisfies: no two actions create at one path, and
no directory is deleted that holds, or makes way for, something the source has, but for the file or
link that replaces it. `IInv` rests on it: what was done is done and the report has it
(`ReportStands`, `DoneMeansDone`), the directories of a walk lie one in the other and one that lost
something had something listed in it (`StackStands`), and what was put in the place of a directory
came after its deletion (`ReplacedLast`). `Converges` needs a second invariant, `ProgressStands`:
while nothing disturbs a full plan, there lies at every path what the source has, or what the
comparison found and an action still to come will change; actions done are not preceded by actions
to come; and a walked directory that the source lacks is empty. `Ready` then says that an action
that is due finds its way free: its parent is there, what is to go has gone. Its proof picks a
lowest path, which is why a tree has finitely many (`TreesAssumption`).

*AppUI.* `OneOperationAtATimeThm`, `TypedRootsWinThm`, `SuspendsOncePerRunThm`,
`CountersMatchRowsThm`, for sessions of any length and any roots, rows and sessions. Exclusion
(`ExclusionInv`) needs that only the window's thread starts work, so that the second check and the
start are one critical section. `FieldsInv` is itself inductive: a field that was prefilled is one
the user does not own, having left it empty or given it up to a snapshot (`Owned`). Standby (`StandbyInv`) relates the flags of the run, of the frame drawn before
it and of the outcomes not yet taken: the suspensions made, and those still *open* (a run that ended
well and was not yet drawn, a report not yet folded), are together never more than the runs that
ended well. The snapshot a frame is drawn from is older than the orchestrator's state, which is why
both appear in it. The counters (`CountersInv`): a result set, displayed or published, is *exact*;
`ApplyKeeps` shows that correcting it by one row keeps it so, since a counter that is lowered counts
the row that goes and the floor at zero is never met. A report retires all its paths in one fold:
`FoldExists` shows that the fold is defined on every finite set of paths, and `FoldKeeps` that it
keeps exactness in whatever order the paths are taken, both by a least counterexample, since the
prover cannot instantiate an induction rule. For this the invariant carries along that the paths of
a plan are finitely many, from the rows on display to the report.

Only model-checked:

- `SuccessIsComplete`, `NothingInvented`, `FailsOnlyWithWin32` (`MftEnumerator`), whose reference, the
  paths of a volume, is a recursive definition over data;
- all liveness, `BothWorkersEnd`, `EveryTaskFinishes`, `WaitsReturn`, `RunReturns`, `Quits`: the prover
  handles neither fairness nor ENABLED, so nothing is claimed there beyond the instances.

## 6. Not modelled

- *In modelled components*: display gauges and progress numbers; the pool without threads; the modes
  Presence and Size, and a source read from an index, in the comparer (`ScanRuns` has the latter, with
  the comparison as one step); the folding of names, byte encodings, session listing and deletion;
  statistics and exports; times and attributes, paths outside the root and link
  targets in the synchronisation. What lies behind a link of the destination is outside the tree. In
  the window: drawing, layout, scrolling, filters, the caret.
- *Restrictions of the MFT model*: one trouble at a time, and no two links of one file in one
  directory. Outside them the code is known to do worse: the size of a file whose `$DATA` is in an
  extension record is 0; of two links in one directory one is dropped, the parent-pointer map being
  keyed by record; an index cluster that cannot be read is skipped without a word
  (`ReadNonResidentAttrInto` ignores the result of the read), which together with a bad record loses
  a file from a scan reported as successful; two renames can make the walk endless; a bad extension
  record can leave only the DOS name. Torn file records are not modelled (the fixup of records does
  not look for them), nor cancellation inside a record.
- *Components*: SHA-256 (bit arithmetic), reparse point and attribute decoding (bytes and I/O), export
  and profiling (output only), the command line (parsing and printing of one report), `tools/`
  (stand-alone diagnostics) have no state whose order matters. Paths are model values; their string
  functions are not modelled.

## 7. Plan

Done: every module of section 2 with its run, and proofs of every safety property of MatchTable,
ThreadPool, ConcurrentComparer, PartialRead and HashPhase, ResumePlan and ScanRuns, Checkpointing,
SyncPlan and SyncExecutor, SingleVerify, ScanOrchestrator and AppUI, and of what Pairing promises for
both of its implementations.

Next: a run of its own for the session saved under a lowered mode (section 4, *Resume*); for
`MftEnumerator`, a reference for the paths of a volume that is not recursive, so that its three
properties can be proved too; the modes Presence and Size in the comparer.
