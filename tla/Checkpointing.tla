---------------------------- MODULE Checkpointing ----------------------------
(***************************************************************************)
(* How ScanController (src/ScanController.cpp) saves a session while a     *)
(* scan runs, over several runs on one <base>:                             *)
(*                                                                         *)
(*  - a run starts fresh or resumes the session it loads, keeping the rows *)
(*    that are still valid; rows are captured while the comparison goes on *)
(*  - the pump thread moves captured rows into the pending queue and saves *)
(*    them (doCheckpoint): SaveSession the first time, AppendJournal after *)
(*    that; the main thread joins the pump and saves for the last time     *)
(*  - a run without checkpoints saves once, at the end                     *)
(*  - any file operation may fail, the user may cancel, and the process    *)
(*    may die at any moment, after which another run may start.            *)
(*                                                                         *)
(* checkpointMutex lets one save run at a time, so there is one program    *)
(* counter for whichever thread is saving. Timers are not modelled: the    *)
(* pump may save whenever it is idle.                                      *)
(*                                                                         *)
(* Definitions marked "Wrong" are no part of the model: each is a plausible *)
(* mistake in the definition that follows it, which a property must catch. *)
(***************************************************************************)
EXTENDS SessionFiles

CONSTANTS
  MaxRuns,    \* bound: runs in a behaviour
  MaxFaults   \* bound: failed file operations and hash tasks in a behaviour

VARIABLES
  run,       \* runs started
  faults,    \* file operations and hash tasks that failed
  phase,     \* off, scan, join or final: where the main thread is
  mode,      \* settings of the run
  fresh,     \* the run did not resume a session
  pumping,   \* checkpointUsed
  booted,    \* checkpointBootstrapped
  left,      \* paths the comparison has yet to give a row
  missed,    \* paths to which it gave none
  sink,      \* captured rows not yet taken
  pending,   \* checkpointPending, or the rows a run without checkpoints keeps
  cancel,    \* *options.cancel
  ok,        \* report.sourceOk and report.destinationOk
  spc,       \* where the save is
  pos,       \* rows of pending already appended
  trailer,   \* the trailer the new context will carry
  goal,      \* the state it will carry
  saved,     \* report.sessionSaved: the last run reported this state as saved
  acked      \* history: rows whose save succeeded and which must survive

runVars  == <<run, phase, mode, fresh, pumping, cancel, ok>>
rowVars  == <<left, missed, sink, pending>>
saveVars == <<spc, pos, trailer, goal>>
vars == <<fileVars, run, faults, phase, mode, fresh, pumping, booted, left, missed,
          sink, pending, cancel, ok, spc, pos, trailer, goal, saved, acked>>

ASSUME CheckpointingAssumption ==
  /\ Paths # {} /\ IsFiniteSet(Paths)
  /\ None \notin Records \cup Contexts
  /\ MaxRuns \in Nat /\ MaxFaults \in Nat

Idle == spc = "idle"

Init ==
  /\ FilesInit
  /\ run = 0 /\ faults = 0
  /\ phase = "off"
  /\ mode \in Modes
  /\ fresh = TRUE /\ pumping = FALSE /\ booted = FALSE
  /\ left = {} /\ missed = {} /\ sink = <<>> /\ pending = <<>>
  /\ cancel = FALSE /\ ok = FALSE
  /\ spc = "idle" /\ pos = 0 /\ trailer = <<>> /\ goal = "Checkpointed"
  /\ saved = None
  /\ acked = {}

-----------------------------------------------------------------------------
(* A run begins *)

Begin(rows, m, isFresh) ==
  /\ phase = "off"
  /\ run < MaxRuns
  /\ run' = run + 1
  /\ phase' = "scan"
  /\ mode' = m
  /\ fresh' = isFresh
  /\ pending' = rows
  /\ left' = Paths \ {r.path : r \in RowsOf(rows)}
  /\ pumping' \in (IF left' = {} THEN {FALSE} ELSE BOOLEAN)
  /\ booted' = FALSE
  /\ missed' = {} /\ sink' = <<>>
  /\ cancel' = FALSE /\ ok' = FALSE
  /\ saved' = None
  /\ UNCHANGED <<fileVars, faults, saveVars>>

StartFresh ==
  /\ \E m \in Modes : Begin(<<>>, m, TRUE)
  /\ UNCHANGED acked

\* The rows of seq at some of its places, in their order.
SubSequences(seq) ==
  UNION {{[i \in 1..n |-> seq[at[i]]] :
            at \in {f \in [1..n -> DOMAIN seq] : \A i, j \in 1..n : i < j => f[i] < f[j]}} :
         n \in 0..Len(seq)}

\* LoadSession, CheckResumeCompatible and PlanResume: under the settings of the
\* context, every loaded row that is not stale is reused, in journal order.
StartResumed ==
  /\ Loadable
  /\ \E rows \in SubSequences(journal) :
       /\ Begin(rows, Context.mode, FALSE)
       /\ acked' = acked \cap RowsOf(rows)

-----------------------------------------------------------------------------
(* The comparison captures rows, ends, and may be cancelled *)

Capture ==
  /\ phase = "scan"
  /\ ~cancel
  /\ \E p \in left :
       /\ left' = left \ {p}
       /\ sink' = Append(sink, [path |-> p, mode |-> mode])
  /\ UNCHANGED <<fileVars, faults, runVars, booted, missed, pending, saveVars, saved,
                 acked>>

\* A hash task throws: its pair gets no row, and no side fails for it.
CaptureFails ==
  /\ phase = "scan"
  /\ faults < MaxFaults
  /\ faults' = faults + 1
  /\ \E p \in left : left' = left \ {p} /\ missed' = missed \cup {p}
  /\ UNCHANGED <<fileVars, runVars, booted, sink, pending, saveVars, saved, acked>>

RequestCancel ==
  /\ phase \in {"scan", "join"}
  /\ ~cancel
  /\ cancel' = TRUE
  /\ UNCHANGED <<fileVars, run, faults, phase, mode, fresh, pumping, booted, ok, rowVars,
                 saveVars, saved, acked>>

\* The comparison returns. A side that failed leaves rows out.
CompareEnds ==
  /\ phase = "scan"
  /\ phase' = "join"
  /\ ok' \in {left = {}, FALSE}
  /\ UNCHANGED <<fileVars, run, faults, mode, fresh, pumping, cancel, booted, rowVars,
                 saveVars, saved, acked>>

-----------------------------------------------------------------------------
(* Saving *)

\* doCheckpoint takes the captured rows and starts a SaveSession or, once the
\* files exist, an AppendJournal. With no rows it does nothing, unless forced.
BeginSave(state) ==
  /\ pending' = pending \o sink
  /\ sink' = <<>>
  /\ goal' = state
  /\ spc' = IF booted THEN "trailer" ELSE "journal"
  /\ UNCHANGED <<left, missed, pos, trailer>>

\* The pump reads the cancellation flag and its timer before it calls this; the
\* flag may be raised in between.
PumpSaves ==
  /\ phase \in {"scan", "join"}
  /\ pumping
  /\ Idle
  /\ pending \o sink # <<>>
  /\ BeginSave("Checkpointed")
  /\ UNCHANGED <<fileVars, faults, runVars, booted, saved, acked>>

\* Wrong: a run of which a side failed is saved as completed.
FinalStateUnchecked == IF cancel THEN "Interrupted" ELSE "Completed"

\* The state the last save leaves, or None for a run that is not saved: the
\* comparison failed, or was cancelled before there was anything to save.
FinalState ==
  IF ok /\ ~cancel THEN "Completed"
  ELSE IF cancel /\ (booted \/ pending \o sink # <<>>) THEN "Interrupted"
  ELSE None

\* Wrong: the last save is skipped when no rows are left to write.
FinalSaveUnforced ==
  /\ phase = "join"
  /\ Idle
  /\ IF FinalState # None /\ pending \o sink # <<>>
     THEN BeginSave(FinalState) /\ phase' = "final" /\ UNCHANGED saved
     ELSE phase' = "off" /\ saved' = FinalState /\ UNCHANGED <<rowVars, saveVars>>
  /\ UNCHANGED <<fileVars, run, faults, mode, fresh, pumping, cancel, ok, booted, acked>>

\* The main thread, after it joined the pump.
FinalSave ==
  /\ phase = "join"
  /\ Idle
  /\ IF FinalState # None
     THEN BeginSave(FinalState) /\ phase' = "final"
     ELSE phase' = "off" /\ UNCHANGED <<rowVars, saveVars>>
  /\ UNCHANGED <<fileVars, run, faults, mode, fresh, pumping, cancel, ok, booted, saved,
                 acked>>

Saving(from, to) ==
  /\ spc = from
  /\ spc' = to
  /\ UNCHANGED <<run, faults, phase, mode, fresh, pumping, cancel, ok, booted, rowVars, goal,
                 saved>>

\* SaveSession replaces the journal: a fresh run gives up the session before it.
SaveJournal ==
  /\ Saving("journal", "rotate")
  /\ ReplaceJournal(pending)
  /\ trailer' = pending
  /\ acked' = IF fresh THEN {} ELSE acked
  /\ UNCHANGED pos

\* AppendJournal reads the trailer and drops what an earlier attempt left. It
\* refuses a tail that DropTail does not explain; a file that cannot be read is
\* a failure like others.
ReadTrailer ==
  /\ Saving("trailer", "append")
  /\ Loadable
  /\ DropTail(Context.trailer, pending)
  /\ trailer' = Context.trailer \o pending
  /\ pos' = 0
  /\ UNCHANGED acked

AppendNext ==
  /\ pos < Len(pending)
  /\ torn = None
  /\ Saving("append", "append")
  /\ AppendRow(pending[pos + 1])
  /\ pos' = pos + 1
  /\ UNCHANGED <<trailer, acked>>

AppendEnds ==
  /\ pos = Len(pending)
  /\ torn = None
  /\ Saving("append", "rotate")
  /\ UNCHANGED <<fileVars, pos, trailer, acked>>

RotateContext ==
  /\ Saving("rotate", "context")
  /\ Rotate
  /\ UNCHANGED <<pos, trailer, acked>>

\* The save succeeded: the pending rows are written.
WriteContext ==
  /\ spc = "context"
  /\ PutContext([mode |-> mode, state |-> goal, trailer |-> trailer,
                 missed |-> missed])
  /\ spc' = "idle"
  /\ booted' = TRUE
  /\ pending' = <<>>
  /\ acked' = acked \cup RowsOf(trailer)
  /\ IF phase = "final" THEN phase' = "off" /\ saved' = goal
                        ELSE UNCHANGED <<phase, saved>>
  /\ UNCHANGED <<run, faults, mode, fresh, pumping, cancel, ok, left, missed, sink, pos,
                 trailer, goal>>

\* Wrong: the rows of a failed save are dropped.
SaveFailsDropping ==
  /\ ~Idle
  /\ faults < MaxFaults
  /\ faults' = faults + 1
  /\ spc' = "idle"
  /\ pending' = <<>>
  /\ phase' = IF phase = "final" THEN "off" ELSE phase
  /\ UNCHANGED <<fileVars, run, mode, fresh, pumping, cancel, ok, booted, left, missed, sink,
                 pos, trailer, goal, saved, acked>>

\* A file operation fails: the save is abandoned and its rows stay pending.
SaveFails ==
  /\ ~Idle
  /\ faults < MaxFaults
  /\ faults' = faults + 1
  /\ spc' = "idle"
  /\ phase' = IF phase = "final" THEN "off" ELSE phase
  /\ UNCHANGED <<fileVars, run, mode, fresh, pumping, cancel, ok, booted, rowVars, pos,
                 trailer, goal, saved, acked>>

\* The process dies; the files stay as they are.
Crash ==
  /\ phase # "off"
  /\ phase' = "off"
  /\ spc' = "idle"
  /\ UNCHANGED <<fileVars, run, faults, mode, fresh, pumping, cancel, ok, booted, rowVars,
                 pos, trailer, goal, saved, acked>>

SaveStep ==
  \/ SaveJournal \/ ReadTrailer \/ AppendNext \/ AppendEnds
  \/ RotateContext \/ WriteContext

Next ==
  \/ StartFresh \/ StartResumed
  \/ Capture \/ CaptureFails \/ RequestCancel \/ CompareEnds
  \/ PumpSaves \/ FinalSave \/ SaveStep \/ SaveFails
  \/ Crash

Spec == Init /\ [][Next]_vars

-----------------------------------------------------------------------------
(* Properties *)

Alive == phase # "off"

\* No row of a checkpoint is ever lost: whatever fails and whenever the process
\* dies, the session can be loaded and holds every row a save has acknowledged.
CheckpointSurvives ==
  acked # {} => Loadable /\ acked \subseteq RowsOf(journal)

\* While the run lives every path is to come, captured, pending or saved: a
\* failed save is retried with all its rows.
NoRowLost ==
  Alive => \A p \in Paths \ (left \cup missed) :
    \E r \in RowsOf(sink) \cup RowsOf(pending) \cup acked : r.path = p

\* No path has two records in the journal, however often an append was retried
\* (ResumePlan relies on it: "the store never writes duplicates").
NoDuplicateRows ==
  \A i, j \in DOMAIN journal : journal[i].path = journal[j].path => i = j

\* A session that loads without a warning as Completed has a row for every
\* path that got one.
CompletedIsWhole ==
  Loadable /\ ~Flagged /\ Context.state = "Completed" =>
    Paths \ Context.missed \subseteq {r.path : r \in RowsOf(journal)}

\* When a run ends and reports its session as saved, the files say so and hold
\* every row it captured.
ReportedSaveIsOnDisk ==
  ~Alive /\ saved # None =>
    /\ main # None /\ main.state = saved /\ ~Flagged
    /\ {r.path : r \in RowsOf(journal)} = Paths \ (left \cup missed)
=============================================================================
