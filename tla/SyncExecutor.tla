---------------------------- MODULE SyncExecutor ----------------------------
(***************************************************************************)
(* ExecutePlan (src/Sync/SyncExecutor.cpp) and the guarded file operations *)
(* it uses (SyncFs.cpp), over several rounds of comparing, planning and    *)
(* executing on one destination:                                           *)
(*                                                                         *)
(*  - a plan is built from a comparison of the source with the destination *)
(*    as it was then, for all rows or for one of them;                     *)
(*  - its actions run one after the other on the destination as it is when *)
(*    they run; the deletion of a directory is a walk of many steps;       *)
(*  - any file operation may fail, the user may cancel, the process may    *)
(*    die, and somebody else may put files into the destination;           *)
(*  - the next round starts from whatever that left.                       *)
(*                                                                         *)
(* The source does not change. Every other action is one step: what it did *)
(* before it failed is one of its outcomes. A plan with the roles of the   *)
(* sides exchanged (manual actions towards A) is a plan of this module for *)
(* the exchanged trees.                                                    *)
(***************************************************************************)
EXTENDS SyncPlan

CONSTANTS
  SourceTrees,  \* trees of the source
  DestTrees,    \* trees of the destination
  MaxRounds,    \* bound: plans executed
  MaxMishaps    \* bound: failures, crashes and files put in by others

VARIABLES
  src,      \* the source
  dst,      \* the destination, live
  base,     \* the destination as it was compared
  full,     \* the plan is that of all rows
  plan,     \* plan.actions
  allowed,  \* plan.extraFoldedRels
  todo,     \* the actions still to run
  report,   \* report.items
  stack,    \* frames of DeleteDirGuarded, innermost last
  cancel,   \* *cancel
  phase,    \* idle, run, done
  round,    \* plans started
  mishaps,  \* failures, crashes, foreign files so far
  foreign,  \* paths at which others put a file in this round
  smooth    \* history: nothing went wrong in this round

planVars  == <<src, base, full, plan, allowed, round>>
vars == <<src, dst, base, full, plan, allowed, todo, report, stack, cancel, phase,
          round, mishaps, foreign, smooth>>

ASSUME SyncAssumption ==
  /\ SourceTrees \subseteq Trees /\ DestTrees \subseteq Trees
  /\ MaxRounds \in Nat /\ MaxMishaps \in Nat

Init ==
  /\ src \in SourceTrees /\ dst \in DestTrees
  /\ base = dst
  /\ full = TRUE
  /\ plan = {} /\ allowed = {} /\ todo = {} /\ report = {} /\ stack = <<>>
  /\ cancel = FALSE
  /\ phase = "idle"
  /\ round = 0 /\ mishaps = 0
  /\ foreign = {} /\ smooth = TRUE

-----------------------------------------------------------------------------
(* A comparison and its plan *)

Start(actions, allow, isFull) ==
  /\ phase # "run"
  /\ round < MaxRounds
  /\ phase' = "run"
  /\ round' = round + 1
  /\ base' = dst
  /\ full' = isFull
  /\ plan' = actions
  /\ todo' = actions
  /\ allowed' = allow
  /\ report' = {} /\ stack' = <<>>
  /\ cancel' = FALSE
  /\ foreign' = {} /\ smooth' = TRUE
  /\ UNCHANGED <<src, dst, mishaps>>

StartFull == Start(SyncActions(src, dst), SyncAllowed(src, dst), TRUE)

StartSingle ==
  \E p \in Rows(src, dst) : Start(RowActions(src, dst, p), {p}, FALSE)

-----------------------------------------------------------------------------
(* Running one action *)

Item(a, result) == [action |-> a, result |-> result]

Finish(a, result) ==
  /\ todo' = todo \ {a}
  /\ report' = report \cup {Item(a, result)}

\* abortRemaining
Abort(rest) ==
  /\ todo' = {}
  /\ report' = report \cup {Item(a, "cancelled") : a \in rest}

Due(a) ==
  /\ phase = "run" /\ ~cancel /\ stack = <<>>
  /\ a \in todo
  /\ \A b \in todo : ~Precedes(b, a)

\* CheckParentChain and CreateDirAll: something above is no directory.
Blocked(p) == \E q \in Above(p) : dst[q] \notin {Absent, "dir"}

\* The destination with o at p and the directories above it.
Put(p, o) == [q \in Paths |-> IF q = p THEN o
                              ELSE IF q \in Above(p) THEN "dir" ELSE dst[q]]

Empty(p) == Within(dst, p) = {}

\* PrepareFileDest and RunLink give way only for a file, a link or an empty
\* directory.
GivesWay(p) == dst[p] # "odd" /\ (dst[p] = "dir" => Empty(p))

Quiet == UNCHANGED <<planVars, stack, cancel, phase, mishaps, foreign, smooth>>

\* RunCopy
RunCopy(a) ==
  /\ Due(a) /\ a.op \in {"FileCopy", "FileReplace"}
  /\ IF Blocked(a.path) \/ ~GivesWay(a.path)
     THEN Finish(a, "failed") /\ UNCHANGED dst
     ELSE Finish(a, "ok") /\ dst' = Put(a.path, src[a.path])
  /\ Quiet

\* RunLink: a link that is to be replaced must find something to replace.
RunLink(a) ==
  /\ Due(a) /\ a.op \in {"LinkCreate", "LinkReplace"}
  /\ LET p == a.path IN
     IF Blocked(p) \/ ~GivesWay(p) \/ (a.op = "LinkReplace" /\ dst[p] = Absent)
     THEN Finish(a, "failed") /\ UNCHANGED dst
     ELSE Finish(a, "ok") /\ dst' = Put(p, src[p])
  /\ Quiet

\* A file or a link gives way to a directory, a directory stays.
CreateDir(a) ==
  /\ Due(a) /\ a.op = "DirCreate"
  /\ IF Blocked(a.path) \/ dst[a.path] = "odd"
     THEN Finish(a, "failed") /\ UNCHANGED dst
     ELSE Finish(a, "ok") /\ dst' = Put(a.path, "dir")
  /\ Quiet

\* DeleteFileOne; LinkDelete. What is gone already counts as done. (No directory
\* and no link can come to lie where a plan deletes a file.)
Deletable(op) == {Absent} \cup (IF op = "FileDelete" THEN Files ELSE Links)

DeleteOne(a) ==
  /\ Due(a) /\ a.op \in {"FileDelete", "LinkDelete"}
  /\ IF ~Blocked(a.path) /\ dst[a.path] \in Deletable(a.op)
     THEN Finish(a, "ok") /\ dst' = [dst EXCEPT ![a.path] = Absent]
     ELSE Finish(a, "failed") /\ UNCHANGED dst
  /\ Quiet

-----------------------------------------------------------------------------
(* DeleteDirGuarded *)

Frame(p) == [path |-> p, dirty |-> FALSE]
Top      == Last(stack)
Current  == Action("DirDelete", stack[1].path)
Walking  == phase = "run" /\ ~cancel /\ stack # <<>>

OpenDir(a) ==
  /\ Due(a) /\ a.op = "DirDelete"
  /\ IF ~Blocked(a.path) /\ dst[a.path] = "dir"
     THEN stack' = <<Frame(a.path)>> /\ UNCHANGED <<todo, report>>
     ELSE /\ Finish(a, IF dst[a.path] = Absent /\ ~Blocked(a.path) THEN "ok" ELSE "failed")
          /\ UNCHANGED stack
  /\ UNCHANGED <<planVars, dst, cancel, phase, mishaps, foreign, smooth>>

Descend ==
  /\ Walking
  /\ \E c \in Children(dst, Top.path) :
       /\ dst[c] = "dir"
       /\ stack' = Append(stack, Frame(c))
  /\ UNCHANGED <<planVars, dst, todo, report, cancel, phase, mishaps, foreign, smooth>>

SoilTop(frames) ==
  IF frames = <<>> THEN <<>> ELSE [frames EXCEPT ![Len(frames)].dirty = TRUE]

\* Wrong: files that the plan does not list are deleted with their directory.
RemoveAnyChild ==
  /\ Walking
  /\ \E c \in Children(dst, Top.path) :
       /\ dst[c] \notin {"dir", "odd"}
       /\ dst' = [dst EXCEPT ![c] = Absent]
  /\ stack' = SoilTop(stack)
  /\ UNCHANGED <<planVars, todo, report, cancel, phase, mishaps, foreign, smooth>>

RemoveChild ==
  /\ Walking
  /\ \E c \in Children(dst, Top.path) \cap allowed :
       /\ dst[c] \notin {"dir", "odd"}
       /\ dst' = [dst EXCEPT ![c] = Absent]
  /\ stack' = SoilTop(stack)
  /\ UNCHANGED <<planVars, todo, report, cancel, phase, mishaps, foreign, smooth>>

\* A file or link that is not listed, or no supported link, or something that
\* appeared after the directory was listed: what remains of it is preserved.
MeetsUnexpected ==
  /\ Walking
  /\ \E c \in Children(dst, Top.path) :
       dst[c] = "odd" \/ (dst[c] # "dir" /\ c \notin allowed) \/ c \in foreign
  /\ Finish(Current, "skipped")
  /\ stack' = <<>>
  /\ UNCHANGED <<planVars, dst, cancel, phase, mishaps, foreign, smooth>>

\* A directory with nothing left in it goes, unless it is neither listed nor was
\* emptied by this deletion: then it is shared with the source.
CloseDir ==
  /\ Walking
  /\ Empty(Top.path)
  /\ IF Top.path \in allowed \/ Top.dirty
     THEN /\ dst' = [dst EXCEPT ![Top.path] = Absent]
          /\ stack' = SoilTop(Front(stack))
          /\ IF Len(stack) = 1 THEN Finish(Current, "ok") ELSE UNCHANGED <<todo, report>>
     ELSE Finish(Current, "skipped") /\ stack' = <<>> /\ UNCHANGED dst
  /\ UNCHANGED <<planVars, cancel, phase, mishaps, foreign, smooth>>

-----------------------------------------------------------------------------
(* What can go wrong *)

Mishap ==
  /\ mishaps < MaxMishaps
  /\ mishaps' = mishaps + 1
  /\ smooth' = FALSE

\* Wrong: the copy's return value is ignored.
CopyFailsUnnoticed(a) ==
  /\ Due(a) /\ a.op \in {"FileCopy", "FileReplace"}
  /\ ~Blocked(a.path) /\ GivesWay(a.path)
  /\ Mishap
  /\ dst' \in {dst} \cup {Put(a.path, left) : left \in Files \cup {Absent}}
  /\ Finish(a, "ok")
  /\ UNCHANGED <<planVars, stack, cancel, phase, foreign>>

\* A copy that fails leaves what was there, nothing, a part, or all of the file; when
\* the disk is full, the remaining actions are abandoned. A cancellation may have been
\* what stopped it.
CopyFails(a) ==
  /\ Due(a) /\ a.op \in {"FileCopy", "FileReplace"}
  /\ ~Blocked(a.path) /\ GivesWay(a.path)
  /\ Mishap
  /\ dst' \in {dst} \cup {Put(a.path, left) : left \in Files \cup {Absent}}
  /\ \/ Finish(a, "failed") /\ cancel' \in BOOLEAN
     \/ /\ todo' = {}
        /\ report' = report \cup {Item(a, "failed")}
                            \cup {Item(b, "cancelled") : b \in todo \ {a}}
        /\ UNCHANGED cancel
  /\ UNCHANGED <<planVars, stack, phase, foreign>>

\* The old object is removed before the link is created.
LinkFails(a) ==
  /\ Due(a) /\ a.op \in {"LinkCreate", "LinkReplace"}
  /\ ~Blocked(a.path) /\ GivesWay(a.path)
  /\ Mishap
  /\ dst' \in {dst, Put(a.path, Absent)}
  /\ Finish(a, "failed")
  /\ UNCHANGED <<planVars, stack, cancel, phase, foreign>>

\* A directory cannot be created, after what was in its way is gone or before.
CreateDirFails(a) ==
  /\ Due(a) /\ a.op = "DirCreate"
  /\ Mishap
  /\ dst' = dst \/ (/\ ~Blocked(a.path) /\ dst[a.path] \notin {"dir", "odd"}
                    /\ dst' = Put(a.path, Absent))
  /\ Finish(a, "failed")
  /\ UNCHANGED <<planVars, stack, cancel, phase, foreign>>

\* A file or link cannot be deleted.
DeleteFails(a) ==
  /\ Due(a) /\ a.op \in {"FileDelete", "LinkDelete"}
  /\ Mishap
  /\ Finish(a, "failed")
  /\ UNCHANGED <<planVars, dst, stack, cancel, phase, foreign>>

\* Something inside a directory cannot be listed or deleted.
DirDeleteFails ==
  /\ Walking
  /\ Mishap
  /\ \E result \in {"skipped", "failed"} : Finish(Current, result)
  /\ stack' = <<>>
  /\ UNCHANGED <<planVars, dst, cancel, phase, foreign>>

\* Somebody puts a file where there was nothing.
ForeignFile ==
  /\ phase = "run"
  /\ Mishap
  /\ \E p \in Paths, f \in Files :
       /\ dst[p] = Absent
       /\ \A q \in Above(p) : dst[q] = "dir"
       /\ dst' = [dst EXCEPT ![p] = f]
       /\ foreign' = foreign \cup {p}
  /\ UNCHANGED <<planVars, todo, report, stack, cancel, phase>>

RequestCancel ==
  /\ phase = "run"
  /\ ~cancel
  /\ cancel' = TRUE
  /\ smooth' = FALSE
  /\ UNCHANGED <<planVars, dst, todo, report, stack, phase, mishaps, foreign>>

\* The report of a plan that is refused as a whole has one item, for no action.
Refusal == Item(Action("None", <<>>), "failed")

\* The free-space precheck, before the first action: a plan that copies files is not
\* started when the volume seems too small for them.
NoRoom ==
  /\ phase = "run"
  /\ todo = plan /\ report = {} /\ stack = <<>>
  /\ \E a \in plan : a.op \in {"FileCopy", "FileReplace"}
  /\ Mishap
  /\ phase' = "done"
  /\ todo' = {}
  /\ report' = {Refusal}
  /\ UNCHANGED <<planVars, dst, stack, cancel, foreign>>

\* Wrong: the action at which the cancellation is noticed is not reported.
CancelledUncounted ==
  /\ phase = "run" /\ cancel /\ stack = <<>> /\ todo # {}
  /\ \E a \in todo :
       /\ \A b \in todo : ~Precedes(b, a)
       /\ Abort(todo \ {a})
  /\ UNCHANGED <<planVars, dst, stack, cancel, phase, mishaps, foreign, smooth>>

\* The cancellation is noticed between two actions.
Cancelled ==
  /\ phase = "run" /\ cancel /\ stack = <<>> /\ todo # {}
  /\ Abort(todo)
  /\ UNCHANGED <<planVars, dst, stack, cancel, phase, mishaps, foreign, smooth>>

\* The cancellation is noticed inside the deletion of a directory.
DirDeleteCancelled ==
  /\ phase = "run" /\ cancel /\ stack # <<>>
  /\ todo' = {}
  /\ report' = report \cup {Item(Current, "failed")}
                      \cup {Item(b, "cancelled") : b \in todo \ {Current}}
  /\ stack' = <<>>
  /\ UNCHANGED <<planVars, dst, cancel, phase, mishaps, foreign, smooth>>

\* The process dies.
Crash ==
  /\ phase = "run"
  /\ Mishap
  /\ phase' = "idle"
  /\ todo' = {} /\ stack' = <<>>
  /\ UNCHANGED <<planVars, dst, report, cancel, foreign>>

Return ==
  /\ phase = "run"
  /\ todo = {}
  /\ phase' = "done"
  /\ UNCHANGED <<planVars, dst, todo, report, stack, cancel, mishaps, foreign, smooth>>

\* No further plan.
Rest == phase # "run" /\ round = MaxRounds /\ UNCHANGED vars

Execute(a) == RunCopy(a) \/ RunLink(a) \/ CreateDir(a) \/ DeleteOne(a) \/ OpenDir(a)
Walk       == Descend \/ RemoveChild \/ MeetsUnexpected \/ CloseDir
Fail(a)    == CopyFails(a) \/ LinkFails(a) \/ CreateDirFails(a) \/ DeleteFails(a)

Next ==
  \/ StartFull \/ StartSingle
  \/ \E a \in todo : Execute(a) \/ Fail(a)
  \/ Walk \/ DirDeleteFails
  \/ NoRoom \/ ForeignFile \/ RequestCancel \/ Cancelled \/ DirDeleteCancelled \/ Crash
  \/ Return \/ Rest

Spec == Init /\ [][Next]_vars

-----------------------------------------------------------------------------
(* Properties *)

\* What SyncPlan.h promises, a destination equal to the source, as far as it
\* holds: after a plan of all rows that ran undisturbed, every file and link of
\* the source is on the destination and nothing else is; only directories that
\* hold no file or link may be missing. It holds from any destination, also from
\* one that a failed, cancelled or killed earlier plan left behind.
SyncConverges ==
  phase = "done" /\ full /\ smooth /\ (\A p \in Paths : "odd" \notin {src[p], base[p]}) =>
    \A p \in Paths :
      dst[p] # src[p] =>
        /\ dst[p] = Absent /\ src[p] = "dir"
        /\ \A q \in Within(src, p) : src[q] = "dir"

Described(p) ==
  \/ RowActions(src, base, p) # {}
  \/ base[p] = "dir" /\ Beneath(p) \cap PlannedExtra(src, base) # {}

\* Content that no row of the comparison describes is never deleted or
\* overwritten, whenever it appeared: identical files, what others put there,
\* unsupported reparse points.
OnlyDescribedTouched ==
  [][foreign' = foreign =>
       \A p \in Paths : dst[p] # Absent /\ dst'[p] # dst[p] => Described(p)]_vars

\* What the report calls done is so when the plan ends: no later action of the
\* same plan undoes it.
DoneMeansDone ==
  phase # "idle" =>
    \A p \in Paths \ foreign : \A op \in Ops :
      Item(Action(op, p), "ok") \in report =>
        IF op \in {"FileDelete", "LinkDelete", "DirDelete"}
        THEN dst[p] # base[p] \/ dst[p] = Absent
        ELSE dst[p] = src[p]

\* Every action of a plan that returned has exactly one result, whichever way
\* it was stopped, and no result means that nothing was touched: the plan was
\* refused as a whole, for want of space.
EveryActionReported ==
  phase = "done" =>
    \/ \A a \in plan : Cardinality({i \in report : i.action = a}) = 1
    \/ report = {Refusal} /\ \A p \in Paths \ foreign : dst[p] = base[p]
=============================================================================
