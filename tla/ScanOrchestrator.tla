-------------------------- MODULE ScanOrchestrator --------------------------
(***************************************************************************)
(* ScanOrchestrator (src/ScanOrchestrator.cpp): what the window asks for,  *)
(* the three kinds of work it starts, each on a thread of its own (a scan  *)
(* or a capture of a snapshot, the verification of one file, a             *)
(* synchronisation), and what each of them publishes.                      *)
(*                                                                         *)
(* Every method runs on the thread of the window, so its critical sections *)
(* interleave only with those of the workers: one action is one critical   *)
(* section. running_, verifyRunning_ and syncRunning_ are raised in the    *)
(* section that creates the thread and lowered in the one that publishes   *)
(* its result: they are "running" in thread. A published worker still has  *)
(* to notify the window before it can be joined.                           *)
(*                                                                         *)
(* What the work finds is chosen when it is published. Notes, progress     *)
(* figures, timings and the settings that are handed on unread are left    *)
(* out.                                                                    *)
(*                                                                         *)
(* Definitions marked "Wrong" are no part of the model: each is a plausible *)
(* mistake in the definition that follows it, which a property must catch. *)
(***************************************************************************)
EXTENDS SingleVerify

CONSTANTS
  Roots,       \* Roots[f]: what the user may put in field f
  NoRoot,      \* an empty field
  Sessions,    \* the roots in the sessions on the disk
  ScanRows,    \* the rows a comparison may end with
  Surplus,     \* per bucket: what a comparison counts and has no row for
  SideStates   \* what may lie at a path of either side

VARIABLES
  field,        \* source_ and dest_
  prefilled,    \* sourcePrefilled_ and destPrefilled_
  useSnapshot, useResume,
  thread,       \* per kind of work: its thread
  job,          \* per kind of work: what its running thread was given
  cancel,       \* cancel_, verifyCancel_, syncCancel_
  ready,        \* resultsReady_, verifyReady_, syncReady_
  out,          \* results_ and the flags of the run, pendingVerify_, pendingSync_
  dirty,        \* AppUI::dirty_, which the progress callback raises
  typed,        \* history: what the user last put in a field
  displaced,    \* history: a snapshot was armed since he put in the source
  clean         \* history: scans and synchronisations that ended well

inputVars == <<field, prefilled, useSnapshot, useResume, typed, displaced>>
workVars  == <<thread, job, cancel, ready, out, dirty, clean>>

Fields == {"source", "dest"}
Work   == {"scan", "verify", "sync"}
None   == [kind |-> "none"]

ASSUME OrchestratorAssumption ==
  /\ Roots \in [Fields -> SUBSET STRING]
  /\ \A f \in Fields : NoRoot \notin Roots[f]
  /\ Sessions \subseteq [Fields -> Roots["source"] \cup Roots["dest"] \cup {NoRoot}]
  /\ ScanRows \subseteq Seq([path : STRING, status : Statuses, isDirectory : BOOLEAN])
  /\ Surplus \in [Buckets -> Nat]

NoRun == [rows |-> <<>>, stats |-> [b \in Buckets |-> 0], ok |-> TRUE,
          offline |-> FALSE, compared |-> FALSE, roots |-> [f \in Fields |-> NoRoot]]

OrchestratorInit ==
  /\ field = [f \in Fields |-> NoRoot]
  /\ prefilled = [f \in Fields |-> FALSE]
  /\ useSnapshot = FALSE /\ useResume = FALSE
  /\ typed = [f \in Fields |-> NoRoot] /\ displaced = FALSE
  /\ thread = [w \in Work |-> "none"]
  /\ job = [w \in Work |-> None]
  /\ cancel = [w \in Work |-> FALSE]
  /\ ready = [w \in Work |-> FALSE]
  /\ out = [w \in Work |-> IF w = "scan" THEN NoRun ELSE None]
  /\ dirty = TRUE
  /\ clean = 0

-----------------------------------------------------------------------------
(* The inputs *)

\* Wrong: what the user puts over a session's root still counts as the session's.
SetFieldOnly(f, r) ==
  /\ field' = [field EXCEPT ![f] = r]
  /\ typed' = [typed EXCEPT ![f] = r]
  /\ displaced' = (displaced /\ f # "source")
  /\ UNCHANGED prefilled

SetField(f, r) ==
  /\ field' = [field EXCEPT ![f] = r]
  /\ prefilled' = [prefilled EXCEPT ![f] = FALSE]
  /\ typed' = [typed EXCEPT ![f] = r]
  /\ displaced' = (displaced /\ f # "source")

\* setSource and setDest, as the fields are edited; a field may be emptied.
Type(f, r) ==
  /\ SetField(f, r)
  /\ UNCHANGED <<useSnapshot, useResume>>

\* A folder picked for the source: setSource and useLiveSource.
Browse(f, r) ==
  /\ SetField(f, r)
  /\ useSnapshot' = IF f = "source" THEN FALSE ELSE useSnapshot
  /\ UNCHANGED useResume

\* The device is no longer needed: its root goes, whoever put it in.
LoadSnapshot ==
  /\ useSnapshot' = TRUE
  /\ useResume' = FALSE
  /\ field' = [field EXCEPT !["source"] = NoRoot]
  /\ prefilled' = [prefilled EXCEPT !["source"] = FALSE]
  /\ displaced' = TRUE
  /\ UNCHANGED typed

ClearSnapshot ==
  /\ useSnapshot' = FALSE
  /\ UNCHANGED <<field, prefilled, typed, displaced, useResume>>

\* A field the user left empty, or did not fill, follows the session.
Follows(f) == field[f] = NoRoot \/ prefilled[f]

\* loadResumeSession of a valid session; an invalid one changes nothing.
LoadResumeSession(sess) ==
  /\ field' = [f \in Fields |-> IF Follows(f) THEN sess[f] ELSE field[f]]
  /\ prefilled' = [f \in Fields |->
                     prefilled[f] \/ (Follows(f) /\ sess[f] # NoRoot)]
  /\ useResume' = TRUE
  /\ useSnapshot' = FALSE
  /\ UNCHANGED <<typed, displaced>>

ClearResume ==
  /\ useResume' = FALSE
  /\ field' = [f \in Fields |-> IF prefilled[f] THEN NoRoot ELSE field[f]]
  /\ prefilled' = [f \in Fields |-> FALSE]
  /\ UNCHANGED <<typed, displaced, useSnapshot>>

-----------------------------------------------------------------------------
(* Starting and stopping work *)

Running(w) == thread[w] = "running"
Busy       == \E w \in Work : Running(w)
Joined(w)  == thread[w] \in {"none", "exited"}

\* Wrong: a synchronisation does not keep a scan from starting.
MayStartAnyway(op) ==
  /\ ~Running("scan") /\ ~Running("verify")
  /\ CASE op = "live"    -> /\ field["dest"] # NoRoot
                            /\ useSnapshot \/ field["source"] # NoRoot
       [] op = "capture" -> field["source"] # NoRoot
       [] OTHER          -> ~Running("sync")

\* The first critical section of a start: it refuses when anything runs and when
\* a root is missing.
MayStart(op) ==
  /\ ~Busy
  /\ CASE op = "live"    -> /\ field["dest"] # NoRoot
                            /\ useSnapshot \/ field["source"] # NoRoot
       [] op = "capture" -> field["source"] # NoRoot
       [] OTHER          -> TRUE

\* resetForRunLocked: what the last run and a verification nobody took left.
ResetForRun ==
  /\ ready' = [ready EXCEPT !["scan"] = FALSE, !["verify"] = FALSE]
  /\ out' = [out EXCEPT !["scan"] = NoRun, !["verify"] = None]

\* startLiveScan, startSnapshotScan after the join.
StartScan(op) ==
  /\ ResetForRun
  /\ cancel' = [cancel EXCEPT !["scan"] = FALSE]
  /\ thread' = [thread EXCEPT !["scan"] = "running"]
  /\ job' = [job EXCEPT !["scan"] =
               [kind |-> op, roots |-> field,
                offline |-> op = "live" /\ useSnapshot]]
  /\ UNCHANGED <<dirty, clean, inputVars>>

\* requestSingleVerify, requestSync after the join.
StartRequest(w, what) ==
  /\ ready' = [ready EXCEPT ![w] = FALSE]
  /\ out' = [out EXCEPT ![w] = None]
  /\ cancel' = [cancel EXCEPT ![w] = FALSE]
  /\ thread' = [thread EXCEPT ![w] = "running"]
  /\ job' = [job EXCEPT ![w] = what]
  /\ dirty' = TRUE
  /\ UNCHANGED <<clean, inputVars>>

\* stop, and what shutdown does before it joins.
StopAll == cancel' = [w \in Work |-> TRUE]

-----------------------------------------------------------------------------
(* The workers *)

Publish(w, what) ==
  /\ thread' = [thread EXCEPT ![w] = "published"]
  /\ ready' = [ready EXCEPT ![w] = TRUE]
  /\ out' = [out EXCEPT ![w] = what]
  /\ job' = [job EXCEPT ![w] = None]
  /\ UNCHANGED <<cancel, dirty, inputVars>>

StatsOf(rows) == [b \in Buckets |-> CountOf(rows, b) + Surplus[b]]

\* workerThread: a capture has no rows; a side that failed, or was stopped in its
\* walk, is not ok; a run stopped while it hashes may be.
ScanEnds ==
  /\ Running("scan")
  /\ \E rows \in ScanRows, ok \in BOOLEAN :
       LET compared == job["scan"].kind = "live"
       IN  /\ ~compared => rows = <<>>
           /\ Publish("scan",
                [rows |-> rows, ok |-> ok, compared |-> compared,
                 stats |-> IF compared THEN StatsOf(rows) ELSE NoRun.stats,
                 offline |-> job["scan"].offline, roots |-> job["scan"].roots])
           /\ clean' = IF ok /\ ~cancel["scan"] THEN clean + 1 ELSE clean

\* verifyThread: stopped before it began or before it had a verdict, or a row.
VerifyEnds ==
  /\ Running("verify")
  /\ \/ /\ cancel["verify"]
        /\ Publish("verify", [kind |-> "cancelled"])
     \/ \E a, b \in SideStates, level \in {"size", "partial", "full"} :
          \E row \in VerifySingleFile(job["verify"].path, a, b, level)
                       \cup {MakeInternalVerifyError(job["verify"].path)} :
            Publish("verify", [kind |-> "row", row |-> row])
  /\ UNCHANGED clean

\* syncThread: every action of the plan is done, failed or skipped; the ones that
\* follow the cancellation are cancelled.
SyncEnds ==
  /\ Running("sync")
  /\ \E done \in SUBSET job["sync"].paths :
       \E failed \in SUBSET (job["sync"].paths \ done) :
         LET stopped == cancel["sync"] /\ done \cup failed # job["sync"].paths
         IN  /\ Publish("sync", [kind |-> "report", done |-> done, failed |-> failed,
                                 cancelled |-> stopped])
             /\ clean' = IF done # {} /\ failed = {} /\ ~stopped
                         THEN clean + 1 ELSE clean

WorkEnds == ScanEnds \/ VerifyEnds \/ SyncEnds

\* notify of a running scan or synchronisation: progress.
Progress(w) ==
  /\ w # "verify"
  /\ Running(w)
  /\ dirty' = TRUE
  /\ UNCHANGED <<thread, job, cancel, ready, out, clean, inputVars>>

\* The last notify of a worker, after which it exits.
Notify(w) ==
  /\ thread[w] = "published"
  /\ thread' = [thread EXCEPT ![w] = "exited"]
  /\ dirty' = TRUE
  /\ UNCHANGED <<job, cancel, ready, out, clean, inputVars>>
=============================================================================
