------------------------------ MODULE ScanRuns ------------------------------
(***************************************************************************)
(* ScanController::run (src/ScanController.cpp) as a sequence of runs over *)
(* two trees that change between and during them, and what one run leaves  *)
(* to the next:                                                            *)
(*                                                                         *)
(*    journal   the session: rows with the stat of both sides, perhaps not *)
(*              all of them                                                *)
(*    snap      a snapshot: the listing of the source, and digests         *)
(*                                                                         *)
(* A run takes its source live, from a snapshot it reads (offline), or     *)
(* from one it writes (capture); it may resume a session. A live run that  *)
(* resumes nothing lists both sides while it compares them; every other    *)
(* run has a listing of the source before it walks the destination, and    *)
(* the trees may change in between. Which rows are reused is the business  *)
(* of ResumePlan; how a session reaches the disk is that of Checkpointing; *)
(* what happens while a file is hashed is that of HashPhase.               *)
(*                                                                         *)
(* Definitions marked "Wrong" are no part of the model: each is a plausible *)
(* mistake in the definition that follows it, which a property must catch. *)
(***************************************************************************)
EXTENDS ResumePlan

CONSTANTS
  Datas,       \* what files may hold
  Targets,     \* what links to directories may point at
  Trees,       \* trees the two sides may have at first
  Modes,       \* scan modes
  Kinds,       \* kinds of runs: live, offline, capture, captureOnly
  MaxChanges,  \* bound: changes to the trees in a behaviour
  MaxRuns      \* bound: runs in a behaviour

VARIABLES
  tree,      \* tree[s]: the entries of side s
  locked,    \* locked[s]: directories of side s that cannot be listed
  changes,   \* changes so far; modification times are drawn from it
  run,       \* runs started
  opts,      \* what the run was asked for: kind, mode, resume
  mode,      \* the effective mode
  pc,        \* where the run is
  list,      \* list[s]: the index of side s
  errs,      \* errs[s]: directories of side s the index could not list
  digests,   \* digests of the source index
  plan,      \* the plan of a resumed run
  snap,      \* the snapshot file, or None
  journal,   \* the session file: [mode, rows], or None
  report,    \* rows and errors of the last run, and whether it completed
  quiet      \* history: no tree has changed since the run started

treeVars  == <<tree, locked, changes>>
indexVars == <<list, errs, digests>>
vars == <<tree, locked, changes, run, opts, mode, pc, list, errs, digests, plan, snap,
          journal, report, quiet>>

ASSUME ScanRunsAssumption ==
  /\ Modes \subseteq {"Presence", "Size", "Content"}
  /\ Kinds \subseteq {"live", "offline", "capture", "captureOnly"}
  /\ MaxChanges \in Nat /\ MaxRuns \in Nat

\* A path is in the directories of its own directories. Whatever lies in a
\* tree lies in directories, what it holds was written before the first run,
\* and two files of one path, size and time are one file: a session and the
\* resume that reads it know a file by nothing else.
ASSUME TreesAssumption ==
  /\ \A p \in Paths : p \notin Above[p] /\ \A d \in Above[p] : Above[d] \subseteq Above[p]
  /\ \A t \in Trees : DOMAIN t \subseteq Paths
  /\ \A t \in Trees : \A p \in DOMAIN t :
       /\ \A d \in Above[p] : d \in DOMAIN t /\ t[d] = Dir
       /\ \/ t[p] = Dir \/ \E x \in Targets : t[p] = Link(x)
          \/ /\ t[p].type = "file" /\ StatOf(t[p]) # StatOf(Dir)
             /\ t[p].mtime \in Int /\ t[p].mtime <= 0
  /\ \A t, u \in Trees : \A p \in DOMAIN t \cap DOMAIN u :
       t[p].type = "file" /\ u[p].type = "file" /\ StatOf(t[p]) = StatOf(u[p]) => t[p] = u[p]

Empty    == [s \in Sides |-> <<>>]
NoErrors == [s \in Sides |-> {}]
NoPlan   == [reused |-> <<>>, remainder |-> NoErrors]
NoOptions == [kind |-> "live", mode |-> "Content", resume |-> FALSE]
NoReport == [rows |-> <<>>, errors |-> NoErrors, completed |-> FALSE]

Init ==
  /\ tree \in [Sides -> Trees]
  /\ locked = NoErrors /\ changes = 0
  /\ run = 0 /\ pc = "off"
  /\ opts = NoOptions /\ mode = NoOptions.mode
  /\ list = Empty /\ errs = NoErrors /\ digests = <<>> /\ plan = NoPlan
  /\ snap = None /\ journal = None
  /\ report = NoReport /\ quiet = TRUE

-----------------------------------------------------------------------------
(* The trees *)

\* A directory that cannot be listed hides what is under it, and is reported.
Hidden(s, p)  == Above[p] \cap locked[s] # {}
Visible(s)    == Restrict(tree[s], {p \in DOMAIN tree[s] : ~Hidden(s, p)})
Unlistable(s) == {d \in locked[s] \cap DOMAIN tree[s] : ~Hidden(s, d)}

Changed ==
  /\ changes < MaxChanges
  /\ changes' = changes + 1
  /\ quiet' = (pc = "off")
  /\ UNCHANGED <<run, opts, mode, pc, indexVars, plan, snap, journal, report>>

\* An entry takes the place of what was at p. What was under p is gone.
Put(s, p, e) ==
  /\ \A d \in Above[p] : d \in DOMAIN tree[s] /\ tree[s][d] = Dir
  /\ tree' = [tree EXCEPT ![s] =
       [q \in (DOMAIN tree[s] \ {r \in Paths : p \in Above[r]}) \cup {p} |->
          IF q = p THEN e ELSE tree[s][q]]]
  /\ tree' # tree
  /\ locked' = [locked EXCEPT ![s] = @ \ {p}]

\* Written, replaced by a directory or a link, or copied from the source with
\* its modification time.
PutEntry ==
  /\ Changed
  /\ \E s \in Sides, p \in Paths :
       \/ \E d \in Datas : Put(s, p, File(d, changes + 1))
       \/ Put(s, p, Dir)
       \/ \E t \in Targets : Put(s, p, Link(t))
       \/ s = "B" /\ p \in DOMAIN tree["A"] /\ Put(s, p, tree["A"][p])

Remove ==
  /\ Changed
  /\ \E s \in Sides, p \in Paths :
       /\ p \in DOMAIN tree[s]
       /\ tree' = [tree EXCEPT ![s] =
            Restrict(@, {q \in DOMAIN @ : q # p /\ p \notin Above[q]})]
       /\ locked' = [locked EXCEPT ![s] = {d \in @ : d # p /\ p \notin Above[d]}]

\* The rights to a directory are taken away, or given back.
SetRights ==
  /\ Changed
  /\ \E s \in Sides, d \in Paths :
       /\ d \in DOMAIN tree[s] /\ tree[s][d] = Dir
       /\ locked' = [locked EXCEPT ![s] = IF d \in @ THEN @ \ {d} ELSE @ \cup {d}]
  /\ UNCHANGED tree

-----------------------------------------------------------------------------
(* The source *)

StartRun ==
  /\ pc \in {"off", "done"}
  /\ run < MaxRuns
  /\ run' = run + 1
  /\ opts' \in [kind : Kinds, mode : Modes, resume : BOOLEAN]
  /\ opts'.resume => journal # None /\ opts'.kind # "captureOnly"
  /\ opts'.kind = "offline" => snap # None
  /\ mode' = opts'.mode
  /\ pc' = IF opts'.kind = "live" /\ ~opts'.resume THEN "compare" ELSE "source"
  /\ report' = NoReport /\ quiet' = TRUE
  /\ list' = Empty /\ errs' = NoErrors /\ digests' = <<>> /\ plan' = NoPlan
  /\ UNCHANGED <<treeVars, snap, journal>>

\* What a run had in memory is gone when it is over; a run that ends without a
\* result reports none.
Over ==
  /\ pc' = "off"
  /\ list' = Empty /\ errs' = NoErrors /\ digests' = <<>> /\ plan' = NoPlan
  /\ opts' = NoOptions /\ mode' = NoOptions.mode /\ quiet' = TRUE

AfterSource == IF opts.resume THEN "dest" ELSE "compare"

\* BuildSideIndex, or the enumeration of a capture: what that could not list is
\* not held against the session.
ListSource ==
  /\ pc = "source"
  /\ opts.kind # "offline"
  /\ list' = [list EXCEPT !["A"] = Visible("A")]
  /\ errs' = [errs EXCEPT !["A"] = IF opts.kind = "live" THEN Unlistable("A") ELSE {}]
  /\ pc' = IF opts.kind = "live" THEN AfterSource ELSE "hash"
  /\ UNCHANGED <<treeVars, run, opts, mode, digests, plan, snap, journal, report, quiet>>

FilesIn(l) == {p \in DOMAIN l : l[p].type = "file"}

\* HashSourceIndex: a digest of each listed file as it is now; a file that
\* cannot be read is left without one.
HashSourceIndex ==
  /\ pc = "hash"
  /\ \E read \in SUBSET {p \in FilesIn(list["A"]) :
                           p \in DOMAIN tree["A"] /\ tree["A"][p].type = "file"} :
       digests' = IF mode = "Content" THEN [p \in read |-> tree["A"][p].data] ELSE <<>>
  /\ pc' = "write"
  /\ UNCHANGED <<treeVars, run, opts, mode, list, errs, plan, snap, journal, report, quiet>>

\* The snapshot is truncated first; one cut short is not accepted by a reader.
CutShort == [whole |-> FALSE, list |-> <<>>, digests |-> <<>>]

BeginSnapshot ==
  /\ pc = "write"
  /\ snap' = CutShort
  /\ pc' = "writing"
  /\ UNCHANGED <<treeVars, run, opts, mode, indexVars, plan, journal, report, quiet>>

\* A write that fails leaves it so, and the run goes on.
EndSnapshot ==
  /\ pc = "writing"
  /\ \/ snap' = [whole |-> TRUE, list |-> list["A"], digests |-> digests]
     \/ UNCHANGED snap
  /\ IF opts.kind = "captureOnly" THEN Over
     ELSE /\ pc' = AfterSource
          /\ UNCHANGED <<opts, mode, indexVars, plan, quiet>>
  /\ UNCHANGED <<treeVars, run, journal, report>>

\* Wrong: a snapshot without digests is compared in Content mode as it is.
ReadSnapshotAsAsked ==
  /\ pc = "source"
  /\ opts.kind = "offline"
  /\ snap.whole
  /\ list' = [list EXCEPT !["A"] = snap.list]
  /\ digests' = snap.digests
  /\ pc' = AfterSource
  /\ UNCHANGED <<treeVars, run, opts, mode, errs, plan, snap, journal, report, quiet>>

\* A snapshot without any digest turns a Content run into a Size run.
ReadSnapshot ==
  /\ pc = "source"
  /\ opts.kind = "offline"
  /\ snap.whole
  /\ list' = [list EXCEPT !["A"] = snap.list]
  /\ digests' = snap.digests
  /\ mode' = IF opts.mode = "Content" /\ snap.digests = <<>> /\ snap.list # <<>>
             THEN "Size" ELSE opts.mode
  /\ pc' = AfterSource
  /\ UNCHANGED <<treeVars, run, opts, errs, plan, snap, journal, report, quiet>>

-----------------------------------------------------------------------------
(* Resuming *)

\* CheckResumeCompatible holds the saved settings against those asked for.
Compatible == journal.mode = opts.mode

ListDest ==
  /\ pc = "dest"
  /\ Compatible
  /\ list' = [list EXCEPT !["B"] = Visible("B")]
  /\ errs' = [errs EXCEPT !["B"] = Unlistable("B")]
  /\ pc' = "plan"
  /\ UNCHANGED <<treeVars, run, opts, mode, digests, plan, snap, journal, report, quiet>>

\* If nothing is left to verify the journal is the result.
MakePlan ==
  /\ pc = "plan"
  /\ ~Refused(journal.rows, list, errs)
  /\ plan' = PlanResume(journal.rows, list, errs)
  /\ pc' = "compare"
  /\ UNCHANGED <<treeVars, run, opts, mode, indexVars, snap, journal, report, quiet>>

\* An unreadable snapshot, settings that differ, an absence that cannot be
\* proved, or a root that cannot be read: the run ends without a result.
Fail ==
  /\ pc \in {"source", "dest", "plan"}
  /\ Over
  /\ UNCHANGED <<treeVars, run, snap, journal, report>>

-----------------------------------------------------------------------------
(* The comparison *)

FreshLive == opts.kind = "live" /\ ~opts.resume
NothingLeft == opts.resume /\ \A s \in Sides : plan.remainder[s] = {}

\* The source: walked now, taken from the index, or from the remainder of it.
SourceEntries ==
  CASE FreshLive   -> Visible("A")
    [] opts.resume -> Restrict(list["A"], plan.remainder["A"])
    [] OTHER       -> list["A"]

\* The destination is always walked now, a resumed run emitting only what is in
\* the remainder (FilteredEnumerator).
DestEntries ==
  IF opts.resume THEN Restrict(Visible("B"), plan.remainder["B"] \cap DOMAIN Visible("B"))
                 ELSE Visible("B")

\* HashOneCandidateInto on two files of one size. Only the source of a live run
\* and the one of a capture that resumes are read again.
FromIndex == opts.kind = "offline" \/ (opts.kind = "capture" /\ ~opts.resume)

ContentVerdict(p) ==
  LET now == tree["A"][p] IN
  IF FromIndex
  THEN IF p \notin DOMAIN digests THEN "ReadError"
       ELSE IF digests[p] = tree["B"][p].data THEN "Identical" ELSE "ContentMismatch"
  ELSE IF p \notin DOMAIN tree["A"] \/ Hidden("A", p) THEN "AccessDenied"
       ELSE IF now.type # "file" THEN "AccessDenied"
       ELSE IF StatOf(now) # StatOf(SourceEntries[p]) THEN "ChangedDuringScan"
       ELSE IF now.data = tree["B"][p].data THEN "Identical" ELSE "ContentMismatch"

NewRows ==
  Compared(SourceEntries, DestEntries, mode,
           [p \in DOMAIN SourceEntries \cap DOMAIN DestEntries |-> ContentVerdict(p)])

Merge(f, g) == [p \in DOMAIN f \cup DOMAIN g |-> IF p \in DOMAIN g THEN g[p] ELSE f[p]]

\* The errors the report shows are those of the walks of the comparison.
WalkErrors ==
  IF NothingLeft THEN NoErrors
  ELSE [s \in Sides |-> IF s = "B" \/ FreshLive THEN Unlistable(s) ELSE {}]

\* The rows of the run are the reused ones and the new ones, and so is the
\* session it saves, which says what mode it was computed under.
Compare ==
  /\ pc = "compare"
  /\ LET rows == Merge(plan.reused, NewRows) IN
       /\ report' = [rows |-> rows, errors |-> WalkErrors, completed |-> TRUE]
       /\ journal' = [mode |-> mode, rows |-> rows]
  /\ pc' = "done"
  /\ UNCHANGED <<treeVars, run, opts, mode, indexVars, plan, snap, quiet>>

\* Cancelled, or killed between two checkpoints: some of the rows are saved.
Interrupt ==
  /\ pc = "compare"
  /\ \E some \in SUBSET DOMAIN NewRows :
       journal' = [mode |-> mode, rows |-> Merge(plan.reused, Restrict(NewRows, some))]
  /\ Over
  /\ UNCHANGED <<treeVars, run, snap, report>>

\* Cancelled or killed before that: nothing is saved.
Stop ==
  /\ pc \notin {"off", "done"}
  /\ Over
  /\ UNCHANGED <<treeVars, run, snap, journal, report>>

Next ==
  \/ PutEntry \/ Remove \/ SetRights
  \/ StartRun
  \/ ListSource \/ HashSourceIndex \/ BeginSnapshot \/ EndSnapshot \/ ReadSnapshot
  \/ ListDest \/ MakePlan \/ Fail
  \/ Compare \/ Interrupt \/ Stop

Spec == Init /\ [][Next]_vars

-----------------------------------------------------------------------------
(* Properties *)

\* What a comparison of two listings that are not changed under it would say.
SameContent(la, lb) ==
  [p \in DOMAIN la \cap DOMAIN lb |-> IF la[p].data = lb[p].data THEN "Identical" ELSE "ContentMismatch"]
FullVerdicts(la, lb) == VerdictsOf(Compared(la, lb, mode, SameContent(la, lb)))

Settled == pc = "done" /\ quiet

\* A resumed run over trees that do not change under it reports what a fresh
\* run would: whatever an earlier run had seen, wherever it was interrupted,
\* and whatever was written, removed, replaced or locked since, the reused rows
\* and the new ones together are the verdicts on the trees as they are. Not for
\* links to directories: a row is reused if both sides still are directories of
\* any sort, wherever a link among them points.
IsLink(p, l) == p \in DOMAIN l /\ l[p].type = "link"

ResumeEqualsFresh ==
  LET fresh == FullVerdicts(Visible("A"), Visible("B")) IN
  Settled /\ opts.resume /\ opts.kind = "live" =>
    /\ DOMAIN report.rows = DOMAIN fresh
    /\ \A p \in DOMAIN report.rows :
         (\A s \in Sides : ~IsLink(p, tree[s])) => report.rows[p].verdict = fresh[p]

\* A resumed run of two live sides that completes forgets no path of the session
\* that is still there: a path without a row is on neither side, hidden or not. Only
\* below a directory that cannot be listed, on the side that spells it otherwise
\* than the row, can a path be dropped in silence (PlanResume).
NothingForgotten ==
  [][pc = "compare" /\ pc' = "done" /\ opts.resume /\ opts.kind = "live" /\ quiet =>
       \A p \in DOMAIN journal.rows : \A s \in Sides :
         p \notin DOMAIN report'.rows /\ p \in DOMAIN tree[s] =>
           /\ s # SpelledAs(journal.rows[p].verdict)
           /\ Above[p] \cap locked[s] \cap Respelt # {}]_vars

\* An offline run says of the destination what a comparison with the source as
\* it was captured would say, under the mode the snapshot allows. It has a read
\* error for a file the capture could not read, and never because the snapshot
\* has no digests at all.
OfflineIsFaithful ==
  LET expected    == FullVerdicts(snap.list, Visible("B"))
      undisturbed == \A p \in DOMAIN snap.digests : snap.digests[p] = snap.list[p].data
  IN
  Settled /\ opts.kind = "offline" /\ undisturbed /\ (opts.resume => mode = opts.mode) =>
    /\ DOMAIN report.rows = DOMAIN expected
    /\ \A p \in DOMAIN report.rows :
         IF report.rows[p].verdict = "ReadError"
         THEN snap.digests # <<>> /\ p \notin DOMAIN snap.digests
         ELSE \/ report.rows[p].verdict = expected[p]
              \/ opts.resume /\ (IsLink(p, snap.list) \/ IsLink(p, tree["B"]))
=============================================================================
