-------------------------------- MODULE AppUI --------------------------------
(***************************************************************************)
(* The window (src/UI/AppUI.cpp) over ScanOrchestrator: a loop that        *)
(* handles the queued events, takes a snapshot of the orchestrator and, if *)
(* something changed, draws. While it draws it copies the results of a new *)
(* run, folds in a finished verification or synchronisation and may put    *)
(* the machine to sleep.                                                   *)
(*                                                                         *)
(* upc is where the loop is; a handler that starts work goes through       *)
(* "calling" (the first critical section of the orchestrator's method) and *)
(* "joining" (the old thread is joined, then the second one). A modal      *)
(* dialog only delays the handler: its answer is part of the event.        *)
(* Geometry, scrolling, drawing, the caret and the filter of the list are  *)
(* left out: they read the rows and change none.                           *)
(*                                                                         *)
(* Definitions marked "Wrong" are no part of the model: each is a plausible *)
(* mistake in the definition that follows it, which a property must catch. *)
(***************************************************************************)
EXTENDS ScanOrchestrator

CONSTANT MaxEvents   \* bound: events that change something

VARIABLES
  upc, call,
  frame,        \* the UiSnapshot being drawn
  uiResults,    \* uiResults_, with the roots its rows were found under
  uiRoots,      \* resultsSourceRoot_ and resultsDestRoot_
  uiOffline,    \* resultsOffline_
  seen,         \* resultsReadySeen_
  standby, standbyDone,
  ctx,          \* the row whose menu is open
  quit,
  events,       \* events handled
  suspends      \* history: calls of SuspendOnce

uiVars   == <<upc, call, frame, uiResults, uiRoots, uiOffline, seen, standby,
              standbyDone, ctx, quit, events, suspends>>
viewVars == <<uiResults, uiRoots, uiOffline, seen, standbyDone, suspends>>
vars     == <<inputVars, workVars, uiVars>>

NoRoots == [f \in Fields |-> NoRoot]

Init ==
  /\ OrchestratorInit
  /\ upc = "events" /\ call = None /\ frame = None
  /\ uiResults = NoRun /\ uiRoots = NoRoots /\ uiOffline = FALSE
  /\ seen = FALSE /\ standby = FALSE /\ standbyDone = FALSE
  /\ ctx = None /\ quit = FALSE /\ events = 0 /\ suspends = 0

-----------------------------------------------------------------------------
(* processEvents *)

\* An event is handled; every handler asks for a repaint.
Event ==
  /\ upc = "events"
  /\ events < MaxEvents
  /\ events' = events + 1
  /\ dirty' = TRUE

Stays == UNCHANGED <<upc, call, frame, viewVars>>

Calls(op, what) ==
  /\ upc' = "calling"
  /\ call' = [kind |-> op, what |-> what]
  /\ UNCHANGED <<frame, viewVars>>

\* Typing, pasting, browsing: at any time, while a scan runs as well; the source
\* field cannot be typed in when a snapshot stands for it.
EditField ==
  /\ Event
  /\ \E f \in Fields :
       \/ /\ f = "source" => ~useSnapshot
          /\ \E r \in Roots[f] \cup {NoRoot} : Type(f, r)
       \/ \E r \in Roots[f] : Browse(f, r)
  /\ Stays
  /\ UNCHANGED <<thread, job, cancel, ready, out, clean, standby, ctx, quit>>

\* onLoadSnapshot, onLoadResumeSession: not while a scan runs; the
\* second click takes the first one back.
ArmMode ==
  /\ Event
  /\ ctx = None
  /\ ~Running("scan")
  /\ \/ useSnapshot /\ ClearSnapshot
     \/ ~useSnapshot /\ LoadSnapshot
     \/ useResume /\ ClearResume
     \/ ~useResume /\ \E sess \in Sessions : LoadResumeSession(sess)
  /\ Stays
  /\ UNCHANGED <<thread, job, cancel, ready, out, clean, standby, ctx, quit>>

ToggleStandby ==
  /\ Event
  /\ ctx = None
  /\ standby' = ~standby
  /\ Stays
  /\ UNCHANGED <<inputVars, thread, job, cancel, ready, out, clean, ctx, quit>>

\* The button AVVIA / INTERROMPI: it stops a scan or a synchronisation, and
\* starts a scan when none runs, both by what the handler saw at first.
ClickStart ==
  /\ Event
  /\ ctx = None
  /\ IF Running("scan") \/ Running("sync") THEN StopAll ELSE UNCHANGED cancel
  /\ IF Running("scan") THEN Stays ELSE Calls("live", None)
  /\ UNCHANGED <<inputVars, thread, job, ready, out, clean, standby, ctx, quit>>

\* The Return key starts a scan, the button CREA SNAPSHOT a capture.
PressStart ==
  /\ Event
  /\ \/ Calls("live", None)
     \/ ctx = None /\ ~Running("scan") /\ Calls("capture", None)
  /\ UNCHANGED <<inputVars, thread, job, cancel, ready, out, clean, standby, ctx, quit>>

Syncable(row) ==
  row.status \in {"Missing", "Extra", "SizeMismatch", "ContentMismatch",
                  "ContentMismatchPartial"}

\* onSyncAll: the plan of the rows on display, confirmed.
ClickSync ==
  /\ Event
  /\ ctx = None
  /\ ~Busy
  /\ ~uiOffline
  /\ ready["scan"] /\ out["scan"].ok
  /\ \A f \in Fields : uiRoots[f] # NoRoot
  /\ LET todo == {uiResults.rows[i].path :
                    i \in {j \in DOMAIN uiResults.rows : Syncable(uiResults.rows[j])}}
     IN  /\ todo # {}
         /\ Calls("sync", [kind |-> "all", paths |-> todo, roots |-> uiRoots])
  /\ UNCHANGED <<inputVars, thread, job, cancel, ready, out, clean, standby, ctx, quit>>

\* OnRightClick on a row: the menu offers what the row and the engine allow now.
OpenMenu ==
  /\ Event
  /\ \E i \in DOMAIN uiResults.rows :
       LET row  == uiResults.rows[i]
           idle == ~Busy /\ ~uiOffline /\ \A f \in Fields : uiRoots[f] # NoRoot
       IN  ctx' = [kind |-> "menu", path |-> row.path,
                   rescan |-> idle /\ ~row.isDirectory,
                   sync |-> idle /\ Syncable(row)]
  /\ Stays
  /\ UNCHANGED <<inputVars, thread, job, cancel, ready, out, clean, standby, quit>>

\* PollSingleVerify on a result set.
FoldVerify(set) ==
  IF ready["verify"] /\ out["verify"].kind = "row"
  THEN ApplySingleResult(set, out["verify"].row)
  ELSE set

\* PollSyncReport: the actions that were done retire their rows.
FoldSync(set) ==
  IF ready["sync"]
  THEN FoldSet(LAMBDA p, acc : ApplySingleResult(acc, Row(p, "Identical", FALSE)),
               set, out["sync"].done)
  ELSE set

\* PollSyncReport: a synchronisation that did something, and all of it, suspends.
SyncSuspends ==
  /\ standby /\ ready["sync"]
  /\ out["sync"].done # {} /\ out["sync"].failed = {} /\ ~out["sync"].cancelled

\* "Riscansiona": the last outcome is folded in, then the verification asked for.
MenuRescan ==
  /\ Event
  /\ ctx # None /\ ctx.rescan
  /\ ctx' = None
  /\ uiResults' = FoldVerify(uiResults)
  /\ ready' = [ready EXCEPT !["verify"] = FALSE]
  /\ out' = [out EXCEPT !["verify"] = None]
  /\ IF Busy THEN UNCHANGED <<upc, call>>
     ELSE /\ upc' = "calling"
          /\ call' = [kind |-> "verify",
                      what |-> [kind |-> "one", path |-> ctx.path, roots |-> uiRoots]]
  /\ UNCHANGED <<frame, uiRoots, uiOffline, seen, standbyDone, suspends,
                 inputVars, thread, job, cancel, clean, standby, quit>>

\* RequestSyncAction: the last report is folded in, then the plan built from the
\* row that is there now.
MenuSync ==
  /\ Event
  /\ ctx # None /\ ctx.sync
  /\ ctx' = None
  /\ uiResults' = FoldSync(uiResults)
  /\ suspends' = IF SyncSuspends THEN suspends + 1 ELSE suspends
  /\ ready' = [ready EXCEPT !["sync"] = FALSE]
  /\ out' = [out EXCEPT !["sync"] = None]
  /\ LET at == {i \in DOMAIN uiResults'.rows : uiResults'.rows[i].path = ctx.path}
     IN  IF at # {} /\ Syncable(uiResults'.rows[Min(at)])
         THEN /\ upc' = "calling"
              /\ call' = [kind |-> "sync",
                          what |-> [kind |-> "row", paths |-> {ctx.path},
                                    roots |-> uiRoots]]
         ELSE UNCHANGED <<upc, call>>
  /\ UNCHANGED <<frame, uiRoots, uiOffline, seen, standbyDone,
                 inputVars, thread, job, cancel, clean, standby, quit>>

\* Escape, a click beside the menu, a resized window.
CloseMenu ==
  /\ Event
  /\ ctx # None
  /\ ctx' = None
  /\ Stays
  /\ UNCHANGED <<inputVars, thread, job, cancel, ready, out, clean, standby, quit>>

\* The window is closed; what is queued behind is still handled.
Quit ==
  /\ upc = "events"
  /\ ~quit
  /\ quit' = TRUE
  /\ StopAll
  /\ Stays
  /\ UNCHANGED <<inputVars, thread, job, ready, out, dirty, clean, standby, ctx, events>>

Handle ==
  \/ EditField \/ ArmMode \/ ToggleStandby \/ ClickStart \/ PressStart
  \/ ClickSync \/ OpenMenu \/ MenuRescan \/ MenuSync \/ CloseMenu \/ Quit

-----------------------------------------------------------------------------
(* Starting work *)

WorkOf(op) == IF op \in {"live", "capture"} THEN "scan" ELSE op

CallWork ==
  /\ upc = "calling"
  /\ IF MayStart(call.kind) THEN upc' = "joining" /\ UNCHANGED call
     ELSE upc' = "events" /\ call' = None
  /\ UNCHANGED <<frame, viewVars, standby, ctx, quit, events, inputVars, workVars>>

\* The old thread is joined without the lock; nobody else can have started work.
StartWork ==
  /\ upc = "joining"
  /\ Joined(WorkOf(call.kind))
  /\ IF WorkOf(call.kind) = "scan" THEN StartScan(call.kind)
     ELSE StartRequest(call.kind, call.what)
  /\ upc' = "events" /\ call' = None
  /\ UNCHANGED <<frame, viewVars, standby, ctx, quit, events>>

-----------------------------------------------------------------------------
(* A frame *)

NextRound == IF quit THEN "shutdown" ELSE "events"

Snapshot ==
  [kind |-> "frame", running |-> Running("scan"), ready |-> ready["scan"],
   ok |-> out["scan"].ok, cancelled |-> cancel["scan"],
   offline |-> out["scan"].offline, roots |-> field]

\* The queue is empty: a snapshot, and a frame if anything changed.
EndEvents ==
  /\ upc = "events"
  /\ IF Running("scan") \/ dirty
     THEN upc' = "render" /\ frame' = Snapshot /\ dirty' = TRUE
     ELSE upc' = NextRound /\ UNCHANGED <<frame, dirty>>
  /\ UNCHANGED <<call, viewVars, standby, ctx, quit, events, inputVars,
                 thread, job, cancel, ready, out, clean>>

NewResults == frame.ready /\ ~seen

\* Wrong: a run that was suspended for may be suspended for again.
StandbyAgain == frame.ready /\ standby /\ frame.ok /\ ~frame.cancelled

\* render: once per run that ended well.
StandbyDue ==
  frame.ready /\ standby /\ ~standbyDone /\ frame.ok /\ ~frame.cancelled

\* syncResultsCache, PollSingleVerify, PollSyncReport, standby.
Render ==
  /\ upc = "render"
  /\ LET fresh == IF NewResults THEN out["scan"] ELSE uiResults
     IN  uiResults' = FoldSync(FoldVerify(fresh))
  /\ IF NewResults
     THEN uiRoots' = frame.roots /\ uiOffline' = frame.offline /\ ctx' = None
     ELSE UNCHANGED <<uiRoots, uiOffline, ctx>>
  /\ seen' = frame.ready
  /\ ready' = [ready EXCEPT !["verify"] = FALSE, !["sync"] = FALSE]
  /\ out' = [out EXCEPT !["verify"] = None, !["sync"] = None]
  /\ standbyDone' = (frame.ready /\ (standbyDone \/ StandbyDue))
  /\ suspends' = suspends + (IF StandbyDue THEN 1 ELSE 0)
                          + (IF SyncSuspends THEN 1 ELSE 0)
  /\ upc' = "clear"
  /\ frame' = None
  /\ UNCHANGED <<call, standby, quit, events, inputVars, thread, job, cancel, dirty, clean>>

\* The end of render: the flag that asked for it is lowered.
ClearDirty ==
  /\ upc = "clear"
  /\ dirty' = FALSE
  /\ upc' = NextRound
  /\ UNCHANGED <<call, frame, viewVars, standby, ctx, quit, events, inputVars,
                 thread, job, cancel, ready, out, clean>>

-----------------------------------------------------------------------------
(* The end *)

\* Wrong: the flags raised when the window was closed are relied on.
ShutdownNoCancel ==
  /\ upc = "shutdown"
  /\ upc' = "reap"
  /\ UNCHANGED <<cancel, call, frame, viewVars, standby, ctx, quit, events, inputVars,
                 thread, job, ready, out, dirty, clean>>

\* ScanOrchestrator::shutdown: every flag, then every join.
Shutdown ==
  /\ upc = "shutdown"
  /\ StopAll
  /\ upc' = "reap"
  /\ UNCHANGED <<call, frame, viewVars, standby, ctx, quit, events, inputVars,
                 thread, job, ready, out, dirty, clean>>

Reap ==
  /\ upc = "reap"
  /\ \A w \in Work : Joined(w)
  /\ upc' = "gone"
  /\ UNCHANGED <<call, frame, viewVars, standby, ctx, quit, events, inputVars, workVars>>

-----------------------------------------------------------------------------
Loop == CallWork \/ StartWork \/ EndEvents \/ Render \/ ClearDirty \/ Shutdown \/ Reap

Worker ==
  /\ WorkEnds \/ \E w \in Work : Progress(w) \/ Notify(w)
  /\ UNCHANGED uiVars

Next == Handle \/ Loop \/ Worker

\* The window's thread goes on; a worker that was told to stop, stops, and one
\* that has published notifies. Work that nobody stops may go on for ever, and the
\* user need do nothing.
StoppedWorkEnds ==
  /\ WorkEnds
  /\ \E w \in Work : cancel[w] /\ Running(w) /\ ~Running(w)'
  /\ UNCHANGED uiVars

Fairness ==
  /\ WF_vars(Loop)
  /\ WF_vars(StoppedWorkEnds)
  /\ WF_vars(UNCHANGED uiVars /\ \E w \in Work : Notify(w))

Spec == Init /\ [][Next]_vars /\ Fairness

-----------------------------------------------------------------------------
(* Properties *)

\* A scan, a verification and a synchronisation never run together: each start
\* refuses the others twice, before and after it joins the old thread
\* (ScanOrchestrator.cpp:282, 357, 430).
OneOperationAtATime ==
  \A v, w \in Work : Running(v) /\ Running(w) => v = w

\* A root the user put in stands until he replaces it or arms a snapshot, which
\* takes the place of the source: no session that is armed or disarmed, with
\* whatever roots, loses or replaces it. Every other field is empty or shows what a
\* session filled in (loadResumeSession, clearResume, loadSnapshot).
TypedRootsWin ==
  \A f \in Fields :
    IF typed[f] # NoRoot /\ ~(f = "source" /\ displaced)
    THEN field[f] = typed[f]
    ELSE field[f] = NoRoot \/ prefilled[f]

\* Whatever is rescanned, retired or replaced, in any order with new runs, the
\* counters on display stay those of the rows on display (ApplySingleResult).
CountersMatchRows ==
  \A b \in {c \in Buckets : c[1] \notin Converged} :
    uiResults.stats[b] - CountOf(uiResults.rows, b)
      = (IF uiResults.compared THEN Surplus[b] ELSE 0)

\* The machine is put to sleep at most once for a scan or a synchronisation that
\* ended well, and never for another (render, PollSyncReport).
SuspendsOncePerRun == suspends <= clean

\* Once the window is closed the program ends, whatever was queued behind the
\* event: no thread is left running or waited for in vain (AppUI::run, shutdown).
Quits == quit ~> (upc = "gone")
=============================================================================
