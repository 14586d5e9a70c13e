----------------------------- MODULE AppUIProofs -----------------------------
(* Safety of the window over the orchestrator for every bound on the events,  *)
(* every set of roots and sessions and every outcome of the work.             *)
EXTENDS AppUI, FiniteSetTheorems, TLAPS

(***************************************************************************)
(* Exclusion. Between the two critical sections of a start nothing else    *)
(* can be started: the caller is the only thread that starts anything.     *)
(***************************************************************************)

ThreadsOK == thread \in [Work -> {"none", "running", "published", "exited"}]

CallsOK ==
  /\ upc \in {"calling", "joining"} => WorkOf(call.kind) \in Work
  /\ upc = "joining" => ~Busy

ExclusionInv == ThreadsOK /\ CallsOK /\ OneOperationAtATime

\* A worker's step starts nothing.
LEMMA WorkerStartsNothing ==
  ASSUME ThreadsOK, Worker
  PROVE  /\ ThreadsOK'
         /\ \A w \in Work : Running(w)' => Running(w)
         /\ upc' = upc /\ call' = call
<1>1. upc' = upc /\ call' = call
  BY DEF Worker, uiVars
<1>2. CASE WorkEnds
  <2>1. \E w \in Work : thread' = [thread EXCEPT ![w] = "published"]
    BY <1>2 DEF WorkEnds, ScanEnds, VerifyEnds, SyncEnds, Publish, Work
  <2> QED BY <1>1, <2>1 DEF ThreadsOK, Running
<1>3. CASE \E w \in Work : Progress(w)
  BY <1>1, <1>3 DEF Progress, ThreadsOK, Running
<1>4. CASE \E w \in Work : Notify(w)
  BY <1>1, <1>4 DEF Notify, ThreadsOK, Running
<1> QED BY <1>2, <1>3, <1>4 DEF Worker

\* A handler of an event starts nothing, and leaves a call or none.
LEMMA HandlersStartNothing ==
  ASSUME Handle
  PROVE  /\ thread' = thread
         /\ upc = "events"
         /\ \/ upc' = upc /\ call' = call
            \/ upc' = "calling" /\ WorkOf(call'.kind) \in Work
<1>1. CASE EditField \/ ArmMode \/ ToggleStandby
  BY <1>1 DEF EditField, ArmMode, ToggleStandby, Event, Stays
<1>2. CASE ClickStart \/ PressStart \/ ClickSync
  BY <1>2 DEF ClickStart, PressStart, ClickSync, Event, Stays, Calls, WorkOf, Work
<1>3. CASE OpenMenu \/ CloseMenu \/ Quit
  BY <1>3 DEF OpenMenu, CloseMenu, Quit, Event, Stays
<1>4. CASE MenuRescan
  BY <1>4 DEF MenuRescan, Event, WorkOf, Work
<1>5. CASE MenuSync
  BY <1>5 DEF MenuSync, Event, WorkOf, Work
<1> QED BY <1>1, <1>2, <1>3, <1>4, <1>5 DEF Handle

\* Nothing runs when the window opens.
LEMMA ExclusionInit == Init => ExclusionInv
BY DEF Init, OrchestratorInit, ExclusionInv, ThreadsOK, CallsOK, OneOperationAtATime,
       Running

\* Every step keeps the operations apart.
LEMMA ExclusionStep == ExclusionInv /\ [Next]_vars => ExclusionInv'
<1> SUFFICES ASSUME ExclusionInv, [Next]_vars PROVE ExclusionInv'
  OBVIOUS
<1> USE DEF ExclusionInv
<1>1. CASE Handle
  BY <1>1, HandlersStartNothing
  DEF ThreadsOK, CallsOK, OneOperationAtATime, Running, Busy
<1>2. CASE CallWork
  BY <1>2 DEF CallWork, workVars, MayStart, ThreadsOK, CallsOK, OneOperationAtATime,
              Running, Busy
<1>3. CASE StartWork
  <2>1. PICK w \in Work : thread' = [thread EXCEPT ![w] = "running"]
    BY <1>3 DEF StartWork, StartScan, StartRequest, CallsOK, WorkOf, Work
  <2>2. \A v \in Work : ~Running(v)
    BY <1>3 DEF StartWork, CallsOK, Busy
  <2>3. OneOperationAtATime'
    BY <2>1, <2>2 DEF OneOperationAtATime, ThreadsOK, Running
  <2> QED BY <1>3, <2>1, <2>3 DEF StartWork, ThreadsOK, CallsOK
<1>4. CASE EndEvents \/ Render \/ ClearDirty \/ Shutdown \/ Reap
  BY <1>4 DEF EndEvents, Render, ClearDirty, Shutdown, Reap, NextRound, workVars,
              ThreadsOK, CallsOK, OneOperationAtATime, Running
<1>5. CASE Worker
  BY <1>5, WorkerStartsNothing DEF CallsOK, OneOperationAtATime, Busy
<1>6. CASE UNCHANGED vars
  BY <1>6 DEF vars, workVars, uiVars, ThreadsOK, CallsOK, OneOperationAtATime, Running, Busy
<1> QED BY <1>1, <1>2, <1>3, <1>4, <1>5, <1>6 DEF Next, Loop

\* A scan, a verification and a synchronisation never run together, in sessions of
\* any length: the two checks around the join of a start suffice.
THEOREM OneOperationAtATimeThm == Spec => []OneOperationAtATime
<1>1. ExclusionInv => OneOperationAtATime
  BY DEF ExclusionInv
<1> QED BY <1>1, ExclusionInit, ExclusionStep, PTL DEF Spec

(***************************************************************************)
(* The fields. A value is the user's or a session's, never both: a field   *)
(* the user owns is not marked as prefilled, so no session touches it.     *)
(***************************************************************************)

\* The user put a root in and has not armed a snapshot in its place.
Owned(f) == typed[f] # NoRoot /\ ~(f = "source" /\ displaced)

FieldsInv ==
  /\ {field, typed} \subseteq [Fields -> Roots["source"] \cup Roots["dest"] \cup {NoRoot}]
  /\ prefilled \in [Fields -> BOOLEAN] /\ displaced \in BOOLEAN
  /\ \A f \in Fields : IF Owned(f) THEN field[f] = typed[f] /\ ~prefilled[f]
                      ELSE field[f] = NoRoot \/ prefilled[f]

\* Roots are values a field can have.
LEMMA RootsInValues ==
  \A f \in Fields : Roots[f] \subseteq Roots["source"] \cup Roots["dest"] \cup {NoRoot}
BY DEF Fields

\* A field is edited.
LEMMA SetFieldKeeps ==
  ASSUME FieldsInv, NEW f \in Fields, NEW r \in Roots[f] \cup {NoRoot}, SetField(f, r)
  PROVE  FieldsInv'
<1>1. /\ field'[f] = r /\ prefilled'[f] = FALSE /\ typed'[f] = r
      /\ \A g \in Fields \ {f} : UNCHANGED <<field[g], prefilled[g], typed[g]>>
      /\ f = "source" => ~displaced'
      /\ f # "source" => displaced' = displaced
  BY DEF FieldsInv, SetField
<1>2. \A g \in Fields : IF Owned(g)' THEN field'[g] = typed'[g] /\ ~prefilled'[g]
                                     ELSE field'[g] = NoRoot \/ prefilled'[g]
  <2>1. \A g \in Fields \ {f} : Owned(g)' = Owned(g)
    BY <1>1 DEF Owned
  <2>2. Owned(f)' <=> r # NoRoot
    BY <1>1 DEF Owned
  <2> QED BY <1>1, <2>1, <2>2 DEF FieldsInv
<1> QED BY <1>2, RootsInValues DEF FieldsInv, SetField

\* A snapshot armed as the source.
LEMMA SourceEmptiedKeeps ==
  ASSUME FieldsInv, LoadSnapshot
  PROVE  FieldsInv'
BY DEF FieldsInv, Owned, LoadSnapshot, Fields

\* An armed session shows its roots in the fields that are empty.
LEMMA ResumeKeeps ==
  ASSUME FieldsInv, NEW sess \in Sessions, LoadResumeSession(sess)
  PROVE  FieldsInv'
<1>1. sess \in [Fields -> Roots["source"] \cup Roots["dest"] \cup {NoRoot}]
  BY OrchestratorAssumption
<1>2. /\ field' = [f \in Fields |-> IF Follows(f) THEN sess[f] ELSE field[f]]
      /\ prefilled' = [f \in Fields |-> prefilled[f] \/ (Follows(f) /\ sess[f] # NoRoot)]
      /\ typed' = typed /\ displaced' = displaced
  BY DEF LoadResumeSession
<1> QED BY <1>1, <1>2 DEF FieldsInv, Owned, Follows

\* The session is disarmed.
LEMMA ClearKeeps ==
  ASSUME FieldsInv, ClearResume
  PROVE  FieldsInv'
BY DEF FieldsInv, Owned, ClearResume

\* Only typing, browsing and arming touch the fields.
LEMMA ElsewhereFieldsStay ==
  ASSUME [Next]_vars, ~EditField, ~ArmMode
  PROVE  UNCHANGED <<field, prefilled, typed, displaced>>
<1>1. CASE ToggleStandby \/ ClickStart \/ PressStart \/ ClickSync
  BY <1>1 DEF ToggleStandby, ClickStart, PressStart, ClickSync, inputVars
<1>2. CASE OpenMenu \/ MenuRescan \/ MenuSync \/ CloseMenu \/ Quit
  BY <1>2 DEF OpenMenu, MenuRescan, MenuSync, CloseMenu, Quit, inputVars
<1>3. CASE Loop
  BY <1>3 DEF Loop, CallWork, StartWork, StartScan, StartRequest, EndEvents, Render,
              ClearDirty, Shutdown, Reap, inputVars
<1>4. CASE Worker
  BY <1>4 DEF Worker, WorkEnds, ScanEnds, VerifyEnds, SyncEnds, Publish, Progress,
              Notify, inputVars
<1>5. CASE UNCHANGED vars
  BY <1>5 DEF vars, inputVars
<1> QED BY <1>1, <1>2, <1>3, <1>4, <1>5 DEF Next, Handle

\* The fields are what they may be at the start.
LEMMA FieldsInit == Init => FieldsInv
BY DEF Init, OrchestratorInit, FieldsInv, Owned

\* Every step keeps the fields what they may be.
LEMMA FieldsStep == FieldsInv /\ [Next]_vars => FieldsInv'
<1> SUFFICES ASSUME FieldsInv, [Next]_vars PROVE FieldsInv'
  OBVIOUS
<1>1. CASE EditField
  BY <1>1, SetFieldKeeps DEF EditField, Type, Browse
<1>2. CASE ArmMode
  <2>1. CASE ClearSnapshot
    BY <2>1 DEF ClearSnapshot, FieldsInv, Owned
  <2> QED
    BY <1>2, <2>1, SourceEmptiedKeeps, ResumeKeeps, ClearKeeps DEF ArmMode
<1>3. CASE ~EditField /\ ~ArmMode
  BY <1>3, ElsewhereFieldsStay DEF FieldsInv, Owned
<1> QED BY <1>1, <1>2, <1>3

\* Whatever is armed, disarmed, typed and browsed, in any order and for ever, a
\* root the user put in stands until he replaces it or arms a snapshot in the place
\* of the source; a session shows its roots in the other fields only.
THEOREM TypedRootsWinThm == Spec => []TypedRootsWin
<1>1. FieldsInv => TypedRootsWin
  BY DEF FieldsInv, Owned, TypedRootsWin
<1> QED BY <1>1, FieldsInit, FieldsStep, PTL DEF Spec

(***************************************************************************)
(* Standby. Every run that ended well pays for one suspension; the payment *)
(* is open while its outcome waits to be drawn. A frame that was taken     *)
(* before a run ended forgets, when it is drawn, that the run before was   *)
(* suspended for: the payment of the new run is open in it as well.        *)
(***************************************************************************)

ScanSucceeded == ready["scan"] /\ out["scan"].ok /\ ~cancel["scan"]
FrameLate     == upc = "render" /\ ~frame.ready
ScanOpen      == ScanSucceeded /\ (~standbyDone \/ FrameLate)
SyncOpen      == /\ ready["sync"] /\ out["sync"].done # {} /\ out["sync"].failed = {}
                 /\ ~out["sync"].cancelled
Open          == (IF ScanOpen THEN 1 ELSE 0) + (IF SyncOpen THEN 1 ELSE 0)

StandbyTypes ==
  /\ suspends \in Nat /\ clean \in Nat
  /\ standby \in BOOLEAN /\ standbyDone \in BOOLEAN
  /\ ThreadsOK
  /\ ready \in [Work -> BOOLEAN] /\ cancel \in [Work -> BOOLEAN]
  /\ DOMAIN out = Work

\* Only work that has ended has an outcome.
OutcomesEnded == \A w \in Work : Running(w) => ~ready[w]

\* The worker of a run that is over is the only one that could change its outcome.
FrameTrue ==
  upc = "render" =>
    /\ frame.ready \in BOOLEAN
    /\ frame.ready => /\ ready["scan"]
                      /\ frame.ok = out["scan"].ok
                      /\ frame.cancelled = cancel["scan"]

StandbyInv ==
  StandbyTypes /\ OutcomesEnded /\ FrameTrue /\ suspends + Open <= clean

\* At the start no suspension is owed.
LEMMA StandbyInit == Init => StandbyInv
<1> SUFFICES ASSUME Init PROVE StandbyInv
  OBVIOUS
<1>1. StandbyTypes
  BY DEF Init, OrchestratorInit, StandbyTypes, ThreadsOK
<1>2. \A w \in Work : ~ready[w]
  BY DEF Init, OrchestratorInit
<1>3. Open = 0
  BY <1>2 DEF Open, ScanOpen, ScanSucceeded, SyncOpen, Work
<1> QED BY <1>1, <1>2, <1>3 DEF Init, OrchestratorInit, StandbyInv, OutcomesEnded,
                               FrameTrue, StandbyTypes

\* A handler that folds nothing in: at most flags are raised.
LEMMA PlainHandlerKeeps ==
  ASSUME StandbyInv, upc = "events",
         upc' \in {"events", "calling"}, standby' \in BOOLEAN, cancel' \in [Work -> BOOLEAN],
         cancel["scan"] => cancel'["scan"],
         UNCHANGED <<thread, ready, out, clean, standbyDone, suspends>>
  PROVE  StandbyInv'
BY DEF StandbyInv, StandbyTypes, OutcomesEnded, FrameTrue, Open, ScanOpen,
       ScanSucceeded, FrameLate, SyncOpen, ThreadsOK, Running

\* Events suspend nothing.
LEMMA HandlersKeep ==
  ASSUME StandbyInv, Handle
  PROVE  StandbyInv'
<1>1. CASE EditField \/ ArmMode \/ ToggleStandby \/ OpenMenu \/ CloseMenu
  BY <1>1, PlainHandlerKeeps
  DEF EditField, ArmMode, ToggleStandby, OpenMenu, CloseMenu, Event, Stays, viewVars,
      StandbyInv, StandbyTypes
<1>2. CASE ClickStart \/ PressStart \/ ClickSync \/ Quit
  <2>1. cancel' = cancel \/ StopAll
    BY <1>2 DEF ClickStart, PressStart, ClickSync, Quit
  <2>2. cancel' \in [Work -> BOOLEAN] /\ (cancel["scan"] => cancel'["scan"])
    BY <2>1 DEF StopAll, StandbyInv, StandbyTypes, Work
  <2>3. /\ upc = "events" /\ upc' \in {"events", "calling"} /\ standby' = standby
        /\ UNCHANGED <<thread, ready, out, clean, standbyDone, suspends>>
    BY <1>2 DEF ClickStart, PressStart, ClickSync, Quit, Event, Stays, Calls, viewVars
  <2> QED BY <2>2, <2>3, PlainHandlerKeeps DEF StandbyInv, StandbyTypes
<1>3. CASE MenuRescan
  BY <1>3 DEF MenuRescan, Event, StandbyInv, StandbyTypes, OutcomesEnded, FrameTrue,
              Open, ScanOpen, ScanSucceeded, FrameLate, SyncOpen, ThreadsOK, Running, Work
<1>4. CASE MenuSync
  <2>1. /\ upc = "events" /\ upc' \in {"events", "calling"}
        /\ ready' = [ready EXCEPT !["sync"] = FALSE]
        /\ out' = [out EXCEPT !["sync"] = None]
        /\ suspends' = IF SyncSuspends THEN suspends + 1 ELSE suspends
        /\ UNCHANGED <<thread, cancel, clean, standby, standbyDone>>
    BY <1>4 DEF MenuSync, Event
  <2>2. SyncSuspends => SyncOpen
    BY DEF SyncSuspends, SyncOpen
  <2>3. ~SyncOpen' /\ ScanOpen' = ScanOpen
    BY <2>1 DEF SyncOpen, ScanOpen, ScanSucceeded, FrameLate, StandbyInv, StandbyTypes, Work
  <2> QED BY <2>1, <2>2, <2>3 DEF StandbyInv, StandbyTypes, OutcomesEnded, FrameTrue, Open,
                                 ThreadsOK, Running, Work
<1> QED BY <1>1, <1>2, <1>3, <1>4 DEF Handle

\* A new run ends the claim of the one before.
LEMMA StartKeeps ==
  ASSUME StandbyInv, CallsOK, StartWork
  PROVE  StandbyInv'
<1> USE DEF StandbyInv, StandbyTypes, OutcomesEnded, FrameTrue, Open, ScanOpen,
            ScanSucceeded, FrameLate, SyncOpen, ThreadsOK, Running, Work
<1>1. CASE WorkOf(call.kind) = "scan"
  <2>1. /\ ready' = [ready EXCEPT !["scan"] = FALSE, !["verify"] = FALSE]
        /\ out' = [out EXCEPT !["scan"] = NoRun, !["verify"] = None]
        /\ cancel' = [cancel EXCEPT !["scan"] = FALSE]
        /\ thread' = [thread EXCEPT !["scan"] = "running"]
        /\ upc' = "events"
        /\ UNCHANGED <<clean, suspends, standby, standbyDone>>
    BY <1>1 DEF StartWork, StartScan, ResetForRun, viewVars
  <2>2. ~ScanOpen' /\ SyncOpen' = SyncOpen
    BY <2>1
  <2>3. /\ ready' \in [Work -> BOOLEAN] /\ cancel' \in [Work -> BOOLEAN]
        /\ DOMAIN out' = Work /\ ThreadsOK' /\ OutcomesEnded'
    BY <2>1
  <2> HIDE DEF ScanOpen, SyncOpen, ThreadsOK, OutcomesEnded
  <2>4. Open \in Nat /\ Open' \in Nat /\ Open' <= Open
    BY <2>2 DEF Open
  <2> HIDE DEF Open
  <2>5. suspends' + Open' <= clean'
    <3>1. suspends \in Nat /\ clean \in Nat /\ suspends + Open <= clean
      OBVIOUS
    <3>2. suspends' = suspends /\ clean' = clean
      BY <2>1
    <3>3. \A s, c, o, p \in Nat : s + o <= c /\ p <= o => s + p <= c
      OBVIOUS
    <3>4. suspends + Open' <= clean
      BY <2>4, <3>1, <3>3
    <3> QED BY <3>2, <3>4
  <2>6. StandbyTypes'
    BY <2>1, <2>3
  <2>7. FrameTrue'
    BY <2>1
  <2> QED BY <2>3, <2>5, <2>6, <2>7
<1>2. CASE WorkOf(call.kind) # "scan"
  <2>1. PICK w \in {"verify", "sync"} : StartRequest(w, call.what)
    BY <1>2 DEF StartWork, CallsOK, WorkOf
  <2> QED BY <1>2, <2>1 DEF StartWork, StartRequest, viewVars
<1> QED BY <1>1, <1>2

\* A frame that suspends uses up the claim it was drawn for.
LEMMA RenderKeeps ==
  ASSUME StandbyInv, Render
  PROVE  StandbyInv'
<1>1. /\ upc = "render" /\ upc' = "clear"
      /\ ready' = [ready EXCEPT !["verify"] = FALSE, !["sync"] = FALSE]
      /\ out' = [out EXCEPT !["verify"] = None, !["sync"] = None]
      /\ standbyDone' = (frame.ready /\ (standbyDone \/ StandbyDue))
      /\ suspends' = suspends + (IF StandbyDue THEN 1 ELSE 0)
                              + (IF SyncSuspends THEN 1 ELSE 0)
      /\ UNCHANGED <<thread, cancel, clean, standby>>
  BY DEF Render
<1>2. ~SyncOpen' /\ (SyncSuspends => SyncOpen)
  BY <1>1 DEF SyncOpen, SyncSuspends, StandbyInv, StandbyTypes, Work
<1>3. ScanSucceeded' = ScanSucceeded
  BY <1>1 DEF ScanSucceeded, StandbyInv, StandbyTypes, Work
<1>4. /\ StandbyDue => ScanOpen /\ ~ScanOpen'
      /\ ScanOpen' => ScanOpen
  BY <1>1, <1>3 DEF StandbyDue, ScanOpen, FrameLate, ScanSucceeded, FrameTrue,
                    StandbyInv, StandbyTypes
<1>5. suspends' + Open' <= clean'
  BY <1>1, <1>2, <1>4 DEF Open, StandbyInv, StandbyTypes
<1>6. standbyDone' \in BOOLEAN /\ suspends' \in Nat /\ DOMAIN out' = Work
  BY <1>1 DEF StandbyInv, StandbyTypes, FrameTrue, StandbyDue
<1>7. ready' \in [Work -> BOOLEAN] /\ \A w \in Work : ready'[w] => ready[w]
  BY <1>1 DEF StandbyInv, StandbyTypes, Work
<1> QED BY <1>1, <1>5, <1>6, <1>7 DEF StandbyInv, StandbyTypes, OutcomesEnded, FrameTrue,
                                   ThreadsOK, Running

\* The rest of the loop suspends nothing.
LEMMA LoopKeeps ==
  ASSUME StandbyInv, CallWork \/ EndEvents \/ ClearDirty \/ Shutdown \/ Reap
  PROVE  StandbyInv'
<1> USE DEF StandbyInv, StandbyTypes, OutcomesEnded, FrameTrue, Open, ScanOpen,
            ScanSucceeded, FrameLate, SyncOpen, ThreadsOK, Running, Work
<1>1. CASE CallWork
  BY <1>1 DEF CallWork, viewVars, workVars
<1>2. CASE EndEvents
  BY <1>2 DEF EndEvents, Snapshot, NextRound, viewVars
<1>3. CASE ClearDirty
  BY <1>3 DEF ClearDirty, NextRound, viewVars
<1>4. CASE Shutdown
  BY <1>4 DEF Shutdown, StopAll, viewVars
<1>5. CASE Reap
  BY <1>5 DEF Reap, viewVars, workVars
<1> QED BY <1>1, <1>2, <1>3, <1>4, <1>5

\* A run that ends well opens a claim, and counts as one.
LEMMA WorkerKeeps ==
  ASSUME StandbyInv, Worker
  PROVE  StandbyInv'
<1>1. UNCHANGED <<upc, frame, suspends, standby, standbyDone>>
  BY DEF Worker, uiVars
<1> USE DEF StandbyInv, StandbyTypes, OutcomesEnded, FrameTrue, Open, ScanOpen,
            ScanSucceeded, FrameLate, SyncOpen, ThreadsOK, Running, Work
<1>2. CASE ScanEnds
  <2> DEFINE Result(rows, ok) ==
        [rows |-> rows, ok |-> ok, compared |-> job["scan"].kind = "live",
         stats |-> IF job["scan"].kind = "live" THEN StatsOf(rows) ELSE NoRun.stats,
         offline |-> job["scan"].offline, roots |-> job["scan"].roots]
  <2>0. PICK rows \in ScanRows, ok \in BOOLEAN :
          /\ Publish("scan", Result(rows, ok))
          /\ clean' = IF ok /\ ~cancel["scan"] THEN clean + 1 ELSE clean
    BY <1>2 DEF ScanEnds
  <2>1. PICK result :
          /\ Publish("scan", result)
          /\ clean' = IF result.ok /\ ~cancel["scan"] THEN clean + 1 ELSE clean
    <3>1. Result(rows, ok).ok = ok
      OBVIOUS
    <3> HIDE DEF Result
    <3> QED BY <2>0, <3>1
  <2>2. ~ScanOpen /\ ~(frame.ready /\ upc = "render")
    BY <1>2 DEF ScanEnds
  <2>3. SyncOpen' = SyncOpen /\ (ScanOpen' => result.ok /\ ~cancel["scan"])
    BY <2>1 DEF Publish
  <2> QED BY <1>1, <2>1, <2>2, <2>3 DEF Publish
<1>3. CASE VerifyEnds
  <2>1. PICK what : Publish("verify", what) /\ clean' = clean
    BY <1>3 DEF VerifyEnds
  <2>2. Open' = Open
    BY <1>1, <2>1 DEF Publish
  <2> QED BY <1>1, <2>1, <2>2 DEF Publish
<1>4. CASE SyncEnds
  <2>1. PICK done, failed, stopped :
          /\ Publish("sync", [kind |-> "report", done |-> done, failed |-> failed,
                              cancelled |-> stopped])
          /\ clean' = IF done # {} /\ failed = {} /\ ~stopped THEN clean + 1 ELSE clean
    BY <1>4 DEF SyncEnds
  <2>2. ~SyncOpen
    BY <1>4 DEF SyncEnds
  <2>3. ScanOpen' = ScanOpen /\ (SyncOpen' => done # {} /\ failed = {} /\ ~stopped)
    BY <1>1, <2>1 DEF Publish
  <2> QED BY <1>1, <2>1, <2>2, <2>3 DEF Publish
<1>5. CASE \E w \in Work : Progress(w) \/ Notify(w)
  BY <1>1, <1>5 DEF Progress, Notify
<1> QED BY <1>2, <1>3, <1>4, <1>5 DEF Worker, WorkEnds

\* Every step keeps the suspensions within the runs that ended well.
LEMMA StandbyStep == ExclusionInv /\ StandbyInv /\ [Next]_vars => StandbyInv'
<1> SUFFICES ASSUME ExclusionInv, StandbyInv, [Next]_vars PROVE StandbyInv'
  OBVIOUS
<1>1. CASE StartWork
  BY <1>1, StartKeeps DEF ExclusionInv
<1>2. CASE UNCHANGED vars
  BY <1>2 DEF vars, workVars, uiVars, viewVars, StandbyInv, StandbyTypes, OutcomesEnded,
              FrameTrue, Open, ScanOpen, ScanSucceeded, FrameLate, SyncOpen, ThreadsOK,
              Running
<1> QED BY <1>1, <1>2, HandlersKeep, RenderKeeps, LoopKeeps, WorkerKeeps DEF Next, Loop

\* Over any number of scans, stops, synchronisations and frames the machine is put
\* to sleep at most once for each run that ended well.
THEOREM SuspendsOncePerRunThm == Spec => []SuspendsOncePerRun
<1>1. StandbyInv => SuspendsOncePerRun
  BY DEF StandbyInv, StandbyTypes, SuspendsOncePerRun, Open
<1> QED
  BY <1>1, ExclusionInit, ExclusionStep, StandbyInit, StandbyStep, PTL DEF Spec

(***************************************************************************)
(* The counters. A result set is exact while every counter of a status    *)
(* that asks for attention is the number of rows it stands for; the window *)
(* folds into it only rows of a verification, and the done paths of a      *)
(* synchronisation, of which there are finitely many.                      *)
(***************************************************************************)

RowType == [path : STRING, status : Statuses, isDirectory : BOOLEAN]

Exact(set) ==
  /\ set = [rows |-> set.rows, stats |-> set.stats, ok |-> set.ok,
            offline |-> set.offline, compared |-> set.compared, roots |-> set.roots]
  /\ set.rows \in Seq(RowType)
  /\ set.stats \in [Buckets -> Nat]
  /\ \A b \in {c \in Buckets : c[1] \notin Converged} :
       set.stats[b] - CountOf(set.rows, b) = (IF set.compared THEN Surplus[b] ELSE 0)

\* What a start may carry, and the row a menu may be open for.
CallTyped ==
  /\ upc \in {"calling", "joining"} =>
       /\ call.kind = "verify" => call.what.path \in STRING
       /\ call.kind = "sync" => IsFiniteSet(call.what.paths)
  /\ ctx # None => ctx.path \in STRING

\* What a thread works on and what it published.
WorkTyped ==
  /\ CallTyped
  /\ Running("verify") => job["verify"].path \in STRING
  /\ Running("sync") => IsFiniteSet(job["sync"].paths)
  /\ ready["verify"] /\ out["verify"].kind = "row" => out["verify"].row \in RowType
  /\ ready["sync"] => IsFiniteSet(out["sync"].done)

CountersTypes ==
  /\ ThreadsOK
  /\ ready \in [Work -> BOOLEAN]
  /\ DOMAIN out = Work /\ DOMAIN job = Work

CountersInv ==
  CountersTypes /\ WorkTyped /\ Exact(uiResults) /\ Exact(out["scan"])

\* A set of numbers has a least one.
LEMMA LeastOfNat ==
  ASSUME NEW S \in SUBSET Nat, S # {}
  PROVE  \E m \in S : \A k \in S : m <= k
<1>1. PICK m \in S : \A k \in S : <<k, m>> \notin OpToRel(<, Nat)
  BY NatLessThanWellFounded, WFMin
<1>2. ASSUME NEW k \in S
      PROVE  m <= k
  <2>1. k \in Nat /\ m \in Nat
    OBVIOUS
  <2>2. ~(k < m)
    BY <1>1, <2>1 DEF OpToRel
  <2> QED
    BY <2>1, <2>2
<1> QED
  BY <1>2

\* The index ApplySingleResult takes is one of those it looks among.
LEMMA MinIsIn ==
  ASSUME NEW S \in SUBSET Nat, S # {}
  PROVE  Min(S) \in S
BY LeastOfNat DEF Min

\* The rows of a bucket, as indices.
Of(rows, b) == {i \in DOMAIN rows : Bucket(rows[i].status, rows[i].isDirectory) = b}

\* There are finitely many.
LEMMA OfIsFinite ==
  ASSUME NEW rows \in Seq(RowType), NEW b
  PROVE  /\ IsFiniteSet(Of(rows, b))
         /\ CountOf(rows, b) = Cardinality(Of(rows, b))
         /\ CountOf(rows, b) \in Nat
<1>1. Of(rows, b) \in SUBSET (1 .. Len(rows)) /\ Len(rows) \in Nat
  BY DEF Of
<1>2. IsFiniteSet(Of(rows, b))
  <2>1. IsFiniteSet(1 .. Len(rows))
    BY <1>1, FS_Interval
  <2> QED
    BY <1>1, <2>1, FS_Subset
<1> QED
  BY <1>2, FS_CardinalityType DEF CountOf, Of

\* A row that is removed leaves its own bucket one row shorter and no other.
LEMMA CountRemoved ==
  ASSUME NEW rows \in Seq(RowType), NEW i \in DOMAIN rows, NEW b
  PROVE  /\ RemoveAt(rows, i) \in Seq(RowType)
         /\ CountOf(RemoveAt(rows, i), b) =
              IF i \in Of(rows, b) THEN CountOf(rows, b) - 1 ELSE CountOf(rows, b)
<1> DEFINE less == RemoveAt(rows, i)
           old(j) == IF j < i THEN j ELSE j + 1
<1>1. i \in 1 .. Len(rows) /\ Len(rows) \in Nat
  OBVIOUS
<1>2. /\ less \in Seq(RowType)
      /\ Len(less) = Len(rows) - 1
      /\ \A j \in 1 .. Len(rows) - 1 : less[j] = rows[old(j)]
  <2> DEFINE u == SubSeq(rows, 1, i - 1)
             v == SubSeq(rows, i + 1, Len(rows))
  <2>1. /\ u \in Seq(RowType) /\ Len(u) = i - 1
        /\ \A j \in 1 .. i - 1 : u[j] = rows[j]
    BY <1>1
  <2>2. /\ v \in Seq(RowType) /\ Len(v) = Len(rows) - i
        /\ \A j \in 1 .. Len(rows) - i : v[j] = rows[i + j]
    BY <1>1
  <2>3. less = u \o v
    BY DEF RemoveAt
  <2> HIDE DEF u, v, less
  <2>4. less \in Seq(RowType) /\ Len(less) = Len(rows) - 1
    BY <1>1, <2>1, <2>2, <2>3
  <2>5. \A j \in 1 .. Len(rows) - 1 :
          less[j] = IF j <= i - 1 THEN u[j] ELSE v[j - (i - 1)]
    BY <1>1, <2>1, <2>2, <2>3
  <2>6. ASSUME NEW j \in 1 .. Len(rows) - 1
        PROVE  less[j] = rows[old(j)]
    <3>1. CASE j < i
      <4>1. j \in 1 .. i - 1
        BY <1>1, <2>6, <3>1
      <4> QED
        BY <1>1, <2>1, <2>5, <2>6, <3>1, <4>1
    <3>2. CASE ~(j < i)
      <4>1. j - (i - 1) \in 1 .. Len(rows) - i /\ i + (j - (i - 1)) = j + 1
        BY <1>1, <2>6, <3>2
      <4> QED
        BY <1>1, <2>2, <2>5, <2>6, <3>2, <4>1
    <3> QED
      BY <3>1, <3>2
  <2> QED
    BY <2>4, <2>6
<1> HIDE DEF less
<1> DEFINE A == Of(less, b)
           B == Of(rows, b) \ {i}
           f == [j \in A |-> old(j)]
<1>3. /\ A = {j \in 1 .. Len(rows) - 1 :
                Bucket(rows[old(j)].status, rows[old(j)].isDirectory) = b}
      /\ B = {k \in 1 .. Len(rows) :
                k # i /\ Bucket(rows[k].status, rows[k].isDirectory) = b}
  BY <1>1, <1>2 DEF Of
<1>4. ASSUME NEW j \in A PROVE f[j] \in B
  BY <1>1, <1>3, <1>4
<1>5. ASSUME NEW j \in A, NEW k \in A, f[j] = f[k] PROVE j = k
  BY <1>1, <1>3, <1>5
<1>6. ASSUME NEW k \in B PROVE \E j \in A : f[j] = k
  <2> DEFINE j == IF k < i THEN k ELSE k - 1
  <2>1. j \in 1 .. Len(rows) - 1 /\ old(j) = k
    BY <1>1, <1>3, <1>6
  <2>2. j \in A
    BY <1>3, <1>6, <2>1
  <2> QED
    BY <2>1, <2>2
<1>7. f \in Bijection(A, B)
  <2> HIDE DEF A, B
  <2>1. f \in [A -> B]
    BY <1>4
  <2> HIDE DEF f
  <2> QED
    BY <1>5, <1>6, <2>1 DEF Bijection, Injection, Surjection, IsInjective
<1>8. Cardinality(B) = Cardinality(A)
  <2> HIDE DEF A, B, f
  <2>1. IsFiniteSet(A)
    BY <1>2, OfIsFinite DEF A
  <2> QED
    BY <1>7, <2>1, FS_Bijection DEF ExistsBijection
<1>9. Cardinality(B) =
        IF i \in Of(rows, b) THEN CountOf(rows, b) - 1 ELSE CountOf(rows, b)
  <2> DEFINE all == Of(rows, b)
  <2>1. IsFiniteSet(all) /\ CountOf(rows, b) = Cardinality(all)
    BY OfIsFinite
  <2> HIDE DEF all
  <2>2. Cardinality(all \ {i}) = IF i \in all THEN Cardinality(all) - 1 ELSE Cardinality(all)
    BY <2>1, FS_RemoveElement
  <2> QED
    BY <2>1, <2>2 DEF all
<1> QED
  BY <1>2, <1>8, <1>9, OfIsFinite DEF less

\* A row that is replaced leaves its bucket and joins that of the new one.
LEMMA CountReplaced ==
  ASSUME NEW rows \in Seq(RowType), NEW i \in DOMAIN rows, NEW fresh \in RowType, NEW b
  PROVE  LET more == [rows EXCEPT ![i] = fresh]
             left == IF i \in Of(rows, b) THEN CountOf(rows, b) - 1 ELSE CountOf(rows, b)
         IN  /\ more \in Seq(RowType)
             /\ CountOf(more, b) =
                  IF Bucket(fresh.status, fresh.isDirectory) = b THEN left + 1 ELSE left
<1> DEFINE more == [rows EXCEPT ![i] = fresh]
           left == IF i \in Of(rows, b) THEN CountOf(rows, b) - 1 ELSE CountOf(rows, b)
           B    == Of(rows, b) \ {i}
<1>1. /\ more \in Seq(RowType) /\ DOMAIN more = DOMAIN rows
      /\ \A j \in DOMAIN rows : more[j] = IF j = i THEN fresh ELSE rows[j]
  OBVIOUS
<1> HIDE DEF more
<1>2. IsFiniteSet(B) /\ Cardinality(B) = left /\ i \notin B
  BY OfIsFinite, FS_RemoveElement
<1>3. Of(more, b) = IF Bucket(fresh.status, fresh.isDirectory) = b THEN B \cup {i} ELSE B
  BY <1>1 DEF Of
<1>4. Cardinality(B \cup {i}) = left + 1
  <2> HIDE DEF B, left
  <2> QED
    BY <1>2, FS_AddElement
<1>5. CountOf(more, b) = Cardinality(Of(more, b))
  BY <1>1, OfIsFinite
<1>6. CountOf(more, b) = IF Bucket(fresh.status, fresh.isDirectory) = b THEN left + 1 ELSE left
  <2> HIDE DEF B, left
  <2> QED
    BY <1>2, <1>3, <1>4, <1>5
<1> QED
  BY <1>1, <1>6 DEF more

\* The statuses of rows have counters.
LEMMA BucketsOfRows ==
  ASSUME NEW s \in Statuses, NEW d \in BOOLEAN
  PROVE  Bucket(s, d) \in Buckets /\ Bucket(s, d)[1] = s
BY DEF Buckets, Bucket

\* An exact counter is never lowered below zero: it counts the row that goes.
LEMMA LoweredExactly ==
  ASSUME NEW set, Exact(set), NEW i \in DOMAIN set.rows
  PROVE  LET old == set.rows[i]
             c   == Bucket(old.status, old.isDirectory)
             less == BumpDown(set.stats, c)
         IN  /\ less \in [Buckets -> Nat]
             /\ \A b \in {x \in Buckets : x[1] \notin Converged} :
                  less[b] = IF i \in Of(set.rows, b) THEN set.stats[b] - 1 ELSE set.stats[b]
<1> DEFINE old  == set.rows[i]
           c    == Bucket(old.status, old.isDirectory)
           less == BumpDown(set.stats, c)
<1>1. old \in RowType /\ c \in Buckets
  <2>1. old \in RowType
    BY DEF Exact
  <2>2. old.status \in Statuses /\ old.isDirectory \in BOOLEAN
    BY <2>1 DEF RowType
  <2> QED
    BY <2>1, <2>2, BucketsOfRows
<1>2. less \in [Buckets -> Nat]
  BY <1>1 DEF Exact, BumpDown
<1>3. ASSUME NEW b \in {x \in Buckets : x[1] \notin Converged}
      PROVE  less[b] = IF i \in Of(set.rows, b) THEN set.stats[b] - 1 ELSE set.stats[b]
  <2>1. i \in Of(set.rows, b) <=> c = b
    BY DEF Of
  <2>2. CASE c # b
    BY <1>1, <2>1, <2>2 DEF Exact, BumpDown
  <2>3. CASE c = b
    <3>1. IsFiniteSet(Of(set.rows, b)) /\ CountOf(set.rows, b) \in Nat
          /\ CountOf(set.rows, b) = Cardinality(Of(set.rows, b))
      BY OfIsFinite DEF Exact
    <3>2. Of(set.rows, b) # {}
      BY <2>1, <2>3
    <3>3. CountOf(set.rows, b) > 0
      BY <3>1, <3>2, FS_EmptySet
    <3>4. set.stats[b] > 0
      <4>1. (IF set.compared THEN Surplus[b] ELSE 0) \in Nat
        BY OrchestratorAssumption
      <4>2. set.stats[b] - CountOf(set.rows, b) = (IF set.compared THEN Surplus[b] ELSE 0)
        BY DEF Exact
      <4>3. set.stats[b] \in Nat
        BY DEF Exact
      <4> QED
        BY <3>1, <3>3, <4>1, <4>2, <4>3
    <3> QED
      BY <1>1, <2>1, <2>3, <3>4 DEF Exact, BumpDown
  <2> QED
    BY <2>2, <2>3
<1> QED
  BY <1>2, <1>3

With(set, rows, stats) == [set EXCEPT !.rows = rows, !.stats = stats]

\* A result set that differs in rows and counters has the rest of its fields.
LEMMA SetWithShape ==
  ASSUME NEW set, Exact(set), NEW rows, NEW stats
  PROVE  LET new == With(set, rows, stats)
         IN  /\ new = [rows |-> new.rows, stats |-> new.stats, ok |-> new.ok,
                       offline |-> new.offline, compared |-> new.compared,
                       roots |-> new.roots]
             /\ new.rows = rows /\ new.stats = stats /\ new.compared = set.compared
<1> DEFINE new == With(set, rows, stats)
<1>1. PICK r, s, o, f, c, t :
        set = [rows |-> r, stats |-> s, ok |-> o, offline |-> f, compared |-> c, roots |-> t]
  BY DEF Exact
<1>2. DOMAIN set = {"rows", "stats", "ok", "offline", "compared", "roots"}
  BY <1>1
<1>3. new = [x \in DOMAIN set |-> IF x = "stats" THEN stats
                                 ELSE IF x = "rows" THEN rows ELSE set[x]]
  BY <1>2 DEF With
<1> HIDE DEF new
<1>4. new = [rows |-> rows, stats |-> stats, ok |-> o, offline |-> f, compared |-> c,
             roots |-> t]
  BY <1>1, <1>2, <1>3
<1>5. new.rows = rows /\ new.stats = stats /\ new.compared = set.compared
  BY <1>1, <1>4
<1>6. new = [rows |-> new.rows, stats |-> new.stats, ok |-> new.ok,
             offline |-> new.offline, compared |-> new.compared, roots |-> new.roots]
  BY <1>4
<1> QED
  BY <1>5, <1>6 DEF new

\* A counter is raised.
LEMMA Raised ==
  ASSUME NEW stats \in [Buckets -> Nat], NEW c \in Buckets
  PROVE  /\ BumpUp(stats, c) \in [Buckets -> Nat]
         /\ \A b \in Buckets : BumpUp(stats, c)[b] = IF b = c THEN stats[b] + 1 ELSE stats[b]
BY DEF BumpUp

\* Retiring a row keeps the counters exact.
LEMMA RetireKeeps ==
  ASSUME NEW set, Exact(set), NEW i \in DOMAIN set.rows,
         NEW fresh, fresh.status \in Converged
  PROVE  Exact(Retire(set, i, fresh))
<1> DEFINE old  == set.rows[i]
           c    == Bucket(old.status, old.isDirectory)
           less == BumpDown(set.stats, c)
           d    == Bucket(fresh.status, old.isDirectory)
           stats == IF old.status = "Extra" THEN less ELSE BumpUp(less, d)
           new  == Retire(set, i, fresh)
<1>1. set.rows \in Seq(RowType) /\ old \in RowType
  BY DEF Exact
<1>2. old.status \in Statuses /\ old.isDirectory \in BOOLEAN
  BY <1>1 DEF RowType
<1>3. d \in Buckets /\ d[1] \in Converged
  <2>1. fresh.status \in Statuses
    BY DEF Converged, Statuses, PerType
  <2> QED
    BY <1>2, <2>1, BucketsOfRows
<1>4. /\ less \in [Buckets -> Nat]
      /\ \A b \in {x \in Buckets : x[1] \notin Converged} :
           less[b] = IF i \in Of(set.rows, b) THEN set.stats[b] - 1 ELSE set.stats[b]
  BY LoweredExactly
<1> HIDE DEF less, d
<1>5. /\ stats \in [Buckets -> Nat]
      /\ \A b \in {x \in Buckets : x[1] \notin Converged} : stats[b] = less[b]
  BY <1>3, <1>4, Raised
<1>6. new = With(set, RemoveAt(set.rows, i), stats)
  BY DEF Retire, With, less, d
<1> HIDE DEF new, stats
<1>7. /\ new = [rows |-> new.rows, stats |-> new.stats, ok |-> new.ok,
                offline |-> new.offline, compared |-> new.compared, roots |-> new.roots]
      /\ new.rows = RemoveAt(set.rows, i) /\ new.stats = stats
      /\ new.compared = set.compared
  BY <1>6, SetWithShape
<1>8. new.rows \in Seq(RowType)
  BY <1>1, <1>7, CountRemoved
<1>9. ASSUME NEW b \in {x \in Buckets : x[1] \notin Converged}
      PROVE  new.stats[b] - CountOf(new.rows, b) = (IF new.compared THEN Surplus[b] ELSE 0)
  <2>1. CountOf(new.rows, b) = IF i \in Of(set.rows, b) THEN CountOf(set.rows, b) - 1
                               ELSE CountOf(set.rows, b)
    BY <1>1, <1>7, CountRemoved
  <2>2. new.stats[b] = IF i \in Of(set.rows, b) THEN set.stats[b] - 1 ELSE set.stats[b]
    BY <1>4, <1>5, <1>7
  <2>3. /\ CountOf(set.rows, b) \in Nat /\ set.stats[b] \in Nat
        /\ set.stats[b] - CountOf(set.rows, b) = (IF set.compared THEN Surplus[b] ELSE 0)
    BY <1>1, OfIsFinite DEF Exact
  <2>4. new.stats[b] - CountOf(new.rows, b) = set.stats[b] - CountOf(set.rows, b)
    BY <2>1, <2>2, <2>3
  <2> QED
    BY <1>7, <2>3, <2>4
<1>10. new.stats \in [Buckets -> Nat]
  BY <1>5, <1>7
<1> QED
  BY <1>7, <1>8, <1>9, <1>10 DEF Exact, new

\* Replacing a row keeps the counters exact.
LEMMA ReplaceKeeps ==
  ASSUME NEW set, Exact(set), NEW i \in DOMAIN set.rows, NEW fresh \in RowType
  PROVE  Exact(Replace(set, i, fresh))
<1> DEFINE old  == set.rows[i]
           c    == Bucket(old.status, old.isDirectory)
           less == BumpDown(set.stats, c)
           d    == Bucket(fresh.status, fresh.isDirectory)
           stats == BumpUp(less, d)
           rows == [set.rows EXCEPT ![i] = fresh]
           new  == Replace(set, i, fresh)
<1>1. set.rows \in Seq(RowType)
  BY DEF Exact
<1>2. d \in Buckets
  <2>1. fresh.status \in Statuses /\ fresh.isDirectory \in BOOLEAN
    BY DEF RowType
  <2> QED
    BY <2>1, BucketsOfRows
<1>3. /\ less \in [Buckets -> Nat]
      /\ \A b \in {x \in Buckets : x[1] \notin Converged} :
           less[b] = IF i \in Of(set.rows, b) THEN set.stats[b] - 1 ELSE set.stats[b]
  BY LoweredExactly
<1> HIDE DEF less
<1>4. /\ stats \in [Buckets -> Nat]
      /\ \A b \in Buckets : stats[b] = IF b = d THEN less[b] + 1 ELSE less[b]
  <2> HIDE DEF d
  <2> QED
    BY <1>2, <1>3, Raised
<1>5. new = With(set, rows, stats)
  <2>1. new = [set EXCEPT !.rows[i] = fresh, !.stats = stats]
    BY DEF Replace, less
  <2> HIDE DEF new, stats
  <2> QED
    BY <2>1 DEF With
<1> HIDE DEF new, stats, rows
<1>6. /\ new = [rows |-> new.rows, stats |-> new.stats, ok |-> new.ok,
                offline |-> new.offline, compared |-> new.compared, roots |-> new.roots]
      /\ new.rows = rows /\ new.stats = stats /\ new.compared = set.compared
  BY <1>5, SetWithShape
<1>7. rows \in Seq(RowType)
  BY <1>1, CountReplaced DEF rows
<1>8. ASSUME NEW b \in {x \in Buckets : x[1] \notin Converged}
      PROVE  new.stats[b] - CountOf(new.rows, b) = (IF new.compared THEN Surplus[b] ELSE 0)
  <2> DEFINE left == IF i \in Of(set.rows, b) THEN CountOf(set.rows, b) - 1
                     ELSE CountOf(set.rows, b)
  <2>1. CountOf(rows, b) = IF d = b THEN left + 1 ELSE left
    BY <1>1, CountReplaced DEF rows
  <2>2. stats[b] = IF b = d THEN less[b] + 1 ELSE less[b]
    BY <1>4
  <2>3. less[b] = IF i \in Of(set.rows, b) THEN set.stats[b] - 1 ELSE set.stats[b]
    BY <1>3
  <2>4. /\ CountOf(set.rows, b) \in Nat /\ set.stats[b] \in Nat
        /\ set.stats[b] - CountOf(set.rows, b) = (IF set.compared THEN Surplus[b] ELSE 0)
    BY <1>1, OfIsFinite DEF Exact
  <2> HIDE DEF d
  <2>5. stats[b] - CountOf(rows, b) = set.stats[b] - CountOf(set.rows, b)
    BY <2>1, <2>2, <2>3, <2>4
  <2> QED
    BY <1>6, <2>4, <2>5
<1> QED
  BY <1>4, <1>6, <1>7, <1>8 DEF Exact, new

\* A correction by one row keeps the counters exact: the row is the verdict of a
\* verification, or says that the path is identical now.
LEMMA ApplyKeeps ==
  ASSUME NEW set, Exact(set), NEW fresh, fresh \in RowType \/ fresh.status \in Converged
  PROVE  Exact(ApplySingleResult(set, fresh))
<1> DEFINE at == {i \in DOMAIN set.rows : set.rows[i].path = fresh.path}
<1>1. at \in SUBSET DOMAIN set.rows /\ at \in SUBSET Nat
  BY DEF Exact
<1>2. CASE at = {}
  BY <1>2 DEF ApplySingleResult
<1>3. CASE at # {}
  <2>1. Min(at) \in DOMAIN set.rows
    <3> HIDE DEF at
    <3> QED
      BY <1>1, <1>3, MinIsIn
  <2>2. CASE fresh.status \in Converged
    BY <1>3, <2>1, <2>2, RetireKeeps DEF ApplySingleResult
  <2>3. CASE fresh.status \notin Converged
    BY <1>3, <2>1, <2>3, ReplaceKeeps DEF ApplySingleResult
  <2> QED
    BY <2>2, <2>3
<1> QED
  BY <1>2, <1>3

\* A path that a synchronisation brought in line.
Retired(p, acc) == ApplySingleResult(acc, Row(p, "Identical", FALSE))

\* Retiring keeps the counters exact.
LEMMA RetiredKeeps ==
  ASSUME NEW p, NEW set, Exact(set)
  PROVE  Exact(Retired(p, set))
BY ApplyKeeps DEF Retired, Row, Converged

\* The path a fold takes from a set, and the paths it leaves.
Some(s) == CHOOSE x \in s : TRUE
Rest(s) == s \ {Some(s)}

\* g retires the paths of every set in S, taken from a set one by one.
Retires(g, S, set) ==
  g = [s \in S |-> IF s = {} THEN set
                   ELSE Retired(Some(s), g[Rest(s)])]

UpTo(D, n) == {s \in SUBSET D : Cardinality(s) <= n}

\* A path taken from a set of paths leaves a smaller one.
LEMMA OneLess ==
  ASSUME NEW D, IsFiniteSet(D), NEW s \in SUBSET D, s # {}
  PROVE  LET t == Rest(s)
         IN  /\ t \in SUBSET D
             /\ Cardinality(s) \in Nat /\ Cardinality(t) \in Nat
             /\ Cardinality(t) = Cardinality(s) - 1
<1>1. IsFiniteSet(s) /\ Some(s) \in s
  BY FS_Subset DEF Some
<1> QED
  BY <1>1, FS_RemoveElement, FS_CardinalityType DEF Rest

\* The fold is defined on finite sets: a partial solution for sets of up to n paths
\* extends to sets of n + 1.
LEMMA FoldExists ==
  ASSUME NEW D, IsFiniteSet(D), NEW set
  PROVE  \E g : Retires(g, SUBSET D, set)
<1> DEFINE Bad == {n \in Nat : ~\E g : Retires(g, UpTo(D, n), set)}
<1>1. Bad = {}
  <2> SUFFICES ASSUME Bad # {} PROVE FALSE
    OBVIOUS
  <2>1. PICK n \in Bad : \A k \in Bad : n <= k
    <3>1. Bad \in SUBSET Nat
      OBVIOUS
    <3> HIDE DEF Bad
    <3> QED
      BY <3>1, LeastOfNat
  <2>2. n # 0
    <3>1. UpTo(D, 0) = {{}}
      <4>1. \A s \in SUBSET D : IsFiniteSet(s) /\ Cardinality(s) \in Nat
        BY FS_Subset, FS_CardinalityType
      <4>2. \A s \in SUBSET D : Cardinality(s) <= 0 <=> s = {}
        BY <4>1, FS_EmptySet
      <4> QED
        BY <4>2 DEF UpTo
    <3>2. Retires([s \in {{}} |-> set], UpTo(D, 0), set)
      BY <3>1 DEF Retires
    <3> QED
      BY <3>2
  <2>3. PICK g : Retires(g, UpTo(D, n - 1), set)
    <3>1. n - 1 \in Nat /\ n - 1 \notin Bad
      BY <2>1, <2>2
    <3> QED
      BY <3>1
  <2> DEFINE h == [s \in UpTo(D, n) |->
                     IF s = {} THEN set
                     ELSE Retired(Some(s), g[Rest(s)])]
  <2>4. \A s \in UpTo(D, n - 1) : s \in UpTo(D, n) /\ h[s] = g[s]
    <3>1. ASSUME NEW s \in UpTo(D, n - 1) PROVE s \in UpTo(D, n)
      <4>1. IsFiniteSet(s) /\ Cardinality(s) \in Nat
        BY <3>1, FS_Subset, FS_CardinalityType DEF UpTo
      <4> QED
        BY <3>1, <4>1 DEF UpTo
    <3> QED
      BY <2>3, <3>1 DEF Retires
  <2>5. ASSUME NEW s \in UpTo(D, n), s # {}
        PROVE  Rest(s) \in UpTo(D, n - 1)
    BY <2>5, OneLess DEF UpTo
  <2>6. h = [s \in UpTo(D, n) |->
               IF s = {} THEN set
               ELSE Retired(Some(s), h[Rest(s)])]
    <3>1. ASSUME NEW s \in UpTo(D, n), s # {}
          PROVE  h[Rest(s)] = g[Rest(s)]
      BY <2>4, <2>5, <3>1
    <3> QED
      BY <3>1
  <2>7. Retires(h, UpTo(D, n), set)
    BY <2>6 DEF Retires
  <2> QED
    BY <2>7
<1>2. UpTo(D, Cardinality(D)) = SUBSET D
  BY FS_Subset DEF UpTo
<1>3. Cardinality(D) \in Nat
  BY FS_CardinalityType
<1>4. \E g : Retires(g, UpTo(D, Cardinality(D)), set)
  BY <1>1, <1>3
<1> QED
  BY <1>2, <1>4

\* Whatever the order, retiring finitely many paths keeps the counters exact.
LEMMA FoldKeeps ==
  ASSUME NEW D, IsFiniteSet(D), NEW set, Exact(set), NEW g, Retires(g, SUBSET D, set)
  PROVE  Exact(g[D])
<1> DEFINE Bad == {n \in Nat : \E s \in SUBSET D : Cardinality(s) = n /\ ~Exact(g[s])}
<1>1. Bad = {}
  <2> SUFFICES ASSUME Bad # {} PROVE FALSE
    OBVIOUS
  <2>1. PICK n \in Bad : \A k \in Bad : n <= k
    <3>1. Bad \in SUBSET Nat
      OBVIOUS
    <3> HIDE DEF Bad
    <3> QED
      BY <3>1, LeastOfNat
  <2>2. PICK s \in SUBSET D : Cardinality(s) = n /\ ~Exact(g[s])
    BY <2>1
  <2>3. s # {}
    BY <2>2 DEF Retires
  <2> DEFINE t == Rest(s)
  <2>4. g[s] = Retired(Some(s), g[t])
    BY <2>3 DEF Retires
  <2>5. t \in SUBSET D /\ Cardinality(t) \in Nat /\ Cardinality(t) = n - 1 /\ n \in Nat
    BY <2>2, <2>3, OneLess
  <2>6. Exact(g[t])
    <3>1. Cardinality(t) \notin Bad
      BY <2>1, <2>5
    <3> QED
      BY <2>5, <3>1
  <2> QED
    BY <2>2, <2>4, <2>6, RetiredKeeps
<1>2. Cardinality(D) \in Nat
  BY FS_CardinalityType
<1> QED
  BY <1>1, <1>2

\* A report that is folded in keeps the counters exact.
LEMMA FoldSyncKeeps ==
  ASSUME NEW set, Exact(set), ready["sync"] => IsFiniteSet(out["sync"].done)
  PROVE  Exact(FoldSync(set))
<1>1. CASE ~ready["sync"]
  BY <1>1 DEF FoldSync
<1>2. CASE ready["sync"]
  <2> DEFINE D == out["sync"].done
             fold == CHOOSE g : Retires(g, SUBSET D, set)
  <2>1. IsFiniteSet(D)
    BY <1>2
  <2>2. FoldSync(set) = fold[D]
    BY <1>2 DEF FoldSync, FoldSet, MapThenFoldSet, Retires, Retired, Rest, Some
  <2> HIDE DEF D
  <2>3. Retires(fold, SUBSET D, set)
    BY <2>1, FoldExists
  <2> HIDE DEF fold
  <2> QED
    BY <2>1, <2>2, <2>3, FoldKeeps
<1> QED
  BY <1>1, <1>2

\* So does the outcome of a verification.
LEMMA FoldVerifyKeeps ==
  ASSUME NEW set, Exact(set),
         ready["verify"] /\ out["verify"].kind = "row" => out["verify"].row \in RowType
  PROVE  Exact(FoldVerify(set))
BY ApplyKeeps DEF FoldVerify

\* No results, and the counters of none.
LEMMA NoRunExact == Exact(NoRun)
<1>1. NoRun.rows = <<>> /\ NoRun.compared = FALSE
      /\ NoRun.stats = [b \in Buckets |-> 0]
  BY DEF NoRun
<1>2. NoRun = [rows |-> NoRun.rows, stats |-> NoRun.stats, ok |-> NoRun.ok,
               offline |-> NoRun.offline, compared |-> NoRun.compared,
               roots |-> NoRun.roots]
  BY DEF NoRun
<1>3. ASSUME NEW b PROVE CountOf(<<>>, b) = 0
  BY FS_EmptySet DEF CountOf
<1> QED
  BY <1>1, <1>2, <1>3 DEF Exact

\* What a scan publishes is exact: the counters are the rows and the surplus, or,
\* after a capture, nothing.
LEMMA ScanExact ==
  ASSUME NEW rows \in ScanRows, NEW ok, NEW compared \in BOOLEAN, NEW off, NEW roots,
         ~compared => rows = <<>>
  PROVE  Exact([rows |-> rows, ok |-> ok, compared |-> compared,
                stats |-> IF compared THEN StatsOf(rows) ELSE NoRun.stats,
                offline |-> off, roots |-> roots])
<1> DEFINE stats == IF compared THEN StatsOf(rows) ELSE NoRun.stats
           new == [rows |-> rows, ok |-> ok, compared |-> compared, stats |-> stats,
                   offline |-> off, roots |-> roots]
<1>1. rows \in Seq(RowType)
  BY OrchestratorAssumption DEF RowType
<1>2. /\ stats \in [Buckets -> Nat]
      /\ \A b \in Buckets :
           stats[b] - CountOf(rows, b) = (IF compared THEN Surplus[b] ELSE 0)
  <2>1. CASE compared
    <3>1. \A b \in Buckets : CountOf(rows, b) \in Nat /\ Surplus[b] \in Nat
      BY <1>1, OfIsFinite, OrchestratorAssumption
    <3>2. stats = [b \in Buckets |-> CountOf(rows, b) + Surplus[b]]
      BY <2>1 DEF StatsOf
    <3> HIDE DEF stats
    <3> QED
      BY <2>1, <3>1, <3>2
  <2>2. CASE ~compared
    <3>1. \A b \in Buckets : CountOf(rows, b) = 0
      BY <2>2, FS_EmptySet DEF CountOf
    <3>2. stats = [b \in Buckets |-> 0]
      BY <2>2 DEF NoRun
    <3> HIDE DEF stats
    <3> QED
      BY <2>2, <3>1, <3>2
  <2> QED
    BY <2>1, <2>2
<1> HIDE DEF stats
<1>3. /\ new.rows = rows /\ new.stats = stats /\ new.compared = compared
      /\ new = [rows |-> new.rows, stats |-> new.stats, ok |-> new.ok,
                offline |-> new.offline, compared |-> new.compared, roots |-> new.roots]
  OBVIOUS
<1> HIDE DEF new
<1>4. Exact(new)
  BY <1>1, <1>2, <1>3 DEF Exact
<1> QED
  BY <1>4 DEF new, stats

\* A verification ends with a row.
LEMMA VerdictsAreRows ==
  ASSUME NEW p \in STRING, NEW a, NEW b, NEW level
  PROVE  VerifySingleFile(p, a, b, level) \cup {MakeInternalVerifyError(p)} \subseteq RowType
<1>1. ASSUME NEW s \in Statuses, NEW d \in BOOLEAN PROVE Row(p, s, d) \in RowType
  BY DEF Row, RowType
<1>2. \A s \in Statuses : Row(p, s, FALSE) \in RowType
  BY <1>1
<1>3. /\ Row(p, "SizeMismatch", a.kind = "dir") \in RowType
      /\ Row(p, "SizeMismatch", a.kind \in DirKinds) \in RowType
      /\ Row(p, "ContentMismatch", a.kind \in DirKinds) \in RowType
  <2>1. (a.kind = "dir") \in BOOLEAN /\ (a.kind \in DirKinds) \in BOOLEAN
    OBVIOUS
  <2> QED
    BY <1>1, <2>1 DEF Statuses
<1>4. {"ReadError", "AccessDenied", "Missing", "Extra", "Identical", "SizeMismatch",
       "ContentMismatch", "IdenticalPartial", "ContentMismatchPartial",
       "ChangedDuringScan"} \subseteq Statuses
  BY DEF Statuses, PerType
<1>5. /\ MetaErrorRow(p, a) \in RowType /\ MetaErrorRow(p, b) \in RowType
      /\ MakeInternalVerifyError(p) \in RowType
  BY <1>2, <1>4 DEF MetaErrorRow, MakeInternalVerifyError
<1>6. LinkVerdict(p, a, b) \in RowType
  BY <1>2, <1>3, <1>4 DEF LinkVerdict
<1>7. ContentVerdict(p, a, b, level) \in RowType
  BY <1>2, <1>4 DEF ContentVerdict
<1>8. MatchedVerdicts(p, a, b, level) \subseteq RowType
  BY <1>2, <1>3, <1>4, <1>6, <1>7 DEF MatchedVerdicts
<1>9. VerifySingleFile(p, a, b, level) \subseteq RowType
  <2>1. CASE a.kind = "absent" /\ b.kind = "absent"
    BY <1>2, <1>4, <1>5, <2>1 DEF VerifySingleFile
  <2>2. CASE a.kind # "absent" /\ b.kind = "absent"
    BY <1>2, <1>4, <1>5, <2>2 DEF VerifySingleFile
  <2>3. CASE a.kind = "absent" /\ b.kind # "absent"
    BY <1>2, <1>4, <1>5, <2>3 DEF VerifySingleFile
  <2>4. CASE a.kind # "absent" /\ b.kind # "absent"
    BY <1>8, <1>5, <2>4 DEF VerifySingleFile
  <2> QED
    BY <2>1, <2>2, <2>3, <2>4
<1> QED
  BY <1>5, <1>9

\* An empty window has exact counters.
LEMMA CountersInit == Init => CountersInv
<1> SUFFICES ASSUME Init PROVE CountersInv
  OBVIOUS
<1>1. Exact(uiResults) /\ Exact(out["scan"])
  BY NoRunExact DEF Init, OrchestratorInit, Work
<1>2. CountersTypes
  BY DEF Init, OrchestratorInit, CountersTypes, ThreadsOK
<1>3. WorkTyped
  BY DEF Init, OrchestratorInit, WorkTyped, CallTyped, Running, Work
<1> QED
  BY <1>1, <1>2, <1>3 DEF CountersInv

\* A step that publishes, starts and folds nothing.
LEMMA PlainCounts ==
  ASSUME CountersInv, CallTyped', UNCHANGED <<uiResults, thread, job, ready, out>>
  PROVE  CountersInv'
BY DEF CountersInv, CountersTypes, ThreadsOK, WorkTyped, CallTyped, Running

\* The paths of the rows on display are finitely many.
LEMMA PathsFinite ==
  ASSUME NEW set, Exact(set), NEW S \in SUBSET DOMAIN set.rows
  PROVE  IsFiniteSet({set.rows[i].path : i \in S})
<1> DEFINE T == {set.rows[i].path : i \in S}
           f == [i \in S |-> set.rows[i].path]
<1>1. IsFiniteSet(S)
  <2>1. DOMAIN set.rows = 1 .. Len(set.rows) /\ Len(set.rows) \in Nat
    BY DEF Exact
  <2>2. IsFiniteSet(1 .. Len(set.rows))
    BY <2>1, FS_Interval
  <2> QED
    BY <2>1, <2>2, FS_Subset
<1>2. f \in Surjection(S, T)
  BY DEF Surjection
<1> HIDE DEF f, T
<1>3. IsFiniteSet(T)
  BY <1>1, <1>2, FS_Surjection
<1> QED
  BY <1>3 DEF T

\* A handler that folds nothing in.
LEMMA QuietHandlersCount ==
  ASSUME CountersInv, Handle, ~MenuRescan, ~MenuSync
  PROVE  CountersInv'
<1>1. CallTyped
  BY DEF CountersInv, WorkTyped, CallTyped
<1>2. CASE EditField \/ ArmMode \/ ToggleStandby \/ CloseMenu \/ Quit
  <2>1. UNCHANGED <<uiResults, thread, job, ready, out, upc, call>> /\ ctx' \in {ctx, None}
    BY <1>2 DEF EditField, ArmMode, ToggleStandby, CloseMenu, Quit, Stays, viewVars
  <2>2. CallTyped'
    BY <1>1, <2>1 DEF CallTyped
  <2> QED
    BY <2>1, <2>2, PlainCounts
<1>3. CASE ClickStart \/ PressStart
  <2>1. /\ UNCHANGED <<uiResults, thread, job, ready, out, ctx>>
        /\ \/ UNCHANGED <<upc, call>>
           \/ call'.kind \in {"live", "capture"}
    BY <1>3 DEF ClickStart, PressStart, Stays, Calls, viewVars
  <2>2. CallTyped'
    BY <1>1, <2>1 DEF CallTyped
  <2> QED
    BY <2>1, <2>2, PlainCounts
<1>4. CASE ClickSync
  <2> DEFINE S == {j \in DOMAIN uiResults.rows : Syncable(uiResults.rows[j])}
             todo == {uiResults.rows[i].path : i \in S}
  <2>1. /\ UNCHANGED <<uiResults, thread, job, ready, out, ctx>>
        /\ call' = [kind |-> "sync",
                    what |-> [kind |-> "all", paths |-> todo, roots |-> uiRoots]]
    BY <1>4 DEF ClickSync, Calls, viewVars
  <2>2. IsFiniteSet(todo)
    BY PathsFinite DEF CountersInv
  <2> HIDE DEF todo
  <2>3. call'.kind = "sync" /\ call'.what.paths = todo
    BY <2>1
  <2>4. CallTyped'
    BY <1>1, <2>1, <2>2, <2>3 DEF CallTyped
  <2> QED
    BY <2>1, <2>4, PlainCounts
<1>5. CASE OpenMenu
  <2>1. /\ UNCHANGED <<uiResults, thread, job, ready, out, upc, call>>
        /\ \E i \in DOMAIN uiResults.rows : ctx'.path = uiResults.rows[i].path
    BY <1>5 DEF OpenMenu, Stays, viewVars
  <2>2. ctx'.path \in STRING
    <3>1. uiResults.rows \in Seq(RowType)
      BY DEF CountersInv, Exact
    <3>2. ASSUME NEW i \in DOMAIN uiResults.rows
          PROVE  uiResults.rows[i].path \in STRING
      <4>1. uiResults.rows[i] \in RowType
        BY <3>1
      <4> QED
        BY <4>1 DEF RowType
    <3> QED
      BY <2>1, <3>2
  <2>3. CallTyped'
    BY <1>1, <2>1, <2>2 DEF CallTyped
  <2> QED
    BY <2>1, <2>3, PlainCounts
<1> QED
  BY <1>2, <1>3, <1>4, <1>5 DEF Handle

\* Asking for another verification folds the last one in first.
LEMMA MenuRescanCounts ==
  ASSUME CountersInv, MenuRescan
  PROVE  CountersInv'
<1>1. /\ ready' = [ready EXCEPT !["verify"] = FALSE]
      /\ out' = [out EXCEPT !["verify"] = None]
      /\ UNCHANGED <<thread, job>>
      /\ ctx' = None /\ ctx # None /\ upc = "events"
      /\ \/ UNCHANGED <<upc, call>>
         \/ call'.kind = "verify" /\ call'.what.path = ctx.path
  BY DEF MenuRescan, Event
<1>2. Exact(uiResults')
  BY FoldVerifyKeeps DEF MenuRescan, CountersInv, WorkTyped
<1>3. CountersTypes'
  BY <1>1 DEF CountersInv, CountersTypes, ThreadsOK
<1>4. /\ out'["scan"] = out["scan"] /\ out'["sync"] = out["sync"]
      /\ ready'["sync"] = ready["sync"] /\ ready'["verify"] = FALSE
  BY <1>1 DEF CountersInv, CountersTypes, Work
<1>5. WorkTyped'
  BY <1>1, <1>4 DEF CountersInv, WorkTyped, CallTyped, Running
<1> QED
  BY <1>2, <1>3, <1>4, <1>5 DEF CountersInv

\* Asking for another synchronisation folds the last report in first.
LEMMA MenuSyncCounts ==
  ASSUME CountersInv, MenuSync
  PROVE  CountersInv'
<1>1. /\ ready' = [ready EXCEPT !["sync"] = FALSE]
      /\ out' = [out EXCEPT !["sync"] = None]
      /\ UNCHANGED <<thread, job>>
      /\ ctx' = None /\ upc = "events"
      /\ \/ UNCHANGED <<upc, call>>
         \/ call'.kind = "sync" /\ call'.what.paths = {ctx.path}
  BY DEF MenuSync, Event
<1>2. Exact(uiResults')
  BY FoldSyncKeeps DEF MenuSync, CountersInv, WorkTyped
<1>3. CountersTypes'
  BY <1>1 DEF CountersInv, CountersTypes, ThreadsOK
<1>4. /\ out'["scan"] = out["scan"] /\ out'["verify"] = out["verify"]
      /\ ready'["verify"] = ready["verify"] /\ ready'["sync"] = FALSE
  BY <1>1 DEF CountersInv, CountersTypes, Work
<1>5. IsFiniteSet({ctx.path})
  BY FS_Singleton
<1>6. WorkTyped'
  BY <1>1, <1>4, <1>5 DEF CountersInv, WorkTyped, CallTyped, Running
<1> QED
  BY <1>2, <1>3, <1>4, <1>6 DEF CountersInv

\* A start hands on what the call carried and clears what was published.
LEMMA StartCounts ==
  ASSUME CountersInv, CallsOK, StartWork
  PROVE  CountersInv'
<1>1. uiResults' = uiResults /\ ctx' = ctx /\ upc' = "events" /\ upc = "joining"
  BY DEF StartWork, viewVars
<1>2. CASE WorkOf(call.kind) = "scan"
  <2>1. /\ ready' = [ready EXCEPT !["scan"] = FALSE, !["verify"] = FALSE]
        /\ out' = [out EXCEPT !["scan"] = NoRun, !["verify"] = None]
        /\ thread' = [thread EXCEPT !["scan"] = "running"]
        /\ \E j : job' = [job EXCEPT !["scan"] = j]
    BY <1>2 DEF StartWork, StartScan, ResetForRun
  <2>2. CountersTypes'
    BY <2>1 DEF CountersInv, CountersTypes, ThreadsOK, Work
  <2>3. /\ out'["scan"] = NoRun /\ out'["sync"] = out["sync"]
        /\ ready'["sync"] = ready["sync"] /\ ready'["verify"] = FALSE
        /\ job'["verify"] = job["verify"] /\ job'["sync"] = job["sync"]
        /\ thread'["verify"] = thread["verify"] /\ thread'["sync"] = thread["sync"]
    BY <2>1 DEF CountersInv, CountersTypes, ThreadsOK, Work
  <2>4. WorkTyped'
    BY <1>1, <2>3 DEF CountersInv, WorkTyped, CallTyped, Running
  <2> QED
    BY <1>1, <2>2, <2>3, <2>4, NoRunExact DEF CountersInv
<1>3. CASE WorkOf(call.kind) # "scan"
  <2>1. PICK w \in {"verify", "sync"} : w = call.kind /\ StartRequest(w, call.what)
    BY <1>3 DEF StartWork, CallsOK, WorkOf, Work
  <2>2. /\ ready' = [ready EXCEPT ![w] = FALSE]
        /\ out' = [out EXCEPT ![w] = None]
        /\ thread' = [thread EXCEPT ![w] = "running"]
        /\ job' = [job EXCEPT ![w] = call.what]
    BY <2>1 DEF StartRequest
  <2>3. CountersTypes'
    BY <2>2 DEF CountersInv, CountersTypes, ThreadsOK, Work
  <2>4. /\ out'["scan"] = out["scan"]
        /\ ready'[w] = FALSE /\ job'[w] = call.what
        /\ \A v \in {"verify", "sync"} \ {w} :
             /\ out'[v] = out[v] /\ ready'[v] = ready[v]
             /\ job'[v] = job[v] /\ thread'[v] = thread[v]
    BY <2>2 DEF CountersInv, CountersTypes, ThreadsOK, Work
  <2>5. WorkTyped'
    BY <1>1, <2>1, <2>4 DEF CountersInv, WorkTyped, CallTyped, Running
  <2> QED
    BY <1>1, <2>3, <2>4, <2>5 DEF CountersInv
<1> QED
  BY <1>2, <1>3

\* A frame takes the results of a new run and folds in what was published.
LEMMA RenderCounts ==
  ASSUME CountersInv, Render
  PROVE  CountersInv'
<1>1. /\ ready' = [ready EXCEPT !["verify"] = FALSE, !["sync"] = FALSE]
      /\ out' = [out EXCEPT !["verify"] = None, !["sync"] = None]
      /\ UNCHANGED <<thread, job>>
      /\ ctx' \in {ctx, None} /\ upc' = "clear"
  BY DEF Render
<1>2. Exact(uiResults')
  <2> DEFINE fresh == IF NewResults THEN out["scan"] ELSE uiResults
  <2>1. uiResults' = FoldSync(FoldVerify(fresh))
    BY DEF Render
  <2>2. Exact(fresh)
    BY DEF CountersInv
  <2> HIDE DEF fresh
  <2>3. Exact(FoldVerify(fresh))
    BY <2>2, FoldVerifyKeeps DEF CountersInv, WorkTyped
  <2>4. Exact(FoldSync(FoldVerify(fresh)))
    BY <2>3, FoldSyncKeeps DEF CountersInv, WorkTyped
  <2> QED
    BY <2>1, <2>4
<1>3. CountersTypes'
  BY <1>1 DEF CountersInv, CountersTypes, ThreadsOK
<1>4. out'["scan"] = out["scan"] /\ ready'["verify"] = FALSE /\ ready'["sync"] = FALSE
  BY <1>1 DEF CountersInv, CountersTypes, Work
<1>5. WorkTyped'
  BY <1>1, <1>4 DEF CountersInv, WorkTyped, CallTyped, Running
<1> QED
  BY <1>2, <1>3, <1>4, <1>5 DEF CountersInv

\* The rest of the loop leaves rows and work alone.
LEMMA LoopCounts ==
  ASSUME CountersInv, CallWork \/ EndEvents \/ ClearDirty \/ Shutdown \/ Reap
  PROVE  CountersInv'
<1>1. UNCHANGED <<uiResults, thread, job, ready, out, ctx>>
  BY DEF CallWork, EndEvents, ClearDirty, Shutdown, Reap, viewVars, workVars
<1>2. \/ upc \in {"calling", "joining"} /\ UNCHANGED call
      \/ upc' \notin {"calling", "joining"}
  BY DEF CallWork, EndEvents, ClearDirty, Shutdown, Reap, NextRound
<1>3. CallTyped'
  BY <1>1, <1>2 DEF CountersInv, WorkTyped, CallTyped
<1> QED
  BY <1>1, <1>3, PlainCounts

\* A worker that publishes changes the outcome of its own kind of work only.
LEMMA PublishCounts ==
  ASSUME CountersInv, Worker, NEW w \in Work, NEW what, Publish(w, what),
         w = "scan" => Exact(what),
         w = "verify" /\ what.kind = "row" => what.row \in RowType,
         w = "sync" => IsFiniteSet(what.done)
  PROVE  CountersInv'
<1>1. UNCHANGED <<uiResults, upc, call, ctx>>
  BY DEF Worker, uiVars
<1>2. /\ thread' = [thread EXCEPT ![w] = "published"]
      /\ ready' = [ready EXCEPT ![w] = TRUE]
      /\ out' = [out EXCEPT ![w] = what]
      /\ job' = [job EXCEPT ![w] = None]
  BY DEF Publish
<1>3. CountersTypes'
  BY <1>2 DEF CountersInv, CountersTypes, ThreadsOK
<1>4. /\ out'[w] = what /\ thread'[w] = "published"
      /\ \A v \in Work \ {w} : /\ out'[v] = out[v] /\ ready'[v] = ready[v]
                               /\ job'[v] = job[v] /\ thread'[v] = thread[v]
  BY <1>2 DEF CountersInv, CountersTypes, ThreadsOK
<1>5. WorkTyped'
  BY <1>1, <1>4 DEF CountersInv, WorkTyped, CallTyped, Running, Work
<1>6. Exact(out'["scan"])
  BY <1>4 DEF CountersInv, Work
<1> QED
  BY <1>1, <1>3, <1>5, <1>6 DEF CountersInv

\* Whatever the work finds, it publishes rows, or paths it was given.
LEMMA WorkerCounts ==
  ASSUME CountersInv, Worker
  PROVE  CountersInv'
<1>1. CASE ScanEnds
  <2> DEFINE compared == job["scan"].kind = "live"
             Result(rows, ok) ==
               [rows |-> rows, ok |-> ok, compared |-> compared,
                stats |-> IF compared THEN StatsOf(rows) ELSE NoRun.stats,
                offline |-> job["scan"].offline, roots |-> job["scan"].roots]
  <2>1. PICK rows \in ScanRows, ok \in BOOLEAN :
          /\ ~compared => rows = <<>>
          /\ Publish("scan", Result(rows, ok))
    BY <1>1 DEF ScanEnds
  <2>2. compared \in BOOLEAN
    OBVIOUS
  <2> HIDE DEF compared
  <2>3. Exact(Result(rows, ok))
    BY <2>1, <2>2, ScanExact
  <2> HIDE DEF Result
  <2> QED
    BY <2>1, <2>3, PublishCounts DEF Work
<1>2. CASE VerifyEnds
  <2>1. job["verify"].path \in STRING
    BY <1>2 DEF VerifyEnds, CountersInv, WorkTyped
  <2>2. PICK what : /\ Publish("verify", what)
                    /\ what.kind = "row" => what.row \in RowType
    <3>1. CASE Publish("verify", [kind |-> "cancelled"])
      BY <3>1
    <3>2. CASE \E a, b \in SideStates, level \in {"size", "partial", "full"} :
                 \E row \in VerifySingleFile(job["verify"].path, a, b, level)
                              \cup {MakeInternalVerifyError(job["verify"].path)} :
                   Publish("verify", [kind |-> "row", row |-> row])
      <4>1. PICK row \in RowType : Publish("verify", [kind |-> "row", row |-> row])
        BY <2>1, <3>2, VerdictsAreRows
      <4> QED
        BY <4>1
    <3> QED
      BY <1>2, <3>1, <3>2 DEF VerifyEnds
  <2> QED
    BY <2>2, PublishCounts DEF Work
<1>3. CASE SyncEnds
  <2>1. PICK done, failed, stopped :
          /\ done \in SUBSET job["sync"].paths
          /\ Publish("sync", [kind |-> "report", done |-> done, failed |-> failed,
                              cancelled |-> stopped])
    BY <1>3 DEF SyncEnds
  <2>2. IsFiniteSet(job["sync"].paths)
    BY <1>3 DEF SyncEnds, CountersInv, WorkTyped
  <2>3. IsFiniteSet(done)
    BY <2>1, <2>2, FS_Subset
  <2> DEFINE what == [kind |-> "report", done |-> done, failed |-> failed,
                      cancelled |-> stopped]
  <2>4. what.done = done /\ Publish("sync", what)
    BY <2>1
  <2> HIDE DEF what
  <2> QED
    BY <2>3, <2>4, PublishCounts DEF Work
<1>4. CASE \E w \in Work : Progress(w) \/ Notify(w)
  <2>1. /\ UNCHANGED <<uiResults, upc, call, ctx, job, ready, out>>
        /\ \A v \in Work : Running(v)' => Running(v)
        /\ ThreadsOK'
    BY <1>4 DEF Worker, uiVars, Progress, Notify, CountersInv, CountersTypes, ThreadsOK,
                Running
  <2>2. WorkTyped'
    BY <2>1 DEF CountersInv, WorkTyped, CallTyped, Work
  <2> QED
    BY <2>1, <2>2 DEF CountersInv, CountersTypes
<1> QED
  BY <1>1, <1>2, <1>3, <1>4 DEF Worker, WorkEnds

\* Every step keeps the counters on display exact.
LEMMA CountersStep == ExclusionInv /\ CountersInv /\ [Next]_vars => CountersInv'
<1> SUFFICES ASSUME ExclusionInv, CountersInv, [Next]_vars PROVE CountersInv'
  OBVIOUS
<1>1. CASE Handle
  BY <1>1, QuietHandlersCount, MenuRescanCounts, MenuSyncCounts
<1>2. CASE StartWork
  BY <1>2, StartCounts DEF ExclusionInv
<1>3. CASE UNCHANGED vars
  <2>1. UNCHANGED <<uiResults, thread, job, ready, out, upc, call, ctx>>
    BY <1>3 DEF vars, workVars, uiVars
  <2>2. CallTyped'
    BY <2>1 DEF CountersInv, WorkTyped, CallTyped
  <2> QED
    BY <2>1, <2>2, PlainCounts
<1> QED
  BY <1>1, <1>2, <1>3, RenderCounts, LoopCounts, WorkerCounts DEF Next, Loop

\* Rows may be rescanned, retired and replaced by new runs in any order, and a
\* synchronisation may retire any number of them at once: the counters on display
\* stay those of the rows (ApplySingleResult, PollSingleVerify, PollSyncReport).
THEOREM CountersMatchRowsThm == Spec => []CountersMatchRows
<1>1. CountersInv => CountersMatchRows
  BY DEF CountersInv, Exact, CountersMatchRows
<1> QED
  BY <1>1, ExclusionInit, ExclusionStep, CountersInit, CountersStep, PTL DEF Spec
=============================================================================
