-------------------------- MODULE ThreadPoolProofs --------------------------
(* The safety properties of ThreadPool for every set of workers, every number *)
(* of clients and every bound on the tasks.                                  *)
EXTENDS ThreadPool, FiniteSetTheorems, TLAPS

(***************************************************************************)
(* The inductive invariant.                                                *)
(***************************************************************************)

Caught == {w \in Workers : wpc[w] = "caught"}

\* A worker in a task holds one of its own; nobody else has it.
JobInv ==
  /\ \A w \in Running : job[w] \in (1..issued) \ queued
  /\ \A v, w \in Running : job[v] = job[w] => v = w
  /\ \A w \in Running : job[w] \in finished <=> wpc[w] \in {"caught", "finish"}

\* Every task is queued, in a worker or finished.
PartitionInv ==
  /\ queued \cap finished = {}
  /\ \A t \in 1..issued : t \in queued \/ t \in finished \/ \E w \in Running : job[w] = t

\* The queue is served from its oldest end.
FifoInv == \A q \in queued : q..issued \subseteq queued

ErrorsInv ==
  /\ thrown \subseteq finished
  /\ \A w \in Caught : job[w] \in thrown
  /\ Cardinality(thrown) = taskErrors + Cardinality(Caught)

TargetInv == \A c \in Clients : cpc[c] = "drained" => completed >= target[c]

StopInv ==
  /\ \A w \in Workers : wpc[w] = "exited" => stopping /\ queued = {}
  /\ owner = "gone" => \A w \in Workers : wpc[w] = "exited"

IInv ==
  TypeOK /\ JobInv /\ PartitionInv /\ FifoInv /\ CountersExact /\ ErrorsInv
  /\ TargetInv /\ StopInv

(***************************************************************************)
(* Type correctness.                                                       *)
(***************************************************************************)

WorkerPcs == {"idle", "asleep", "run", "notify", "caught", "finish", "exited"}
ClientPcs == {"idle", "notify", "awaitAll", "awaitBelow", "wokenAll",
              "wokenBelow", "drained", "left"}

\* A client that is woken is at a place of its program.
LEMMA WokenType == \A p \in ClientPcs : Woken(p) \in ClientPcs
BY DEF ClientPcs, Woken

\* One notify wakes at most one sleeping worker.
LEMMA WakeFact ==
  ASSUME NEW pcs \in [Workers -> WorkerPcs], Wake(pcs)
  PROVE  \/ wpc' = pcs
         \/ \E v \in Workers : wpc[v] = "asleep" /\ wpc' = [pcs EXCEPT ![v] = "idle"]
BY DEF Wake, Asleep

\* The types hold at the start.
LEMMA InitTypeOK == Init => TypeOK
<1> SUFFICES ASSUME Init PROVE TypeOK
  OBVIOUS
<1>1. queued = {} /\ finished = {} /\ thrown = {}
  BY DEF Init
<1>2. /\ queued \in SUBSET (1..issued) /\ finished \in SUBSET (1..issued)
      /\ thrown \in SUBSET (1..issued)
  BY ONLY <1>1
<1>3. Running = {}
  BY DEF Init, Running
<1>4. job \in [Workers -> 0..issued] /\ target \in [Clients -> 0..issued]
  BY DEF Init
<1>5. /\ wpc \in [Workers -> WorkerPcs] /\ cpc \in [Clients -> ClientPcs]
      /\ issued \in Nat /\ completed \in Nat /\ taskErrors \in Nat
      /\ stopping \in BOOLEAN /\ owner \in {"up", "notify", "join", "gone"}
  BY DEF Init, WorkerPcs, ClientPcs
<1>6. \A w \in Running : job[w] # 0
  BY ONLY <1>3
<1> QED BY ONLY <1>2, <1>4, <1>5, <1>6 DEF TypeOK, WorkerPcs, ClientPcs

\* Every step keeps the types.
LEMMA NextTypeOK == TypeOK /\ [Next]_vars => TypeOK'
<1> SUFFICES ASSUME TypeOK, [Next]_vars PROVE TypeOK'
  OBVIOUS
<1> USE DEF TypeOK, Running, workerVars, clientVars
<1>0. wpc \in [Workers -> WorkerPcs] /\ cpc \in [Clients -> ClientPcs]
  BY DEF WorkerPcs, ClientPcs
<1>1. ASSUME NEW c \in Clients, Submit(c) PROVE TypeOK'
  BY <1>1 DEF Submit, Enqueue
<1>2. ASSUME NEW w \in Workers, SubmitFromTask(w) PROVE TypeOK'
  BY <1>2 DEF SubmitFromTask, Enqueue
<1>3. ASSUME NEW c \in Clients, Notify(c) PROVE TypeOK'
  <2>1. wpc' \in [Workers -> WorkerPcs]
    BY <1>0, <1>3, WakeFact DEF Notify, WorkerPcs
  <2>2. Running' \subseteq Running
    BY <1>0, <1>3, WakeFact DEF Notify
  <2> QED BY <1>3, <2>1, <2>2 DEF Notify, WorkerPcs
<1>4. ASSUME NEW w \in Workers, NotifyFromTask(w) PROVE TypeOK'
  <2>1. [wpc EXCEPT ![w] = "run"] \in [Workers -> WorkerPcs]
    BY <1>0 DEF WorkerPcs
  <2> DEFINE pcs == [wpc EXCEPT ![w] = "run"]
  <2>a. \/ wpc' = pcs
        \/ \E v \in Workers : wpc[v] = "asleep" /\ wpc' = [pcs EXCEPT ![v] = "idle"]
    BY <1>4, <2>1, WakeFact DEF NotifyFromTask
  <2> HIDE DEF pcs
  <2>b. \A v \in Workers : [pcs EXCEPT ![v] = "idle"] \in [Workers -> WorkerPcs]
    <3>1. "idle" \in WorkerPcs
      BY DEF WorkerPcs
    <3> QED  BY <2>1, <3>1 DEF pcs
  <2>2. wpc' \in [Workers -> WorkerPcs]
    BY <2>1, <2>a, <2>b DEF pcs
  <2>3. Running' \subseteq Running
    BY <1>0, <1>4, <2>1, WakeFact DEF NotifyFromTask
  <2> QED BY <1>4, <2>2, <2>3 DEF NotifyFromTask, WorkerPcs
<1>5. ASSUME NEW c \in Clients,
             CallWaitAll(c) \/ CallWaitBelow(c) \/ Leave(c) \/ Recheck(c) \/ Resume(c)
      PROVE  TypeOK'
  <2>1. UNCHANGED <<queued, issued, completed, taskErrors, stopping, wpc, job,
                    owner, finished, thrown>>
    BY <1>5 DEF CallWaitAll, CallWaitBelow, Leave, Recheck, Resume
  <2>2. cpc' \in [Clients -> ClientPcs]
    BY <1>0, <1>5 DEF CallWaitAll, CallWaitBelow, Leave, Recheck, Resume, ClientPcs
  <2>3. target' \in [Clients -> 0..issued]
    BY <1>5 DEF CallWaitAll, CallWaitBelow, Leave, Recheck, Resume
  <2> QED BY <2>1, <2>2, <2>3 DEF ClientPcs
<1>6. ASSUME NEW c \in Clients, SpuriousWakeup(c) PROVE TypeOK'
  <2>1. cpc' \in [Clients -> ClientPcs]
    BY <1>0, <1>6, WokenType DEF SpuriousWakeup
  <2> QED BY <1>6, <2>1 DEF SpuriousWakeup, ClientPcs
<1>7. ASSUME NEW w \in Workers, Take(w) PROVE TypeOK'
  <2>1. CASE \E t \in queued : /\ queued' = queued \ {t}
                               /\ job' = [job EXCEPT ![w] = t]
                               /\ wpc' = [wpc EXCEPT ![w] = "run"]
    BY <1>7, <2>1 DEF Take
  <2>2. CASE /\ wpc' = [wpc EXCEPT ![w] = IF stopping THEN "exited" ELSE "asleep"]
             /\ UNCHANGED <<queued, job>>
    <3>1. wpc' \in [Workers -> WorkerPcs] /\ Running' \subseteq Running
      BY <1>0, <2>2 DEF WorkerPcs
    <3> QED BY <1>7, <2>2, <3>1 DEF Take, WorkerPcs
  <2> QED BY <1>7, <2>1, <2>2 DEF Take
<1>8. ASSUME NEW w \in Workers, Return(w) \/ Throw(w) PROVE TypeOK'
  <2>1. job[w] \in 1..issued
    BY <1>8 DEF Return, Throw, Running
  <2> QED BY <1>8, <2>1 DEF Return, Throw
<1>9. ASSUME NEW w \in Workers, CountError(w) \/ SpuriousWorkerWakeup(w) PROVE TypeOK'
  <2>1. wpc' \in [Workers -> WorkerPcs] /\ Running' \subseteq Running
    BY <1>0, <1>9 DEF CountError, SpuriousWorkerWakeup, WorkerPcs
  <2>2. /\ UNCHANGED <<queued, issued, completed, stopping, job, cpc, target, owner,
                       finished, thrown>>
        /\ taskErrors' \in Nat
    BY <1>9 DEF CountError, SpuriousWorkerWakeup
  <2> QED BY <2>1, <2>2 DEF WorkerPcs
<1>10. ASSUME NEW w \in Workers, Finish(w) PROVE TypeOK'
  <2>1. cpc' \in [Clients -> ClientPcs]
    BY <1>0, <1>10, WokenType DEF Finish
  <2> QED BY <1>10, <2>1 DEF Finish, ClientPcs
<1>11. CASE Stop \/ WakeAllToStop \/ Join
  BY <1>11 DEF Stop, WakeAllToStop, Join
<1>12. CASE UNCHANGED vars
  BY <1>12 DEF vars
<1> QED BY <1>1, <1>2, <1>3, <1>4, <1>5, <1>6, <1>7, <1>8, <1>9, <1>10, <1>11, <1>12
        DEF Next, ClientRuns, WorkerRuns, OwnerRuns, Gone

(***************************************************************************)
(* Finiteness, from the type invariant.                                    *)
(***************************************************************************)

\* The tasks under way are finitely many.
LEMMA FiniteFact ==
  ASSUME TypeOK
  PROVE  /\ IsFiniteSet(queued) /\ Cardinality(queued) \in Nat
         /\ IsFiniteSet(Running) /\ Cardinality(Running) \in Nat
         /\ IsFiniteSet(Caught) /\ Cardinality(Caught) \in Nat
         /\ IsFiniteSet(thrown) /\ Cardinality(thrown) \in Nat
<1>1. IsFiniteSet(1..issued)
  BY FS_Interval DEF TypeOK
<1>2. queued \in SUBSET (1..issued) /\ thrown \in SUBSET (1..issued)
  BY DEF TypeOK
<1>3. Running \in SUBSET Workers /\ Caught \in SUBSET Workers
  BY DEF Running, Caught
<1> QED BY <1>1, <1>2, <1>3, FS_Subset, FS_CardinalityType, ThreadPoolAssumption

(***************************************************************************)
(* Each kind of step preserves the inductive invariant.                    *)
(***************************************************************************)

\* The invariant holds at the start.
LEMMA InitIInv == Init => IInv
<1> SUFFICES ASSUME Init PROVE IInv
  OBVIOUS
<1>1. /\ queued = {} /\ finished = {} /\ thrown = {} /\ issued = 0 /\ completed = 0
      /\ taskErrors = 0 /\ owner = "up"
      /\ \A w \in Workers : wpc[w] = "idle"
      /\ \A c \in Clients : cpc[c] = "idle"
  BY DEF Init
<1>2. Running = {} /\ Caught = {}
  BY <1>1 DEF Running, Caught
<1>3. JobInv
  BY ONLY <1>2 DEF JobInv
<1>4. 1..issued = {}
  BY <1>1
<1>5. PartitionInv
  BY ONLY <1>1, <1>4 DEF PartitionInv
<1>6. FifoInv
  BY ONLY <1>1 DEF FifoInv
<1>7. Cardinality(queued) = 0 /\ Cardinality(Running) = 0 /\ Cardinality(Caught) = 0
      /\ Cardinality(thrown) = 0
  BY <1>1, <1>2, FS_EmptySet
<1>8. CountersExact
  BY <1>1, <1>7 DEF CountersExact
<1>9. ErrorsInv
  BY <1>1, <1>2, <1>7 DEF ErrorsInv
<1>10. TargetInv /\ StopInv
  BY <1>1 DEF TargetInv, StopInv
<1> QED BY InitTypeOK, <1>3, <1>5, <1>6, <1>8, <1>9, <1>10 DEF IInv

TaskVars == <<queued, issued, completed, taskErrors, job, finished, thrown>>

\* A step that moves no task keeps what the invariant says of the tasks.
LEMMA QuietStep ==
  ASSUME IInv, UNCHANGED TaskVars,
         Running' = Running, Caught' = Caught,
         \A w \in Running : wpc'[w] \in {"caught", "finish"} <=> wpc[w] \in {"caught", "finish"}
  PROVE  JobInv' /\ PartitionInv' /\ FifoInv' /\ CountersExact' /\ ErrorsInv'
<1>1. JobInv'
  BY DEF IInv, JobInv, TaskVars
<1>2. PartitionInv'
  BY DEF IInv, PartitionInv, TaskVars
<1>3. FifoInv' /\ CountersExact' /\ ErrorsInv'
  BY DEF IInv, FifoInv, CountersExact, ErrorsInv, TaskVars
<1> QED BY <1>1, <1>2, <1>3

\* A task is enqueued.
LEMMA EnqueueStep ==
  ASSUME IInv, TypeOK', Enqueue,
         \/ \E c \in Clients : Submit(c)
         \/ \E w \in Workers : SubmitFromTask(w)
  PROVE  IInv'
<1>0. /\ issued \in Nat /\ completed \in Nat /\ issued' = issued + 1
      /\ queued' = queued \cup {issued'}
      /\ queued \in SUBSET (1..issued) /\ finished \in SUBSET (1..issued)
      /\ job \in [Workers -> 0..issued] /\ ~stopping
      /\ UNCHANGED <<completed, taskErrors, stopping, target, job, owner, finished, thrown>>
  BY DEF Enqueue, IInv, TypeOK
<1>1. /\ Running' = Running /\ Caught' = Caught
      /\ \A w \in Running : wpc'[w] \in {"caught", "finish"} <=> wpc[w] \in {"caught", "finish"}
      /\ \A w \in Workers : wpc'[w] = "exited" => wpc[w] = "exited"
      /\ \A c \in Clients : cpc'[c] = "drained" => cpc[c] = "drained"
  BY DEF Submit, SubmitFromTask, Running, Caught, IInv, TypeOK
<1>2. JobInv'
  BY <1>0, <1>1 DEF IInv, JobInv, Running
<1>3. PartitionInv'
  <2>1. queued' \cap finished' = {}
    BY <1>0 DEF IInv, PartitionInv
  <2>2. ASSUME NEW t \in 1..issued'
        PROVE  t \in queued' \/ t \in finished' \/ \E w \in Running' : job'[w] = t
    <3>1. t \in 1..issued \/ t = issued'
      BY <1>0
    <3> QED BY <1>0, <1>1, <3>1 DEF IInv, PartitionInv
  <2> QED BY <2>1, <2>2 DEF PartitionInv
<1>4. FifoInv'
  BY <1>0 DEF IInv, FifoInv
<1>5. CountersExact'
  <2>1. Cardinality(queued') = Cardinality(queued) + 1
    <3>1. issued' \notin queued
      BY <1>0
    <3> QED BY <1>0, <3>1, FiniteFact, FS_AddElement DEF IInv
  <2> QED BY <1>0, <1>1, <2>1, FiniteFact DEF IInv, CountersExact
<1>6. ErrorsInv' /\ TargetInv'
  BY <1>0, <1>1 DEF IInv, ErrorsInv, TargetInv
<1>7. StopInv'
  BY <1>0, <1>1 DEF IInv, StopInv
<1> QED BY <1>2, <1>3, <1>4, <1>5, <1>6, <1>7 DEF IInv

\* A worker takes a task.
LEMMA TakeStep ==
  ASSUME IInv, TypeOK', NEW w \in Workers, Take(w)
  PROVE  IInv'
<1>0. /\ issued \in Nat /\ completed \in Nat /\ wpc[w] = "idle"
      /\ queued \in SUBSET (1..issued) /\ wpc \in [Workers -> WorkerPcs]
      /\ job \in [Workers -> 0..issued]
      /\ UNCHANGED <<issued, completed, taskErrors, stopping, cpc, target, owner,
                     finished, thrown>>
  BY DEF Take, IInv, TypeOK, clientVars, WorkerPcs
<1>1. ASSUME NEW t \in queued, Oldest(t), queued' = queued \ {t},
             job' = [job EXCEPT ![w] = t], wpc' = [wpc EXCEPT ![w] = "run"]
      PROVE  IInv'
  <2>1. /\ Running' = Running \cup {w} /\ w \notin Running /\ Caught' = Caught
        /\ \A v \in Running : v # w /\ job'[v] = job[v] /\ wpc'[v] = wpc[v]
        /\ job'[w] = t /\ wpc'[w] = "run"
    BY <1>0, <1>1 DEF Running, Caught
  <2>2. JobInv'
    <3>1. t \in 1..issued /\ t \notin finished /\ \A v \in Running : job[v] # t
      BY <1>0, <1>1 DEF IInv, PartitionInv, JobInv
    <3> QED BY <1>0, <1>1, <2>1, <3>1 DEF IInv, JobInv
  <2>3. PartitionInv'
    BY <1>0, <1>1, <2>1 DEF IInv, PartitionInv
  <2>4. FifoInv'
    <3>1. ASSUME NEW q \in queued' PROVE q..issued \subseteq queued'
      <4>1. q \in queued /\ t < q /\ q \in 1..issued /\ t \in 1..issued
        BY <1>0, <1>1, <3>1 DEF Oldest
      <4>2. q..issued \subseteq queued /\ t \notin q..issued
        BY <4>1 DEF IInv, FifoInv
      <4> QED BY <1>1, <4>2
    <3> QED BY <1>0, <3>1 DEF FifoInv
  <2>5. CountersExact'
    <3>1. Cardinality(queued') = Cardinality(queued) - 1
      BY <1>1, FiniteFact, FS_RemoveElement DEF IInv
    <3>2. Cardinality(Running') = Cardinality(Running) + 1
      BY <2>1, FiniteFact, FS_AddElement DEF IInv
    <3> QED BY <1>0, <3>1, <3>2, FiniteFact DEF IInv, CountersExact
  <2>6. ErrorsInv'
    <3>1. \A v \in Caught : v \in Running
      BY DEF Caught, Running
    <3> QED BY <1>0, <2>1, <3>1 DEF IInv, ErrorsInv
  <2>7. TargetInv' /\ StopInv'
    BY <1>0, <1>1 DEF IInv, TargetInv, StopInv
  <2> QED BY <2>2, <2>3, <2>4, <2>5, <2>6, <2>7 DEF IInv
<1>2. ASSUME queued = {}, UNCHANGED <<queued, job>>,
             wpc' = [wpc EXCEPT ![w] = IF stopping THEN "exited" ELSE "asleep"]
      PROVE  IInv'
  <2>1. /\ Running' = Running /\ Caught' = Caught
        /\ \A v \in Running : wpc'[v] = wpc[v]
    BY <1>0, <1>2 DEF Running, Caught
  <2>2. JobInv' /\ PartitionInv' /\ FifoInv' /\ CountersExact' /\ ErrorsInv'
    BY <1>0, <1>2, <2>1, QuietStep DEF TaskVars
  <2>3. TargetInv' /\ StopInv'
    BY <1>0, <1>2 DEF IInv, TargetInv, StopInv
  <2> QED BY <2>2, <2>3 DEF IInv
<1> QED BY <1>1, <1>2 DEF Take

\* A task returns or throws.
LEMMA EndOfTaskStep ==
  ASSUME IInv, TypeOK', NEW w \in Workers, Return(w) \/ Throw(w)
  PROVE  IInv'
<1>0. /\ issued \in Nat /\ taskErrors \in Nat /\ wpc[w] = "run"
      /\ wpc \in [Workers -> WorkerPcs]
      /\ wpc' = [wpc EXCEPT ![w] = "finish"] \/ wpc' = [wpc EXCEPT ![w] = "caught"]
      /\ finished' = finished \cup {job[w]}
      /\ UNCHANGED <<queued, issued, completed, taskErrors, stopping, job, cpc, target, owner>>
  BY DEF Return, Throw, IInv, TypeOK, clientVars, WorkerPcs
<1>1. /\ Running' = Running /\ w \in Running
      /\ \A v \in Workers : v # w => wpc'[v] = wpc[v]
      /\ wpc'[w] \in {"caught", "finish"}
      /\ job[w] \notin finished
  BY <1>0 DEF Running, IInv, JobInv
<1>2. JobInv'
  BY <1>0, <1>1 DEF IInv, JobInv, Running
<1>3. PartitionInv'
  BY <1>0, <1>1 DEF IInv, PartitionInv, JobInv
<1>4. FifoInv' /\ CountersExact' /\ TargetInv'
  BY <1>0, <1>1 DEF IInv, FifoInv, CountersExact, TargetInv
<1>5. StopInv'
  BY <1>0 DEF IInv, StopInv
<1>6. ErrorsInv'
  <2>1. CASE Return(w)
    <3>1. Caught' = Caught /\ thrown' = thrown
      BY <1>0, <2>1 DEF Return, Caught
    <3> QED BY <1>0, <3>1 DEF IInv, ErrorsInv
  <2>2. CASE Throw(w)
    <3>1. Caught' = Caught \cup {w} /\ w \notin Caught /\ thrown' = thrown \cup {job[w]}
          /\ job[w] \notin thrown
      BY <1>0, <1>1, <2>2 DEF Throw, Caught, IInv, ErrorsInv
    <3>2. /\ Cardinality(Caught') = Cardinality(Caught) + 1
          /\ Cardinality(thrown') = Cardinality(thrown) + 1
      BY <3>1, FiniteFact, FS_AddElement DEF IInv
    <3> QED BY <1>0, <3>1, <3>2, FiniteFact DEF IInv, ErrorsInv
  <2> QED BY <2>1, <2>2
<1> QED BY <1>2, <1>3, <1>4, <1>5, <1>6 DEF IInv

\* An exception is counted.
LEMMA CountErrorStep ==
  ASSUME IInv, TypeOK', NEW w \in Workers, CountError(w)
  PROVE  IInv'
<1>0. /\ taskErrors \in Nat /\ wpc[w] = "caught" /\ wpc \in [Workers -> WorkerPcs]
      /\ wpc' = [wpc EXCEPT ![w] = "finish"]
      /\ taskErrors' = taskErrors + 1
      /\ UNCHANGED <<queued, issued, completed, stopping, job, cpc, target, owner,
                     finished, thrown>>
  BY DEF CountError, IInv, TypeOK, clientVars, WorkerPcs
<1>1. /\ Running' = Running /\ Caught' = Caught \ {w} /\ w \in Caught
      /\ \A v \in Running : wpc'[v] \in {"caught", "finish"} <=> wpc[v] \in {"caught", "finish"}
  BY <1>0 DEF Running, Caught
<1>2. JobInv' /\ PartitionInv'
  BY <1>0, <1>1 DEF IInv, JobInv, PartitionInv
<1>3. FifoInv' /\ CountersExact' /\ TargetInv'
  BY <1>0, <1>1 DEF IInv, FifoInv, CountersExact, TargetInv
<1>4. ErrorsInv'
  <2>1. Cardinality(Caught') = Cardinality(Caught) - 1
    BY <1>1, FiniteFact, FS_RemoveElement DEF IInv
  <2> QED BY <1>0, <1>1, <2>1, FiniteFact DEF IInv, ErrorsInv
<1>5. StopInv'
  BY <1>0 DEF IInv, StopInv
<1> QED BY <1>2, <1>3, <1>4, <1>5 DEF IInv

\* A task is counted as done.
LEMMA FinishStep ==
  ASSUME IInv, TypeOK', NEW w \in Workers, Finish(w)
  PROVE  IInv'
<1>0. /\ issued \in Nat /\ completed \in Nat /\ wpc[w] = "finish"
      /\ wpc \in [Workers -> WorkerPcs] /\ job \in [Workers -> 0..issued]
      /\ target \in [Clients -> 0..issued]
      /\ wpc' = [wpc EXCEPT ![w] = "idle"] /\ job' = [job EXCEPT ![w] = 0]
      /\ completed' = completed + 1
      /\ UNCHANGED <<queued, issued, taskErrors, stopping, target, owner, finished, thrown>>
  BY DEF Finish, IInv, TypeOK, WorkerPcs
<1>1. /\ Running' = Running \ {w} /\ w \in Running /\ Caught' = Caught /\ w \notin Caught
      /\ \A v \in Running' : v # w /\ job'[v] = job[v] /\ wpc'[v] = wpc[v]
      /\ job[w] \in finished
  BY <1>0 DEF Running, Caught, IInv, JobInv
<1>2. JobInv'
  BY <1>0, <1>1 DEF IInv, JobInv
<1>3. PartitionInv'
  BY <1>0, <1>1 DEF IInv, PartitionInv
<1>4. FifoInv'
  BY <1>0 DEF IInv, FifoInv
<1>5. CountersExact'
  <2>1. Cardinality(Running') = Cardinality(Running) - 1
    BY <1>1, FiniteFact, FS_RemoveElement DEF IInv
  <2> QED BY <1>0, <2>1, FiniteFact DEF IInv, CountersExact
<1>6. ErrorsInv'
  <2>1. \A v \in Caught : job'[v] = job[v]
    BY <1>0, <1>1 DEF Caught
  <2> QED BY <1>0, <1>1, <2>1 DEF IInv, ErrorsInv
<1>7. \A c \in Clients : cpc'[c] = "drained" => cpc[c] = "drained"
  BY DEF Finish, Woken, IInv, TypeOK
<1>8. TargetInv'
  BY <1>0, <1>7 DEF IInv, TargetInv
<1>9. StopInv'
  BY <1>0 DEF IInv, StopInv
<1> QED BY <1>2, <1>3, <1>4, <1>5, <1>6, <1>8, <1>9 DEF IInv

\* What clients do, wakeups and the destructor move no task.
LEMMA ClientActions ==
  ASSUME IInv, TypeOK', NEW c \in Clients,
         CallWaitAll(c) \/ CallWaitBelow(c) \/ Recheck(c) \/ SpuriousWakeup(c)
           \/ Resume(c) \/ Leave(c)
  PROVE  IInv'
<1>0. /\ UNCHANGED TaskVars /\ UNCHANGED <<wpc, stopping, owner>>
      /\ cpc \in [Clients -> ClientPcs] /\ target \in [Clients -> 0..issued]
  BY DEF CallWaitAll, CallWaitBelow, Recheck, SpuriousWakeup, Resume, Leave, TaskVars,
     workerVars, IInv, TypeOK, ClientPcs
<1>1. Running' = Running /\ Caught' = Caught
  BY <1>0 DEF Running, Caught
<1>2. JobInv' /\ PartitionInv' /\ FifoInv' /\ CountersExact' /\ ErrorsInv'
  BY <1>0, <1>1, QuietStep
<1>3. TargetInv'
  <2>1. ASSUME NEW d \in Clients, cpc'[d] = "drained" PROVE completed >= target'[d]
    BY <1>0, <2>1 DEF IInv, TargetInv, CallWaitAll, CallWaitBelow, Recheck,
       SpuriousWakeup, Resume, Leave, AllDone, Woken
  <2> QED BY <1>0, <2>1 DEF TargetInv, TaskVars
<1>4. StopInv'
  BY <1>0 DEF IInv, StopInv, TaskVars
<1> QED BY <1>2, <1>3, <1>4 DEF IInv

\* Steps that put to sleep or wake up.
LEMMA WakeActions ==
  ASSUME IInv, TypeOK',
         \/ \E c \in Clients : Notify(c)
         \/ \E w \in Workers : NotifyFromTask(w) \/ SpuriousWorkerWakeup(w)
         \/ Stop \/ WakeAllToStop \/ Join
  PROVE  IInv'
<1>0. /\ UNCHANGED TaskVars /\ UNCHANGED target
      /\ wpc \in [Workers -> WorkerPcs] /\ cpc \in [Clients -> ClientPcs]
  BY DEF Notify, NotifyFromTask, SpuriousWorkerWakeup, Stop, WakeAllToStop, Join,
     TaskVars, workerVars, clientVars, IInv, TypeOK, WorkerPcs, ClientPcs
<1>1. \A w \in Workers : \/ wpc'[w] = wpc[w]
                         \/ wpc[w] = "asleep" /\ wpc'[w] = "idle"
                         \/ wpc[w] = "notify" /\ wpc'[w] = "run"
  <2>1. ASSUME NEW w \in Workers, NotifyFromTask(w) PROVE <1>1!:
    <3>1. [wpc EXCEPT ![w] = "run"] \in [Workers -> WorkerPcs]
      BY <1>0 DEF WorkerPcs
    <3> QED BY <1>0, <2>1, <3>1, WakeFact DEF NotifyFromTask
  <2>2. ASSUME NEW c \in Clients, Notify(c) PROVE <1>1!:
    BY <1>0, <2>2, WakeFact DEF Notify
  <2>3. ASSUME NEW w \in Workers, SpuriousWorkerWakeup(w) PROVE <1>1!:
    BY <1>0, <2>3 DEF SpuriousWorkerWakeup
  <2>4. CASE Stop \/ WakeAllToStop \/ Join
    BY <1>0, <2>4 DEF Stop, WakeAllToStop, Join, workerVars
  <2> QED BY <2>1, <2>2, <2>3, <2>4
<1>2. /\ Running' = Running /\ Caught' = Caught
      /\ \A w \in Running : wpc'[w] \in {"caught", "finish"} <=> wpc[w] \in {"caught", "finish"}
      /\ \A w \in Workers : wpc'[w] = "exited" <=> wpc[w] = "exited"
  BY <1>1 DEF Running, Caught
<1>3. JobInv' /\ PartitionInv' /\ FifoInv' /\ CountersExact' /\ ErrorsInv'
  BY <1>0, <1>2, QuietStep
<1>4. \A c \in Clients : cpc'[c] = "drained" => cpc[c] = "drained"
  BY <1>0 DEF Notify, NotifyFromTask, SpuriousWorkerWakeup, Stop, WakeAllToStop, Join, clientVars
<1>5. TargetInv'
  BY <1>0, <1>4 DEF IInv, TargetInv, TaskVars
<1>6. stopping' = stopping \/ stopping' = TRUE
  BY DEF Notify, NotifyFromTask, SpuriousWorkerWakeup, Stop, WakeAllToStop, Join
<1>7. owner' = "gone" => owner = "gone" \/ \A w \in Workers : wpc[w] = "exited"
  BY DEF Notify, NotifyFromTask, SpuriousWorkerWakeup, Stop, WakeAllToStop, Join
<1>8. StopInv'
  BY <1>0, <1>2, <1>6, <1>7 DEF IInv, StopInv, TaskVars
<1> QED BY <1>3, <1>5, <1>8 DEF IInv

\* Every step keeps the invariant.
LEMMA NextIInv == IInv /\ [Next]_vars => IInv'
<1> SUFFICES ASSUME IInv, [Next]_vars PROVE IInv'
  OBVIOUS
<1>1. TypeOK'
  BY NextTypeOK DEF IInv
<1>2. ASSUME NEW c \in Clients,
             \/ Submit(c) \/ CallWaitAll(c) \/ CallWaitBelow(c) \/ Leave(c)
             \/ ClientRuns(c) \/ SpuriousWakeup(c)
      PROVE  IInv'
  <2>1. CASE Submit(c)
    BY <1>1, <2>1, EnqueueStep DEF Submit
  <2>2. CASE Notify(c)
    BY <1>1, <2>2, WakeActions
  <2> QED BY <1>1, <1>2, <2>1, <2>2, ClientActions DEF ClientRuns
<1>3. ASSUME NEW w \in Workers,
             WorkerRuns(w) \/ SubmitFromTask(w) \/ SpuriousWorkerWakeup(w)
      PROVE  IInv'
  <2>1. CASE SubmitFromTask(w)
    BY <1>1, <2>1, EnqueueStep DEF SubmitFromTask
  <2>2. CASE NotifyFromTask(w) \/ SpuriousWorkerWakeup(w)
    BY <1>1, <2>2, WakeActions
  <2> QED BY <1>1, <1>3, <2>1, <2>2, TakeStep, EndOfTaskStep, CountErrorStep, FinishStep
          DEF WorkerRuns
<1>4. CASE Stop \/ OwnerRuns
  BY <1>1, <1>4, WakeActions DEF OwnerRuns
<1>5. CASE UNCHANGED vars
  BY <1>5 DEF vars, IInv, TypeOK, JobInv, PartitionInv, FifoInv, CountersExact,
     ErrorsInv, TargetInv, StopInv, Running, Caught
<1> QED BY <1>2, <1>3, <1>4, <1>5 DEF Next, Gone

\* The inductive invariant holds in every reachable state.
LEMMA InvariantIInv == Spec => []IInv
BY InitIInv, NextIInv, PTL DEF Spec

(***************************************************************************)
(* What the pool promises.                                                 *)
(***************************************************************************)

\* The backlog that waitAll() and the backpressure decide by is exact.
THEOREM CountersExactThm == Spec => []CountersExact
BY InvariantIInv, PTL DEF IInv

\* waitAll() without a concurrent submit drains the pool and sees every failure.
THEOREM WaitAllDrainsThm == Spec => []WaitAllDrains
<1>1. ASSUME IInv PROVE WaitAllDrains
  <2>1. SUFFICES ASSUME NEW c \in Clients, cpc[c] = "drained", issued = target[c]
                 PROVE  1..target[c] \subseteq finished /\ taskErrors = Cardinality(thrown)
    BY DEF WaitAllDrains
  <2>0. issued \in Nat /\ completed \in Nat /\ taskErrors \in Nat
    BY <1>1 DEF IInv, TypeOK
  <2>2. completed >= issued
    BY <1>1, <2>1 DEF IInv, TargetInv
  <2>3. Cardinality(queued) = 0 /\ Cardinality(Running) = 0
    BY <1>1, <2>0, <2>2, FiniteFact DEF IInv, CountersExact
  <2>4. queued = {} /\ Running = {}
    BY <1>1, <2>3, FiniteFact, FS_EmptySet DEF IInv
  <2>5. 1..issued \subseteq finished
    BY <1>1, <2>4 DEF IInv, PartitionInv
  <2>6. Caught = {}
    BY <2>4 DEF Caught, Running
  <2>7. taskErrors = Cardinality(thrown)
    BY <1>1, <2>0, <2>6, FS_EmptySet DEF IInv, ErrorsInv
  <2> QED BY <2>1, <2>5, <2>7
<1> QED BY <1>1, InvariantIInv, PTL

\* waitAll() always leaves the tasks submitted before it at least started.
THEOREM WaitAllDequeuesThm == Spec => []WaitAllDequeues
<1>1. ASSUME IInv PROVE WaitAllDequeues
  <2>1. SUFFICES ASSUME NEW c \in Clients, cpc[c] = "drained",
                        NEW q \in queued, q \in 1..target[c]
                 PROVE  FALSE
    BY DEF WaitAllDequeues
  <2>0. /\ issued \in Nat /\ completed \in Nat /\ target[c] \in 0..issued
        /\ q \in 1..issued
    BY <1>1, <2>1 DEF IInv, TypeOK
  <2>2. completed >= target[c]
    BY <1>1, <2>1 DEF IInv, TargetInv
  <2>3. q..issued \in SUBSET queued
    BY <1>1, <2>1 DEF IInv, FifoInv
  <2>4. Cardinality(q..issued) = issued - q + 1
    BY <2>0, FS_Interval
  <2>5. Cardinality(q..issued) <= Cardinality(queued)
    BY <1>1, <2>3, FiniteFact, FS_Subset DEF IInv
  <2>6. issued - completed >= Cardinality(queued) /\ Cardinality(queued) \in Nat
    BY <1>1, <2>0, FiniteFact DEF IInv, CountersExact
  <2> QED BY <2>0, <2>1, <2>2, <2>4, <2>5, <2>6
<1> QED BY <1>1, InvariantIInv, PTL

\* No accepted task is dropped by the destructor.
THEOREM DestructorFinishesTasksThm == Spec => []DestructorFinishesTasks
<1>1. ASSUME IInv PROVE DestructorFinishesTasks
  <2>1. SUFFICES ASSUME owner = "gone" PROVE finished = 1..issued
    BY DEF DestructorFinishesTasks
  <2>2. queued = {} /\ Running = {}
    BY <1>1, <2>1, ThreadPoolAssumption DEF IInv, StopInv, Running
  <2>3. finished \subseteq 1..issued
    BY <1>1 DEF IInv, TypeOK
  <2> QED BY <1>1, <2>2, <2>3 DEF IInv, PartitionInv
<1> QED BY <1>1, InvariantIInv, PTL
=============================================================================
