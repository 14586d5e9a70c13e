----------------------------- MODULE ThreadPool -----------------------------
(***************************************************************************)
(* bv::ThreadPool (src/Threading/ThreadPool.h, .cpp): a fixed set of       *)
(* workers serving one FIFO of tasks. Client threads submit, wait for      *)
(* everything submitted so far (waitAll) or for the backlog to fall        *)
(* (waitOutstandingBelow); the owner destroys the pool once the clients    *)
(* are done with it. A running task may submit too.                        *)
(*                                                                         *)
(* A step is a critical section of mutex_, or what a thread does between   *)
(* two: a predicate is evaluated and its waiter put to sleep in one step,  *)
(* while submit() notifies after it has released the mutex.                *)
(*                                                                         *)
(* A task is its submission number, so the queue is a set served oldest    *)
(* first. Every wait may wake spuriously. Left out: the profiling gauges,  *)
(* and the pool without threads, whose submit() runs the task in place.    *)
(*                                                                         *)
(* Definitions marked "Wrong" are no part of the model: each is a plausible *)
(* mistake in the definition that follows it, which a property must catch. *)
(***************************************************************************)
EXTENDS Integers, FiniteSets

CONSTANTS
  Workers,         \* the pool's threads
  Clients,         \* threads that call submit() and the waits
  MaxOutstanding,  \* argument of waitOutstandingBelow()
  MaxTasks         \* bound: tasks submitted in a behaviour

ASSUME ThreadPoolAssumption ==
  /\ Workers # {}
  /\ IsFiniteSet(Workers)
  /\ MaxOutstanding \in Nat
  /\ MaxTasks \in Nat

VARIABLES
  queued,      \* tasks_
  issued,      \* issued_
  completed,   \* completed_
  taskErrors,  \* taskErrors_
  stopping,    \* stopping_
  wpc, job,    \* per worker: where it is, and the task it took (0: none)
  cpc, target, \* per client: where it is, and waitAll()'s snapshot of issued_
  owner,       \* how far the destructor is
  finished,    \* history: tasks that ran to their end, thrown or not
  thrown       \* history: tasks that threw

vars == <<queued, issued, completed, taskErrors, stopping, wpc, job, cpc,
          target, owner, finished, thrown>>

workerVars == <<wpc, job>>
clientVars == <<cpc, target>>

Init ==
  /\ queued = {}
  /\ issued = 0
  /\ completed = 0
  /\ taskErrors = 0
  /\ stopping = FALSE
  /\ wpc = [w \in Workers |-> "idle"]
  /\ job = [w \in Workers |-> 0]
  /\ cpc = [c \in Clients |-> "idle"]
  /\ target = [c \in Clients |-> 0]
  /\ owner = "up"
  /\ finished = {}
  /\ thrown = {}

-----------------------------------------------------------------------------
(* submit() *)

\* Under mutex_, the pool not stopping: the task joins the queue.
Enqueue ==
  /\ ~stopping
  /\ issued < MaxTasks
  /\ issued' = issued + 1
  /\ queued' = queued \cup {issued + 1}
  /\ UNCHANGED <<completed, taskErrors, stopping, target, job, owner, finished, thrown>>

Submit(c) ==
  /\ cpc[c] = "idle"
  /\ Enqueue
  /\ cpc' = [cpc EXCEPT ![c] = "notify"]
  /\ UNCHANGED wpc

\* A task submits another one. Once the pool is stopping submit() drops it.
SubmitFromTask(w) ==
  /\ wpc[w] = "run"
  /\ Enqueue
  /\ wpc' = [wpc EXCEPT ![w] = "notify"]
  /\ UNCHANGED cpc

Asleep == {w \in Workers : wpc[w] = "asleep"}

\* cv_.notify_one() with the mutex released: one sleeping worker, if any, wakes.
Wake(pcs) ==
  IF Asleep = {} THEN wpc' = pcs
  ELSE \E v \in Asleep : wpc' = [pcs EXCEPT ![v] = "idle"]

\* Wrong: a submitter that finds other tasks queued leaves the notify to theirs.
NotifyLast(c) ==
  /\ cpc[c] = "notify"
  /\ cpc' = [cpc EXCEPT ![c] = "idle"]
  /\ IF Cardinality(queued) > 1 THEN UNCHANGED wpc ELSE Wake(wpc)
  /\ UNCHANGED <<queued, issued, completed, taskErrors, stopping, job, target,
                 owner, finished, thrown>>

Notify(c) ==
  /\ cpc[c] = "notify"
  /\ cpc' = [cpc EXCEPT ![c] = "idle"]
  /\ Wake(wpc)
  /\ UNCHANGED <<queued, issued, completed, taskErrors, stopping, job, target,
                 owner, finished, thrown>>

NotifyFromTask(w) ==
  /\ wpc[w] = "notify"
  /\ Wake([wpc EXCEPT ![w] = "run"])
  /\ UNCHANGED <<queued, issued, completed, taskErrors, stopping, job, cpc,
                 target, owner, finished, thrown>>

-----------------------------------------------------------------------------
(* waitAll() and waitOutstandingBelow() *)

\* The predicates under mutex_; a waiter whose predicate fails goes to sleep.
AllDone(n)  == completed >= n
BacklogLow  == issued - completed <= MaxOutstanding

CallWaitAll(c) ==
  /\ cpc[c] = "idle"
  /\ target' = [target EXCEPT ![c] = issued]
  /\ cpc' = [cpc EXCEPT ![c] = IF AllDone(issued) THEN "drained" ELSE "awaitAll"]
  /\ UNCHANGED <<queued, issued, completed, taskErrors, stopping, workerVars,
                 owner, finished, thrown>>

CallWaitBelow(c) ==
  /\ cpc[c] = "idle"
  /\ cpc' = [cpc EXCEPT ![c] = IF BacklogLow THEN "idle" ELSE "awaitBelow"]
  /\ UNCHANGED <<queued, issued, completed, taskErrors, stopping, workerVars,
                 target, owner, finished, thrown>>

\* Wrong: waitAll() tests that the queue is empty instead of counting.
RecheckQueue(c) ==
  /\ \/ /\ cpc[c] = "wokenAll"
        /\ cpc' = [cpc EXCEPT ![c] = IF queued = {} THEN "drained" ELSE "awaitAll"]
     \/ /\ cpc[c] = "wokenBelow"
        /\ cpc' = [cpc EXCEPT ![c] = IF BacklogLow THEN "idle" ELSE "awaitBelow"]
  /\ UNCHANGED <<queued, issued, completed, taskErrors, stopping, workerVars,
                 target, owner, finished, thrown>>

\* A woken waiter has mutex_ back and evaluates its predicate again.
Recheck(c) ==
  /\ \/ /\ cpc[c] = "wokenAll"
        /\ cpc' = [cpc EXCEPT ![c] = IF AllDone(target[c]) THEN "drained" ELSE "awaitAll"]
     \/ /\ cpc[c] = "wokenBelow"
        /\ cpc' = [cpc EXCEPT ![c] = IF BacklogLow THEN "idle" ELSE "awaitBelow"]
  /\ UNCHANGED <<queued, issued, completed, taskErrors, stopping, workerVars,
                 target, owner, finished, thrown>>

Woken(pcv) == CASE pcv = "awaitAll"   -> "wokenAll"
                [] pcv = "awaitBelow" -> "wokenBelow"
                [] OTHER              -> pcv

SpuriousWakeup(c) ==
  /\ cpc[c] \in {"awaitAll", "awaitBelow"}
  /\ cpc' = [cpc EXCEPT ![c] = Woken(cpc[c])]
  /\ UNCHANGED <<queued, issued, completed, taskErrors, stopping, workerVars,
                 target, owner, finished, thrown>>

\* The client goes on with what waitAll() allowed, or leaves the pool for good.
Resume(c) ==
  /\ cpc[c] = "drained"
  /\ cpc' = [cpc EXCEPT ![c] = "idle"]
  /\ UNCHANGED <<queued, issued, completed, taskErrors, stopping, workerVars,
                 target, owner, finished, thrown>>

Leave(c) ==
  /\ cpc[c] = "idle"
  /\ cpc' = [cpc EXCEPT ![c] = "left"]
  /\ UNCHANGED <<queued, issued, completed, taskErrors, stopping, workerVars,
                 target, owner, finished, thrown>>

-----------------------------------------------------------------------------
(* workerLoop() *)

Oldest(t) == t \in queued /\ \A u \in queued : t <= u

\* Wrong: a stopping pool's workers leave the queue behind.
TakeUnlessStopping(w) ==
  /\ wpc[w] = "idle"
  /\ \/ \E t \in queued : /\ Oldest(t)
                          /\ ~stopping
                          /\ queued' = queued \ {t}
                          /\ job' = [job EXCEPT ![w] = t]
                          /\ wpc' = [wpc EXCEPT ![w] = "run"]
     \/ /\ queued = {} \/ stopping
        /\ wpc' = [wpc EXCEPT ![w] = IF stopping THEN "exited" ELSE "asleep"]
        /\ UNCHANGED <<queued, job>>
  /\ UNCHANGED <<issued, completed, taskErrors, stopping, clientVars, owner,
                 finished, thrown>>

\* Wrong: the newest task is served first.
TakeNewest(w) ==
  /\ wpc[w] = "idle"
  /\ \/ \E t \in queued : /\ \A u \in queued : u <= t
                          /\ queued' = queued \ {t}
                          /\ job' = [job EXCEPT ![w] = t]
                          /\ wpc' = [wpc EXCEPT ![w] = "run"]
     \/ /\ queued = {}
        /\ wpc' = [wpc EXCEPT ![w] = IF stopping THEN "exited" ELSE "asleep"]
        /\ UNCHANGED <<queued, job>>
  /\ UNCHANGED <<issued, completed, taskErrors, stopping, clientVars, owner,
                 finished, thrown>>

\* Under mutex_: take the oldest task; with none, exit if the pool is stopping
\* and sleep otherwise.
Take(w) ==
  /\ wpc[w] = "idle"
  /\ \/ \E t \in queued : /\ Oldest(t)
                          /\ queued' = queued \ {t}
                          /\ job' = [job EXCEPT ![w] = t]
                          /\ wpc' = [wpc EXCEPT ![w] = "run"]
     \/ /\ queued = {}
        /\ wpc' = [wpc EXCEPT ![w] = IF stopping THEN "exited" ELSE "asleep"]
        /\ UNCHANGED <<queued, job>>
  /\ UNCHANGED <<issued, completed, taskErrors, stopping, clientVars, owner,
                 finished, thrown>>

SpuriousWorkerWakeup(w) ==
  /\ wpc[w] = "asleep"
  /\ wpc' = [wpc EXCEPT ![w] = "idle"]
  /\ UNCHANGED <<queued, issued, completed, taskErrors, stopping, job, clientVars,
                 owner, finished, thrown>>

\* task() returns, or throws and is caught.
Return(w) ==
  /\ wpc[w] = "run"
  /\ wpc' = [wpc EXCEPT ![w] = "finish"]
  /\ finished' = finished \cup {job[w]}
  /\ UNCHANGED <<queued, issued, completed, taskErrors, stopping, job, clientVars,
                 owner, thrown>>

\* Wrong: an exception skips the completion.
ThrowUncompleted(w) ==
  /\ wpc[w] = "run"
  /\ wpc' = [wpc EXCEPT ![w] = "idle"]
  /\ job' = [job EXCEPT ![w] = 0]
  /\ finished' = finished \cup {job[w]}
  /\ thrown' = thrown \cup {job[w]}
  /\ UNCHANGED <<queued, issued, completed, taskErrors, stopping, clientVars, owner>>

Throw(w) ==
  /\ wpc[w] = "run"
  /\ wpc' = [wpc EXCEPT ![w] = "caught"]
  /\ finished' = finished \cup {job[w]}
  /\ thrown' = thrown \cup {job[w]}
  /\ UNCHANGED <<queued, issued, completed, taskErrors, stopping, job, clientVars, owner>>

CountError(w) ==
  /\ wpc[w] = "caught"
  /\ wpc' = [wpc EXCEPT ![w] = "finish"]
  /\ taskErrors' = taskErrors + 1
  /\ UNCHANGED <<queued, issued, completed, stopping, job, clientVars, owner,
                 finished, thrown>>

\* Wrong: the completion is counted but no waiter is woken.
FinishQuietly(w) ==
  /\ wpc[w] = "finish"
  /\ wpc' = [wpc EXCEPT ![w] = "idle"]
  /\ job' = [job EXCEPT ![w] = 0]
  /\ completed' = completed + 1
  /\ UNCHANGED <<queued, issued, taskErrors, stopping, clientVars, owner, finished, thrown>>

\* Under mutex_: count the completion and wake every waiter.
Finish(w) ==
  /\ wpc[w] = "finish"
  /\ wpc' = [wpc EXCEPT ![w] = "idle"]
  /\ job' = [job EXCEPT ![w] = 0]
  /\ completed' = completed + 1
  /\ cpc' = [c \in Clients |-> Woken(cpc[c])]
  /\ UNCHANGED <<queued, issued, taskErrors, stopping, target, owner, finished, thrown>>

-----------------------------------------------------------------------------
(* ~ThreadPool(), called once no client uses the pool any more *)

Stop ==
  /\ owner = "up"
  /\ \A c \in Clients : cpc[c] = "left"
  /\ owner' = "notify"
  /\ stopping' = TRUE
  /\ UNCHANGED <<queued, issued, completed, taskErrors, workerVars, clientVars,
                 finished, thrown>>

WakeAllToStop ==
  /\ owner = "notify"
  /\ owner' = "join"
  /\ wpc' = [w \in Workers |-> IF wpc[w] = "asleep" THEN "idle" ELSE wpc[w]]
  /\ UNCHANGED <<queued, issued, completed, taskErrors, stopping, job, clientVars,
                 finished, thrown>>

Join ==
  /\ owner = "join"
  /\ \A w \in Workers : wpc[w] = "exited"
  /\ owner' = "gone"
  /\ UNCHANGED <<queued, issued, completed, taskErrors, stopping, workerVars,
                 clientVars, finished, thrown>>

Gone == owner = "gone" /\ UNCHANGED vars

-----------------------------------------------------------------------------

ClientRuns(c) == Notify(c) \/ Recheck(c) \/ Resume(c)
WorkerRuns(w) == Take(w) \/ NotifyFromTask(w) \/ Return(w) \/ Throw(w)
                 \/ CountError(w) \/ Finish(w)
OwnerRuns     == WakeAllToStop \/ Join

Next ==
  \/ \E c \in Clients :
       \/ Submit(c) \/ CallWaitAll(c) \/ CallWaitBelow(c) \/ Leave(c)
       \/ ClientRuns(c) \/ SpuriousWakeup(c)
  \/ \E w \in Workers :
       WorkerRuns(w) \/ SubmitFromTask(w) \/ SpuriousWorkerWakeup(w)
  \/ Stop \/ OwnerRuns
  \/ Gone

Spec == Init /\ [][Next]_vars

\* Threads that can move do move, and every task returns or throws. Nobody has
\* to submit, to wait or to destroy the pool.
FairSpec ==
  /\ Spec
  /\ \A c \in Clients : WF_vars(ClientRuns(c))
  /\ \A w \in Workers : WF_vars(WorkerRuns(w))
  /\ WF_vars(OwnerRuns)

-----------------------------------------------------------------------------
(* Properties *)

Running == {w \in Workers : wpc[w] \in {"run", "notify", "caught", "finish"}}

TypeOK ==
  /\ queued \in SUBSET (1..issued)
  /\ issued \in Nat
  /\ completed \in Nat
  /\ taskErrors \in Nat
  /\ stopping \in BOOLEAN
  /\ wpc \in [Workers -> {"idle", "asleep", "run", "notify", "caught", "finish", "exited"}]
  /\ job \in [Workers -> 0..issued]
  /\ \A w \in Running : job[w] # 0
  /\ cpc \in [Clients -> {"idle", "notify", "awaitAll", "awaitBelow", "wokenAll",
                          "wokenBelow", "drained", "left"}]
  /\ target \in [Clients -> 0..issued]
  /\ owner \in {"up", "notify", "join", "gone"}
  /\ finished \in SUBSET (1..issued)
  /\ thrown \in SUBSET (1..issued)

\* The counters tell the truth: issued_ - completed_, which backpressure and
\* waitAll() decide by, is exactly the number of tasks queued or in a worker.
CountersExact ==
  issued - completed = Cardinality(queued) + Cardinality(Running)

\* waitAll() returning with nothing submitted meanwhile means that every task
\* submitted before the call has finished and that each failure among them is
\* already in taskErrors(): the caller may read the tasks' results.
WaitAllDrains ==
  \A c \in Clients :
    cpc[c] = "drained" /\ issued = target[c] =>
      /\ 1..target[c] \subseteq finished
      /\ taskErrors = Cardinality(thrown)

\* Even when others submit during the wait, no task submitted before the call is
\* still in the queue when it returns: the oldest tasks are served first.
WaitAllDequeues ==
  \A c \in Clients :
    cpc[c] = "drained" => queued \cap (1..target[c]) = {}

\* The destructor drops nothing: when it returns every task the pool accepted
\* has run.
DestructorFinishesTasks ==
  owner = "gone" => finished = 1..issued

\* Every task that was accepted is eventually run to its end.
EveryTaskFinishes ==
  \A t \in 1..MaxTasks : t <= issued ~> t \in finished

\* waitAll() always returns, whatever the other clients go on doing, and so does
\* the destructor.
WaitsReturn ==
  /\ \A c \in Clients : cpc[c] = "awaitAll" ~> cpc[c] = "drained"
  /\ stopping ~> owner = "gone"
=============================================================================
