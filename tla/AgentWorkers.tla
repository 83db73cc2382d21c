---------------------------- MODULE AgentWorkers ----------------------------
(***************************************************************************)
(* The workers of one delegation step (analyze_jobs_parallel):             *)
(* analyzeJobsInParallel of lib/agent/runtime.ts over the agent_workers    *)
(* and agent_tool_calls rows of lib/agent/postgres-store.ts.               *)
(*                                                                         *)
(* An executor takes batches of queued workers and runs a batch's workers  *)
(* at once.  When its lease expires a second executor recovers the         *)
(* interrupted rows and delegates again, while the first may still run:    *)
(* both then start, complete and fail the same workers.                    *)
(*                                                                         *)
(* Abstractions.  Steps and tool calls of a worker, and of the run, are    *)
(* always charged together and counted once.  Recovery and the start of    *)
(* the step, the subject of AgentRuntime, are one action.                  *)
(*                                                                         *)
(* Faulty variants, used by nothing: OneBatchFewer, ChargesAnyway,         *)
(* CancelsAll.                                                             *)
(***************************************************************************)
EXTENDS Naturals, FiniteSets, FiniteSetsExt

CONSTANTS
  Executors,          \* resumes of the run, in order
  Workers,            \* number of jobs to analyse, in order
  Concurrency,        \* values of maxConcurrency
  MaxBatches,         \* batches an executor runs at most (20)
  MaxRunCalls,        \* what is left of the run's budget
  MaxFaults           \* bound: store failures and lost executors

MaxAttempts == 2      \* max_steps and max_tool_calls of a worker

ASSUME WorkersAssumption ==
  /\ {Executors, Workers, MaxBatches, MaxRunCalls, MaxFaults} \subseteq Nat
  /\ Concurrency \subseteq 1 .. 16 /\ MaxBatches >= MaxAttempts * Workers

Executor == 1 .. Executors
Worker == 1 .. Workers
Attempt == 1 .. MaxAttempts

VARIABLES
  concurrency,        \* the run's maxConcurrency
  workerStatus,       \* agent_workers.status, "none" before prepareWorkers
  used,               \* attempts charged to each worker
  callStatus,         \* agent_tool_calls.status by worker and attempt
  runCalls,           \* attempts charged to the run
  cancelRequested,    \* cancellation_requested_at is set
  place,              \* per executor, where it is
  batches,            \* per executor, batches it ran
  task,               \* per executor and worker, where the task is
  trying,             \* per executor and worker, the attempt it runs
  lapsed,             \* the lease of the first executor expired
  faults              \* bound counter

workerRows == <<workerStatus, used, callStatus, runCalls>>
workersVars ==
  <<concurrency, workerRows, cancelRequested, place, batches, task, trying, lapsed, faults>>

WorkersInit ==
  /\ concurrency \in Concurrency
  /\ workerStatus = [w \in Worker |-> "none"] /\ used = [w \in Worker |-> 0]
  /\ callStatus = [w \in Worker |-> [a \in Attempt |-> "none"]] /\ runCalls = 0
  /\ cancelRequested = FALSE /\ lapsed = FALSE /\ faults = 0
  /\ place = [e \in Executor |-> "away"] /\ batches = [e \in Executor |-> 0]
  /\ task = [e \in Executor |-> [w \in Worker |-> "none"]]
  /\ trying = [e \in Executor |-> [w \in Worker |-> 1]]

Goes(e, from, to) == place[e] = from /\ place' = [place EXCEPT ![e] = to]
TaskGoes(e, w, from, to) == task[e][w] = from /\ task' = [task EXCEPT ![e][w] = to]
WithStatus(status) == {w \in Worker : workerStatus[w] = status}

\* What a failed or interrupted worker becomes.
Requeued(w) == IF used[w] < MaxAttempts THEN "queued" ELSE "failed"
-----------------------------------------------------------------------------
\* The step starts: prepareWorkers inserts the rows that do not exist.
Delegate(e) ==
  /\ e = 1 /\ Goes(e, "away", "checking")
  /\ workerStatus' = [w \in Worker |-> "queued"]
  /\ UNCHANGED <<concurrency, used, callStatus, runCalls, cancelRequested, batches, task, trying,
                 lapsed, faults>>

\* The lease expires while the step runs: recoverInterrupted requeues the
\* running workers and fails their calls, and the step starts again.
DelegateAgain(e) ==
  /\ e > 1 /\ place[e - 1] # "away"
  /\ \E f \in Executor : place[f] \in {"checking", "listing", "batch", "lost"}
  /\ Goes(e, "away", "checking") /\ lapsed' = TRUE
  /\ workerStatus' = [w \in Worker |->
       IF workerStatus[w] = "running" THEN Requeued(w) ELSE workerStatus[w]]
  /\ callStatus' = [w \in Worker |-> [a \in Attempt |->
       IF callStatus[w][a] = "running" THEN "failed" ELSE callStatus[w][a]]]
  /\ UNCHANGED <<concurrency, used, runCalls, cancelRequested, batches, task, trying, faults>>

RequestCancel ==
  /\ ~cancelRequested /\ cancelRequested' = TRUE
  /\ UNCHANGED <<concurrency, workerRows, place, batches, task, trying, lapsed, faults>>
-----------------------------------------------------------------------------
\* Before each of 20 batches: is the run cancelled?
OneBatchFewer(e) == batches[e] + 1 < MaxBatches
MoreBatches(e) == batches[e] < MaxBatches
CancelsAll(w) == workerStatus[w] # "running"
Pending(w) == workerStatus[w] = "queued"

CheckRun(e) ==
  /\ UNCHANGED <<concurrency, used, callStatus, runCalls, cancelRequested, batches, task, trying,
                 lapsed, faults>>
  /\ \/ /\ MoreBatches(e) /\ ~cancelRequested /\ Goes(e, "checking", "listing")
        /\ UNCHANGED workerStatus
     \/ /\ MoreBatches(e) /\ cancelRequested /\ Goes(e, "checking", "reported")
        /\ workerStatus' = [w \in Worker |->
             IF Pending(w) THEN "cancelled" ELSE workerStatus[w]]
     \/ /\ ~MoreBatches(e) /\ Goes(e, "checking", "reported") /\ UNCHANGED workerStatus

\* The first queued workers that fit beside the running ones, by age.
Batch ==
  LET room == concurrency - Cardinality(WithStatus("running"))
  IN {w \in WithStatus("queued") : Cardinality({v \in WithStatus("queued") : v < w}) < room}

ListWorkers(e) ==
  /\ UNCHANGED <<concurrency, workerRows, cancelRequested, trying, lapsed, faults>>
  /\ \/ /\ Batch = {} /\ Goes(e, "listing", "reported") /\ UNCHANGED <<batches, task>>
     \/ /\ Batch # {} /\ Goes(e, "listing", "batch")
        /\ batches' = [batches EXCEPT ![e] = @ + 1]
        /\ task' = [task EXCEPT ![e] = [w \in Worker |->
                      IF w \in Batch THEN "starting" ELSE "none"]]

EndBatch(e) ==
  /\ Goes(e, "batch", "checking") /\ \A w \in Worker : task[e][w] = "none"
  /\ UNCHANGED <<concurrency, workerRows, cancelRequested, batches, task, trying, lapsed, faults>>
-----------------------------------------------------------------------------
\* startWorker, one transaction: claim the worker, charge the run, insert the
\* call.  A worker that is not queued is left; without budget it fails.
Claims(w) == workerStatus[w] = "queued" /\ used[w] < MaxAttempts
ChargesAnyway == TRUE
BudgetLeft == runCalls < MaxRunCalls

StartWorker(e, w) ==
  /\ task[e][w] = "starting"
  /\ UNCHANGED <<concurrency, cancelRequested, place, batches, lapsed, faults>>
  /\ \/ ~Claims(w) /\ TaskGoes(e, w, "starting", "none") /\ UNCHANGED <<workerRows, trying>>
     \/ /\ Claims(w) /\ used' = [used EXCEPT ![w] = @ + 1]
        /\ \/ /\ BudgetLeft /\ runCalls' = runCalls + 1
              /\ workerStatus' = [workerStatus EXCEPT ![w] = "running"]
              /\ callStatus' = [callStatus EXCEPT ![w][used'[w]] = "running"]
              /\ trying' = [trying EXCEPT ![e][w] = used'[w]]
              /\ TaskGoes(e, w, "starting", "executing")
           \/ /\ ~BudgetLeft /\ workerStatus' = [workerStatus EXCEPT ![w] = "failed"]
              /\ TaskGoes(e, w, "starting", "none")
              /\ UNCHANGED <<runCalls, callStatus, trying>>

\* completeWorker, guarded by the running row.
CompleteWorker(e, w) ==
  LET a == trying[e][w] IN
  /\ TaskGoes(e, w, "executing", "completed")
  /\ callStatus' = [callStatus EXCEPT ![w][a] = IF @ = "running" THEN "succeeded" ELSE @]
  /\ workerStatus' = [workerStatus EXCEPT ![w] = IF @ = "running" THEN "completed" ELSE @]
  /\ UNCHANGED <<concurrency, used, runCalls, cancelRequested, place, batches, trying, lapsed, faults>>
EndTask(e, w) ==
  /\ TaskGoes(e, w, "completed", "none")
  /\ UNCHANGED <<concurrency, workerRows, cancelRequested, place, batches, trying, lapsed, faults>>

\* failWorker, not guarded: after a failed, timed out or cancelled tool.
FailRows(e, w) ==
  /\ callStatus' = [callStatus EXCEPT ![w][trying[e][w]] = "failed"]
  /\ workerStatus' = [workerStatus EXCEPT ![w] = Requeued(w)]
FailWorker(e, w) ==
  /\ TaskGoes(e, w, "executing", "none") /\ FailRows(e, w)
  /\ UNCHANGED <<concurrency, used, runCalls, cancelRequested, place, batches, trying, lapsed, faults>>

\* The event of a completion cannot be written: the worker is failed.
EventFails(e, w) ==
  /\ faults < MaxFaults /\ faults' = faults + 1
  /\ TaskGoes(e, w, "completed", "none") /\ FailRows(e, w)
  /\ UNCHANGED <<concurrency, used, runCalls, cancelRequested, place, batches, trying, lapsed>>

\* The process stops.
LoseExecutor(e) ==
  /\ faults < MaxFaults /\ faults' = faults + 1
  /\ place[e] \in {"checking", "listing", "batch"} /\ place' = [place EXCEPT ![e] = "lost"]
  /\ task' = [task EXCEPT ![e] = [w \in Worker |-> "none"]]
  /\ UNCHANGED <<concurrency, workerRows, cancelRequested, batches, trying, lapsed>>
-----------------------------------------------------------------------------
WorkersNext ==
  \/ RequestCancel
  \/ \E e \in Executor :
       \/ Delegate(e) \/ DelegateAgain(e) \/ CheckRun(e) \/ ListWorkers(e) \/ EndBatch(e)
       \/ LoseExecutor(e)
       \/ \E w \in Worker :
            StartWorker(e, w) \/ CompleteWorker(e, w) \/ EndTask(e, w) \/ FailWorker(e, w)
              \/ EventFails(e, w)

WorkersSpec == WorkersInit /\ [][WorkersNext]_workersVars
-----------------------------------------------------------------------------
\* Workers, calls and tasks stay within their domains.
WorkersTypeOK ==
  /\ workerStatus \in [Worker -> {"none", "queued", "running", "completed", "failed", "cancelled"}]
  /\ used \in [Worker -> 0 .. MaxAttempts] /\ runCalls \in Nat /\ concurrency \in Concurrency
  /\ callStatus \in [Worker -> [Attempt -> {"none", "running", "succeeded", "failed"}]]
  /\ place \in [Executor -> {"away", "checking", "listing", "batch", "lost", "reported"}]
  /\ task \in [Executor -> [Worker -> {"none", "starting", "executing", "completed"}]]
  /\ trying \in [Executor -> [Worker -> Attempt]] /\ batches \in [Executor -> Nat]
  /\ faults \in Nat

Calls == {c \in Worker \X Attempt : callStatus[c[1]][c[2]] # "none"}

\* The run is charged once for every attempt that is made, and never beyond
\* its budget, although two executors may start the same worker.
AttemptsCharged == runCalls = Cardinality(Calls) /\ runCalls <= MaxRunCalls

\* An executor reports only when no worker can be tried again: the batches
\* are enough for every retry, one worker at a time.
BatchesSuffice ==
  ~lapsed /\ faults = 0 =>
    \A e \in Executor : place[e] = "reported" => WithStatus("queued") \cup WithStatus("running") = {}

\* A worker's result is undone only by an executor that has that worker in hand:
\* one that was still at work when its lease expired and another completed the
\* worker, or the one that completed it and cannot record that.  Never by a
\* cancellation, the recovery, a new delegation, the budget or what becomes of
\* the other workers (AGENT_RUNTIME.md: it "preserves successful worker results
\* if another worker fails").
Undoes(e, w) ==
  /\ task'[e][w] = "none" /\ workerStatus'[w] = Requeued(w)
  /\ \/ task[e][w] = "executing" /\ lapsed
     \/ task[e][w] = "completed" /\ faults' > faults
ResultsKept ==
  [][\A w \in Worker : workerStatus[w] = "completed" =>
       workerStatus'[w] = "completed" \/ \E e \in Executor : Undoes(e, w)]_workersVars
=============================================================================
