---------------------------- MODULE AgentStepProofs ----------------------------
(***************************************************************************)
(* What the steps of an agent's plan do to the workspace, and how one of   *)
(* them delegates: proofs about AgentWorkers, for any number of executors  *)
(* and workers and any budget, and about AgentTools, for any steps,        *)
(* attempts and failures.                                                  *)
(*                                                                         *)
(* The charge: an attempt no worker was charged for has no call (Unmade),  *)
(* and a task that runs, or writes its event, has one (Made), so only the  *)
(* transaction that charges the run inserts a call.  The result: until a   *)
(* lease expires the first executor is alone (Alone) and the workers its   *)
(* tasks run are running (Runs), so who undoes a result was overtaken.  The*)
(* batches: while it is alone every batch is worth an attempt (Worthwhile) *)
(* and a worker that waits has an attempt left (Retries), so the batches   *)
(* cannot run out before the attempts do.                                  *)
(*                                                                         *)
(* The tools: what an attempt remembers of a stage was recorded when it    *)
(* was read (StagesRead), and what a step reports as prepared is complete. *)
(***************************************************************************)
EXTENDS AgentWorkers, AgentTools, FiniteSetTheorems, TLAPS

\* The workers.
Unmade == \A w \in Worker : \A a \in Attempt : a > used[w] => callStatus[w][a] = "none"
Made == \A e \in Executor : \A w \in Worker :
          task[e][w] \in {"executing", "completed"} => callStatus[w][trying[e][w]] # "none"
Charged == IsFiniteSet(Calls) /\ AttemptsCharged

Alone == \A e \in Executor : ~lapsed /\ e > 1 => place[e] = "away"
Idle == \A e \in Executor : place[e] = "away" => \A w \in Worker : task[e][w] = "none"
Runs == \A e \in Executor : \A w \in Worker :
          ~lapsed /\ task[e][w] = "executing" => workerStatus[w] = "running"

\* Nothing happens before the first delegation.
Fresh == \A e \in Executor : e = 1 /\ place[e] = "away" =>
           /\ \A f \in Executor : place[f] = "away"
           /\ \A w \in Worker : workerStatus[w] = "none"

WorkersInv ==
  WorkersTypeOK /\ Unmade /\ Made /\ Charged /\ Alone /\ Idle /\ Runs /\ Fresh
-----------------------------------------------------------------------------
\* Every constant is a number.
LEMMA WorkersConstants ==
  /\ Executors \in Nat /\ Workers \in Nat /\ MaxBatches \in Nat /\ MaxRunCalls \in Nat
  /\ MaxFaults \in Nat /\ \A n \in Concurrency : n \in Nat
  BY WorkersAssumption

LEMMA WorkersInitInv == WorkersInit => WorkersInv
<1> SUFFICES ASSUME WorkersInit PROVE WorkersInv
  OBVIOUS
<1> USE WorkersConstants DEF WorkersInit
<1>1. WorkersTypeOK
  <2>1. 1 \in Attempt /\ 0 \in 0 .. MaxAttempts /\ 0 \in 0 .. MaxBatches
    BY DEF Attempt, MaxAttempts
  <2> QED BY <2>1 DEF WorkersTypeOK
<1>2. Calls = {}
  BY DEF Calls
<1>3. Charged
  BY <1>2, FS_EmptySet DEF Charged, AttemptsCharged
<1>4. Unmade /\ Made /\ Alone /\ Idle /\ Runs /\ Fresh
  BY DEF Unmade, Made, Alone, Idle, Runs, Fresh
<1> QED
  BY <1>1, <1>3, <1>4 DEF WorkersInv

-----------------------------------------------------------------------------
\* Type correctness.

\* What a start does: nothing to a worker another executor claimed, and to a
\* worker it claims what the run's budget allows.
Skipped(e, w) ==
  /\ TaskGoes(e, w, "starting", "none") /\ UNCHANGED <<workerRows, trying>>
  /\ UNCHANGED <<concurrency, cancelRequested, place, batches, lapsed, faults>>
Claimed(w) ==
  /\ used[w] + 1 \in 0 .. MaxAttempts /\ used[w] + 1 \in Attempt /\ workerStatus[w] = "queued"
  /\ used' = [used EXCEPT ![w] = used[w] + 1]
Started(e, w) ==
  /\ Claimed(w) /\ BudgetLeft /\ runCalls' = runCalls + 1
  /\ workerStatus' = [workerStatus EXCEPT ![w] = "running"]
  /\ callStatus' = [callStatus EXCEPT ![w][used[w] + 1] = "running"]
  /\ trying' = [trying EXCEPT ![e][w] = used[w] + 1]
  /\ TaskGoes(e, w, "starting", "executing")
  /\ UNCHANGED <<concurrency, cancelRequested, place, batches, lapsed, faults>>
OutOfBudget(e, w) ==
  /\ Claimed(w) /\ workerStatus' = [workerStatus EXCEPT ![w] = "failed"]
  /\ TaskGoes(e, w, "starting", "none") /\ UNCHANGED <<runCalls, callStatus, trying>>
  /\ UNCHANGED <<concurrency, cancelRequested, place, batches, lapsed, faults>>

LEMMA StartCases ==
  ASSUME WorkersTypeOK, NEW e \in Executor, NEW w \in Worker, StartWorker(e, w)
  PROVE  Skipped(e, w) \/ Started(e, w) \/ OutOfBudget(e, w)
<1>1. used \in [Worker -> 0 .. MaxAttempts]
  BY DEF WorkersTypeOK
<1>2. CASE ~Claims(w)
  BY <1>2 DEF StartWorker, Skipped
<1>3. CASE Claims(w)
  <2>1. used[w] + 1 \in 0 .. MaxAttempts /\ used[w] + 1 \in Attempt /\ workerStatus[w] = "queued"
    BY <1>1, <1>3 DEF Claims, Attempt, MaxAttempts
  <2>2. used' = [used EXCEPT ![w] = used[w] + 1]
    BY <1>3 DEF StartWorker
  <2>3. used'[w] = used[w] + 1
    BY <1>1, <2>2
  <2>4. Claimed(w)
    BY <2>1, <2>2 DEF Claimed
  <2>5. CASE BudgetLeft
    BY <1>3, <2>3, <2>4, <2>5 DEF StartWorker, Started
  <2>6. CASE ~BudgetLeft
    BY <1>3, <2>4, <2>6 DEF StartWorker, OutOfBudget
  <2> QED BY <2>5, <2>6
<1> QED BY <1>2, <1>3

\* Workers, calls and tasks stay within their domains.
LEMMA WorkersTypeNext ==
  WorkersTypeOK /\ [WorkersNext]_workersVars => WorkersTypeOK'
<1> SUFFICES ASSUME WorkersTypeOK, [WorkersNext]_workersVars
             PROVE  WorkersTypeOK'
  OBVIOUS
<1> USE WorkersConstants DEF workerRows, WorkersTypeOK
<1>1. 1 \in Attempt /\ runCalls + 1 \in Nat /\ faults + 1 \in Nat
  BY DEF Attempt, MaxAttempts
<1>2. CASE RequestCancel
  BY <1>1, <1>2 DEF RequestCancel
<1>3. ASSUME NEW e \in Executor, Delegate(e) PROVE WorkersTypeOK'
  BY <1>1, <1>3 DEF Delegate, Goes, TaskGoes, Requeued
<1>4. ASSUME NEW e \in Executor, DelegateAgain(e) PROVE WorkersTypeOK'
  BY <1>1, <1>4 DEF DelegateAgain, Goes, TaskGoes, Requeued
<1>5. ASSUME NEW e \in Executor, CheckRun(e) PROVE WorkersTypeOK'
  BY <1>1, <1>5 DEF CheckRun, Pending, Goes, TaskGoes, Requeued
<1>6. ASSUME NEW e \in Executor, ListWorkers(e) PROVE WorkersTypeOK'
  <2> DEFINE chosen == [w \in Worker |-> IF w \in Batch THEN "starting" ELSE "none"]
  <2>1. chosen \in [Worker -> {"none", "starting", "executing", "completed"}] /\ batches[e] + 1 \in Nat
    OBVIOUS
  <2>2. /\ task' = task \/ task' = [task EXCEPT ![e] = chosen]
        /\ batches' = batches \/ batches' = [batches EXCEPT ![e] = batches[e] + 1]
        /\ place' = [place EXCEPT ![e] = place'[e]] /\ place'[e] \in {"reported", "batch"}
    BY <1>6 DEF ListWorkers, Goes
  <2> HIDE DEF chosen
  <2>4. task' \in [Executor -> [Worker -> {"none", "starting", "executing", "completed"}]]
    BY <2>1, <2>2
  <2>5. batches' \in [Executor -> Nat]
    BY <2>1, <2>2
  <2>6. place' \in [Executor -> {"away", "checking", "listing", "batch", "lost", "reported"}]
    BY <2>2
  <2>7. /\ faults' \in Nat /\ runCalls' \in Nat /\ concurrency' \in Concurrency
        /\ workerStatus' = workerStatus /\ used' = used /\ callStatus' = callStatus /\ trying' = trying
    BY <1>6 DEF ListWorkers
  <2> QED BY <2>4, <2>5, <2>6, <2>7
<1>7. ASSUME NEW e \in Executor, EndBatch(e) PROVE WorkersTypeOK'
  BY <1>1, <1>7 DEF EndBatch, Goes, TaskGoes, Requeued
<1>8. ASSUME NEW e \in Executor, LoseExecutor(e) PROVE WorkersTypeOK'
  BY <1>1, <1>8 DEF LoseExecutor, Goes, TaskGoes, Requeued
<1>9. ASSUME NEW e \in Executor, NEW w \in Worker, StartWorker(e, w) PROVE WorkersTypeOK'
  <2>1. CASE Skipped(e, w)
    BY <1>1, <2>1 DEF Skipped, TaskGoes
  <2>2. CASE Started(e, w)
    BY <1>1, <2>2 DEF Started, Claimed, TaskGoes
  <2>3. CASE OutOfBudget(e, w)
    BY <1>1, <2>3 DEF OutOfBudget, Claimed, TaskGoes
  <2> QED BY <1>9, <2>1, <2>2, <2>3, StartCases
<1>10. ASSUME NEW e \in Executor, NEW w \in Worker, CompleteWorker(e, w) PROVE WorkersTypeOK'
  BY <1>1, <1>10 DEF CompleteWorker, Goes, TaskGoes, Requeued
<1>11. ASSUME NEW e \in Executor, NEW w \in Worker, EndTask(e, w) PROVE WorkersTypeOK'
  BY <1>1, <1>11 DEF EndTask, Goes, TaskGoes, Requeued
<1>12. ASSUME NEW e \in Executor, NEW w \in Worker, FailWorker(e, w) PROVE WorkersTypeOK'
  BY <1>1, <1>12 DEF FailWorker, FailRows, Goes, TaskGoes, Requeued
<1>13. ASSUME NEW e \in Executor, NEW w \in Worker, EventFails(e, w) PROVE WorkersTypeOK'
  BY <1>1, <1>13 DEF EventFails, FailRows, Goes, TaskGoes, Requeued
<1>14. CASE UNCHANGED workersVars
  BY <1>1, <1>14 DEF workersVars
<1> QED
  BY <1>2, <1>3, <1>4, <1>5, <1>6, <1>7, <1>8, <1>9, <1>10, <1>11, <1>12, <1>13, <1>14 DEF WorkersNext

-----------------------------------------------------------------------------
\* The result of a worker.

\* The first executor is alone until a lease expires, and its tasks' workers run.
LEMMA AloneNext ==
  WorkersTypeOK /\ Alone /\ Idle /\ Runs /\ [WorkersNext]_workersVars => (Alone /\ Idle /\ Runs)'
<1> SUFFICES ASSUME WorkersTypeOK /\ Alone /\ Idle /\ Runs, [WorkersNext]_workersVars
             PROVE  (Alone /\ Idle /\ Runs)'
  OBVIOUS
<1> USE WorkersConstants DEF workerRows, WorkersTypeOK, Alone, Idle, Runs, Executor
<1>2. CASE RequestCancel
  BY <1>2 DEF RequestCancel
<1>3. ASSUME NEW e \in Executor, Delegate(e) PROVE (Alone /\ Idle /\ Runs)'
  BY <1>3 DEF Delegate, Goes, TaskGoes, Requeued
<1>4. ASSUME NEW e \in Executor, DelegateAgain(e) PROVE (Alone /\ Idle /\ Runs)'
  BY <1>4 DEF DelegateAgain, Goes, TaskGoes, Requeued
<1>5. ASSUME NEW e \in Executor, CheckRun(e) PROVE (Alone /\ Idle /\ Runs)'
  <2>1. /\ place[e] = "checking" /\ place' = [place EXCEPT ![e] = place'[e]]
        /\ place'[e] # "away" /\ lapsed' = lapsed /\ task' = task
    BY <1>5 DEF CheckRun, Goes
  <2>2. \A w \in Worker : workerStatus[w] = "running" => workerStatus'[w] = "running"
    BY <1>5 DEF CheckRun, Pending
  <2> QED BY <2>1, <2>2
<1>6. ASSUME NEW e \in Executor, ListWorkers(e) PROVE (Alone /\ Idle /\ Runs)'
  <2> DEFINE chosen == [w \in Worker |-> IF w \in Batch THEN "starting" ELSE "none"]
  <2>1. \A f \in Executor \ {e} : task'[f] = task[f] /\ place'[f] = place[f]
    BY <1>6 DEF ListWorkers, Goes
  <2>2. /\ place[e] = "listing" /\ place'[e] \in {"reported", "batch"} /\ lapsed' = lapsed
        /\ workerStatus' = workerStatus
    BY <1>6 DEF ListWorkers, Goes
  <2>3. task' = task \/ task' = [task EXCEPT ![e] = chosen]
    BY <1>6 DEF ListWorkers
  <2>4. \A w \in Worker : chosen[w] # "executing"
    OBVIOUS
  <2> HIDE DEF chosen
  <2>5. \A w \in Worker : task'[e][w] = "executing" => task[e][w] = "executing"
    BY <2>3, <2>4
  <2>6. Alone'
    BY <2>1, <2>2
  <2>7. Idle'
    BY <2>1, <2>2
  <2>8. Runs'
    <3>1. \A f \in Executor : \A w \in Worker : task'[f][w] = "executing" => task[f][w] = "executing"
      BY <2>1, <2>5
    <3> QED BY <2>2, <3>1
  <2> QED BY <2>6, <2>7, <2>8
<1>7. ASSUME NEW e \in Executor, EndBatch(e) PROVE (Alone /\ Idle /\ Runs)'
  BY <1>7 DEF EndBatch, Goes, TaskGoes, Requeued
<1>8. ASSUME NEW e \in Executor, LoseExecutor(e) PROVE (Alone /\ Idle /\ Runs)'
  BY <1>8 DEF LoseExecutor, Goes, TaskGoes, Requeued
<1>9. ASSUME NEW e \in Executor, NEW w \in Worker, StartWorker(e, w) PROVE (Alone /\ Idle /\ Runs)'
  <2>1. CASE Skipped(e, w)
    BY <2>1 DEF Skipped, TaskGoes
  <2>2. CASE Started(e, w)
    BY <2>2 DEF Started, Claimed, TaskGoes
  <2>3. CASE OutOfBudget(e, w)
    BY <2>3 DEF OutOfBudget, Claimed, TaskGoes
  <2> QED BY <1>9, <2>1, <2>2, <2>3, StartCases
<1>10. ASSUME NEW e \in Executor, NEW w \in Worker, CompleteWorker(e, w) PROVE (Alone /\ Idle /\ Runs)'
  BY <1>10 DEF CompleteWorker, Goes, TaskGoes, Requeued
<1>11. ASSUME NEW e \in Executor, NEW w \in Worker, EndTask(e, w) PROVE (Alone /\ Idle /\ Runs)'
  BY <1>11 DEF EndTask, Goes, TaskGoes, Requeued
<1>12. ASSUME NEW e \in Executor, NEW w \in Worker, FailWorker(e, w) PROVE (Alone /\ Idle /\ Runs)'
  BY <1>12 DEF FailWorker, FailRows, Goes, TaskGoes, Requeued
<1>13. ASSUME NEW e \in Executor, NEW w \in Worker, EventFails(e, w) PROVE (Alone /\ Idle /\ Runs)'
  BY <1>13 DEF EventFails, FailRows, Goes, TaskGoes, Requeued
<1>14. CASE UNCHANGED workersVars
  BY <1>14 DEF workersVars
<1> QED
  BY <1>2, <1>3, <1>4, <1>5, <1>6, <1>7, <1>8, <1>9, <1>10, <1>11, <1>12, <1>13, <1>14 DEF WorkersNext

\* Nothing happens before the first delegation.
LEMMA FreshNext ==
  WorkersTypeOK /\ Idle /\ Fresh /\ [WorkersNext]_workersVars => Fresh'
<1> SUFFICES ASSUME WorkersTypeOK /\ Idle /\ Fresh, [WorkersNext]_workersVars
             PROVE  Fresh'
  OBVIOUS
<1> USE WorkersConstants DEF workerRows, WorkersTypeOK, Idle, Fresh, Executor
<1>2. CASE RequestCancel
  BY <1>2 DEF RequestCancel
<1>3. ASSUME NEW e \in Executor, Delegate(e) PROVE Fresh'
  BY <1>3 DEF Delegate, Goes, TaskGoes, Requeued
<1>4. ASSUME NEW e \in Executor, DelegateAgain(e) PROVE Fresh'
  BY <1>4 DEF DelegateAgain, Goes, TaskGoes, Requeued
<1>5. ASSUME NEW e \in Executor, CheckRun(e) PROVE Fresh'
  BY <1>5 DEF CheckRun, Pending, Goes, TaskGoes, Requeued
<1>6. ASSUME NEW e \in Executor, ListWorkers(e) PROVE Fresh'
  BY <1>6 DEF ListWorkers, Goes, TaskGoes, Requeued
<1>7. ASSUME NEW e \in Executor, EndBatch(e) PROVE Fresh'
  BY <1>7 DEF EndBatch, Goes, TaskGoes, Requeued
<1>8. ASSUME NEW e \in Executor, LoseExecutor(e) PROVE Fresh'
  BY <1>8 DEF LoseExecutor, Goes, TaskGoes, Requeued
<1>9. ASSUME NEW e \in Executor, NEW w \in Worker, StartWorker(e, w) PROVE Fresh'
  <2>1. CASE Skipped(e, w)
    BY <2>1 DEF Skipped, TaskGoes
  <2>2. CASE Started(e, w)
    BY <2>2 DEF Started, Claimed, TaskGoes
  <2>3. CASE OutOfBudget(e, w)
    BY <2>3 DEF OutOfBudget, Claimed, TaskGoes
  <2> QED BY <1>9, <2>1, <2>2, <2>3, StartCases
<1>10. ASSUME NEW e \in Executor, NEW w \in Worker, CompleteWorker(e, w) PROVE Fresh'
  BY <1>10 DEF CompleteWorker, Goes, TaskGoes, Requeued
<1>11. ASSUME NEW e \in Executor, NEW w \in Worker, EndTask(e, w) PROVE Fresh'
  BY <1>11 DEF EndTask, Goes, TaskGoes, Requeued
<1>12. ASSUME NEW e \in Executor, NEW w \in Worker, FailWorker(e, w) PROVE Fresh'
  BY <1>12 DEF FailWorker, FailRows, Goes, TaskGoes, Requeued
<1>13. ASSUME NEW e \in Executor, NEW w \in Worker, EventFails(e, w) PROVE Fresh'
  BY <1>13 DEF EventFails, FailRows, Goes, TaskGoes, Requeued
<1>14. CASE UNCHANGED workersVars
  BY <1>14 DEF workersVars
<1> QED
  BY <1>2, <1>3, <1>4, <1>5, <1>6, <1>7, <1>8, <1>9, <1>10, <1>11, <1>12, <1>13, <1>14 DEF WorkersNext

\* A worker's result is undone only by an executor that has it in hand.
LEMMA ResultStep ==
  WorkersInv /\ [WorkersNext]_workersVars =>
    [\A w \in Worker : workerStatus[w] = "completed" =>
       workerStatus'[w] = "completed" \/ \E e \in Executor : Undoes(e, w)]_workersVars
<1> SUFFICES ASSUME WorkersInv, [WorkersNext]_workersVars, NEW v \in Worker,
                    workerStatus[v] = "completed", workerStatus'[v] # "completed"
             PROVE  \E e \in Executor : Undoes(e, v)
  OBVIOUS
<1> USE DEF workerRows
<1>1. /\ faults \in Nat /\ task \in [Executor -> [Worker -> {"none", "starting", "executing", "completed"}]]
      /\ workerStatus \in [Worker -> {"none", "queued", "running", "completed", "failed", "cancelled"}]
  BY DEF WorkersInv, WorkersTypeOK
<1>2. CASE RequestCancel
  BY <1>2 DEF RequestCancel
<1>3. ASSUME NEW e \in Executor, Delegate(e) PROVE FALSE
  BY <1>1, <1>3 DEF Delegate, Goes, WorkersInv, Fresh
<1>4. ASSUME NEW e \in Executor, DelegateAgain(e) PROVE FALSE
  BY <1>1, <1>4 DEF DelegateAgain
<1>5. ASSUME NEW e \in Executor, CheckRun(e) PROVE FALSE
  BY <1>1, <1>5 DEF CheckRun, Pending
<1>6. ASSUME NEW e \in Executor, ListWorkers(e) \/ EndBatch(e) \/ LoseExecutor(e) PROVE FALSE
  BY <1>6 DEF ListWorkers, EndBatch, LoseExecutor
<1>7. ASSUME NEW e \in Executor, NEW w \in Worker, StartWorker(e, w) PROVE FALSE
  BY <1>1, <1>7 DEF StartWorker, Claims
<1>8. ASSUME NEW e \in Executor, NEW w \in Worker, CompleteWorker(e, w) \/ EndTask(e, w) PROVE FALSE
  BY <1>1, <1>8 DEF CompleteWorker, EndTask
<1>9. ASSUME NEW e \in Executor, NEW w \in Worker, FailWorker(e, w) PROVE Undoes(e, v)
  <2>1. w = v /\ workerStatus'[v] = Requeued(v) /\ task[e][v] = "executing" /\ task'[e][v] = "none"
    BY <1>1, <1>9 DEF FailWorker, FailRows, TaskGoes
  <2>2. lapsed
    BY <2>1 DEF WorkersInv, Runs
  <2> QED
    BY <2>1, <2>2 DEF Undoes
<1>10. ASSUME NEW e \in Executor, NEW w \in Worker, EventFails(e, w) PROVE Undoes(e, v)
  <2>1. w = v /\ workerStatus'[v] = Requeued(v) /\ task[e][v] = "completed" /\ task'[e][v] = "none"
    BY <1>1, <1>10 DEF EventFails, FailRows, TaskGoes
  <2> QED
    BY <1>1, <1>10, <2>1 DEF Undoes, EventFails
<1>11. CASE UNCHANGED workersVars
  BY <1>11 DEF workersVars
<1> QED
  BY <1>2, <1>3, <1>4, <1>5, <1>6, <1>7, <1>8, <1>9, <1>10, <1>11 DEF WorkersNext
-----------------------------------------------------------------------------
\* The charge.

\* Calls are made in order, and stay made.
LEMMA CallsNext ==
  WorkersTypeOK /\ Unmade /\ Made /\ [WorkersNext]_workersVars => (Unmade /\ Made)'
<1> SUFFICES ASSUME WorkersTypeOK /\ Unmade /\ Made, [WorkersNext]_workersVars
             PROVE  (Unmade /\ Made)'
  OBVIOUS
<1> USE WorkersConstants DEF workerRows, Unmade, Made
<1>0. used \in [Worker -> 0 .. MaxAttempts] /\ trying \in [Executor -> [Worker -> Attempt]]
  BY DEF WorkersTypeOK
<1>1. /\ used \in [Worker -> 0 .. MaxAttempts] /\ trying \in [Executor -> [Worker -> Attempt]]
      /\ callStatus \in [Worker -> [Attempt -> {"none", "running", "succeeded", "failed"}]]
      /\ task \in [Executor -> [Worker -> {"none", "starting", "executing", "completed"}]]
      /\ \A w \in Worker : used[w] \in Nat
      /\ \A a \in Attempt : a \in Nat
  <2>1. \A w \in Worker : used[w] \in Nat
    BY <1>0 DEF MaxAttempts
  <2>2. \A a \in Attempt : a \in Nat
    BY DEF Attempt, MaxAttempts
  <2> QED BY <1>0, <2>1, <2>2 DEF WorkersTypeOK
<1>2. CASE RequestCancel
  BY <1>1, <1>2 DEF RequestCancel
<1>3. ASSUME NEW e \in Executor, Delegate(e) PROVE (Unmade /\ Made)'
  BY <1>1, <1>3 DEF Delegate, Goes, TaskGoes, Requeued
<1>4. ASSUME NEW e \in Executor, DelegateAgain(e) PROVE (Unmade /\ Made)'
  BY <1>1, <1>4 DEF DelegateAgain, Goes, TaskGoes, Requeued
<1>5. ASSUME NEW e \in Executor, CheckRun(e) PROVE (Unmade /\ Made)'
  BY <1>1, <1>5 DEF CheckRun, Pending, Goes, TaskGoes, Requeued
<1>6. ASSUME NEW e \in Executor, ListWorkers(e) PROVE (Unmade /\ Made)'
  <2> DEFINE chosen == [w \in Worker |-> IF w \in Batch THEN "starting" ELSE "none"]
  <2>1. task' = task \/ task' = [task EXCEPT ![e] = chosen]
    BY <1>6 DEF ListWorkers
  <2>2. \A w \in Worker : ~(chosen[w] \in {"executing", "completed"})
    OBVIOUS
  <2> HIDE DEF chosen
  <2>3. \A f \in Executor : \A w \in Worker : task'[f][w] \in {task[f][w], chosen[w]}
    BY <1>1, <2>1
  <2>4. UNCHANGED <<used, callStatus, trying>>
    BY <1>6 DEF ListWorkers
  <2> QED BY <2>2, <2>3, <2>4
<1>7. ASSUME NEW e \in Executor, EndBatch(e) PROVE (Unmade /\ Made)'
  BY <1>1, <1>7 DEF EndBatch, Goes, TaskGoes, Requeued
<1>8. ASSUME NEW e \in Executor, LoseExecutor(e) PROVE (Unmade /\ Made)'
  BY <1>1, <1>8 DEF LoseExecutor, Goes, TaskGoes, Requeued
<1>9. ASSUME NEW e \in Executor, NEW w \in Worker, StartWorker(e, w) PROVE (Unmade /\ Made)'
  <2>1. CASE Skipped(e, w)
    BY <1>1, <2>1 DEF Skipped, TaskGoes
  <2>2. CASE Started(e, w)
    <3>1. \A v \in Worker : \A a \in Attempt :
            callStatus'[v][a] = IF v = w /\ a = used[w] + 1 THEN "running" ELSE callStatus[v][a]
      BY <1>1, <2>2 DEF Started
    <3>2. \A v \in Worker : used'[v] = IF v = w THEN used[w] + 1 ELSE used[v]
      BY <1>1, <2>2 DEF Started, Claimed
    <3>3. Unmade'
      <4>2. ASSUME NEW v \in Worker, NEW a \in Attempt, a > used'[v] PROVE callStatus'[v][a] = "none"
        <5>1. a > used[v] /\ ~(v = w /\ a = used[w] + 1)
          BY <1>1, <3>2, <4>2
        <5> QED BY <3>1, <5>1
      <4> QED BY <4>2
    <3>4. \A f \in Executor : \A v \in Worker :
            IF f = e /\ v = w THEN trying'[f][v] = used[w] + 1
                              ELSE trying'[f][v] = trying[f][v] /\ task'[f][v] = task[f][v]
      BY <1>1, <2>2 DEF Started, TaskGoes
    <3>5. \A f \in Executor : \A v \in Worker : trying[f][v] \in Attempt /\ used[w] + 1 \in Attempt
      BY <1>1, <2>2 DEF Started, Claimed
    <3>6. ASSUME NEW f \in Executor, NEW v \in Worker, task'[f][v] \in {"executing", "completed"}
          PROVE  callStatus'[v][trying'[f][v]] # "none"
      <4>1. CASE f = e /\ v = w
        BY <3>1, <3>4, <3>5, <4>1
      <4>2. CASE ~(f = e /\ v = w)
        BY <3>1, <3>4, <3>5, <3>6, <4>2
      <4> QED BY <4>1, <4>2
    <3> QED BY <3>3, <3>6
  <2>3. CASE OutOfBudget(e, w)
    <3>1. \A v \in Worker : used'[v] = IF v = w THEN used[w] + 1 ELSE used[v]
      BY <1>1, <2>3 DEF OutOfBudget, Claimed
    <3>2. UNCHANGED <<callStatus, trying>>
      BY <1>1, <2>3 DEF OutOfBudget
    <3>3. \A f \in Executor : \A v \in Worker : task'[f][v] = task[f][v] \/ task'[f][v] = "none"
      BY <1>1, <2>3 DEF OutOfBudget, TaskGoes
    <3>5. \A v \in Worker : \A a \in Attempt : a > used'[v] => a > used[v]
      BY <1>1, <3>1
    <3>6. Unmade'
      BY <3>2, <3>5
    <3>7. Made'
      BY <3>2, <3>3
    <3> QED BY <3>6, <3>7
  <2> QED BY <1>9, <2>1, <2>2, <2>3, StartCases
<1>10. ASSUME NEW e \in Executor, NEW w \in Worker, CompleteWorker(e, w) PROVE (Unmade /\ Made)'
  BY <1>1, <1>10 DEF CompleteWorker, Goes, TaskGoes, Requeued
<1>11. ASSUME NEW e \in Executor, NEW w \in Worker, EndTask(e, w) PROVE (Unmade /\ Made)'
  BY <1>1, <1>11 DEF EndTask, Goes, TaskGoes, Requeued
<1>12. ASSUME NEW e \in Executor, NEW w \in Worker, FailWorker(e, w) PROVE (Unmade /\ Made)'
  BY <1>1, <1>12 DEF FailWorker, FailRows, Goes, TaskGoes, Requeued
<1>13. ASSUME NEW e \in Executor, NEW w \in Worker, EventFails(e, w) PROVE (Unmade /\ Made)'
  BY <1>1, <1>13 DEF EventFails, FailRows, Goes, TaskGoes, Requeued
<1>14. CASE UNCHANGED workersVars
  BY <1>1, <1>14 DEF workersVars
<1> QED
  BY <1>2, <1>3, <1>4, <1>5, <1>6, <1>7, <1>8, <1>9, <1>10, <1>11, <1>12, <1>13, <1>14 DEF WorkersNext

\* The run and its calls, but for the start of a worker.
Uncharged ==
  /\ runCalls' = runCalls
  /\ \A w \in Worker : \A a \in Attempt : callStatus'[w][a] = "none" <=> callStatus[w][a] = "none"
ChargedAtMostOnce == Uncharged \/ \E e \in Executor : \E w \in Worker : Started(e, w)

\* Only a start that claims its worker makes a call or charges the run.
LEMMA OnlyStartsCharge ==
  WorkersTypeOK /\ Made /\ [WorkersNext]_workersVars => ChargedAtMostOnce
<1> SUFFICES ASSUME WorkersTypeOK /\ Made, [WorkersNext]_workersVars
             PROVE  ChargedAtMostOnce
  OBVIOUS
<1> USE WorkersConstants DEF workerRows, WorkersTypeOK, Made, Uncharged, ChargedAtMostOnce
<1>2. CASE RequestCancel
  BY <1>2 DEF RequestCancel
<1>3. ASSUME NEW e \in Executor, Delegate(e) PROVE ChargedAtMostOnce
  BY <1>3 DEF Delegate, Goes, TaskGoes, Requeued
<1>4. ASSUME NEW e \in Executor, DelegateAgain(e) PROVE ChargedAtMostOnce
  BY <1>4 DEF DelegateAgain, Goes, TaskGoes, Requeued
<1>5. ASSUME NEW e \in Executor, CheckRun(e) PROVE ChargedAtMostOnce
  BY <1>5 DEF CheckRun, Pending, Goes, TaskGoes, Requeued
<1>6. ASSUME NEW e \in Executor, ListWorkers(e) PROVE ChargedAtMostOnce
  BY <1>6 DEF ListWorkers, Goes, TaskGoes, Requeued
<1>7. ASSUME NEW e \in Executor, EndBatch(e) PROVE ChargedAtMostOnce
  BY <1>7 DEF EndBatch, Goes, TaskGoes, Requeued
<1>8. ASSUME NEW e \in Executor, LoseExecutor(e) PROVE ChargedAtMostOnce
  BY <1>8 DEF LoseExecutor, Goes, TaskGoes, Requeued
<1>9. ASSUME NEW e \in Executor, NEW w \in Worker, StartWorker(e, w) PROVE ChargedAtMostOnce
  <2>1. CASE Skipped(e, w)
    BY <2>1 DEF Skipped, Uncharged
  <2>2. CASE OutOfBudget(e, w)
    BY <2>2 DEF OutOfBudget, Uncharged
  <2> QED BY <1>9, <2>1, <2>2, StartCases
<1>10. ASSUME NEW e \in Executor, NEW w \in Worker, CompleteWorker(e, w) PROVE ChargedAtMostOnce
  BY <1>10 DEF CompleteWorker, Goes, TaskGoes, Requeued
<1>11. ASSUME NEW e \in Executor, NEW w \in Worker, EndTask(e, w) PROVE ChargedAtMostOnce
  BY <1>11 DEF EndTask, Goes, TaskGoes, Requeued
<1>12. ASSUME NEW e \in Executor, NEW w \in Worker, FailWorker(e, w) PROVE ChargedAtMostOnce
  <2>1. callStatus[w][trying[e][w]] # "none" /\ trying[e][w] \in Attempt
    BY <1>12 DEF TaskGoes, FailWorker
  <2> QED BY <1>12, <2>1 DEF FailRows, FailWorker, Uncharged
<1>13. ASSUME NEW e \in Executor, NEW w \in Worker, EventFails(e, w) PROVE ChargedAtMostOnce
  <2>1. callStatus[w][trying[e][w]] # "none" /\ trying[e][w] \in Attempt
    BY <1>13 DEF TaskGoes, EventFails
  <2> QED BY <1>13, <2>1 DEF FailRows, EventFails, Uncharged
<1>14. CASE UNCHANGED workersVars
  BY <1>14 DEF workersVars
<1> QED
  BY <1>2, <1>3, <1>4, <1>5, <1>6, <1>7, <1>8, <1>9, <1>10, <1>11, <1>12, <1>13, <1>14 DEF WorkersNext

\* The run is charged once for every attempt that is made, within its budget.
LEMMA ChargedNext ==
  WorkersTypeOK /\ Unmade /\ Made /\ Charged /\ [WorkersNext]_workersVars => Charged'
<1> SUFFICES ASSUME WorkersTypeOK, Unmade, Made, Charged, [WorkersNext]_workersVars
             PROVE  Charged'
  OBVIOUS
<1>1. /\ runCalls \in Nat /\ MaxRunCalls \in Nat
      /\ callStatus \in [Worker -> [Attempt -> {"none", "running", "succeeded", "failed"}]]
  BY WorkersConstants DEF WorkersTypeOK
<1>2. CASE Uncharged
  <2>1. Calls' = Calls
    BY <1>2 DEF Uncharged, Calls
  <2> QED BY <1>2, <2>1 DEF Uncharged, Charged, AttemptsCharged
<1>3. ASSUME NEW e \in Executor, NEW w \in Worker, Started(e, w) PROVE Charged'
  <2> DEFINE made == <<w, used[w] + 1>>
  <2>1. used[w] \in 0 .. MaxAttempts /\ used[w] + 1 \in Attempt
    BY <1>3 DEF WorkersTypeOK, Started, Claimed
  <2>2. callStatus[w][used[w] + 1] = "none"
    BY <2>1 DEF Unmade, MaxAttempts
  <2>3. made \notin Calls
    BY <2>2 DEF Calls
  <2>4. Calls' = Calls \cup {made}
    <3>1. \A v \in Worker : \A a \in Attempt :
            callStatus'[v][a] = IF v = w /\ a = used[w] + 1 THEN "running" ELSE callStatus[v][a]
      BY <1>1, <1>3 DEF Started
    <3>2. \A v \in Worker : \A a \in Attempt :
            callStatus'[v][a] # "none" <=> <<v, a>> = made \/ callStatus[v][a] # "none"
      BY <3>1
    <3> QED BY <2>1, <3>2 DEF Calls
  <2>5. IsFiniteSet(Calls') /\ Cardinality(Calls') = Cardinality(Calls) + 1
    BY <2>3, <2>4, FS_AddElement DEF Charged
  <2>6. runCalls' = runCalls + 1 /\ runCalls < MaxRunCalls
    BY <1>3 DEF Started, BudgetLeft
  <2> QED BY <1>1, <2>5, <2>6 DEF Charged, AttemptsCharged
<1> QED
  BY <1>2, <1>3, OnlyStartsCharge DEF ChargedAtMostOnce
-----------------------------------------------------------------------------
\* The theorems.
LEMMA WorkersAlways == WorkersSpec => []WorkersInv
<1>1. WorkersInv /\ [WorkersNext]_workersVars => WorkersInv'
  BY WorkersTypeNext, AloneNext, FreshNext, CallsNext, ChargedNext DEF WorkersInv
<1> QED
  BY <1>1, WorkersInitInv, PTL DEF WorkersSpec

\* Workers, calls and tasks stay within their domains.
THEOREM WorkersTyped == WorkersSpec => []WorkersTypeOK
<1>1. WorkersInv => WorkersTypeOK
  BY DEF WorkersInv
<1> QED
  BY <1>1, WorkersAlways, PTL

\* The run is charged once for every attempt, and never beyond its budget, for
\* any number of executors that start the same workers.
THEOREM AttemptsAreCharged == WorkersSpec => []AttemptsCharged
<1>1. WorkersInv => AttemptsCharged
  BY DEF WorkersInv, Charged
<1> QED
  BY <1>1, WorkersAlways, PTL

\* A worker's result is undone only by an executor that has that worker in hand
\* and was overtaken or cannot record its result; never by a cancellation, the
\* recovery, the budget or another worker's failure.
THEOREM ResultsAreKept == WorkersSpec => ResultsKept
<1>1. WorkersInv /\ [WorkersNext]_workersVars =>
        [\A w \in Worker : workerStatus[w] = "completed" =>
           workerStatus'[w] = "completed" \/ \E e \in Executor : Undoes(e, w)]_workersVars
  BY ResultStep
<1> QED
  BY <1>1, WorkersAlways, PTL DEF WorkersSpec, ResultsKept

-----------------------------------------------------------------------------
\* The batches.

\* The attempts the workers were charged for, one after another.
Spent == {p \in Worker \X Attempt : p[2] <= used[p[1]]}

\* A worker that waits can be tried again; one that runs has a task.
Retries == \A w \in Worker : workerStatus[w] \in {"none", "queued"} => used[w] < MaxAttempts
Engaged == \A w \in Worker : workerStatus[w] = "running" =>
             \E e \in Executor : task[e][w] = "executing"

\* Tasks belong to a batch, and the worker of a task that starts waits for it.
Gathered == \A e \in Executor : place[e] # "batch" => \A w \in Worker : task[e][w] = "none"
Waits == \A e \in Executor : \A w \in Worker : task[e][w] = "starting" => workerStatus[w] = "queued"

\* Every batch was worth an attempt, the last one as soon as a task starts.
Worthwhile ==
  \A e \in Executor :
    /\ batches[e] <= Cardinality(Spent) + 1
    /\ batches[e] <= Cardinality(Spent) \/ \E w \in Worker : task[e][w] = "starting"

Reported == \A e \in Executor : place[e] = "reported" => WithStatus("queued") \cup WithStatus("running") = {}

Orderly == Retries /\ Engaged /\ Gathered /\ Waits /\ Worthwhile /\ Reported
BatchInv == ~lapsed /\ faults = 0 => Orderly

\* There are as many attempts as workers can make, and they are all made when
\* that many were spent.
LEMMA Tally ==
  ASSUME WorkersTypeOK
  PROVE  /\ IsFiniteSet(Spent) /\ Cardinality(Spent) \in Nat
         /\ Cardinality(Spent) <= MaxAttempts * Workers
         /\ Cardinality(Spent) = MaxAttempts * Workers => \A w \in Worker : used[w] >= MaxAttempts
<1>1. IsFiniteSet(Worker) /\ Cardinality(Worker) = Workers
  BY WorkersConstants, FS_Interval DEF Worker
<1>2. IsFiniteSet(Attempt) /\ Cardinality(Attempt) = MaxAttempts
  <2>1. 1 \in Int /\ 2 \in Int
    OBVIOUS
  <2>2. IsFiniteSet(1 .. 2) /\ Cardinality(1 .. 2) = IF 1 > 2 THEN 0 ELSE 2 - 1 + 1
    BY <2>1, FS_Interval
  <2> QED
    BY <2>2 DEF Attempt, MaxAttempts
<1>3. IsFiniteSet(Worker \X Attempt) /\ Cardinality(Worker \X Attempt) = Workers * MaxAttempts
  BY <1>1, <1>2, FS_Product
<1>4. Workers * MaxAttempts = MaxAttempts * Workers
  BY WorkersConstants DEF MaxAttempts
<1>5. Spent \in SUBSET (Worker \X Attempt)
  BY DEF Spent
<1>6. /\ IsFiniteSet(Spent) /\ Cardinality(Spent) <= Workers * MaxAttempts
      /\ Cardinality(Spent) = Workers * MaxAttempts => Spent = Worker \X Attempt
  BY <1>3, <1>5, FS_Subset
<1>7. Cardinality(Spent) \in Nat
  BY <1>6, FS_CardinalityType
<1>8. Spent = Worker \X Attempt => \A w \in Worker : used[w] >= MaxAttempts
  <2>1. MaxAttempts \in Attempt
    BY DEF Attempt, MaxAttempts
  <2>2. \A w \in Worker : <<w, MaxAttempts>> \in Worker \X Attempt
    BY <2>1
  <2>3. ASSUME Spent = Worker \X Attempt, NEW w \in Worker PROVE MaxAttempts <= used[w]
    BY <2>2, <2>3 DEF Spent
  <2>4. \A w \in Worker : used[w] \in Nat /\ MaxAttempts \in Nat
    BY DEF WorkersTypeOK, MaxAttempts
  <2> QED
    BY <2>3, <2>4
<1> QED
  BY <1>4, <1>6, <1>7, <1>8

\* A claim spends one attempt more.
LEMMA ClaimSpends ==
  ASSUME WorkersTypeOK, NEW w \in Worker, Claimed(w)
  PROVE  Cardinality(Spent') = Cardinality(Spent) + 1
<1> DEFINE next == <<w, used[w] + 1>>
<1>1. used \in [Worker -> 0 .. MaxAttempts] /\ used[w] + 1 \in Attempt
  BY DEF WorkersTypeOK, Claimed
<1>2. \A v \in Worker : used'[v] = IF v = w THEN used[w] + 1 ELSE used[v]
  BY <1>1 DEF Claimed
<1>3. \A v \in Worker : used[v] \in Nat /\ \A a \in Attempt : a \in Nat
  BY <1>1 DEF MaxAttempts, Attempt
<1>4. next \notin Spent
  BY <1>3 DEF Spent
<1>5. \A v \in Worker : \A a \in Attempt : a <= used'[v] <=> a <= used[v] \/ (v = w /\ a = used[w] + 1)
  <2>1. ASSUME NEW v \in Worker, NEW a \in Attempt
        PROVE  a <= used'[v] <=> a <= used[v] \/ (v = w /\ a = used[w] + 1)
    <3>1. CASE v = w
      BY <1>2, <1>3, <3>1
    <3>2. CASE v # w
      BY <1>2, <3>2
    <3> QED
      BY <3>1, <3>2
  <2> QED
    BY <2>1
<1>6. Spent' = Spent \cup {next}
  <2>1. \A p \in Worker \X Attempt : p = <<p[1], p[2]>> /\ p[1] \in Worker /\ p[2] \in Attempt
    OBVIOUS
  <2>2. \A p \in Worker \X Attempt : p[2] <= used'[p[1]] <=> p[2] <= used[p[1]] \/ p = next
    BY <1>5, <2>1
  <2>3. next \in Worker \X Attempt
    BY <1>1
  <2> HIDE DEF next
  <2> QED
    BY <2>2, <2>3 DEF Spent
<1> HIDE DEF next
<1> QED
  BY <1>4, <1>6, Tally, FS_AddElement

\* While workers wait and none runs, a batch has a worker: the oldest.
LEMMA BatchNotEmpty ==
  ASSUME WorkersTypeOK, WithStatus("queued") # {}, WithStatus("running") = {}
  PROVE  Batch # {}
<1> DEFINE waiting == WithStatus("queued")
           less == OpToRel(<, Nat)
<1>1. waiting \subseteq Nat /\ waiting # {}
  BY DEF WithStatus, Worker
<1>2. \A v, w \in Nat : v < w => <<v, w>> \in less
  BY DEF OpToRel
<1>3. IsWellFoundedOn(less, Nat)
  BY NatLessThanWellFounded
<1> HIDE DEF waiting, less
<1>4. PICK w \in waiting : \A v \in waiting : ~(<<v, w>> \in less)
  BY <1>1, <1>3, WFMin
<1>5. {v \in waiting : v < w} = {}
  BY <1>1, <1>2, <1>4
<1>6. concurrency \in 1 .. 16
  BY WorkersAssumption DEF WorkersTypeOK
<1>7. Cardinality({v \in waiting : v < w}) < concurrency - Cardinality(WithStatus("running"))
  BY <1>5, <1>6, FS_EmptySet
<1> QED
  BY <1>4, <1>7 DEF Batch, waiting

\* One executor has tasks at a time, and only the first leaves its place.
LEMMA OneExecutor ==
  ASSUME WorkersInv, ~lapsed
  PROVE  /\ \A e, f \in Executor : place[e] # "away" /\ place[f] # "away" => e = f
         /\ \A e, f \in Executor : \A v, w \in Worker :
              task[e][v] # "none" /\ task[f][w] # "none" => e = f
<1>1. \A e \in Executor : place[e] # "away" => e = 1
  BY DEF WorkersInv, Alone, Executor
<1> QED
  BY <1>1 DEF WorkersInv, Idle

\* An executor that is between batches has no task, and so no worker runs.
LEMMA NoneRuns ==
  ASSUME WorkersInv, ~lapsed, Engaged, Gathered, NEW e \in Executor,
         place[e] \in {"checking", "listing", "reported"}
  PROVE  /\ \A f \in Executor : \A w \in Worker : task[f][w] = "none"
         /\ WithStatus("running") = {}
<1>1. \A f \in Executor : \A w \in Worker : task[f][w] = "none"
  BY OneExecutor DEF WorkersInv, Idle, Gathered
<1> QED
  BY <1>1 DEF Engaged, WithStatus

\* The places: the delegation, the loop over the batches, its end.
LEMMA PlacesOrderly ==
  ASSUME WorkersInv, Orderly, ~lapsed, ~lapsed', NEW e \in Executor,
         Delegate(e) \/ CheckRun(e) \/ ListWorkers(e) \/ EndBatch(e)
  PROVE  Orderly'
<1> USE DEF workerRows
<1>1. WorkersTypeOK /\ Retries /\ Engaged /\ Gathered /\ Waits /\ Worthwhile /\ Reported
  BY DEF WorkersInv, Orderly
<1>2. /\ workerStatus \in [Worker -> {"none", "queued", "running", "completed", "failed", "cancelled"}]
      /\ place \in [Executor -> {"away", "checking", "listing", "batch", "lost", "reported"}]
      /\ task \in [Executor -> [Worker -> {"none", "starting", "executing", "completed"}]]
      /\ batches \in [Executor -> Nat]
  BY <1>1 DEF WorkersTypeOK
<1>3. used' = used /\ Spent' = Spent
  BY DEF Delegate, CheckRun, ListWorkers, EndBatch, Spent
<1>4. /\ Cardinality(Spent) \in Nat /\ Cardinality(Spent) <= MaxAttempts * Workers
      /\ Cardinality(Spent) = MaxAttempts * Workers => \A w \in Worker : used[w] >= MaxAttempts
  BY <1>1, Tally
<1>5. CASE Delegate(e)
  <2>1. /\ place[e] = "away" /\ place' = [place EXCEPT ![e] = "checking"] /\ task' = task
        /\ batches' = batches /\ workerStatus' = [w \in Worker |-> "queued"]
        /\ \A f \in Executor : place[f] = "away"
        /\ \A w \in Worker : workerStatus[w] = "none"
    BY <1>5 DEF Delegate, Goes, WorkersInv, Fresh
  <2>2. \A f \in Executor : \A w \in Worker : task[f][w] = "none"
    BY <2>1 DEF WorkersInv, Idle
  <2>3. Retries' /\ Engaged' /\ Gathered' /\ Waits'
    BY <1>1, <1>2, <1>3, <2>1, <2>2 DEF Retries, Engaged, Gathered, Waits
  <2>4. Worthwhile'
    BY <1>1, <1>3, <2>1, <2>2 DEF Worthwhile
  <2>5. Reported'
    BY <1>2, <2>1 DEF Reported
  <2> QED
    BY <2>3, <2>4, <2>5 DEF Orderly
<1>6. CASE CheckRun(e)
  <2>1. /\ place[e] = "checking" /\ place'[e] \in {"listing", "reported"} /\ task' = task
        /\ place' = [place EXCEPT ![e] = place'[e]] /\ batches' = batches
    BY <1>2, <1>6 DEF CheckRun, Goes
  <2>2. /\ \A f \in Executor : \A w \in Worker : task[f][w] = "none"
        /\ WithStatus("running") = {}
    BY <1>1, <2>1, NoneRuns
  <2>3. \A w \in Worker : \/ workerStatus'[w] = workerStatus[w]
                          \/ workerStatus[w] = "queued" /\ workerStatus'[w] = "cancelled"
    BY <1>2, <1>6 DEF CheckRun, Pending
  <2>4. Retries' /\ Engaged' /\ Gathered' /\ Waits'
    BY <1>1, <1>2, <1>3, <2>1, <2>2, <2>3 DEF Retries, Engaged, Gathered, Waits
  <2>5. Worthwhile'
    BY <1>1, <1>3, <2>1, <2>2 DEF Worthwhile
  <2>6. ASSUME place'[e] = "reported" PROVE \A w \in Worker : workerStatus'[w] # "queued"
    <3>1. CASE cancelRequested /\ MoreBatches(e)
      BY <1>2, <1>6, <2>6, <3>1 DEF CheckRun, Goes, Pending
    <3>2. CASE ~MoreBatches(e)
      <4>1. batches[e] <= Cardinality(Spent) /\ batches[e] \in Nat /\ ~(batches[e] < MaxBatches)
        BY <1>1, <1>2, <2>2, <3>2 DEF Worthwhile, MoreBatches
      <4>2. MaxBatches >= MaxAttempts * Workers /\ MaxBatches \in Nat
            /\ MaxAttempts * Workers \in Nat
        BY WorkersAssumption DEF MaxAttempts
      <4> DEFINE all == MaxAttempts * Workers
      <4>3. Cardinality(Spent) \in Nat /\ Cardinality(Spent) <= all /\ MaxBatches >= all /\ all \in Nat
        BY <1>4, <4>2
      <4> HIDE DEF all
      <4>4. Cardinality(Spent) = all
        BY <4>3, <4>1, <4>2
      <4>5. Cardinality(Spent) = MaxAttempts * Workers
        BY <4>4 DEF all
      <4>6. \A w \in Worker : used[w] >= MaxAttempts /\ used[w] \in Nat /\ MaxAttempts \in Nat
        <5>1. \A w \in Worker : used[w] >= MaxAttempts
          BY <1>4, <4>5, Zenon
        <5>2. used \in [Worker -> 0 .. MaxAttempts] /\ MaxAttempts \in Nat
          BY <1>1 DEF WorkersTypeOK, MaxAttempts
        <5>3. \A w \in Worker : used[w] \in Nat
          BY <5>2
        <5> QED
          BY <5>1, <5>2, <5>3
      <4>7. \A w \in Worker : workerStatus[w] # "queued"
        BY <1>1, <4>6 DEF Retries
      <4> QED
        BY <2>3, <4>7
    <3>3. ~(MoreBatches(e) /\ ~cancelRequested)
      BY <1>2, <1>6, <2>6 DEF CheckRun, Goes
    <3> QED
      BY <3>1, <3>2, <3>3
  <2>7. Reported'
    <3>1. \A f \in Executor : place'[f] = "reported" => f = e
      BY <1>2, <2>1, OneExecutor
    <3>2. \A w \in Worker : workerStatus'[w] # "running"
      BY <1>2, <2>2, <2>3 DEF WithStatus
    <3>3. place'[e] = "reported" => WithStatus("queued")' = {}
      BY <2>6 DEF WithStatus
    <3>4. WithStatus("running")' = {}
      BY <3>2 DEF WithStatus
    <3> QED
      BY <3>1, <3>3, <3>4 DEF Reported
  <2> QED
    BY <2>4, <2>5, <2>7 DEF Orderly
<1>7. CASE ListWorkers(e)
  <2>1. place[e] = "listing" /\ workerStatus' = workerStatus
    BY <1>7 DEF ListWorkers, Goes
  <2>2. /\ \A f \in Executor : \A w \in Worker : task[f][w] = "none"
        /\ WithStatus("running") = {}
    BY <1>1, <2>1, NoneRuns
  <2>3. Retries'
    BY <1>1, <1>3, <2>1 DEF Retries
  <2>4. \A w \in Worker : workerStatus'[w] # "running"
    BY <2>1, <2>2 DEF WithStatus
  <2>5. Engaged'
    BY <2>4 DEF Engaged
  <2>6. \A f \in Executor : f # e => place[f] = "away"
    BY <2>1, OneExecutor
  <2>7. CASE Batch = {}
    <3>1. /\ place' = [place EXCEPT ![e] = "reported"] /\ task' = task /\ batches' = batches
      BY <1>7, <2>7 DEF ListWorkers, Goes
    <3>2. WithStatus("queued") = {}
      BY <1>1, <2>2, <2>7, BatchNotEmpty
    <3>3. Reported'
      BY <2>1, <2>2, <3>2 DEF Reported, WithStatus
    <3>4. Gathered' /\ Waits' /\ Worthwhile'
      BY <1>1, <1>2, <1>3, <2>1, <2>2, <3>1 DEF Gathered, Waits, Worthwhile
    <3> QED
      BY <2>3, <2>5, <3>3, <3>4 DEF Orderly
  <2>8. CASE Batch # {}
    <3> DEFINE chosen == [w \in Worker |-> IF w \in Batch THEN "starting" ELSE "none"]
    <3>1. /\ place' = [place EXCEPT ![e] = "batch"] /\ task' = [task EXCEPT ![e] = chosen]
          /\ batches' = [batches EXCEPT ![e] = batches[e] + 1]
      BY <1>7, <2>8 DEF ListWorkers, Goes
    <3>2. PICK w \in Worker : w \in Batch /\ workerStatus[w] = "queued"
      BY <2>8 DEF Batch, WithStatus
    <3>3. /\ chosen[w] = "starting"
          /\ \A v \in Worker : chosen[v] = "starting" => workerStatus[v] = "queued"
      BY <3>2 DEF Batch, WithStatus
    <3> HIDE DEF chosen
    <3>4. \A f \in Executor : task'[f] = IF f = e THEN chosen ELSE task[f]
      BY <1>2, <3>1
    <3>5. \A f \in Executor : place'[f] = IF f = e THEN "batch" ELSE "away"
      BY <1>2, <2>6, <3>1
    <3>6. Gathered' /\ Reported'
      BY <2>2, <3>4, <3>5 DEF Gathered, Reported
    <3>7. Waits'
      BY <2>1, <2>2, <3>3, <3>4 DEF Waits
    <3>8. Worthwhile'
      <4>1. \A f \in Executor : batches[f] <= Cardinality(Spent) /\ batches[f] \in Nat
        BY <1>1, <1>2, <2>2 DEF Worthwhile
      <4>2. task'[e][w] = "starting"
        BY <3>3, <3>4
      <4>3. \A f \in Executor : batches'[f] = IF f = e THEN batches[e] + 1 ELSE batches[f]
        BY <1>2, <3>1
      <4>4. \A f \in Executor : /\ batches'[f] <= Cardinality(Spent) + 1
                                /\ f = e \/ batches'[f] <= Cardinality(Spent)
        BY <1>4, <4>1, <4>3
      <4> QED
        BY <1>3, <4>2, <4>4 DEF Worthwhile
    <3> QED
      BY <2>3, <2>5, <3>6, <3>7, <3>8 DEF Orderly
  <2> QED
    BY <2>7, <2>8
<1>8. CASE EndBatch(e)
  <2>1. /\ place' = [place EXCEPT ![e] = "checking"] /\ task' = task /\ batches' = batches
        /\ workerStatus' = workerStatus /\ \A w \in Worker : task[e][w] = "none"
    BY <1>8 DEF EndBatch, Goes
  <2>2. Retries' /\ Engaged' /\ Waits' /\ Worthwhile'
    BY <1>1, <1>3, <2>1 DEF Retries, Engaged, Waits, Worthwhile
  <2>3. Gathered'
    BY <1>1, <1>2, <2>1 DEF Gathered
  <2>4. Reported'
    BY <1>1, <1>2, <2>1 DEF Reported, WithStatus
  <2> QED
    BY <2>2, <2>3, <2>4 DEF Orderly
<1> QED
  BY <1>5, <1>6, <1>7, <1>8

\* A task's end, with a result or without: its worker no longer runs.
LEMMA EndsOrderly ==
  ASSUME WorkersInv, Orderly, ~lapsed, NEW e \in Executor, NEW w \in Worker,
         CompleteWorker(e, w) \/ EndTask(e, w) \/ FailWorker(e, w)
  PROVE  Orderly'
<1>1. WorkersTypeOK /\ Retries /\ Engaged /\ Gathered /\ Waits /\ Worthwhile /\ Reported
  BY DEF WorkersInv, Orderly
<1>2. /\ workerStatus \in [Worker -> {"none", "queued", "running", "completed", "failed", "cancelled"}]
      /\ task \in [Executor -> [Worker -> {"none", "starting", "executing", "completed"}]]
      /\ used \in [Worker -> 0 .. MaxAttempts]
  BY <1>1 DEF WorkersTypeOK
<1>3. used' = used /\ place' = place /\ batches' = batches /\ Spent' = Spent
  BY DEF CompleteWorker, EndTask, FailWorker, Spent, workerRows
<1>4. /\ task[e][w] \in {"executing", "completed"} /\ task'[e][w] \in {"completed", "none"}
      /\ \A f \in Executor : \A v \in Worker : ~(f = e /\ v = w) => task'[f][v] = task[f][v]
      /\ task[e][w] = "executing" => workerStatus'[w] \in {"queued", "completed", "failed", "cancelled", "none"}
      /\ task[e][w] # "executing" => workerStatus' = workerStatus
      /\ \A v \in Worker : v # w => workerStatus'[v] = workerStatus[v]
      /\ \A v \in Worker : workerStatus'[v] = "queued" /\ workerStatus[v] # "queued" => used[v] < MaxAttempts
      /\ \A v \in Worker : workerStatus'[v] = "none" => workerStatus[v] = "none"
  BY <1>2 DEF CompleteWorker, EndTask, FailWorker, FailRows, TaskGoes, Requeued, workerRows
<1>5. /\ place[e] = "batch"
      /\ \A f \in Executor : \A v \in Worker : task[f][v] # "none" => f = e
  BY <1>1, <1>4, OneExecutor DEF Gathered
<1>6. Retries'
  BY <1>1, <1>3, <1>4 DEF Retries
<1>7. Engaged'
  <2>1. ASSUME NEW v \in Worker, workerStatus'[v] = "running"
        PROVE  \E f \in Executor : task'[f][v] = "executing"
    <3>1. workerStatus[v] = "running" /\ ~(v = w /\ task[e][w] = "executing")
      BY <1>4, <2>1
    <3>2. PICK f \in Executor : task[f][v] = "executing"
      BY <1>1, <3>1 DEF Engaged
    <3>3. ~(f = e /\ v = w)
      BY <3>1, <3>2
    <3> QED
      BY <1>4, <3>2, <3>3
  <2> QED
    BY <2>1 DEF Engaged
<1>8. Gathered'
  BY <1>1, <1>3, <1>4, <1>5 DEF Gathered
<1>9. \A f \in Executor : \A v \in Worker : task'[f][v] = "starting" <=> task[f][v] = "starting"
  BY <1>4
<1>10. Waits'
  <2>1. ASSUME NEW f \in Executor, NEW v \in Worker, task'[f][v] = "starting"
        PROVE  workerStatus'[v] = "queued"
    <3>1. task[f][v] = "starting" /\ workerStatus[v] = "queued"
      BY <1>1, <1>9, <2>1 DEF Waits
    <3>2. v # w
      BY <1>4, <1>5, <3>1
    <3> QED
      BY <1>4, <3>1, <3>2
  <2> QED
    BY <2>1 DEF Waits
<1>11. Worthwhile'
  BY <1>1, <1>3, <1>9 DEF Worthwhile
<1>12. Reported'
  <2>1. \A f \in Executor : place'[f] # "reported"
    BY <1>3, <1>5, OneExecutor
  <2> QED
    BY <2>1 DEF Reported
<1> QED
  BY <1>6, <1>7, <1>8, <1>10, <1>11, <1>12 DEF Orderly

\* A task starts: its worker still waits, so an attempt is spent.
LEMMA StartOrderly ==
  ASSUME WorkersInv, Orderly, ~lapsed, NEW e \in Executor, NEW w \in Worker, StartWorker(e, w)
  PROVE  Orderly'
<1>1. WorkersTypeOK /\ Retries /\ Engaged /\ Gathered /\ Waits /\ Worthwhile /\ Reported
  BY DEF WorkersInv, Orderly
<1>2. /\ workerStatus \in [Worker -> {"none", "queued", "running", "completed", "failed", "cancelled"}]
      /\ task \in [Executor -> [Worker -> {"none", "starting", "executing", "completed"}]]
      /\ used \in [Worker -> 0 .. MaxAttempts] /\ batches \in [Executor -> Nat]
      /\ Cardinality(Spent) \in Nat
  BY <1>1, Tally DEF WorkersTypeOK
<1>3. task[e][w] = "starting" /\ Claims(w)
  BY <1>1 DEF StartWorker, Waits, Retries, Claims
<1>4. Started(e, w) \/ OutOfBudget(e, w)
  <2>1. used'[w] = used[w] + 1
    BY <1>2, <1>3 DEF StartWorker
  <2>2. used'[w] # used[w]
    BY <1>2, <2>1 DEF MaxAttempts
  <2>3. ~Skipped(e, w)
    BY <2>2 DEF Skipped, workerRows
  <2> QED
    BY <1>1, <2>3, StartCases
<1>5. /\ Claimed(w) /\ place' = place /\ batches' = batches
      /\ \/ /\ workerStatus' = [workerStatus EXCEPT ![w] = "running"]
            /\ task' = [task EXCEPT ![e][w] = "executing"]
         \/ /\ workerStatus' = [workerStatus EXCEPT ![w] = "failed"]
            /\ task' = [task EXCEPT ![e][w] = "none"]
  BY <1>4 DEF Started, OutOfBudget, TaskGoes
<1>6. /\ \A v \in Worker : v # w => workerStatus'[v] = workerStatus[v] /\ used'[v] = used[v]
      /\ \A f \in Executor : \A v \in Worker : ~(f = e /\ v = w) => task'[f][v] = task[f][v]
      /\ \/ workerStatus'[w] = "running" /\ task'[e][w] = "executing"
         \/ workerStatus'[w] = "failed" /\ task'[e][w] = "none"
  <2>1. \A v \in Worker : v # w => used'[v] = used[v]
    BY <1>2, <1>5 DEF Claimed
  <2> QED
    BY <1>2, <1>5, <2>1
<1>7. /\ place[e] = "batch"
      /\ \A f \in Executor : \A v \in Worker : task[f][v] # "none" => f = e
  BY <1>1, <1>3, OneExecutor DEF Gathered
<1>8. Retries'
  BY <1>1, <1>6 DEF Retries
<1>9. Engaged'
  <2>1. ASSUME NEW v \in Worker, workerStatus'[v] = "running"
        PROVE  \E f \in Executor : task'[f][v] = "executing"
    <3>1. CASE v = w
      BY <1>6, <2>1, <3>1
    <3>2. CASE v # w
      BY <1>1, <1>6, <2>1, <3>2 DEF Engaged
    <3> QED
      BY <3>1, <3>2
  <2> QED
    BY <2>1 DEF Engaged
<1>10. Gathered'
  BY <1>1, <1>5, <1>6, <1>7 DEF Gathered
<1>11. Waits'
  <2>1. ASSUME NEW f \in Executor, NEW v \in Worker, task'[f][v] = "starting"
        PROVE  workerStatus'[v] = "queued"
    <3>1. ~(f = e /\ v = w)
      BY <1>6, <2>1
    <3>2. task[f][v] = "starting"
      BY <1>6, <2>1, <3>1
    <3>3. v # w /\ workerStatus[v] = "queued"
      BY <1>1, <1>7, <3>1, <3>2 DEF Waits
    <3> QED
      BY <1>6, <3>3
  <2> QED
    BY <2>1 DEF Waits
<1>12. Worthwhile'
  <2>1. Cardinality(Spent') = Cardinality(Spent) + 1
    BY <1>1, <1>5, ClaimSpends
  <2>2. \A f \in Executor : batches[f] \in Nat /\ batches[f] <= Cardinality(Spent) + 1
    BY <1>1, <1>2 DEF Worthwhile
  <2>3. \A f \in Executor : batches'[f] <= Cardinality(Spent') /\ batches'[f] <= Cardinality(Spent') + 1
    BY <1>2, <1>5, <2>1, <2>2
  <2> QED
    BY <2>3 DEF Worthwhile
<1>13. Reported'
  <2>1. \A f \in Executor : place'[f] # "reported"
    BY <1>5, <1>7, OneExecutor
  <2> QED
    BY <2>1 DEF Reported
<1> QED
  BY <1>8, <1>9, <1>10, <1>11, <1>12, <1>13 DEF Orderly

\* Every step but a lapse or a fault keeps the batches orderly.
LEMMA BatchInvNext ==
  ASSUME WorkersInv, BatchInv, [WorkersNext]_workersVars
  PROVE  BatchInv'
<1> SUFFICES ASSUME ~lapsed', faults' = 0 PROVE Orderly'
  BY DEF BatchInv
<1> USE DEF workerRows
<1>1. faults \in Nat
  BY DEF WorkersInv, WorkersTypeOK
<1>2. \A e \in Executor : ~DelegateAgain(e) /\ ~LoseExecutor(e) /\ \A w \in Worker : ~EventFails(e, w)
  BY <1>1 DEF DelegateAgain, LoseExecutor, EventFails
<1>3. lapsed' = lapsed /\ faults' = faults
  BY <1>2 DEF WorkersNext, workersVars, RequestCancel, Delegate, CheckRun, ListWorkers, EndBatch, StartWorker,
     CompleteWorker, EndTask, FailWorker
<1>4. ~lapsed /\ Orderly
  BY <1>3 DEF BatchInv
<1>5. CASE RequestCancel \/ UNCHANGED workersVars
  BY <1>4, <1>5 DEF RequestCancel, workersVars, Orderly, Retries, Engaged, Gathered, Waits, Worthwhile,
     Reported, Spent, WithStatus
<1>6. ASSUME NEW e \in Executor, Delegate(e) \/ CheckRun(e) \/ ListWorkers(e) \/ EndBatch(e)
      PROVE  Orderly'
  BY <1>4, <1>6, PlacesOrderly
<1>7. ASSUME NEW e \in Executor, NEW w \in Worker,
             StartWorker(e, w) \/ CompleteWorker(e, w) \/ EndTask(e, w) \/ FailWorker(e, w)
      PROVE  Orderly'
  BY <1>4, <1>7, StartOrderly, EndsOrderly
<1> QED
  BY <1>2, <1>5, <1>6, <1>7 DEF WorkersNext

\* An executor reports only when no worker can be tried again, for any number
\* of workers whose attempts its batches allow for (runtime.ts: twenty for at
\* most ten), until a lease expires or the store fails.
THEOREM BatchesAreEnough == WorkersSpec => []BatchesSuffice
<1>1. WorkersInit => BatchInv
  <2> SUFFICES ASSUME WorkersInit PROVE Orderly
    BY DEF BatchInv
  <2>1. WorkersTypeOK
    BY WorkersInitInv DEF WorkersInv
  <2>2. Retries /\ Engaged /\ Gathered /\ Waits /\ Reported
    BY DEF WorkersInit, Retries, Engaged, Gathered, Waits, Reported, MaxAttempts
  <2>3. Worthwhile
    <3>1. Cardinality(Spent) \in Nat
      BY <2>1, Tally
    <3>2. \A e \in Executor : batches[e] = 0
      BY DEF WorkersInit
    <3> QED
      BY <3>1, <3>2 DEF Worthwhile
  <2> QED
    BY <2>2, <2>3 DEF Orderly
<1>2. WorkersInv /\ BatchInv /\ [WorkersNext]_workersVars => BatchInv'
  BY BatchInvNext
<1>3. BatchInv => BatchesSuffice
  BY DEF BatchInv, Orderly, Reported, BatchesSuffice
<1> QED
  BY <1>1, <1>2, <1>3, WorkersAlways, PTL DEF WorkersSpec

-----------------------------------------------------------------------------
\* The tools.
\* What an attempt remembers of the application's stage was recorded when it
\* was read, and records stay.
StagesRead == \A i \in 1 .. MaxTries : stageRead[i] # Unread => stageRead[i] \in activity \cup {First}
ToolsInv == ToolsTypeOK /\ PreparedMeansComplete /\ MovesAreRecorded /\ StagesRead
-----------------------------------------------------------------------------
LEMMA KeyIsStepAndTry ==
  ASSUME NEW k \in Key
  PROVE  k[1] \in ToolStep /\ k[2] \in 1 .. MaxTries /\ k = <<k[1], k[2]>>
BY DEF Key

\* The ways an attempt leaves its step: only an ending with success, of the
\* current attempt, makes the step a succeeded one.
LEMMA EndsTyped ==
  ASSUME ToolsTypeOK, NEW k \in Key, NEW answer \in {"succeeded", "failed"}, Ends(k, answer)
  PROVE  /\ progress' \in [Key -> {"none", "begun", "ended"}]
         /\ outcome' \in [ToolStep -> {"pending", "running", "succeeded", "failed"}]
         /\ tries' = tries
         /\ \A s \in ToolStep :
              outcome'[s] = "succeeded" => outcome[s] = "succeeded" \/ (s = k[1] /\ tries[s] = k[2])
<1>1. k[1] \in ToolStep
  BY KeyIsStepAndTry
<1>2. progress' \in [Key -> {"none", "begun", "ended"}] /\ tries' = tries
  BY DEF ToolsTypeOK, Ends
<1>3. outcome' = IF Current(k) THEN [outcome EXCEPT ![k[1]] = answer] ELSE outcome
  BY DEF Ends
<1>4. outcome \in [ToolStep -> {"pending", "running", "succeeded", "failed"}]
  BY DEF ToolsTypeOK
<1>5. outcome' \in [ToolStep -> {"pending", "running", "succeeded", "failed"}]
  BY <1>3, <1>4
<1>6. ASSUME NEW s \in ToolStep, outcome'[s] = "succeeded"
      PROVE  outcome[s] = "succeeded" \/ (s = k[1] /\ tries[s] = k[2])
  BY <1>1, <1>3, <1>4, <1>6 DEF Current
<1> QED BY <1>2, <1>5, <1>6

\* A step that is not one of this tool stays complete while artifacts grow.
LEMMA OthersStayComplete ==
  ASSUME PreparedMeansComplete, tries' = tries, artifacts \subseteq artifacts',
         NEW k \in Key,
         \A s \in ToolStep :
           outcome'[s] = "succeeded" =>
             outcome[s] = "succeeded" \/ (s = k[1] /\ tries[s] = k[2]),
         k[1] = "prepare_application" => {k} \X ArtifactType \subseteq artifacts'
  PROVE  PreparedMeansComplete'
<1> SUFFICES ASSUME NEW s \in ToolStep, s = "prepare_application", outcome'[s] = "succeeded"
             PROVE  {<<s, tries[s]>>} \X ArtifactType \subseteq artifacts'
  BY DEF PreparedMeansComplete
<1>1. CASE outcome[s] = "succeeded"
  BY <1>1 DEF PreparedMeansComplete
<1>2. CASE s = k[1] /\ tries[s] = k[2]
  <2>1. <<s, tries[s]>> = k
    BY <1>2, KeyIsStepAndTry
  <2> QED BY <2>1, <1>2
<1> QED BY <1>1, <1>2

LEMMA ToolsInitially == ToolsInit => ToolsInv
<1> SUFFICES ASSUME ToolsInit PROVE ToolsInv
  OBVIOUS
<1>1. ToolsTypeOK
  BY ToolsAssumption DEF ToolsInit, ToolsTypeOK
<1>2. PreparedMeansComplete /\ MovesAreRecorded /\ StagesRead
  BY DEF ToolsInit, PreparedMeansComplete, MovesAreRecorded, StagesRead
<1> QED BY <1>1, <1>2 DEF ToolsInv

LEMMA ToolsStep == ToolsInv /\ [ToolsNext]_toolVars => ToolsInv'
<1> SUFFICES ASSUME ToolsInv, [ToolsNext]_toolVars PROVE ToolsInv'
  OBVIOUS
<1> USE DEF ToolsInv, kept, readings
<1>1. CASE UNCHANGED toolVars
  BY <1>1 DEF toolVars, ToolsTypeOK, PreparedMeansComplete, MovesAreRecorded, StagesRead
<1>2. CASE PersonMoves
  <2>1. ToolsTypeOK'
    BY <1>2 DEF PersonMoves, ToolsTypeOK
  <2>2. PreparedMeansComplete' /\ MovesAreRecorded' /\ StagesRead'
    BY <1>2 DEF PersonMoves, PreparedMeansComplete, MovesAreRecorded, StagesRead
  <2> QED BY <2>1, <2>2
<1>3. ASSUME NEW s \in ToolStep, StartAttempt(s) PROVE ToolsInv'
  <2>1. ToolsTypeOK'
    <3>1. tries[s] \in 0 .. MaxTries /\ tries[s] < MaxTries /\ tries'[s] = tries[s] + 1
      BY <1>3 DEF StartAttempt, ToolsTypeOK
    <3>2. tries'[s] \in 1 .. MaxTries
      BY <3>1, ToolsAssumption
    <3>3. tries' \in [ToolStep -> 0 .. MaxTries]
      BY <1>3, <3>1, <3>2 DEF StartAttempt, ToolsTypeOK
    <3>4. /\ progress' \in [Key -> {"none", "begun", "ended"}]
          /\ outcome' \in [ToolStep -> {"pending", "running", "succeeded", "failed"}]
      BY <1>3, <3>2 DEF StartAttempt, ToolsTypeOK, Key
    <3>5. UNCHANGED kept /\ UNCHANGED readings
      BY <1>3 DEF StartAttempt
    <3> QED BY <3>3, <3>4, <3>5 DEF ToolsTypeOK
  <2>2. PreparedMeansComplete'
    BY <1>3 DEF StartAttempt, PreparedMeansComplete, ToolsTypeOK
  <2>3. MovesAreRecorded' /\ StagesRead'
    BY <1>3 DEF StartAttempt, MovesAreRecorded, StagesRead
  <2> QED BY <2>1, <2>2, <2>3
<1>4. ASSUME NEW k \in Key, AbandonAttempt(k) \/ FailAttempt(k) PROVE ToolsInv'
  <2>0. /\ progress \in [Key -> {"none", "begun", "ended"}] /\ k[1] \in ToolStep
        /\ outcome \in [ToolStep -> {"pending", "running", "succeeded", "failed"}]
        /\ Retried(k[1]) \in {"pending", "failed"}
    BY KeyIsStepAndTry DEF Retried, ToolsTypeOK
  <2>1a. progress' \in {progress, [progress EXCEPT ![k] = "ended"]}
    BY <1>4 DEF AbandonAttempt, FailAttempt
  <2>1b. outcome' \in {outcome, [outcome EXCEPT ![k[1]] = Retried(k[1])]}
    BY <1>4 DEF AbandonAttempt, FailAttempt
  <2>1. /\ progress' \in [Key -> {"none", "begun", "ended"}]
        /\ outcome' \in [ToolStep -> {"pending", "running", "succeeded", "failed"}]
        /\ \A s \in ToolStep : outcome'[s] = "succeeded" => outcome[s] = "succeeded"
    BY <2>0, <2>1a, <2>1b
  <2>2. tries' = tries /\ UNCHANGED kept /\ UNCHANGED readings
    BY <1>4 DEF AbandonAttempt, FailAttempt
  <2>3. ToolsTypeOK'
    BY <2>1, <2>2 DEF ToolsTypeOK
  <2>4. PreparedMeansComplete' /\ MovesAreRecorded' /\ StagesRead'
    BY <2>1, <2>2 DEF PreparedMeansComplete, MovesAreRecorded, StagesRead
  <2> QED BY <2>3, <2>4
<1>5. ASSUME NEW k \in Key,
             \/ CreateSearchStrategy(k) \/ ReviseSearchStrategy(k)
             \/ RequestSourceScan(k) \/ ReadTool(k)
      PROVE  ToolsInv'
  <2>1. Ends(k, "succeeded") /\ k[1] # "prepare_application"
    BY <1>5 DEF CreateSearchStrategy, ReviseSearchStrategy, RequestSourceScan, ReadTool, Running,
                ReadingTool
  <2>2. UNCHANGED <<artifacts, applicationStage, activity, stageRead, reported>>
    BY <1>5 DEF CreateSearchStrategy, ReviseSearchStrategy, RequestSourceScan, ReadTool
  <2>3. strategies' \cup scans' \subseteq Key /\ activeRevision' \in Key \cup {First}
    BY <1>5 DEF CreateSearchStrategy, ReviseSearchStrategy, RequestSourceScan, ReadTool, ToolsTypeOK
  <2>4. ToolsTypeOK'
    BY <2>1, <2>2, <2>3, EndsTyped DEF ToolsTypeOK
  <2>5. PreparedMeansComplete'
    BY <2>1, <2>2, EndsTyped, OthersStayComplete
  <2>6. MovesAreRecorded' /\ StagesRead'
    BY <2>2 DEF MovesAreRecorded, StagesRead
  <2> QED BY <2>4, <2>5, <2>6
<1>6. ASSUME NEW k \in Key, PrepareApplication(k) PROVE ToolsInv'
  <2>1. UNCHANGED <<strategies, scans, activeRevision, applicationStage, activity, stageRead,
                    reported>>
    BY <1>6 DEF PrepareApplication
  <2>2. MovesAreRecorded' /\ StagesRead'
    BY <2>1 DEF MovesAreRecorded, StagesRead
  <2>3. CASE AllInserted(k) /\ Ends(k, "succeeded") /\ UNCHANGED artifacts
    <3>1. {k} \X ArtifactType \subseteq artifacts'
      BY <2>3 DEF AllInserted, Missing
    <3>2. PreparedMeansComplete'
      BY <2>3, <3>1, EndsTyped, OthersStayComplete
    <3>3. ToolsTypeOK'
      BY <2>1, <2>3, EndsTyped DEF ToolsTypeOK
    <3> QED BY <2>2, <3>2, <3>3
  <2>4. CASE \E t \in Missing(k) :
               artifacts' = artifacts \cup {<<k, t>>} /\ UNCHANGED <<tries, outcome, progress, hitches>>
    BY <2>1, <2>2, <2>4 DEF Missing, ToolsTypeOK, PreparedMeansComplete
  <2> QED BY <1>6, <2>3, <2>4 DEF PrepareApplication
<1>7. ASSUME NEW k \in Key, PrepareInterview(k) PROVE ToolsInv'
  <2>1. /\ Ends(k, "succeeded") /\ k[1] # "prepare_application"
        /\ artifacts' = artifacts \cup {<<k, "interview">>}
        /\ UNCHANGED <<strategies, scans, activeRevision, applicationStage, activity, stageRead,
                       reported>>
    BY <1>7 DEF PrepareInterview, Running
  <2>2. ToolsTypeOK'
    BY <2>1, EndsTyped DEF ToolsTypeOK
  <2>3. PreparedMeansComplete'
    BY <2>1, EndsTyped, OthersStayComplete
  <2>4. MovesAreRecorded' /\ StagesRead'
    BY <2>1 DEF MovesAreRecorded, StagesRead
  <2> QED BY <2>2, <2>3, <2>4
<1>8. ASSUME NEW k \in Key, UpdateApplicationState(k) PROVE ToolsInv'
  <2>1. /\ Ends(k, "succeeded") /\ k[1] # "prepare_application"
        /\ applicationStage' = k /\ activity' = activity \cup {k}
        /\ UNCHANGED <<strategies, artifacts, scans, activeRevision, stageRead, reported>>
    BY <1>8 DEF UpdateApplicationState, Running, Recorded
  <2>2. ToolsTypeOK'
    BY <2>1, EndsTyped DEF ToolsTypeOK
  <2>3. PreparedMeansComplete'
    BY <2>1, EndsTyped, OthersStayComplete
  <2>4. MovesAreRecorded'
    BY <2>1 DEF MovesAreRecorded
  <2>5. StagesRead'
    BY <2>1 DEF StagesRead
  <2> QED BY <2>2, <2>3, <2>4, <2>5
<1>9. ASSUME NEW k \in Key, GetApplicationState(k) PROVE ToolsInv'
  <2>1. UNCHANGED <<strategies, artifacts, activity, applicationStage, scans, activeRevision>>
    BY <1>9 DEF GetApplicationState
  <2>2. k[1] # "prepare_application" /\ k[2] \in 1 .. MaxTries
    BY <1>9, KeyIsStepAndTry DEF GetApplicationState, Running
  <2>3. CASE /\ stageRead' = [stageRead EXCEPT ![k[2]] = applicationStage]
             /\ UNCHANGED <<reported, tries, outcome, progress, hitches>>
    <3>1. ToolsTypeOK'
      BY <2>1, <2>2, <2>3 DEF ToolsTypeOK
    <3>2. PreparedMeansComplete' /\ MovesAreRecorded'
      BY <2>1, <2>3 DEF PreparedMeansComplete, MovesAreRecorded
    <3>3. StagesRead'
      BY <2>1, <2>2, <2>3 DEF StagesRead, MovesAreRecorded, ToolsTypeOK
    <3> QED BY <3>1, <3>2, <3>3
  <2>4. CASE /\ stageRead[k[2]] # Unread /\ Ends(k, "succeeded") /\ UNCHANGED stageRead
             /\ reported' = reported \cup {[stage |-> stageRead[k[2]], history |-> activity]}
    <3>1. ToolsTypeOK'
      BY <2>1, <2>4, EndsTyped DEF ToolsTypeOK
    <3>2. PreparedMeansComplete'
      BY <2>1, <2>2, <2>4, EndsTyped, OthersStayComplete
    <3>3. StagesRead'
      BY <2>1, <2>4 DEF StagesRead
    <3>4. \A answer \in reported' : answer.stage \in answer.history \cup {First}
      BY <2>2, <2>4 DEF StagesRead, MovesAreRecorded
    <3>5. MovesAreRecorded'
      BY <2>1, <3>4 DEF MovesAreRecorded
    <3> QED BY <3>1, <3>2, <3>3, <3>5
  <2> QED BY <1>9, <2>3, <2>4 DEF GetApplicationState
<1> QED BY <1>1, <1>2, <1>3, <1>4, <1>5, <1>6, <1>7, <1>8, <1>9 DEF ToolsNext

\* Whatever times out, fails and is tried again, steps, attempts and rows stay
\* within their domains.
THEOREM ToolsTyped == ToolsSpec => []ToolsTypeOK
<1>1. ToolsInv => ToolsTypeOK
  BY DEF ToolsInv
<1> QED BY <1>1, ToolsInitially, ToolsStep, PTL DEF ToolsSpec

\* prepare_application inserts its artifacts one by one, without a
\* transaction: when it reports success they are all there.
THEOREM PreparedIsComplete == ToolsSpec => []PreparedMeansComplete
<1>1. ToolsInv => PreparedMeansComplete
  BY DEF ToolsInv
<1> QED BY <1>1, ToolsInitially, ToolsStep, PTL DEF ToolsSpec

\* A move by the agent, also one of an attempt that was given up, is in the
\* application's history, and in any history reported with that stage.
THEOREM MovesRecorded == ToolsSpec => []MovesAreRecorded
<1>1. ToolsInv => MovesAreRecorded
  BY DEF ToolsInv
<1> QED BY <1>1, ToolsInitially, ToolsStep, PTL DEF ToolsSpec
=============================================================================
