----------------------------- MODULE SourceRuns -----------------------------
(***************************************************************************)
(* The runs of one crawl source, from the request that begins a run to the *)
(* job rows and the search session it changes (services/scout/src).        *)
(*                                                                         *)
(* Three programs and a queue.  A run is begun by the coordinator's timer  *)
(* (bin/coordinator.rs), by an approved scan request or by a search        *)
(* session (bin/api.rs, orchestration.rs), and published as a task.  A     *)
(* worker (bin/worker.rs) crawls it, publishes the result in chunks, and   *)
(* only then acknowledges the task.  The coordinator saves each chunk in   *)
(* one transaction (frontier.rs), reconciles the jobs with the final one,  *)
(* and refreshes the sessions attached to the run.                         *)
(*                                                                         *)
(* JetStream is external: an unacknowledged message is delivered again     *)
(* after ack_wait, up to max_deliver times, behind messages sent later.    *)
(*                                                                         *)
(* Abstractions.  One source and one session; URLs, pages and rows of the  *)
(* frontier are not represented; a board's jobs are any set; whether the   *)
(* recrawl interval is over is any choice; reranking is left out.          *)
(*                                                                         *)
(* NonEmptyChunkings, SkipUnpublished, ReconcilesAnyChunk,                 *)
(* SeenStayMarked and EndWithoutRefresh are faulty variants of the         *)
(* operators that follow them, used by nothing; the README says which      *)
(* property each breaks.                                                   *)
(***************************************************************************)
EXTENDS Integers, FiniteSets, Sequences

CONSTANTS
  MaxRuns,          \* bound: source runs the model can hold
  Job,              \* jobs the board may list
  Worker,           \* crawl workers
  Actors,           \* who begins runs: "timer", "scan", "session"
  CompleteScan,     \* sources.supports_complete_scan
  MaxDeliver,       \* max_deliver of the task consumer: 5 in the code
  MaxResultDeliver, \* max_deliver of the result consumer: 8 in the code
  MaxChunks,        \* bound: chunks of one result
  MaxTasks,         \* bound: tasks ever published
  MaxFaults,        \* bound: crashes and failed calls
  SlowConsumers,    \* TRUE: ack_wait may pass while a message is being handled
  ApiMayCrash       \* TRUE: the API process may stop in a request

Run == 1 .. MaxRuns     \* in the order of started_at
NoRun == 0

ASSUME SourceAssumption ==
  /\ MaxRuns \in Nat /\ MaxChunks \in Nat \ {0} /\ MaxTasks \in Nat /\ MaxFaults \in Nat
  /\ MaxDeliver \in Nat \ {0} /\ MaxResultDeliver \in Nat \ {0}
  /\ Actors \subseteq {"timer", "scan", "session"}
  /\ CompleteScan \in BOOLEAN /\ SlowConsumers \in BOOLEAN /\ ApiMayCrash \in BOOLEAN

RunStatus == {"absent", "running", "success", "partial", "failed"}
Lifecycle == {"unknown", "active", "possibly_closed", "closed"}
Health == {"unscanned", "stale", "fresh", "scanning"}
SourceState == Health \cup {"none", "queued", "success", "failed", "deferred"}

Chunk  == [run : Run, jobs : SUBSET Job, final : BOOLEAN, ok : BOOLEAN]
Task   == [run : Run, tries : 0 .. MaxDeliver, acked : BOOLEAN]
Result == [chunk : Chunk, tries : 0 .. MaxResultDeliver, acked : BOOLEAN]

VARIABLES
  runStatus,    \* source_runs.status
  succeeded,    \* sources.last_success_at IS NOT NULL
  life,         \* jobs.lifecycle_status
  seen,         \* source_run_jobs, by run
  tasks,        \* the pending subject: every task published, in order
  results,      \* the result subject: every chunk published, in order
  wpc, wtask, wout,   \* per worker: where it is, its message, chunks to publish
  cpc, cmsg, crun,    \* coordinator: where it is, its message, the run it begins
  sstate, srun,       \* search_session_sources.state and source_run_id
  apc, arun, ahealth, \* search request: where it is, its run, the state it read
  xpc, xrun,          \* scan request: where it is, the run of its key
  misses,       \* history: runs that ended without a job since it was last found
  finished,     \* history: how often a final chunk of a run was saved
  latest,       \* history: the run whose complete scan ended last
  faults        \* bound counter

jobVars   == <<runStatus, succeeded, life, seen, misses, finished, latest>>
workVars  == <<wpc, wtask, wout>>
coordVars == <<cpc, cmsg, crun>>
sessVars  == <<sstate, srun>>
apiVars   == <<apc, arun, ahealth>>
scanVars  == <<xpc, xrun>>
vars == <<jobVars, tasks, results, workVars, coordVars, sessVars, apiVars, scanVars, faults>>

Init ==
  /\ runStatus = [r \in Run |-> "absent"] /\ succeeded = FALSE
  /\ life = [j \in Job |-> "unknown"] /\ seen = [r \in Run |-> {}]
  /\ tasks = <<>> /\ results = <<>>
  /\ wpc = [w \in Worker |-> "idle"] /\ wtask = [w \in Worker |-> 0]
  /\ wout = [w \in Worker |-> <<>>]
  /\ cpc = "idle" /\ cmsg = 0 /\ crun = NoRun
  /\ sstate = "none" /\ srun = NoRun
  /\ apc = "idle" /\ arun = NoRun /\ ahealth = "unscanned"
  /\ xpc = "idle" /\ xrun = NoRun
  /\ misses = [j \in Job |-> {}] /\ finished = [r \in Run |-> 0] /\ latest = NoRun
  /\ faults = 0

-----------------------------------------------------------------------------
\* The queue (external).  A message's first delivery is in order; a message
\* delivered before may come again.  With SlowConsumers a copy may be handled
\* while another is in hand, or after another was acknowledged.
Deliverable(log, max, held) ==
  {m \in DOMAIN log : /\ log[m].tries < max
                      /\ \A k \in 1 .. m - 1 : log[m].tries = 0 => log[k].tries > 0
                      /\ SlowConsumers \/ (~log[m].acked /\ m \notin held)}
Delivered(log, m) == [log EXCEPT ![m].tries = @ + 1]
Acked(log, m)     == [log EXCEPT ![m].acked = TRUE]

TaskOf(r)   == [run |-> r, tries |-> 0, acked |-> FALSE]
Publish(r)  == Len(tasks) < MaxTasks /\ tasks' = Append(tasks, TaskOf(r))
\* A publish whose confirmation is lost: the task may be in the stream or not.
PublishUnconfirmed(r) == UNCHANGED tasks \/ Publish(r)
Fault == faults < MaxFaults /\ faults' = faults + 1

\* begin_source_run: a new row, younger than every other.
NextRuns == {r \in Run : runStatus[r] = "absent" /\ \A q \in 1 .. r - 1 : runStatus[q] # "absent"}
Begun == {r \in Run : runStatus[r] # "absent"}
BeginRun(r) ==
  /\ r \in NextRuns
  /\ runStatus' = [runStatus EXCEPT ![r] = "running"]
  /\ UNCHANGED <<succeeded, life, seen, misses, finished, latest>>
FailRun(r) ==
  /\ runStatus' = [runStatus EXCEPT ![r] = "failed"]
  /\ UNCHANGED <<succeeded, life, seen, misses, finished, latest>>

\* refresh_session: the attached run's status, whatever the state was.
RefreshSession ==
  /\ sstate' = IF srun = NoRun THEN sstate
               ELSE CASE runStatus[srun] = "running" -> "scanning"
                      [] runStatus[srun] = "success" -> "success"
                      [] OTHER -> "failed"
  /\ UNCHANGED srun

-----------------------------------------------------------------------------
\* A worker.  It takes a task, crawls, publishes every chunk, acknowledges.
Held == {wtask[w] : w \in {v \in Worker : wpc[v] # "idle"}}

WorkerAt(w, label) == wpc' = [wpc EXCEPT ![w] = label]
TakeTask(w) ==
  /\ wpc[w] = "idle"
  /\ \E m \in Deliverable(tasks, MaxDeliver, Held) :
       /\ tasks' = Delivered(tasks, m)
       /\ wtask' = [wtask EXCEPT ![w] = m]
  /\ WorkerAt(w, "crawl")
  /\ UNCHANGED <<jobVars, results, wout, coordVars, sessVars, apiVars, scanVars, faults>>

\* chunk_result: the board's jobs (any set) are split between chunks none of
\* which is empty; a crawl without jobs, and a failed one, is a single chunk.
Splits == UNION {[1 .. n -> SUBSET Job] : n \in 0 .. MaxChunks}
Disjoint(c) == \A i, k \in 1 .. Len(c) : i # k => c[i] \cap c[k] = {}
NonEmptyChunkings == {c \in Splits : Disjoint(c) /\ \A i \in 1 .. Len(c) : c[i] # {}}
Chunkings == {c \in Splits : /\ Disjoint(c) /\ Len(c) > 0
                             /\ Len(c) = 1 \/ \A i \in 1 .. Len(c) : c[i] # {}}
ChunksOf(r, c, ok) ==
  [i \in 1 .. Len(c) |-> [run |-> r, jobs |-> c[i], final |-> i = Len(c), ok |-> ok]]

Crawl(w) ==
  /\ wpc[w] = "crawl"
  /\ LET r == tasks[wtask[w]].run IN
     \/ \E c \in Chunkings : wout' = [wout EXCEPT ![w] = ChunksOf(r, c, TRUE)]
     \/ wout' = [wout EXCEPT ![w] = ChunksOf(r, <<{}>>, FALSE)]
  /\ WorkerAt(w, "publish")
  /\ UNCHANGED <<jobVars, tasks, results, wtask, coordVars, sessVars, apiVars, scanVars, faults>>

ResultOf(chunk) == [chunk |-> chunk, tries |-> 0, acked |-> FALSE]
PublishChunk(w) ==
  /\ wpc[w] = "publish"
  /\ results' = Append(results, ResultOf(Head(wout[w])))
  /\ wout' = [wout EXCEPT ![w] = Tail(@)]
  /\ WorkerAt(w, IF Len(wout[w]) = 1 THEN "ack" ELSE "publish")
  /\ UNCHANGED <<jobVars, tasks, wtask, coordVars, sessVars, apiVars, scanVars, faults>>

AckTask(w) ==
  /\ wpc[w] = "ack"
  /\ tasks' = Acked(tasks, wtask[w])
  /\ WorkerAt(w, "idle") /\ wtask' = [wtask EXCEPT ![w] = 0]
  /\ UNCHANGED <<jobVars, results, wout, coordVars, sessVars, apiVars, scanVars, faults>>

\* A chunk that cannot be confirmed leaves the whole task for redelivery.
SkipUnpublished(w) ==
  /\ wpc[w] = "publish" /\ Fault
  /\ wout' = [wout EXCEPT ![w] = Tail(@)]
  /\ WorkerAt(w, IF Len(wout[w]) = 1 THEN "ack" ELSE "publish")
  /\ UNCHANGED <<jobVars, tasks, results, wtask, coordVars, sessVars, apiVars, scanVars>>
PublishFails(w) ==
  /\ wpc[w] = "publish" /\ Fault
  /\ results' \in {results, Append(results, ResultOf(Head(wout[w])))}
  /\ WorkerAt(w, "idle")
  /\ wtask' = [wtask EXCEPT ![w] = 0] /\ wout' = [wout EXCEPT ![w] = <<>>]
  /\ UNCHANGED <<jobVars, tasks, coordVars, sessVars, apiVars, scanVars>>

\* The process stops, or its acknowledgement is lost.
AbandonTask(w) ==
  /\ wpc[w] # "idle" /\ Fault
  /\ WorkerAt(w, "idle")
  /\ wtask' = [wtask EXCEPT ![w] = 0] /\ wout' = [wout EXCEPT ![w] = <<>>]
  /\ UNCHANGED <<jobVars, tasks, results, coordVars, sessVars, apiVars, scanVars>>

-----------------------------------------------------------------------------
\* The coordinator: one process.  save_result is one transaction.
CoordAt(label) == cpc' = label
InCoord == IF cpc \in {"save", "sessions", "refresh", "ack"} THEN {cmsg} ELSE {}
TakeResult ==
  /\ cpc = "idle"
  /\ \E m \in Deliverable(results, MaxResultDeliver, InCoord) :
       results' = Delivered(results, m) /\ cmsg' = m
  /\ CoordAt("save")
  /\ UNCHANGED <<jobVars, tasks, workVars, crun, sessVars, apiVars, scanVars, faults>>

\* upsert_job makes a job active and joins it to the run.  The final chunk of
\* a complete run makes the jobs of the run active again and moves every other
\* open job of the source one step towards closed.
Found(chunk) == seen[chunk.run] \cup chunk.jobs
Known(chunk) == {j \in Job : life[j] # "unknown"} \cup chunk.jobs
ReconcilesAnyChunk(chunk) == chunk.ok /\ CompleteScan
Reconciles(chunk) == chunk.final /\ chunk.ok /\ CompleteScan
Upserted(chunk, j) == IF j \in chunk.jobs THEN "active" ELSE life[j]
OneAbsence(l) == IF l = "active" THEN "possibly_closed" ELSE "closed"
SeenStayMarked(chunk, j) ==
  IF Reconciles(chunk) /\ j \in Known(chunk) \ Found(chunk) THEN OneAbsence(life[j])
  ELSE Upserted(chunk, j)
AfterChunk(chunk, j) ==
  IF Reconciles(chunk) /\ j \in Found(chunk) THEN "active"
  ELSE IF Reconciles(chunk) /\ j \in Known(chunk) THEN OneAbsence(life[j])
  ELSE Upserted(chunk, j)
FinalStatus(chunk) == IF ~chunk.ok THEN "failed" ELSE IF CompleteScan THEN "success" ELSE "partial"

\* History: a complete successful scan ends; a job it has not found is missed.
ScanEnds(chunk) == chunk.final /\ chunk.ok /\ CompleteScan
MissedBy(chunk, j) ==
  IF j \in chunk.jobs \/ (ScanEnds(chunk) /\ j \in Found(chunk)) THEN {}
  ELSE IF ScanEnds(chunk) /\ j \in Known(chunk) THEN misses[j] \cup {chunk.run}
  ELSE misses[j]

SaveResult ==
  LET chunk == results[cmsg].chunk
      r     == chunk.run IN
  /\ cpc = "save"
  /\ seen' = [seen EXCEPT ![r] = Found(chunk)]
  /\ life' = [j \in Job |-> AfterChunk(chunk, j)]
  /\ IF chunk.final
     THEN runStatus' = [runStatus EXCEPT ![r] = FinalStatus(chunk)] /\ CoordAt("sessions")
     ELSE UNCHANGED runStatus /\ CoordAt("ack")
  /\ succeeded' = (succeeded \/ Reconciles(chunk))
  /\ misses' = [j \in Job |-> MissedBy(chunk, j)]
  /\ finished' = [finished EXCEPT ![r] = IF chunk.final THEN @ + 1 ELSE @]
  /\ latest' = IF ScanEnds(chunk) THEN r ELSE latest
  /\ UNCHANGED <<tasks, results, workVars, cmsg, crun, sessVars, apiVars, scanVars, faults>>

\* sessions_for_completed_run refreshes what is attached now; after the rerank
\* the session is refreshed once more.
RefreshAttached ==
  /\ cpc = "sessions"
  /\ IF srun = results[cmsg].chunk.run
     THEN RefreshSession /\ CoordAt("refresh")
     ELSE UNCHANGED sessVars /\ CoordAt("ack")
  /\ UNCHANGED <<jobVars, tasks, results, workVars, cmsg, crun, apiVars, scanVars, faults>>

RefreshReranked ==
  /\ cpc = "refresh"
  /\ RefreshSession /\ CoordAt("ack")
  /\ UNCHANGED <<jobVars, tasks, results, workVars, cmsg, crun, apiVars, scanVars, faults>>

AckResult ==
  /\ cpc = "ack"
  /\ results' = Acked(results, cmsg)
  /\ CoordAt("idle") /\ cmsg' = 0
  /\ UNCHANGED <<jobVars, tasks, workVars, crun, sessVars, apiVars, scanVars, faults>>

\* At startup, and when the timer finds the source due, a run is begun and
\* its task published.
BeginScheduled ==
  /\ "timer" \in Actors /\ cpc = "idle"
  /\ \E r \in Run : BeginRun(r) /\ crun' = r
  /\ CoordAt("seed")
  /\ UNCHANGED <<tasks, results, workVars, cmsg, sessVars, apiVars, scanVars, faults>>

PublishScheduled ==
  /\ cpc = "seed"
  /\ Publish(crun) /\ CoordAt("idle") /\ crun' = NoRun
  /\ UNCHANGED <<jobVars, results, workVars, cmsg, sessVars, apiVars, scanVars, faults>>

\* Every error of the coordinator ends its process; it is started again.
CoordinatorStops ==
  /\ cpc # "idle" /\ Fault
  /\ IF cpc = "seed" THEN PublishUnconfirmed(crun) ELSE UNCHANGED tasks
  /\ CoordAt("idle") /\ cmsg' = 0 /\ crun' = NoRun
  /\ UNCHANGED <<jobVars, results, workVars, sessVars, apiVars, scanVars>>

-----------------------------------------------------------------------------
\* A search request: select_sources, then queue_selected_sources.  Selection
\* reads the source's health (any success may be over six hours old), and replaces the session's row in a transaction
\* that does not lock what it read.
ApiAt(label) == apc' = label
Newest == {r \in Begun : \A q \in Begun : q <= r}
ApiOnly == UNCHANGED <<jobVars, tasks, results, workVars, coordVars, scanVars, faults>>

ReadHealth ==
  /\ "session" \in Actors /\ apc \in {"idle", "stopped"}
  /\ \/ \E r \in Newest : /\ runStatus[r] = "running"
                          /\ ahealth' = "scanning" /\ arun' = r
     \/ /\ \A r \in Newest : runStatus[r] # "running"
        /\ ahealth' \in IF succeeded THEN {"fresh", "stale"} ELSE {"unscanned"}
        /\ arun' = NoRun
  /\ ApiAt("insert")
  /\ ApiOnly /\ UNCHANGED sessVars

InsertSelection ==
  /\ apc = "insert"
  /\ sstate' = ahealth /\ srun' = arun
  /\ ApiAt("selected") /\ arun' = NoRun /\ UNCHANGED ahealth
  /\ ApiOnly

RefreshSelection ==
  /\ apc = "selected"
  /\ RefreshSession /\ ApiAt("queue")
  /\ ApiOnly /\ UNCHANGED <<arun, ahealth>>

\* Rows that are stale or unscanned are queued, or deferred when the process
\* has no connection to the queue.
ReadSelection ==
  /\ apc = "queue"
  /\ \/ sstate \in {"stale", "unscanned"} /\ ApiAt("begin")
     \/ sstate \in {"stale", "unscanned"} /\ ApiAt("deferAll")
     \/ sstate \notin {"stale", "unscanned"} /\ ApiAt("end")
  /\ ApiOnly /\ UNCHANGED <<sessVars, arun, ahealth>>

DeferAll ==
  /\ apc = "deferAll"
  /\ sstate' = "deferred" /\ ApiAt("end")
  /\ ApiOnly /\ UNCHANGED <<srun, arun, ahealth>>

BeginSelected ==
  /\ apc = "begin"
  /\ \E r \in Run : BeginRun(r) /\ arun' = r
  /\ ApiAt("publish")
  /\ UNCHANGED <<tasks, results, workVars, coordVars, sessVars, ahealth, scanVars, faults>>

PublishSelected ==
  /\ apc = "publish"
  /\ Publish(arun) /\ ApiAt("attach")
  /\ UNCHANGED <<jobVars, results, workVars, coordVars, sessVars, arun, ahealth, scanVars, faults>>

PublishSelectedFails ==
  /\ apc = "publish" /\ Fault
  /\ PublishUnconfirmed(arun) /\ ApiAt("fail")
  /\ UNCHANGED <<jobVars, results, workVars, coordVars, sessVars, arun, ahealth, scanVars>>

AttachRun ==
  /\ apc = "attach"
  /\ sstate' = "queued" /\ srun' = arun /\ ApiAt("end")
  /\ ApiOnly /\ UNCHANGED <<arun, ahealth>>

FailSelected ==
  /\ apc = "fail"
  /\ FailRun(arun) /\ ApiAt("defer")
  /\ UNCHANGED <<tasks, results, workVars, coordVars, sessVars, arun, ahealth, scanVars, faults>>

DeferSelected ==
  /\ apc = "defer"
  /\ sstate' = "deferred" /\ srun' = arun /\ ApiAt("end")
  /\ ApiOnly /\ UNCHANGED <<arun, ahealth>>

\* queue_selected_sources ends with a refresh.
EndWithoutRefresh ==
  /\ apc = "end"
  /\ ApiAt("idle") /\ arun' = NoRun
  /\ ApiOnly /\ UNCHANGED <<sessVars, ahealth>>
EndSelection ==
  /\ apc = "end"
  /\ RefreshSession /\ ApiAt("idle") /\ arun' = NoRun
  /\ ApiOnly /\ UNCHANGED ahealth

ApiStops ==
  /\ ApiMayCrash /\ apc \notin {"idle", "stopped"} /\ Fault
  /\ ApiAt("stopped") /\ arun' = NoRun
  /\ UNCHANGED <<jobVars, tasks, results, workVars, coordVars, sessVars, ahealth, scanVars>>

\* get_search_session: the client looks at the session.
PollSession ==
  /\ sstate # "none" /\ RefreshSession
  /\ UNCHANGED <<jobVars, tasks, results, workVars, coordVars, apiVars, scanVars, faults>>

-----------------------------------------------------------------------------
\* request_source_scan: the run is named by the request's idempotency key.  A
\* retry with the key of a run that is still running publishes it again, and
\* JetStream drops the duplicate only within its duplicate window.
ScanAt(label) == xpc' = label
RequestScan ==
  /\ "scan" \in Actors /\ xpc = "idle"
  /\ \E r \in Run : BeginRun(r) /\ xrun' = r
  /\ ScanAt("publish")
  /\ UNCHANGED <<tasks, results, workVars, coordVars, sessVars, apiVars, faults>>

RetryScan ==
  /\ xpc = "idle" /\ xrun # NoRun /\ runStatus[xrun] = "running"
  /\ ScanAt("republish")
  /\ UNCHANGED <<jobVars, tasks, results, workVars, coordVars, sessVars, apiVars, xrun, faults>>

InStream(r) == \E m \in DOMAIN tasks : tasks[m].run = r
PublishScan ==
  /\ xpc \in {"publish", "republish"}
  /\ \/ Publish(xrun)
     \/ InStream(xrun) /\ UNCHANGED tasks
  /\ ScanAt("idle")
  /\ UNCHANGED <<jobVars, results, workVars, coordVars, sessVars, apiVars, xrun, faults>>

\* The publish is not sent; or it is not confirmed, and a new run is failed.
PublishScanFails ==
  /\ xpc \in {"publish", "republish"} /\ Fault
  /\ \/ UNCHANGED tasks /\ ScanAt("idle")
     \/ PublishUnconfirmed(xrun) /\ ScanAt(IF xpc = "publish" THEN "fail" ELSE "idle")
  /\ UNCHANGED <<jobVars, results, workVars, coordVars, sessVars, apiVars, xrun>>

FailScan ==
  /\ xpc = "fail"
  /\ FailRun(xrun) /\ ScanAt("idle")
  /\ UNCHANGED <<tasks, results, workVars, coordVars, sessVars, apiVars, xrun, faults>>

-----------------------------------------------------------------------------
WorkerStep(w) == TakeTask(w) \/ Crawl(w) \/ PublishChunk(w) \/ AckTask(w)
CoordinatorStep == \/ TakeResult \/ SaveResult \/ RefreshAttached \/ RefreshReranked
                   \/ AckResult \/ PublishScheduled
ApiStep == \/ InsertSelection \/ RefreshSelection \/ ReadSelection \/ DeferAll
           \/ BeginSelected \/ PublishSelected \/ AttachRun \/ FailSelected
           \/ DeferSelected \/ EndSelection
ScanStep == PublishScan \/ FailScan
Faults == \/ \E w \in Worker : PublishFails(w) \/ AbandonTask(w)
          \/ CoordinatorStops \/ PublishSelectedFails \/ ApiStops \/ PublishScanFails

Next == \/ \E w \in Worker : WorkerStep(w)
        \/ CoordinatorStep \/ BeginScheduled
        \/ ApiStep \/ ReadHealth \/ PollSession
        \/ ScanStep \/ RequestScan \/ RetryScan
        \/ Faults

Spec == Init /\ [][Next]_vars

\* Programs that run keep running; no client has to look or to retry.
Fairness == /\ \A w \in Worker : WF_vars(WorkerStep(w))
            /\ WF_vars(CoordinatorStep) /\ WF_vars(ApiStep) /\ WF_vars(ScanStep)
FairSpec == Spec /\ Fairness

-----------------------------------------------------------------------------
(***************************************************************************)
(* Properties.                                                             *)
(***************************************************************************)
\* Every row, message and program counter stays within its domain, nobody
\* handles a message that was never sent, and no message is delivered more
\* often than its consumer allows.
RowsOK ==
  /\ runStatus \in [Run -> RunStatus] /\ succeeded \in BOOLEAN
  /\ life \in [Job -> Lifecycle] /\ seen \in [Run -> SUBSET Job]
  /\ misses \in [Job -> SUBSET Run] /\ finished \in [Run -> Nat]
  /\ latest \in Run \cup {NoRun}
QueueOK == tasks \in Seq(Task) /\ results \in Seq(Result)
WorkersOK ==
  /\ wpc \in [Worker -> {"idle", "crawl", "publish", "ack"}]
  /\ wtask \in [Worker -> 0 .. Len(tasks)] /\ wout \in [Worker -> Seq(Chunk)]
  /\ \A w \in Worker : /\ wpc[w] # "idle" => wtask[w] # 0
                       /\ wpc[w] = "publish" => wout[w] # <<>>
CoordinatorOK ==
  /\ cpc \in {"idle", "seed", "save", "sessions", "refresh", "ack"}
  /\ cmsg \in 0 .. Len(results) /\ crun \in Run \cup {NoRun}
  /\ cpc \in {"save", "sessions", "refresh", "ack"} => cmsg # 0
  /\ cpc = "seed" => crun # NoRun
SessionOK == sstate \in SourceState /\ srun \in Run \cup {NoRun}
ApiOK ==
  /\ apc \in {"idle", "insert", "selected", "queue", "deferAll", "begin", "publish",
              "attach", "fail", "defer", "end", "stopped"}
  /\ arun \in Run \cup {NoRun} /\ ahealth \in Health
  /\ apc \in {"publish", "attach", "fail", "defer"} => arun # NoRun
ScanOK ==
  /\ xpc \in {"idle", "publish", "republish", "fail"} /\ xrun \in Run \cup {NoRun}
  /\ xpc # "idle" => xrun # NoRun
TypeOK == /\ RowsOK /\ QueueOK /\ WorkersOK /\ CoordinatorOK /\ SessionOK /\ ApiOK
          /\ ScanOK /\ faults \in 0 .. MaxFaults

Missing(j) == life[j] \in {"possibly_closed", "closed"}

\* However chunks are lost, repeated and reordered, and runs interleaved, a job
\* is marked missing only while the complete scan that ended last has not
\* found it: a late chunk undoes what the final chunk did without it.
MissingMeansUnseen ==
  \A j \in Job : Missing(j) => latest # NoRun /\ j \notin seen[latest]

\* A closed job was missed by two different runs since it was last found,
\* unless one run that missed it ended more than once.
ClosedByTwoRuns ==
  \A j \in Job : life[j] = "closed" =>
    \/ \E q, r \in misses[j] : q # r
    \/ \E r \in misses[j] : finished[r] > 1

\* The inductive form of the two: what a marked job has been through.
OpenMissWasSeen == \A j \in Job : life[j] = "possibly_closed" => misses[j] # {}
MissingRunEnded == \A j \in Job : \A r \in misses[j] : finished[r] > 0
LifeInv == MissingMeansUnseen /\ ClosedByTwoRuns /\ OpenMissWasSeen /\ MissingRunEnded

\* docs/implementation-decisions.md:16 "One complete successful absence marks a
\* job `possibly_closed`; a second complete successful absence marks it
\* `closed`": a closed job was missed by two different runs.
TwoAbsences ==
  \A j \in Job : life[j] = "closed" => \E q, r \in misses[j] : q # r

\* docs/source-support.md:43 "the affected source selections are explicitly
\* `deferred`": a selection stays deferred until the session selects again.
DeferredStays ==
  [][sstate = "deferred" => sstate' = "deferred" \/ apc = "insert"]_vars

\* A run whose task is in the stream comes to an end, when fewer calls fail
\* than a message has deliveries.
RunEnds ==
  \A r \in Run : InStream(r) /\ runStatus[r] = "running" ~> runStatus[r] # "running"

\* A session does not go on waiting for a run whose task is in the stream,
\* though the run may end before the session is attached to it, and though
\* nobody polls; only the API process stopping in the request excuses it.
Waiting(r) == srun = r /\ sstate \in {"queued", "scanning"}
SessionSettles ==
  \A r \in Run : InStream(r) /\ Waiting(r) ~> ~Waiting(r) \/ apc = "stopped"
=============================================================================
