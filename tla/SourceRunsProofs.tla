-------------------------- MODULE SourceRunsProofs --------------------------
(***************************************************************************)
(* Proofs about SourceRuns, for any number of runs, jobs, workers, chunks, *)
(* deliveries and faults, whoever begins runs, and with or without         *)
(* consumers that outlast ack_wait.                                        *)
(*                                                                         *)
(* Type correctness is inductive by itself.  The two facts about job rows  *)
(* are proved together as LifeInv: the only step that changes a job row,   *)
(* or a run's set of found jobs, is the transaction that saves a chunk, so *)
(* its step carries the argument and every other step leaves it alone.     *)
(***************************************************************************)
EXTENDS SourceRuns, SequenceTheorems, TLAPS

-----------------------------------------------------------------------------
\* The message logs.

\* Delivering or acknowledging a message keeps the log a log of its length.
LEMMA TaskLog ==
  ASSUME NEW log \in Seq(Task), NEW m \in 1 .. Len(log)
  PROVE  /\ Acked(log, m) \in Seq(Task) /\ Len(Acked(log, m)) = Len(log)
         /\ log[m].tries < MaxDeliver =>
              Delivered(log, m) \in Seq(Task) /\ Len(Delivered(log, m)) = Len(log)
<1>1. log[m] \in Task
  BY ElementOfSeq
<1>2. [log[m] EXCEPT !.acked = TRUE] \in Task
  BY <1>1 DEF Task
<1>3. Acked(log, m) = [log EXCEPT ![m] = [log[m] EXCEPT !.acked = TRUE]]
  BY DEF Acked
<1>4. Delivered(log, m) = [log EXCEPT ![m] = [log[m] EXCEPT !.tries = log[m].tries + 1]]
  BY DEF Delivered
<1>5. ASSUME log[m].tries < MaxDeliver
      PROVE  [log[m] EXCEPT !.tries = log[m].tries + 1] \in Task
  <2>1. log[m].tries + 1 \in 0 .. MaxDeliver
    BY <1>1, <1>5, SourceAssumption DEF Task
  <2> QED BY <1>1, <2>1 DEF Task
<1> QED BY <1>2, <1>3, <1>4, <1>5, ExceptSeq

\* The same of the log of results.
LEMMA ResultLog ==
  ASSUME NEW log \in Seq(Result), NEW m \in 1 .. Len(log)
  PROVE  /\ Acked(log, m) \in Seq(Result) /\ Len(Acked(log, m)) = Len(log)
         /\ log[m].tries < MaxResultDeliver =>
              Delivered(log, m) \in Seq(Result) /\ Len(Delivered(log, m)) = Len(log)
<1>1. log[m] \in Result
  BY ElementOfSeq
<1>2. [log[m] EXCEPT !.acked = TRUE] \in Result
  BY <1>1 DEF Result
<1>3. Acked(log, m) = [log EXCEPT ![m] = [log[m] EXCEPT !.acked = TRUE]]
  BY DEF Acked
<1>4. Delivered(log, m) = [log EXCEPT ![m] = [log[m] EXCEPT !.tries = log[m].tries + 1]]
  BY DEF Delivered
<1>5. ASSUME log[m].tries < MaxResultDeliver
      PROVE  [log[m] EXCEPT !.tries = log[m].tries + 1] \in Result
  <2>1. log[m].tries + 1 \in 0 .. MaxResultDeliver
    BY <1>1, <1>5, SourceAssumption DEF Result
  <2> QED BY <1>1, <2>1 DEF Result
<1> QED BY <1>2, <1>3, <1>4, <1>5, ExceptSeq

\* A published task, confirmed or not, leaves a log at least as long.
LEMMA PublishedLog ==
  ASSUME tasks \in Seq(Task), NEW r \in Run, PublishUnconfirmed(r) \/ Publish(r)
  PROVE  tasks' \in Seq(Task) /\ Len(tasks') >= Len(tasks)
<1>1. TaskOf(r) \in Task
  BY SourceAssumption DEF TaskOf, Task
<1>2. Append(tasks, TaskOf(r)) \in Seq(Task) /\ Len(Append(tasks, TaskOf(r))) = Len(tasks) + 1
  BY <1>1
<1> QED BY <1>2 DEF PublishUnconfirmed, Publish

\* A published chunk becomes the last result.
LEMMA PublishedResult ==
  ASSUME results \in Seq(Result), NEW chunk \in Chunk
  PROVE  /\ Append(results, ResultOf(chunk)) \in Seq(Result)
         /\ Len(Append(results, ResultOf(chunk))) = Len(results) + 1
<1>1. ResultOf(chunk) \in Result
  BY SourceAssumption DEF ResultOf, Result
<1> QED BY <1>1

\* A crawl has at least one chunk, and every chunk is of its run.
LEMMA ChunksType ==
  ASSUME NEW r \in Run, NEW ok \in BOOLEAN,
         NEW c \in Chunkings \cup {<<{}>>}
  PROVE  ChunksOf(r, c, ok) \in Seq(Chunk) /\ ChunksOf(r, c, ok) # <<>>
<1>1. PICK n \in Nat : c \in [1 .. n -> SUBSET Job] /\ Len(c) = n /\ n > 0
  <2>1. CASE c = <<{}>>
    BY <2>1
  <2>2. CASE c \in Chunkings
    BY <2>2, SourceAssumption DEF Chunkings, Splits
  <2> QED BY <2>1, <2>2
<1>2. ChunksOf(r, c, ok) \in [1 .. n -> Chunk]
  BY <1>1 DEF ChunksOf, Chunk
<1>3. ChunksOf(r, c, ok) \in Seq(Chunk) /\ Len(ChunksOf(r, c, ok)) = n
  BY <1>1, <1>2, SeqDef DEF ChunksOf
<1> QED BY <1>1, <1>3

-----------------------------------------------------------------------------
\* Type correctness, one group of variables at a time.

\* A group whose variables a step leaves alone stays as it is.
LEMMA Frames ==
  ASSUME TypeOK
  PROVE  /\ UNCHANGED jobVars => RowsOK'
         /\ tasks' \in Seq(Task) /\ results' \in Seq(Result) => QueueOK'
         /\ UNCHANGED workVars /\ Len(tasks') >= Len(tasks) /\ tasks' \in Seq(Task) => WorkersOK'
         /\ UNCHANGED coordVars /\ Len(results') >= Len(results) /\ results' \in Seq(Result)
              => CoordinatorOK'
         /\ UNCHANGED sessVars => SessionOK'
         /\ UNCHANGED apiVars => ApiOK'
         /\ UNCHANGED scanVars => ScanOK'
         /\ faults' = faults \/ Fault => faults' \in 0 .. MaxFaults
<1>1. UNCHANGED jobVars => RowsOK'
  BY DEF TypeOK, RowsOK, jobVars
<1>2. tasks' \in Seq(Task) /\ results' \in Seq(Result) => QueueOK'
  BY DEF QueueOK
<1>3. ASSUME UNCHANGED workVars, Len(tasks') >= Len(tasks), tasks' \in Seq(Task)
      PROVE  WorkersOK'
  <2>1. Len(tasks) \in Nat /\ Len(tasks') \in Nat
    BY <1>3, LenProperties DEF TypeOK, QueueOK
  <2>2. 0 .. Len(tasks) \subseteq 0 .. Len(tasks')
    BY <1>3, <2>1
  <2>3. wtask' \in [Worker -> 0 .. Len(tasks')]
    BY <1>3, <2>2 DEF TypeOK, WorkersOK, workVars
  <2> QED BY <1>3, <2>3 DEF TypeOK, WorkersOK, workVars
<1>4. ASSUME UNCHANGED coordVars, Len(results') >= Len(results), results' \in Seq(Result)
      PROVE  CoordinatorOK'
  <2>1. Len(results) \in Nat /\ Len(results') \in Nat
    BY <1>4, LenProperties DEF TypeOK, QueueOK
  <2> QED BY <1>4, <2>1 DEF TypeOK, CoordinatorOK, coordVars
<1>5. UNCHANGED sessVars => SessionOK'
  BY DEF TypeOK, SessionOK, sessVars
<1>6. UNCHANGED apiVars => ApiOK'
  BY DEF TypeOK, ApiOK, apiVars
<1>7. UNCHANGED scanVars => ScanOK'
  BY DEF TypeOK, ScanOK, scanVars
<1>8. faults' = faults \/ Fault => faults' \in 0 .. MaxFaults
  BY SourceAssumption DEF TypeOK, Fault
<1> QED BY <1>1, <1>2, <1>3, <1>4, <1>5, <1>6, <1>7, <1>8

\* The queue is a sequence of messages and unchanged logs are no shorter.
LEMMA QueueFrame ==
  ASSUME TypeOK
  PROVE  /\ UNCHANGED tasks => tasks' \in Seq(Task) /\ Len(tasks') >= Len(tasks)
         /\ UNCHANGED results => results' \in Seq(Result) /\ Len(results') >= Len(results)
<1>1. Len(tasks) \in Nat /\ Len(results) \in Nat
  BY LenProperties DEF TypeOK, QueueOK
<1> QED BY <1>1 DEF TypeOK, QueueOK

\* The worker's steps.
LEMMA WorkerTypes ==
  ASSUME TypeOK, NEW w \in Worker,
         WorkerStep(w) \/ PublishFails(w) \/ AbandonTask(w)
  PROVE  TypeOK'
<1>1. CASE TakeTask(w)
  <2>1. PICK m \in Deliverable(tasks, MaxDeliver, Held) :
          tasks' = Delivered(tasks, m) /\ wtask' = [wtask EXCEPT ![w] = m]
    BY <1>1 DEF TakeTask
  <2>2. m \in 1 .. Len(tasks) /\ tasks[m].tries < MaxDeliver
    BY <2>1, LenProperties DEF Deliverable, TypeOK, QueueOK
  <2>3. tasks' \in Seq(Task) /\ Len(tasks') = Len(tasks)
    BY <2>1, <2>2, TaskLog DEF TypeOK, QueueOK
  <2>4. WorkersOK'
    BY <1>1, <2>1, <2>2, <2>3 DEF TypeOK, WorkersOK, TakeTask, WorkerAt
  <2> QED BY <1>1, <2>3, <2>4, Frames, QueueFrame DEF TypeOK, TakeTask
<1>2. CASE Crawl(w)
  <2> DEFINE r == tasks[wtask[w]].run
  <2>1. wtask[w] \in 1 .. Len(tasks)
    BY <1>2, LenProperties DEF Crawl, TypeOK, WorkersOK, QueueOK
  <2>2. r \in Run
    <3>1. tasks[wtask[w]] \in Task
      BY <2>1, ElementOfSeq DEF TypeOK, QueueOK
    <3> QED BY <3>1 DEF Task
  <2>3. PICK out \in Seq(Chunk) : out # <<>> /\ wout' = [wout EXCEPT ![w] = out]
    <3>1. CASE \E c \in Chunkings : wout' = [wout EXCEPT ![w] = ChunksOf(r, c, TRUE)]
      BY <2>2, <3>1, ChunksType
    <3>2. CASE wout' = [wout EXCEPT ![w] = ChunksOf(r, <<{}>>, FALSE)]
      BY <2>2, <3>2, ChunksType
    <3> QED BY <1>2, <3>1, <3>2 DEF Crawl
  <2>4. WorkersOK'
    BY <1>2, <2>3 DEF TypeOK, WorkersOK, Crawl, WorkerAt
  <2> QED BY <1>2, <2>4, Frames, QueueFrame DEF TypeOK, Crawl
<1>3. wpc[w] = "publish" => Head(wout[w]) \in Chunk /\ Tail(wout[w]) \in Seq(Chunk)
                            /\ (Len(wout[w]) # 1 => Tail(wout[w]) # <<>>)
  <2>1. SUFFICES ASSUME wpc[w] = "publish"
                 PROVE  Head(wout[w]) \in Chunk /\ Tail(wout[w]) \in Seq(Chunk)
                        /\ (Len(wout[w]) # 1 => Tail(wout[w]) # <<>>)
    OBVIOUS
  <2>2. wout[w] \in Seq(Chunk) /\ wout[w] # <<>>
    BY <2>1 DEF TypeOK, WorkersOK
  <2>3. Len(wout[w]) \in Nat \ {0} /\ Len(Tail(wout[w])) = Len(wout[w]) - 1
    BY <2>2, EmptySeq, HeadTailProperties
  <2>4. Len(wout[w]) # 1 => Tail(wout[w]) # <<>>
    <3>1. SUFFICES ASSUME Tail(wout[w]) = <<>> PROVE Len(wout[w]) = 1
      OBVIOUS
    <3>2. Len(<<>>) = 0
      OBVIOUS
    <3>3. Len(Tail(wout[w])) = 0
      BY <3>1, <3>2, Zenon
    <3> QED BY <2>3, <3>3
  <2> QED BY <2>2, <2>4, HeadTailProperties
<1>4. CASE PublishChunk(w)
  <2>1. results' \in Seq(Result) /\ Len(results') >= Len(results)
    BY <1>3, <1>4, PublishedResult DEF PublishChunk, TypeOK, QueueOK
  <2>2. WorkersOK'
    BY <1>3, <1>4 DEF TypeOK, WorkersOK, PublishChunk, WorkerAt
  <2> QED BY <1>4, <2>1, <2>2, Frames, QueueFrame DEF TypeOK, PublishChunk
<1>5. CASE AckTask(w)
  <2>1. wtask[w] \in 1 .. Len(tasks)
    BY <1>5, LenProperties DEF AckTask, TypeOK, WorkersOK, QueueOK
  <2>2. tasks' \in Seq(Task) /\ Len(tasks') = Len(tasks)
    BY <1>5, <2>1, TaskLog DEF AckTask, TypeOK, QueueOK
  <2>3. WorkersOK'
    BY <1>5, <2>1, <2>2 DEF TypeOK, WorkersOK, AckTask, WorkerAt
  <2> QED BY <1>5, <2>2, <2>3, Frames, QueueFrame DEF TypeOK, AckTask
<1>6. CASE PublishFails(w) \/ AbandonTask(w)
  <2>1. Len(tasks) \in Nat /\ UNCHANGED tasks
    BY <1>6, LenProperties DEF TypeOK, QueueOK, PublishFails, AbandonTask
  <2>2. WorkersOK'
    <3>1. <<>> \in Seq(Chunk)
      BY EmptySeq
    <3>2. /\ wpc' = [wpc EXCEPT ![w] = "idle"] /\ wtask' = [wtask EXCEPT ![w] = 0]
          /\ wout' = [wout EXCEPT ![w] = <<>>]
      BY <1>6 DEF PublishFails, AbandonTask, WorkerAt
    <3> QED BY <2>1, <3>1, <3>2 DEF TypeOK, WorkersOK
  <2>3. results' \in Seq(Result) /\ Len(results') >= Len(results)
    <3>1. CASE UNCHANGED results
      BY <3>1, QueueFrame
    <3>2. CASE wpc[w] = "publish" /\ results' = Append(results, ResultOf(Head(wout[w])))
      BY <1>3, <3>2, PublishedResult, LenProperties DEF TypeOK, QueueOK
    <3> QED BY <1>6, <3>1, <3>2 DEF PublishFails, AbandonTask
  <2> QED BY <1>6, <2>2, <2>3, Frames, QueueFrame DEF TypeOK, PublishFails, AbandonTask
<1> QED BY <1>1, <1>2, <1>4, <1>5, <1>6 DEF WorkerStep

\* What the coordinator has in hand is a result.
LEMMA ResultInHand ==
  ASSUME TypeOK, cpc \in {"save", "sessions", "refresh", "ack"}
  PROVE  cmsg \in 1 .. Len(results) /\ results[cmsg].chunk \in Chunk
<1>1. cmsg \in 1 .. Len(results)
  BY LenProperties DEF TypeOK, CoordinatorOK, QueueOK
<1>2. results[cmsg] \in Result
  BY <1>1, ElementOfSeq DEF TypeOK, QueueOK
<1> QED BY <1>1, <1>2 DEF Result

\* Saving a chunk keeps every row in its domain.
LEMMA SavedRows ==
  ASSUME TypeOK, SaveResult
  PROVE  RowsOK'
<1> DEFINE chunk == results[cmsg].chunk
<1>1. chunk \in Chunk
  BY ResultInHand DEF SaveResult
<1>2. chunk.run \in Run /\ chunk.jobs \subseteq Job
  BY <1>1 DEF Chunk
<1>3. Found(chunk) \subseteq Job
  BY <1>2 DEF Found, TypeOK, RowsOK
<1>4. ASSUME NEW j \in Job PROVE AfterChunk(chunk, j) \in Lifecycle
  BY DEF AfterChunk, Upserted, OneAbsence, Lifecycle, TypeOK, RowsOK
<1>5. ASSUME NEW j \in Job PROVE MissedBy(chunk, j) \subseteq Run
  BY <1>2 DEF MissedBy, TypeOK, RowsOK
<1>6. FinalStatus(chunk) \in RunStatus
  BY DEF FinalStatus, RunStatus
<1>7. succeeded' \in BOOLEAN
  BY DEF SaveResult, TypeOK, RowsOK
<1>8. life' \in [Job -> Lifecycle] /\ misses' \in [Job -> SUBSET Run]
  BY <1>4, <1>5 DEF SaveResult
<1>9. seen' \in [Run -> SUBSET Job]
  BY <1>3 DEF SaveResult, TypeOK, RowsOK
<1>10. runStatus' \in [Run -> RunStatus]
  BY <1>6 DEF SaveResult, TypeOK, RowsOK
<1>11. finished' \in [Run -> Nat] /\ latest' \in Run \cup {NoRun}
  BY <1>2 DEF SaveResult, TypeOK, RowsOK
<1> QED BY <1>7, <1>8, <1>9, <1>10, <1>11 DEF RowsOK

\* A begun or failed run is a row.
LEMMA StatusRows ==
  ASSUME TypeOK, NEW r \in Run, BeginRun(r) \/ FailRun(r)
  PROVE  RowsOK'
  BY DEF TypeOK, RowsOK, BeginRun, FailRun, RunStatus

\* A refreshed session is a session.
LEMMA RefreshedSession ==
  ASSUME TypeOK, RefreshSession
  PROVE  SessionOK'
  BY DEF TypeOK, SessionOK, RefreshSession, SourceState, Health

\* The coordinator's steps.
LEMMA CoordinatorTypes ==
  ASSUME TypeOK, CoordinatorStep \/ BeginScheduled \/ CoordinatorStops
  PROVE  TypeOK'
<1>1. CASE TakeResult
  <2>1. PICK m \in Deliverable(results, MaxResultDeliver, InCoord) :
          results' = Delivered(results, m) /\ cmsg' = m
    BY <1>1 DEF TakeResult
  <2>2. m \in 1 .. Len(results) /\ results[m].tries < MaxResultDeliver
    BY <2>1, LenProperties DEF Deliverable, TypeOK, QueueOK
  <2>3. results' \in Seq(Result) /\ Len(results') = Len(results)
    BY <2>1, <2>2, ResultLog DEF TypeOK, QueueOK
  <2>4. CoordinatorOK'
    BY <1>1, <2>1, <2>2, <2>3 DEF TypeOK, CoordinatorOK, TakeResult, CoordAt
  <2> QED BY <1>1, <2>3, <2>4, Frames, QueueFrame DEF TypeOK, TakeResult
<1>2. CASE SaveResult
  <2>1. CoordinatorOK'
    BY <1>2 DEF TypeOK, CoordinatorOK, SaveResult, CoordAt
  <2> QED BY <1>2, <2>1, SavedRows, Frames, QueueFrame DEF TypeOK, SaveResult
<1>3. CASE RefreshAttached
  <2>1. CoordinatorOK'
    BY <1>3 DEF TypeOK, CoordinatorOK, RefreshAttached, CoordAt
  <2>2. SessionOK'
    BY <1>3, RefreshedSession, Frames DEF RefreshAttached
  <2> QED BY <1>3, <2>1, <2>2, Frames, QueueFrame DEF TypeOK, RefreshAttached
<1>4. CASE RefreshReranked
  <2>1. CoordinatorOK'
    BY <1>4 DEF TypeOK, CoordinatorOK, RefreshReranked, CoordAt
  <2> QED BY <1>4, <2>1, RefreshedSession, Frames, QueueFrame DEF TypeOK, RefreshReranked
<1>5. CASE AckResult
  <2>1. results' \in Seq(Result) /\ Len(results') = Len(results) /\ Len(results) \in Nat
    BY <1>5, ResultInHand, ResultLog, LenProperties DEF AckResult, TypeOK, QueueOK
  <2>2. CoordinatorOK'
    BY <1>5, <2>1 DEF TypeOK, CoordinatorOK, AckResult, CoordAt
  <2> QED BY <1>5, <2>1, <2>2, Frames, QueueFrame DEF TypeOK, AckResult
<1>6. CASE BeginScheduled
  <2>1. PICK r \in Run : BeginRun(r) /\ crun' = r
    BY <1>6 DEF BeginScheduled
  <2>2. CoordinatorOK'
    BY <1>6, <2>1, SourceAssumption DEF TypeOK, CoordinatorOK, BeginScheduled, CoordAt, Run, NoRun
  <2> QED BY <1>6, <2>1, <2>2, StatusRows, Frames, QueueFrame DEF TypeOK, BeginScheduled
<1>7. CASE PublishScheduled \/ CoordinatorStops
  <2>1. UNCHANGED tasks \/ (crun \in Run /\ (Publish(crun) \/ PublishUnconfirmed(crun)))
    BY <1>7 DEF PublishScheduled, CoordinatorStops, TypeOK, CoordinatorOK
  <2>2. tasks' \in Seq(Task) /\ Len(tasks') >= Len(tasks)
    BY <2>1, PublishedLog, QueueFrame DEF TypeOK, QueueOK
  <2>3. CoordinatorOK'
    BY <1>7, LenProperties DEF TypeOK, CoordinatorOK, QueueOK, PublishScheduled, CoordinatorStops, CoordAt
  <2> QED BY <1>7, <2>2, <2>3, Frames, QueueFrame DEF TypeOK, PublishScheduled, CoordinatorStops
<1> QED BY <1>1, <1>2, <1>3, <1>4, <1>5, <1>6, <1>7 DEF CoordinatorStep

\* The steps of a search request, which reads and writes its own variables,
\* the session's row, the run it begins and the tasks.
LEMMA ApiTypes ==
  ASSUME TypeOK, ApiStep \/ ReadHealth \/ PollSession \/ PublishSelectedFails \/ ApiStops
  PROVE  TypeOK'
<1>1. CASE ReadHealth
  <2>1. ApiOK'
    BY <1>1 DEF TypeOK, ApiOK, ReadHealth, ApiAt, Health, Newest, Begun
  <2> QED BY <1>1, <2>1, Frames, QueueFrame DEF TypeOK, ReadHealth, ApiOnly
<1>2. CASE InsertSelection \/ DeferAll \/ AttachRun \/ DeferSelected
  <2>1. ApiOK'
    BY <1>2 DEF TypeOK, ApiOK, InsertSelection, DeferAll, AttachRun, DeferSelected, ApiAt
  <2>2. SessionOK'
    BY <1>2 DEF TypeOK, ApiOK, SessionOK, InsertSelection, DeferAll, AttachRun, DeferSelected,
                SourceState, Health
  <2> QED BY <1>2, <2>1, <2>2, Frames, QueueFrame
          DEF TypeOK, InsertSelection, DeferAll, AttachRun, DeferSelected, ApiOnly
<1>3. CASE RefreshSelection \/ EndSelection
  <2>1. ApiOK'
    BY <1>3 DEF TypeOK, ApiOK, RefreshSelection, EndSelection, ApiAt
  <2> QED BY <1>3, <2>1, RefreshedSession, Frames, QueueFrame
          DEF TypeOK, RefreshSelection, EndSelection, ApiOnly
<1>4. CASE ReadSelection \/ ApiStops
  <2>1. ApiOK'
    BY <1>4 DEF TypeOK, ApiOK, ReadSelection, ApiStops, ApiAt
  <2> QED BY <1>4, <2>1, Frames, QueueFrame DEF TypeOK, ReadSelection, ApiStops, ApiOnly
<1>5. CASE BeginSelected
  <2>1. PICK r \in Run : BeginRun(r) /\ arun' = r
    BY <1>5 DEF BeginSelected
  <2>2. ApiOK'
    BY <1>5, <2>1 DEF TypeOK, ApiOK, BeginSelected, ApiAt, Run, NoRun
  <2> QED BY <1>5, <2>1, <2>2, StatusRows, Frames, QueueFrame DEF TypeOK, BeginSelected
<1>6. CASE PublishSelected \/ PublishSelectedFails
  <2>1. arun \in Run /\ (Publish(arun) \/ PublishUnconfirmed(arun))
    BY <1>6 DEF TypeOK, ApiOK, PublishSelected, PublishSelectedFails
  <2>2. tasks' \in Seq(Task) /\ Len(tasks') >= Len(tasks)
    BY <2>1, PublishedLog DEF TypeOK, QueueOK
  <2>3. ApiOK'
    BY <1>6 DEF TypeOK, ApiOK, PublishSelected, PublishSelectedFails, ApiAt
  <2> QED BY <1>6, <2>2, <2>3, Frames, QueueFrame DEF TypeOK, PublishSelected, PublishSelectedFails
<1>7. CASE FailSelected
  <2>1. arun \in Run
    BY <1>7 DEF TypeOK, ApiOK, FailSelected
  <2>2. ApiOK'
    BY <1>7 DEF TypeOK, ApiOK, FailSelected, ApiAt
  <2> QED BY <1>7, <2>1, <2>2, StatusRows, Frames, QueueFrame DEF TypeOK, FailSelected
<1>8. CASE PollSession
  BY <1>8, RefreshedSession, Frames, QueueFrame DEF TypeOK, PollSession
<1> QED BY <1>1, <1>2, <1>3, <1>4, <1>5, <1>6, <1>7, <1>8 DEF ApiStep

\* The steps of a scan request.
LEMMA ScanTypes ==
  ASSUME TypeOK, ScanStep \/ RequestScan \/ RetryScan \/ PublishScanFails
  PROVE  TypeOK'
<1>1. CASE RequestScan
  <2>1. PICK r \in Run : BeginRun(r) /\ xrun' = r
    BY <1>1 DEF RequestScan
  <2>2. ScanOK'
    BY <1>1, <2>1 DEF TypeOK, ScanOK, RequestScan, ScanAt, Run, NoRun
  <2> QED BY <1>1, <2>1, <2>2, StatusRows, Frames, QueueFrame DEF TypeOK, RequestScan
<1>2. CASE RetryScan
  <2>1. ScanOK'
    BY <1>2 DEF TypeOK, ScanOK, RetryScan, ScanAt
  <2> QED BY <1>2, <2>1, Frames, QueueFrame DEF TypeOK, RetryScan
<1>3. CASE PublishScan \/ PublishScanFails
  <2>1. xrun \in Run /\ (UNCHANGED tasks \/ Publish(xrun) \/ PublishUnconfirmed(xrun))
    BY <1>3 DEF TypeOK, ScanOK, PublishScan, PublishScanFails
  <2>2. tasks' \in Seq(Task) /\ Len(tasks') >= Len(tasks)
    BY <2>1, PublishedLog, QueueFrame DEF TypeOK, QueueOK
  <2>3. ScanOK'
    BY <1>3 DEF TypeOK, ScanOK, PublishScan, PublishScanFails, ScanAt
  <2> QED BY <1>3, <2>2, <2>3, Frames, QueueFrame DEF TypeOK, PublishScan, PublishScanFails
<1>4. CASE FailScan
  <2>1. xrun \in Run
    BY <1>4 DEF TypeOK, ScanOK, FailScan
  <2>2. ScanOK'
    BY <1>4 DEF TypeOK, ScanOK, FailScan, ScanAt
  <2> QED BY <1>4, <2>1, <2>2, StatusRows, Frames, QueueFrame DEF TypeOK, FailScan
<1> QED BY <1>1, <1>2, <1>3, <1>4 DEF ScanStep

\* Every row, message and program counter stays in its domain, and no message
\* is delivered more often than its consumer allows.
THEOREM TypeCorrect == Spec => []TypeOK
<1>1. Init => TypeOK
  <2> SUFFICES ASSUME Init PROVE TypeOK
    OBVIOUS
  <2>1. RowsOK /\ SessionOK /\ ApiOK /\ ScanOK
    BY DEF Init, RowsOK, SessionOK, ApiOK, ScanOK, RunStatus, Lifecycle, SourceState, Health, NoRun
  <2>2. QueueOK /\ Len(tasks) = 0 /\ Len(results) = 0
    BY EmptySeq DEF Init, QueueOK
  <2>3. WorkersOK /\ CoordinatorOK
    BY <2>2, EmptySeq DEF Init, WorkersOK, CoordinatorOK, NoRun
  <2> QED BY <2>1, <2>2, <2>3, SourceAssumption DEF Init, TypeOK
<1>2. TypeOK /\ [Next]_vars => TypeOK'
  <2> SUFFICES ASSUME TypeOK, [Next]_vars PROVE TypeOK'
    OBVIOUS
  <2>1. CASE UNCHANGED vars
    BY <2>1, Frames, QueueFrame DEF TypeOK, vars
  <2>2. CASE Next
    BY <2>2, WorkerTypes, CoordinatorTypes, ApiTypes, ScanTypes DEF Next, Faults
  <2> QED BY <2>1, <2>2
<1> QED BY <1>1, <1>2, PTL DEF Spec

-----------------------------------------------------------------------------
\* Job rows.

\* Only the transaction that saves a chunk changes what LifeInv speaks about.
LEMMA OnlySavingChangesJobs ==
  ASSUME [Next]_vars, ~SaveResult
  PROVE  UNCHANGED <<life, seen, misses, finished, latest>>
<1>1. CASE UNCHANGED vars
  BY <1>1 DEF vars, jobVars
<1>2. CASE \E w \in Worker : WorkerStep(w)
  BY <1>2 DEF WorkerStep, TakeTask, Crawl, PublishChunk, AckTask, jobVars
<1>3. CASE CoordinatorStep \/ BeginScheduled
  BY <1>3 DEF CoordinatorStep, TakeResult, RefreshAttached, RefreshReranked, AckResult,
              PublishScheduled, BeginScheduled, BeginRun, jobVars
<1>4. CASE ApiStep \/ ReadHealth \/ PollSession
  BY <1>4 DEF ApiStep, ReadHealth, PollSession, InsertSelection, RefreshSelection, ReadSelection,
              DeferAll, BeginSelected, PublishSelected, AttachRun, FailSelected, DeferSelected,
              EndSelection, ApiOnly, BeginRun, FailRun, jobVars
<1>5. CASE ScanStep \/ RequestScan \/ RetryScan
  BY <1>5 DEF ScanStep, RequestScan, RetryScan, PublishScan, FailScan, BeginRun, FailRun, jobVars
<1>6. CASE Faults
  BY <1>6 DEF Faults, PublishFails, AbandonTask, CoordinatorStops, PublishSelectedFails,
              ApiStops, PublishScanFails, jobVars
<1> QED BY <1>1, <1>2, <1>3, <1>4, <1>5, <1>6 DEF Next

\* Saving a chunk keeps LifeInv.  A chunk that ends a complete scan leaves
\* marked only jobs its run has not found, and adds the run to the misses of
\* each; any other chunk only makes jobs active.
LEMMA SavingKeepsLifeInv ==
  ASSUME TypeOK, LifeInv, SaveResult
  PROVE  LifeInv'
<1> DEFINE chunk == results[cmsg].chunk
           r == chunk.run
<1>1. chunk \in Chunk /\ r \in Run /\ chunk.jobs \subseteq Job
  BY ResultInHand DEF SaveResult, Chunk
<1>2. r # NoRun
  BY <1>1 DEF Run, NoRun
<1>3. /\ \A j \in Job : life'[j] = AfterChunk(chunk, j) /\ misses'[j] = MissedBy(chunk, j)
      /\ \A q \in Run : seen'[q] = IF q = r THEN Found(chunk) ELSE seen[q]
      /\ \A q \in Run : finished'[q] = IF q = r /\ chunk.final THEN finished[q] + 1 ELSE finished[q]
      /\ latest' = IF ScanEnds(chunk) THEN r ELSE latest
  BY <1>1 DEF SaveResult, TypeOK, RowsOK
<1>4. \A q \in Run : finished[q] \in Nat
  BY DEF TypeOK, RowsOK
<1>5. \A j \in Job : misses[j] \subseteq Run
  BY DEF TypeOK, RowsOK
<1>6. Reconciles(chunk) <=> ScanEnds(chunk)
  BY DEF Reconciles, ScanEnds
<1>7. ASSUME NEW j \in Job, Missing(j)'
      PROVE  latest' # NoRun /\ j \notin seen'[latest']
  <2>1. CASE ScanEnds(chunk)
    BY <1>1, <1>2, <1>3, <1>6, <1>7, <2>1 DEF Missing, AfterChunk
  <2>2. CASE ~ScanEnds(chunk)
    <3>1. j \notin chunk.jobs /\ Missing(j)
      BY <1>3, <1>6, <1>7, <2>2 DEF Missing, AfterChunk, Upserted
    <3>2. latest \in Run /\ j \notin seen[latest] /\ latest' = latest
      BY <1>3, <2>2, <3>1 DEF LifeInv, MissingMeansUnseen, TypeOK, RowsOK
    <3> QED BY <1>2, <1>3, <3>1, <3>2 DEF Found, Run, NoRun
  <2> QED BY <2>1, <2>2
<1>8. ASSUME NEW j \in Job, NEW q \in misses'[j]
      PROVE  finished'[q] > 0
  <2>0. q \in MissedBy(chunk, j)
    BY <1>3, <1>8
  <2>1. q \in misses[j] \/ (ScanEnds(chunk) /\ q = r)
    BY <2>0 DEF MissedBy
  <2>2. CASE q \in misses[j]
    BY <1>3, <1>4, <1>5, <2>2 DEF LifeInv, MissingRunEnded
  <2>3. CASE ScanEnds(chunk) /\ q = r
    BY <1>1, <1>3, <1>4, <2>3 DEF ScanEnds
  <2> QED BY <2>1, <2>2, <2>3
<1>9. ASSUME NEW j \in Job, life'[j] = "possibly_closed"
      PROVE  misses'[j] # {}
  <2>1. CASE ScanEnds(chunk)
    <3>1. j \notin Found(chunk) /\ j \notin chunk.jobs
      BY <1>3, <1>6, <1>9, <2>1 DEF AfterChunk, Found
    <3>2. j \in Known(chunk)
      BY <1>3, <1>6, <1>9, <2>1, <3>1 DEF AfterChunk, Upserted, Known
    <3> QED BY <1>3, <2>1, <3>1, <3>2 DEF MissedBy
  <2>2. CASE ~ScanEnds(chunk)
    <3>1. j \notin chunk.jobs /\ life[j] = "possibly_closed"
      BY <1>3, <1>6, <1>9, <2>2 DEF AfterChunk, Upserted
    <3> QED BY <1>3, <2>2, <3>1 DEF MissedBy, LifeInv, OpenMissWasSeen
  <2> QED BY <2>1, <2>2
<1>10. ASSUME NEW j \in Job, life'[j] = "closed"
       PROVE  \/ \E p, q \in misses'[j] : p # q
              \/ \E q \in misses'[j] : finished'[q] > 1
  <2>1. j \notin chunk.jobs /\ (ScanEnds(chunk) => j \notin Found(chunk))
    BY <1>3, <1>6, <1>10 DEF AfterChunk, Upserted, Found
  <2>2. misses[j] \subseteq misses'[j]
    BY <1>3, <2>1 DEF MissedBy
  <2>3. CASE life[j] = "closed"
    <3>1. \/ \E p, q \in misses[j] : p # q
          \/ \E q \in misses[j] : finished[q] > 1
      BY <2>3 DEF LifeInv, ClosedByTwoRuns
    <3>2. \A q \in misses[j] : finished'[q] >= finished[q]
      BY <1>3, <1>4, <1>5
    <3> QED BY <1>3, <1>4, <1>5, <2>2, <3>1, <3>2
  <2>4. CASE life[j] # "closed"
    <3>1. ScanEnds(chunk) /\ life[j] = "possibly_closed" /\ r \in misses'[j]
      BY <1>3, <1>6, <1>10, <2>1, <2>4
         DEF AfterChunk, Upserted, OneAbsence, MissedBy, Known, TypeOK, RowsOK, Lifecycle
    <3>2. PICK q \in misses[j] : TRUE
      BY <3>1 DEF LifeInv, OpenMissWasSeen
    <3>3. CASE q # r
      BY <2>2, <3>1, <3>2, <3>3
    <3>4. CASE q = r
      <4>1. finished[r] > 0
        BY <3>2, <3>4 DEF LifeInv, MissingRunEnded
      <4> QED BY <1>1, <1>3, <1>4, <3>1, <4>1 DEF ScanEnds
    <3> QED BY <3>3, <3>4
  <2> QED BY <2>3, <2>4
<1> QED BY <1>7, <1>8, <1>9, <1>10
        DEF LifeInv, MissingMeansUnseen, MissingRunEnded, OpenMissWasSeen, ClosedByTwoRuns

\* LifeInv holds of every behaviour.
LEMMA Invariance == Spec => []LifeInv
<1>1. Init => LifeInv
  BY DEF Init, LifeInv, MissingMeansUnseen, ClosedByTwoRuns, OpenMissWasSeen, MissingRunEnded, Missing
<1>2. TypeOK /\ LifeInv /\ [Next]_vars => LifeInv'
  <2> SUFFICES ASSUME TypeOK, LifeInv, [Next]_vars PROVE LifeInv'
    OBVIOUS
  <2>1. CASE SaveResult
    BY <2>1, SavingKeepsLifeInv
  <2>2. CASE ~SaveResult
    BY <2>2, OnlySavingChangesJobs
       DEF LifeInv, MissingMeansUnseen, ClosedByTwoRuns, OpenMissWasSeen, MissingRunEnded, Missing
  <2> QED BY <2>1, <2>2
<1> QED BY <1>1, <1>2, TypeCorrect, PTL DEF Spec

\* However messages are lost, repeated and reordered, a job is marked missing
\* only while the complete scan that ended last has not found it.
THEOREM MarkedJobsUnseen == Spec => []MissingMeansUnseen
<1>1. LifeInv => MissingMeansUnseen
  BY DEF LifeInv
<1> QED BY <1>1, Invariance, PTL

\* A job is closed by two runs that missed it, or by one whose final chunk was
\* saved more than once, and by nothing else.
THEOREM ClosingNeedsTwoRuns == Spec => []ClosedByTwoRuns
<1>1. LifeInv => ClosedByTwoRuns
  BY DEF LifeInv
<1> QED BY <1>1, Invariance, PTL
=============================================================================
