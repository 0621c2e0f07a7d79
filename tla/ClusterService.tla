--------------------------- MODULE ClusterService ---------------------------
(***************************************************************************)
(* The asynchronous engine of clusteriq_engine/api.py: the event loop that *)
(* takes submissions, the default thread pool and the semaphore its tasks  *)
(* wait for, the worker _run_clustering_job with its cancellation checks   *)
(* and exception handlers, the endpoints that poll, fetch and cancel, and  *)
(* a restart of the process.  They share the job store (JobStoreOps) and   *)
(* the result cache (ResultCacheOps); the database behind                  *)
(* persist_results is external and seen only through its outcome.          *)
(*                                                                         *)
(* A step ends where the code takes a lock or reaches state that another   *)
(* thread can see, so every interleaving of the code is one of the model.  *)
(***************************************************************************)
EXTENDS JobStoreOps, ResultCacheOps

CONSTANTS Files,       \* uploads, with their column mapping: cache keys
          ReadEnds,    \* ReadEnds[f]: how read_table and the row limit may end
          ClusterEnds, \* ClusterEnds[f]: how build_cluster_response may end
          PersistEnds, \* how persist_results may end
          BodySize,    \* BodySize[f]: bytes of f's result body
          Contexts,    \* whether requests bring a persistence context
          Threads,     \* threads of the event loop's default executor
          Workers,     \* JOB_WORKER_THREADS
          MaxTime,     \* bound on the clock, for TLC
          MaxRestarts  \* bound on restarts, for TLC

\* mark_failed's codes; "USER_ERROR" stands for the code of any UserError.
WorkerCodes == {"CANCELED", "TOO_MANY_ROWS", "USER_ERROR", "PERSIST_FAILED",
                "INTERNAL_ERROR"}

ASSUME ServiceAssumption ==
  /\ Bodies = {"full", "compact"}
  /\ Codes = WorkerCodes
  /\ ReadEnds \in [Files -> SUBSET {"ok", "USER_ERROR", "TOO_MANY_ROWS", "INTERNAL_ERROR"}]
  /\ ClusterEnds \in [Files -> SUBSET {"ok", "USER_ERROR", "INTERNAL_ERROR"}]
  /\ BodySize \in [Files -> Nat]
  /\ PersistEnds \subseteq {"ok", "refused", "broken"}
  /\ Contexts \subseteq BOOLEAN
  /\ Threads \in Nat \ {0} /\ Workers \in Nat \ {0}
  /\ MaxTime \in Nat /\ MaxRestarts \in Nat

VARIABLES jobs, now, serial, known, popped,  \* the store, as in JobStore
          cache,   \* _result_cache
          front,   \* the submission the event loop is busy with
          pool,    \* tasks the executor has not started, in FIFO order
          pc,      \* pc[j]: where the worker of job j is
          task,    \* task[j]: the arguments the worker was started with
          raised,  \* raised[j]: the exception in flight, as its error code
          saved,   \* jobs whose results the database holds
          restarts

storeVars == <<jobs, now, serial, known, popped>>
vars == <<storeVars, cache, front, pool, pc, task, raised, saved, restarts>>

Store == INSTANCE JobStore
           WITH Reports <- {<<25, "vectorizing">>, <<85, "persisting">>}

Idle == [at |-> "idle"]
NoTask == [file |-> None, ctx |-> FALSE, hit |-> FALSE]

\* The program points of _run_clustering_job.  "pooled": queued in the
\* executor; "waiting": on a thread, blocked on the semaphore.
Holding == {"check1", "start", "reading", "report", "check2", "clustering",
            "check3", "caching", "finish", "persisting", "complete", "failing"}
Points == {"none", "pooled", "waiting", "done"} \cup Holding

Init ==
  /\ Store!Init
  /\ cache = EmptyCache
  /\ front = Idle
  /\ pool = <<>>
  /\ pc = [j \in JobIds |-> "none"]
  /\ task = [j \in JobIds |-> NoTask]
  /\ raised = [j \in JobIds |-> None]
  /\ saved = {}
  /\ restarts = 0

-----------------------------------------------------------------------------
(* POST /cluster: nothing is awaited after the upload was read, so no two  *)
(* submissions interleave past that point.                                 *)

Receive(f, ctx) ==
  /\ front = Idle
  /\ cache' = AfterCacheGet(cache, f)
  /\ front' = [at |-> "create",
               task |-> [file |-> f, ctx |-> ctx, hit |-> f \in CachedKeys(cache)]]
  /\ UNCHANGED <<storeVars, pool, pc, task, raised, saved, restarts>>

\* A hit that nobody asked to persist is answered without a worker.
Answered(t) == t.hit /\ ~ t.ctx

\* job = _job_store.create(), then run_in_executor unless the cache answers.
CreateJob(j) ==
  /\ front.at = "create"
  /\ Store!Create(j)
  /\ task' = [task EXCEPT ![j] = front.task]
  /\ IF Answered(front.task)
     THEN /\ front' = [at |-> "start", job |-> j]
          /\ UNCHANGED <<pool, pc>>
     ELSE /\ front' = Idle
          /\ pool' = Append(pool, j)
          /\ pc' = [pc EXCEPT ![j] = "pooled"]
  /\ UNCHANGED <<cache, raised, saved, restarts>>

FrontStart ==
  /\ front.at = "start"
  /\ Store!MarkProcessing(front.job, "cache")
  /\ front' = [front EXCEPT !.at = "complete"]
  /\ UNCHANGED <<cache, pool, pc, task, raised, saved, restarts>>

FrontComplete ==
  /\ front.at = "complete"
  /\ Store!MarkCompleted(front.job, "full")
  /\ front' = Idle
  /\ UNCHANGED <<cache, pool, pc, task, raised, saved, restarts>>

-----------------------------------------------------------------------------
(* The executor and the worker *)

rest == <<cache, front, pool, task, saved, restarts>>

OnThread == {j \in JobIds : pc[j] \in Holding \cup {"waiting"}}
InSlot == {j \in JobIds : pc[j] \in Holding}

\* Faulty: the task stays in the queue it was taken from.
TakeThreadKeeping(j) ==
  /\ pool # <<>> /\ j = Head(pool) /\ pc[j] = "pooled"
  /\ Cardinality(OnThread) < Threads
  /\ pc' = [pc EXCEPT ![j] = "waiting"]
  /\ UNCHANGED <<storeVars, rest, raised>>

TakeThread(j) ==
  /\ pool # <<>> /\ j = Head(pool)
  /\ Cardinality(OnThread) < Threads
  /\ pool' = Tail(pool)
  /\ pc' = [pc EXCEPT ![j] = "waiting"]
  /\ UNCHANGED <<storeVars, cache, front, task, raised, saved, restarts>>

Go(j, to) == pc' = [pc EXCEPT ![j] = to] /\ UNCHANGED raised

\* An exception on its way to the handlers at the end of the worker.
Raise(j, code) ==
  /\ pc' = [pc EXCEPT ![j] = "failing"]
  /\ raised' = [raised EXCEPT ![j] = code]

\* Faulty: the semaphore starts one slot short.
AcquireSlotShort(j) ==
  /\ pc[j] = "waiting"
  /\ Cardinality(InSlot) < Workers - 1
  /\ Go(j, "check1")
  /\ UNCHANGED <<storeVars, rest>>

AcquireSlot(j) ==
  /\ pc[j] = "waiting"
  /\ Cardinality(InSlot) < Workers
  /\ Go(j, "check1")
  /\ UNCHANGED <<storeVars, rest>>

\* One of the three checks between stages.
Check(j, at, to) ==
  /\ pc[j] = at
  /\ IF CancelRequested(jobs, j) THEN Raise(j, "CANCELED") ELSE Go(j, to)
  /\ UNCHANGED <<storeVars, rest>>

Check1(j) == Check(j, "check1", "start")

\* The answer of mark_processing is not looked at.
Start(j) ==
  /\ pc[j] = "start"
  /\ IF task[j].hit
     THEN Store!MarkProcessing(j, "cache") /\ Go(j, "finish")
     ELSE Store!MarkProcessing(j, "reading") /\ Go(j, "reading")
  /\ UNCHANGED rest

EndsWith(j, end, to) == IF end = "ok" THEN Go(j, to) ELSE Raise(j, end)

Read(j) ==
  /\ pc[j] = "reading"
  /\ \E end \in ReadEnds[task[j].file] : EndsWith(j, end, "report")
  /\ UNCHANGED <<storeVars, rest>>

Report(j) ==
  /\ pc[j] = "report"
  /\ Store!UpdateProgress(j, 25, "vectorizing")
  /\ Go(j, "check2")
  /\ UNCHANGED rest

Check2(j) == Check(j, "check2", "clustering")

Cluster(j) ==
  /\ pc[j] = "clustering"
  /\ \E end \in ClusterEnds[task[j].file] : EndsWith(j, end, "check3")
  /\ UNCHANGED <<storeVars, rest>>

\* Faulty: the check after clustering is missing.
Check3Skipped(j) == pc[j] = "check3" /\ Go(j, "caching") /\ UNCHANGED <<storeVars, rest>>

Check3(j) == Check(j, "check3", "caching")

\* Faulty: the body is not cached.
CachePutSkipped(j) ==
  /\ pc[j] = "caching"
  /\ Go(j, "finish")
  /\ UNCHANGED <<storeVars, rest>>

CachePut(j) ==
  /\ pc[j] = "caching"
  /\ cache' = AfterPut(cache, task[j].file, BodySize[task[j].file])
  /\ Go(j, "finish")
  /\ UNCHANGED <<storeVars, front, pool, task, saved, restarts>>

\* Faulty: the job is completed before its results are written.
FinishEarly(j) ==
  /\ pc[j] = "finish"
  /\ Store!MarkCompleted(j, IF task[j].ctx THEN "compact" ELSE "full")
  /\ Go(j, IF task[j].ctx THEN "persisting" ELSE "done")
  /\ UNCHANGED rest

\* _finish_job
Finish(j) ==
  /\ pc[j] = "finish"
  /\ IF task[j].ctx
     THEN Store!UpdateProgress(j, 85, "persisting") /\ Go(j, "persisting")
     ELSE Store!MarkCompleted(j, "full") /\ Go(j, "done")
  /\ UNCHANGED rest

\* persist_results.  "refused": the database answered a request with an
\* error, PersistError; "broken": the transport failed, an httpx exception
\* nothing wraps, and the last write may have been applied all the same.
Persist(j) ==
  /\ pc[j] = "persisting"
  /\ \E end \in PersistEnds :
       CASE end = "ok" -> Go(j, "complete") /\ saved' = saved \cup {j}
         [] end = "refused" -> Raise(j, "PERSIST_FAILED") /\ UNCHANGED saved
         [] end = "broken" -> /\ Raise(j, "INTERNAL_ERROR")
                              /\ saved' \in {saved, saved \cup {j}}
  /\ UNCHANGED <<storeVars, cache, front, pool, task, restarts>>

Complete(j) ==
  /\ pc[j] = "complete"
  /\ Store!MarkCompleted(j, "compact")
  /\ Go(j, "done")
  /\ UNCHANGED rest

\* Faulty: a CanceledError leaves the worker without a verdict.
FailQuietly(j) ==
  /\ pc[j] = "failing"
  /\ IF raised[j] = "CANCELED" THEN UNCHANGED storeVars
     ELSE Store!MarkFailed(j, raised[j])
  /\ pc' = [pc EXCEPT ![j] = "done"]
  /\ raised' = [raised EXCEPT ![j] = None]
  /\ UNCHANGED rest

\* The except clauses, and the early return for an oversized table.
Fail(j) ==
  /\ pc[j] = "failing"
  /\ Store!MarkFailed(j, raised[j])
  /\ pc' = [pc EXCEPT ![j] = "done"]
  /\ raised' = [raised EXCEPT ![j] = None]
  /\ UNCHANGED rest

Worker(j) ==
  \/ TakeThread(j) \/ AcquireSlot(j)
  \/ Check1(j) \/ Start(j) \/ Read(j) \/ Report(j) \/ Check2(j)
  \/ Cluster(j) \/ Check3(j) \/ CachePut(j) \/ Finish(j)
  \/ Persist(j) \/ Complete(j) \/ Fail(j)

-----------------------------------------------------------------------------
(* The other endpoints and the environment *)

elsewhere == <<rest, pc, raised>>

\* A client has the id once the response of its submission is on its way.
InFront(j) == front.at \in {"start", "complete"} /\ front.job = j
CanName(j) == j \in known /\ ~ InFront(j)

\* Any get() or stats(): GET /jobs/{id}, /health, and the first look of every
\* endpoint.  It sweeps.
Poll == Store!Get /\ UNCHANGED elsewhere

\* The pop_result of GET /jobs/{id}/result; what may happen between its reads
\* and the pop is in JobSnapshot.
Fetch(j) == CanName(j) /\ Store!PopResult(j) /\ UNCHANGED elsewhere

\* Faulty: the endpoint ends the job itself, processing or not.
CancelHard(j) ==
  /\ CanName(j) /\ Live(jobs, j)
  /\ jobs' = Write(jobs, j, CanceledAtOnce(jobs[j], now))
  /\ UNCHANGED <<now, serial, known, popped, elsewhere>>

\* DELETE /jobs/{id}: when request_cancel finds nothing to cancel the handler
\* goes on to get(), which sweeps.
Cancel(j) ==
  /\ CanName(j)
  /\ IF Live(jobs, j) THEN Store!RequestCancel(j) ELSE Store!Get
  /\ UNCHANGED elsewhere

Tick == Store!Tick /\ UNCHANGED elsewhere

\* The process dies and comes back; only the database keeps anything.
Restart ==
  /\ restarts < MaxRestarts
  /\ restarts' = restarts + 1
  /\ Store!Restart
  /\ cache' = EmptyCache
  /\ front' = Idle
  /\ pool' = <<>>
  /\ pc' = [j \in JobIds |-> "none"]
  /\ task' = [j \in JobIds |-> NoTask]
  /\ raised' = [j \in JobIds |-> None]
  /\ UNCHANGED saved

Next ==
  \/ \E f \in Files, ctx \in Contexts : Receive(f, ctx)
  \/ \E j \in JobIds : CreateJob(j) \/ Worker(j) \/ Fetch(j) \/ Cancel(j)
  \/ FrontStart \/ FrontComplete
  \/ Poll
  \/ Tick
  \/ Restart

\* Threads are scheduled by the system and no step of the worker waits for
\* anything but the executor and the semaphore; the event loop runs what it
\* began.  Clients may do nothing, and the clock may stop.
Fairness ==
  /\ \A j \in JobIds : WF_vars(Worker(j))
  /\ WF_vars(FrontStart) /\ WF_vars(FrontComplete)

Spec == Init /\ [][Next]_vars

FairSpec == Spec /\ Fairness

-----------------------------------------------------------------------------

\* Type correctness; the executor's queue holds exactly the pooled tasks.
TypeOK ==
  /\ Store!TypeOK
  /\ CachedKeys(cache) \subseteq Files
  /\ \/ front = Idle
     \/ front.at = "create" /\ front.task \in [file : Files, ctx : BOOLEAN, hit : BOOLEAN]
     \/ front.at \in {"start", "complete"} /\ front.job \in JobIds
  /\ pool \in Seq(JobIds) /\ ToSet(pool) = {j \in JobIds : pc[j] = "pooled"}
  /\ pc \in [JobIds -> Points]
  /\ task \in [JobIds -> [file : Files, ctx : BOOLEAN, hit : BOOLEAN] \cup {NoTask}]
  /\ raised \in [JobIds -> Codes \cup {None}]
  /\ saved \in SUBSET JobIds
  /\ restarts \in 0 .. MaxRestarts

\* Nothing hangs in the store: a job that is not over is always in somebody's
\* hands, so a poll never watches a job nobody will finish.  (The reason the
\* header of jobs.py gives for the 404 after a restart.)
LiveHasWorker ==
  \A j \in JobIds :
    Live(jobs, j) => pc[j] \notin {"none", "done"} \/ InFront(j)

\* Worker and entry agree: before its start a job is queued or was canceled;
\* from then on only its own worker ends it; and the worker leaves no job it
\* took unfinished.
StatusFollowsWorker ==
  \A j \in JobIds :
    jobs[j] # NoJob =>
      /\ pc[j] \in {"pooled", "waiting", "check1", "start"}
           => jobs[j].status \in {"queued", "canceled"}
      /\ pc[j] \in Holding \ {"check1", "start"}
           => jobs[j].status \in {"processing", "canceled"}
      /\ pc[j] = "done" => Terminal(jobs, j)

\* What a finished job says of its results is true of the database: with a
\* persistence context "completed" means they are there, and a failure the
\* caller is told the cause of means they are not.
VerdictsTruthful ==
  \A j \in JobIds :
    jobs[j] # NoJob =>
      /\ jobs[j].status = "completed" /\ task[j].ctx => j \in saved
      /\ jobs[j].error \in {"CANCELED", "PERSIST_FAILED", "USER_ERROR", "TOO_MANY_ROWS"}
           => j \notin saved
      /\ jobs[j].error = "CANCELED" => jobs[j].cancelRequested

\* A completed job, or one whose results could not be saved, is a cache hit
\* when its file comes again, as long as the cache has room for every file.
ResubmitIsHit ==
  \A j \in JobIds :
    jobs[j] # NoJob /\ (jobs[j].status = "completed" \/ jobs[j].error = "PERSIST_FAILED")
      => task[j].file \in CachedKeys(cache)

\* An acknowledged cancel that is on record before the last check of a fresh
\* run holds: while the store knows the job it is neither completed nor saved.
Checked == {"pooled", "waiting", "check1", "start", "reading", "report",
            "check2", "clustering", "check3"}
CancelHolds ==
  \A j \in JobIds :
    [](CancelRequested(jobs, j) /\ pc[j] \in Checked /\ ~ task[j].hit
         => [](jobs[j] # NoJob => jobs[j].status # "completed" /\ j \notin saved))

\* Every call the service makes is one of the store's methods, so what is
\* proved of the store under any caller holds here.
UsesStore == Store!Spec

\* A submitted job comes to an end, or is lost to a restart or an eviction;
\* the poll does not spin forever.
EveryJobSettles ==
  \A j \in JobIds : j \in known ~> (jobs[j] = NoJob \/ Terminal(jobs, j))

\* A task gives its thread and its slot back, even when its job was canceled
\* or evicted in the meantime.
EveryTaskEnds == \A j \in JobIds : pc[j] = "pooled" ~> pc[j] \in {"none", "done"}

-----------------------------------------------------------------------------
(* A statement of the documentation and of comments that the code does not *)
(* keep; it is the subject of a run of its own.                             *)

\* cancel_job: "Queued jobs cancel immediately"; request_cancel: "the worker
\* hasn't picked them up".  Then a canceled job has no results.
CanceledNeverSaved ==
  \A j \in JobIds :
    jobs[j] # NoJob /\ jobs[j].status = "canceled" => j \notin saved
=============================================================================
