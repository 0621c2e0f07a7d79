---------------------------- MODULE JobStoreOps ----------------------------
(***************************************************************************)
(* The methods of JobStore (clusteriq_engine/jobs.py) as operators on the  *)
(* value of its dict.  Every method holds the store's RLock for its whole  *)
(* body, so a method is a function from the dict before it to the dict     *)
(* after it; an early return of the code is the identity.                  *)
(*                                                                         *)
(* The dict _jobs is a function js on all job ids: js[j] = NoJob where the *)
(* code's  self._jobs.get(job_id)  is None.                                *)
(***************************************************************************)
EXTENDS Integers, FiniteSets

CONSTANTS JobIds,      \* uuid4().hex values
          NoJob,       \* the id is not a key of _jobs
          None,        \* Python's None
          Bodies,      \* result bodies
          Codes,       \* error codes
          MaxJobs,     \* JOB_STORE_MAX
          TtlSeconds   \* JOB_TTL_SECONDS

TERMINAL == {"completed", "failed", "canceled"}
JobStatus == {"queued", "processing"} \cup TERMINAL
Stages == {"queued", "reading", "cache", "vectorizing", "persisting",
           "completed", "failed", "canceled"}

\* The fields of Job some caller tells apart.  created_at is only ever
\* compared with another created_at, so it is the rank of the creation;
\* completed_at is a clock value, 0 standing for None as in the code's
\* (j.completed_at or 0).
Job == [status : JobStatus, progress : 0 .. 100, stage : Stages,
        createdAt : Nat, completedAt : Nat,
        error : Codes \cup {None}, result : Bodies \cup {None},
        cancelRequested : BOOLEAN]

ASSUME StoreAssumption ==
  /\ MaxJobs \in Nat \ {0}
  /\ TtlSeconds \in Nat
  /\ None \notin Bodies \cup Codes
  /\ NoJob \notin Job

Stores == [JobIds -> Job \cup {NoJob}]

NewJob(rank) == [status |-> "queued", progress |-> 0, stage |-> "queued",
                 createdAt |-> rank, completedAt |-> 0,
                 error |-> None, result |-> None, cancelRequested |-> FALSE]

Held(js) == {j \in JobIds : js[j] # NoJob}
Terminal(js, j) == js[j].status \in TERMINAL
Live(js, j) == js[j] # NoJob /\ ~ Terminal(js, j)

-----------------------------------------------------------------------------
(* Housekeeping *)

\* Faulty: a finished job is stale as soon as its last second is reached.
ExpiredEarly(js, j, t) == Terminal(js, j) /\ js[j].completedAt <= t - TtlSeconds

Expired(js, j, t) == Terminal(js, j) /\ js[j].completedAt < t - TtlSeconds

Swept(js, t) ==
  [j \in JobIds |-> IF js[j] # NoJob /\ Expired(js, j, t) THEN NoJob ELSE js[j]]

\* Faulty: plain age order, terminal or not.
DropsBeforeByAge(js, a, b) == js[a].createdAt < js[b].createdAt

\* Faulty: the sort is descending, so the newest go first.
DropsBeforeNewest(js, a, b) ==
  \/ Terminal(js, a) /\ ~ Terminal(js, b)
  \/ /\ Terminal(js, a) <=> Terminal(js, b)
     /\ js[a].createdAt > js[b].createdAt

\* The sort key (status not in TERMINAL, created_at).
DropsBefore(js, a, b) ==
  \/ Terminal(js, a) /\ ~ Terminal(js, b)
  \/ /\ Terminal(js, a) <=> Terminal(js, b)
     /\ js[a].createdAt < js[b].createdAt

\* Faulty: one entry too many survives.
ExcessOffByOne(js) == Cardinality(Held(js)) - MaxJobs - 1

Excess(js) == Cardinality(Held(js)) - MaxJobs

\* The first Excess(js) entries of the sorted dict.
Dropped(js) ==
  {j \in Held(js) :
     Cardinality({k \in Held(js) : DropsBefore(js, k, j)}) < Excess(js)}

EvictedIfOver(js) ==
  [j \in JobIds |-> IF j \in Dropped(js) THEN NoJob ELSE js[j]]

-----------------------------------------------------------------------------
(* Create and read *)

AfterCreate(js, j, rank, t) ==
  EvictedIfOver([Swept(js, t) EXCEPT ![j] = NewJob(rank)])

\* get() and stats() both sweep before they read.
AfterGet(js, t) == Swept(js, t)

HasResult(js, j) ==
  js[j] # NoJob /\ js[j].status = "completed" /\ js[j].result # None

\* Faulty: the body is handed out but stays in the entry.
AfterPopKept(js, j) == js

AfterPop(js, j) ==
  IF HasResult(js, j) THEN [js EXCEPT ![j].result = None] ELSE js

-----------------------------------------------------------------------------
(* What a mutator writes into the one entry it is called for *)

Started(job, stage) ==
  [job EXCEPT !.status = "processing", !.stage = stage, !.progress = 5]

\* Faulty: the report is not capped.
RaisedUncapped(old, progress) == IF progress > old THEN progress ELSE old

\* Faulty: a report overwrites the progress it finds.
RaisedUnchecked(old, progress) == IF progress < 99 THEN progress ELSE 99

\* min(progress, 99) when it is an advance.
Raised(old, progress) ==
  IF progress > old THEN IF progress < 99 THEN progress ELSE 99 ELSE old

Reported(job, progress, stage) ==
  [job EXCEPT !.progress = Raised(@, progress), !.stage = stage]

Completed(job, body, t) ==
  [job EXCEPT !.status = "completed", !.progress = 100, !.stage = "completed",
              !.completedAt = t, !.result = body]

Failed(job, code, t) ==
  [job EXCEPT !.status = "failed", !.completedAt = t, !.stage = "failed",
              !.error = code]

CancelAsked(job) == [job EXCEPT !.cancelRequested = TRUE]

\* The code leaves error_code of a job canceled while queued unset.
CanceledAtOnce(job, t) ==
  [CancelAsked(job) EXCEPT !.status = "canceled", !.completedAt = t,
                           !.stage = "canceled"]

-----------------------------------------------------------------------------
(* The mutators: the guard of each, and its write *)

Write(js, j, job) == [js EXCEPT ![j] = job]

AfterMarkProcessing(js, j, stage) ==
  IF js[j] # NoJob /\ js[j].status = "queued"
  THEN Write(js, j, Started(js[j], stage)) ELSE js

AfterUpdateProgress(js, j, progress, stage) ==
  IF js[j] # NoJob /\ js[j].status = "processing"
  THEN Write(js, j, Reported(js[j], progress, stage)) ELSE js

\* Faulty: a completion overwrites a terminal entry.
AfterMarkCompletedAnyway(js, j, body, t) ==
  IF js[j] # NoJob THEN Write(js, j, Completed(js[j], body, t)) ELSE js

AfterMarkCompleted(js, j, body, t) ==
  IF Live(js, j) THEN Write(js, j, Completed(js[j], body, t)) ELSE js

AfterMarkFailed(js, j, code, t) ==
  IF Live(js, j) THEN Write(js, j, Failed(js[j], code, t)) ELSE js

AfterRequestCancel(js, j, t) ==
  IF ~ Live(js, j) THEN js
  ELSE IF js[j].status = "queued"
  THEN Write(js, j, CanceledAtOnce(js[j], t))
  ELSE Write(js, j, CancelAsked(js[j]))

\* is_cancel_requested: False for an id the store does not hold.
CancelRequested(js, j) == js[j] # NoJob /\ js[j].cancelRequested
=============================================================================
