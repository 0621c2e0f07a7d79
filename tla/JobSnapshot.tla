---------------------------- MODULE JobSnapshot ----------------------------
(***************************************************************************)
(* One Job and those who look at it without the store's lock.              *)
(*                                                                         *)
(* The store's mutators write a Job field by field under the lock.  The    *)
(* handlers of GET /jobs/{id} (Job.snapshot) and GET /jobs/{id}/result     *)
(* fetch the Job with get() and then read its fields with no lock at all,  *)
(* each in a request thread of its own, so a read may fall between two     *)
(* writes.  Attribute reads and writes are atomic and ordered in CPython.  *)
(* A handler keeps its reference when the store drops the Job.             *)
(***************************************************************************)
EXTENDS JobStoreOps, Sequences

CONSTANTS Id,        \* the job
          Fetchers   \* concurrent GET /jobs/{id}/result requests

ASSUME SnapshotAssumption == JobIds = {Id} /\ {"full"} \subseteq Bodies

VARIABLES job,     \* the Job object
          held,    \* it is in the store's dict
          known,   \* {Id} once create() ran
          writing, \* the mutator inside the lock: what it still writes
          worker,  \* how far the job's worker is
          poll,    \* a GET /jobs/{id} request: what it has read so far
          shown,   \* the last answer the polling client got
          fetch,   \* fetch[c]: where request c is
          code,    \* fetch[c]'s error code, once read
          told,    \* the requests whose client had been shown "completed"
          popped   \* how many requests pop_result gave the body

readers == <<poll, shown, fetch, code, told>>
vars == <<job, held, known, writing, worker, poll, shown, fetch, code, told, popped>>

Nobody == [fields |-> <<>>, to |-> None]
LockFree == writing = Nobody

\* What snapshot() reads, in its order, of the fields the properties tell
\* apart; error_code and error_message stand as one field here.
SnapshotFields == <<"status", "progress", "error">>
Unread == [status |-> "queued", progress |-> 0, error |-> None]
NoPoll == [next |-> 0, seen |-> Unread]

Init ==
  /\ job = NewJob(0)
  /\ held = FALSE /\ known = {}
  /\ writing = Nobody
  /\ worker = "start"
  /\ poll = NoPoll /\ shown = Unread
  /\ fetch = [c \in Fetchers |-> "idle"]
  /\ code = [c \in Fetchers |-> None]
  /\ told = {}
  /\ popped = 0

Create ==
  /\ LockFree /\ known = {}
  /\ held' = TRUE /\ known' = {Id}
  /\ UNCHANGED <<job, writing, worker, readers, popped>>

-----------------------------------------------------------------------------
(* The mutators, one field at a time *)

\* A mutator takes the lock and, if the job is in the store and its guard
\* holds, sets out to turn it into "to" by writing "fields" in order.
Mutate(guard, fields, to) ==
  /\ LockFree /\ known # {}
  /\ writing' = IF held /\ guard THEN [fields |-> fields, to |-> to] ELSE Nobody
  /\ UNCHANGED <<job, held, known, readers, popped>>

\* Faulty: the lock is not released after the last write.
WriteFieldKeepingLock ==
  /\ ~ LockFree
  /\ LET f == Head(writing.fields)
     IN  job' = [job EXCEPT ![f] = writing.to[f]]
  /\ writing' = [writing EXCEPT !.fields = Tail(@)]
  /\ UNCHANGED <<held, known, worker, readers, popped>>

WriteField ==
  /\ ~ LockFree
  /\ LET f == Head(writing.fields)
     IN  job' = [job EXCEPT ![f] = writing.to[f]]
  /\ writing' = IF Tail(writing.fields) = <<>> THEN Nobody
                ELSE [writing EXCEPT !.fields = Tail(@)]
  /\ UNCHANGED <<held, known, worker, readers, popped>>

Running == job.status \notin TERMINAL

MarkProcessing ==
  /\ worker = "start" /\ worker' = "run"
  /\ Mutate(job.status = "queued", <<"status", "stage", "progress">>,
            Started(job, "reading"))

UpdateProgress(progress, stage) ==
  /\ worker = "run" /\ worker' = worker
  /\ Mutate(job.status = "processing", <<"progress", "stage">>,
            Reported(job, progress, stage))

\* Faulty: a completion does not look at the status it replaces.
MarkCompletedAnyway ==
  /\ worker = "run" /\ worker' = "end"
  /\ Mutate(TRUE, <<"status", "progress", "stage", "completedAt", "result">>,
            Completed(job, "full", 1))

\* Faulty: the body of a job somebody asked to cancel is not kept.
MarkCompletedBodyless ==
  /\ worker = "run" /\ worker' = "end"
  /\ Mutate(Running, <<"status", "progress", "stage", "completedAt">>
                        \o (IF job.cancelRequested THEN <<>> ELSE <<"result">>),
            Completed(job, "full", 1))

MarkCompleted ==
  /\ worker = "run" /\ worker' = "end"
  /\ Mutate(Running, <<"status", "progress", "stage", "completedAt", "result">>,
            Completed(job, "full", 1))

\* Faulty: the time of the failure is not recorded.
MarkFailedUntimed ==
  /\ worker = "run" /\ worker' = "end"
  /\ \E e \in Codes :
       Mutate(Running, <<"status", "stage", "error">>, Failed(job, e, 1))

MarkFailed ==
  /\ worker = "run" /\ worker' = "end"
  /\ \E e \in Codes :
       Mutate(Running, <<"status", "completedAt", "stage", "error">>,
              Failed(job, e, 1))

RequestCancel ==
  /\ worker' = worker
  /\ \/ /\ job.status = "queued"
        /\ Mutate(TRUE, <<"cancelRequested", "status", "completedAt", "stage">>,
                  CanceledAtOnce(job, 1))
     \/ /\ job.status # "queued"
        /\ Mutate(Running, <<"cancelRequested">>, CancelAsked(job))

\* Another thread's create() or get() evicts or sweeps the job.
Drop ==
  /\ LockFree /\ held
  /\ held' = FALSE
  /\ UNCHANGED <<job, known, writing, worker, readers, popped>>

-----------------------------------------------------------------------------
(* GET /jobs/{id} *)

PollGet ==
  /\ poll.next = 0 /\ LockFree /\ held
  /\ poll' = [NoPoll EXCEPT !.next = 1]
  /\ UNCHANGED <<job, held, known, writing, worker, shown, fetch, code, told, popped>>

PollRead ==
  /\ poll.next \in DOMAIN SnapshotFields
  /\ LET f == SnapshotFields[poll.next]
     IN  poll' = [next |-> poll.next + 1, seen |-> [poll.seen EXCEPT ![f] = job[f]]]
  /\ UNCHANGED <<job, held, known, writing, worker, shown, fetch, code, told, popped>>

PollAnswer ==
  /\ poll.next = Len(SnapshotFields) + 1
  /\ shown' = poll.seen
  /\ poll' = NoPoll
  /\ UNCHANGED <<job, held, known, writing, worker, fetch, code, told, popped>>

-----------------------------------------------------------------------------
(* GET /jobs/{id}/result: one read of job.status for every comparison *)

Move(c, to) == fetch' = [fetch EXCEPT ![c] = to]
still == <<job, held, known, writing, worker, poll, shown>>

FetchGet(c) ==
  /\ fetch[c] = "idle" /\ LockFree /\ known # {}
  /\ Move(c, IF held THEN "processing?" ELSE "404")
  /\ told' = IF shown.status = "completed" THEN told \cup {c} ELSE told
  /\ UNCHANGED <<still, code, popped>>

Compare(c, at, status, yes, no) ==
  /\ fetch[c] = at
  /\ Move(c, IF job.status = status THEN yes ELSE no)
  /\ UNCHANGED <<still, code, told, popped>>

IsProcessing(c) == Compare(c, "processing?", "processing", "409", "queued?")
IsQueued(c) == Compare(c, "queued?", "queued", "409", "failed?")
IsFailed(c) == Compare(c, "failed?", "failed", "code", "canceled?")
IsCanceled(c) == Compare(c, "canceled?", "canceled", "code", "pop")

ReadCode(c) ==
  /\ fetch[c] = "code"
  /\ code' = [code EXCEPT ![c] = job.error]
  /\ Move(c, "422")
  /\ UNCHANGED <<still, told, popped>>

\* Faulty: the body is handed out but stays with the job.
PopKept(c) ==
  /\ fetch[c] = "pop" /\ LockFree
  /\ IF held /\ job.status = "completed" /\ job.result # None
     THEN popped' = popped + 1 /\ Move(c, "200")
     ELSE popped' = popped /\ Move(c, "410")
  /\ UNCHANGED <<job, held, known, writing, worker, poll, shown, code, told>>

\* pop_result, and 200 or 410 by what it returned.
Pop(c) ==
  /\ fetch[c] = "pop" /\ LockFree
  /\ IF held /\ job.status = "completed" /\ job.result # None
     THEN /\ job' = [job EXCEPT !.result = None]
          /\ popped' = popped + 1
          /\ Move(c, "200")
     ELSE Move(c, "410") /\ UNCHANGED <<job, popped>>
  /\ UNCHANGED <<held, known, writing, worker, poll, shown, code, told>>

Next ==
  \/ Create \/ WriteField
  \/ MarkProcessing \/ MarkCompleted \/ MarkFailed \/ RequestCancel \/ Drop
  \/ UpdateProgress(25, "vectorizing") \/ UpdateProgress(85, "persisting")
  \/ PollGet \/ PollRead \/ PollAnswer
  \/ \E c \in Fetchers :
       \/ FetchGet(c) \/ IsProcessing(c) \/ IsQueued(c)
       \/ IsFailed(c) \/ IsCanceled(c) \/ ReadCode(c) \/ Pop(c)

Spec == Init /\ [][Next]_vars

-----------------------------------------------------------------------------

Steps == {"idle", "processing?", "queued?", "failed?", "canceled?", "code", "pop"}
Answers == {"200", "404", "409", "410", "422"}

\* Type correctness, of the job between any two field writes too.
TypeOK ==
  /\ job \in Job
  /\ held \in BOOLEAN /\ known \in SUBSET {Id}
  /\ LockFree \/ (writing.fields # <<>> /\ writing.to \in Job)
  /\ worker \in {"start", "run", "end"}
  /\ poll.next \in 0 .. Len(SnapshotFields) + 1
  /\ fetch \in [Fetchers -> Steps \cup Answers]
  /\ code \in [Fetchers -> Codes \cup {None}]
  /\ told \in SUBSET Fetchers
  /\ popped \in Nat

\* What a client sees by polling again and again, torn or not, never goes
\* back: progress only grows, the status only advances, a terminal answer is
\* not taken back and an error code once shown stays.
Rank == [queued |-> 0, processing |-> 1, completed |-> 2, failed |-> 2, canceled |-> 2]
PollsNeverGoBack ==
  [][/\ shown'.progress >= shown.progress
     /\ shown'.status = shown.status \/ Rank[shown'.status] > Rank[shown.status]
     /\ shown.error # None => shown'.error = shown.error]_vars

\* "Consume-once": of all requests, however they interleave, one gets the body.
DeliveredOnce == Cardinality({c \in Fetchers : fetch[c] = "200"}) <= 1

\* An answer about the outcome stays true of the job: 200 and the code of a
\* 422 are never contradicted by what the job becomes.
AnswersStayTrue ==
  \A c \in Fetchers :
    /\ fetch[c] = "200" => job.status = "completed"
    /\ fetch[c] = "422" => job.status \in {"failed", "canceled"}
    /\ code[c] # None => job.error = code[c]

\* The protocol of the edge function, poll until "completed" and then fetch,
\* gets the body unless another request already did or the store dropped the
\* job in between: the torn reads do not cost it the result.
PollThenFetch ==
  \A c \in told : fetch[c] = "410" => popped > 0 \/ ~ held

\* With the lock around them the field writes are the atomic methods of
\* JobStore: while a mutator is inside, the store is already past it.
Atomic == INSTANCE JobStore
            WITH jobs <- [j \in JobIds |->
                            IF ~ held THEN NoJob
                            ELSE IF LockFree THEN job ELSE writing.to],
                 now <- 1,
                 serial <- Cardinality(known),
                 popped <- [j \in JobIds |-> popped],
                 Reports <- {<<25, "vectorizing">>, <<85, "persisting">>},
                 MaxTime <- 1

ImplementsStore == Atomic!Spec

-----------------------------------------------------------------------------
(* A statement of the documentation that the unlocked reads do not keep; it *)
(* is the subject of a run of its own.                                      *)

\* get_job_result, at its 410: "Already consumed."  README: "410 after first
\* fetch".  Short of the store dropping the job meanwhile, that is.
GoneMeansFetched == \A c \in Fetchers : fetch[c] = "410" => popped > 0 \/ ~ held
=============================================================================
