------------------------------ MODULE JobStore ------------------------------
(***************************************************************************)
(* The in-process job store of clusteriq_engine/jobs.py under arbitrary    *)
(* callers: any thread may call any method with any id at any time.  Each  *)
(* method runs under the store's lock, so each is one action; the readers  *)
(* that look at a Job without the lock are in JobSnapshot.                 *)
(***************************************************************************)
EXTENDS JobStoreOps

CONSTANTS Reports,     \* the (progress, stage) pairs callers report
          MaxTime      \* bound on the clock, for TLC

ASSUME CallersAssumption ==
  /\ Reports \subseteq Nat \X {"reading", "vectorizing", "persisting"}
  /\ MaxTime \in Nat

VARIABLES jobs,     \* _jobs
          now,      \* time.time(), which nothing in the store sets back
          serial,   \* how many jobs were created, the source of createdAt
          known,    \* the ids handed out so far: uuid4 never repeats one
          popped    \* popped[j]: how many callers pop_result gave j's body

vars == <<jobs, now, serial, known, popped>>

Init ==
  /\ jobs = [j \in JobIds |-> NoJob]
  /\ now = 1
  /\ serial = 0
  /\ known = {}
  /\ popped = [j \in JobIds |-> 0]

Create(j) ==
  /\ j \notin known
  /\ jobs' = AfterCreate(jobs, j, serial, now)
  /\ serial' = serial + 1
  /\ known' = known \cup {j}
  /\ UNCHANGED <<now, popped>>

\* Every other method leaves the ids alone.
SetJobs(js) ==
  /\ jobs' = js
  /\ UNCHANGED <<now, serial, known>>

Get == SetJobs(AfterGet(jobs, now)) /\ UNCHANGED popped

PopResult(j) ==
  /\ SetJobs(AfterPop(jobs, j))
  /\ popped' = IF HasResult(jobs, j) THEN [popped EXCEPT ![j] = @ + 1]
               ELSE popped

MarkProcessing(j, stage) ==
  SetJobs(AfterMarkProcessing(jobs, j, stage)) /\ UNCHANGED popped

UpdateProgress(j, progress, stage) ==
  SetJobs(AfterUpdateProgress(jobs, j, progress, stage)) /\ UNCHANGED popped

MarkCompleted(j, body) ==
  SetJobs(AfterMarkCompleted(jobs, j, body, now)) /\ UNCHANGED popped

MarkFailed(j, code) ==
  SetJobs(AfterMarkFailed(jobs, j, code, now)) /\ UNCHANGED popped

RequestCancel(j) ==
  SetJobs(AfterRequestCancel(jobs, j, now)) /\ UNCHANGED popped

Tick ==
  /\ now < MaxTime
  /\ now' = now + 1
  /\ UNCHANGED <<jobs, serial, known, popped>>

\* The process dies and starts again with an empty dict; ids already handed
\* out stay with their holders.
Restart == SetJobs([j \in JobIds |-> NoJob]) /\ UNCHANGED popped

Next ==
  \/ \E j \in JobIds :
       \/ Create(j)
       \/ PopResult(j)
       \/ RequestCancel(j)
       \/ \E stage \in {"reading", "cache"} : MarkProcessing(j, stage)
       \/ \E r \in Reports : UpdateProgress(j, r[1], r[2])
       \/ \E body \in Bodies : MarkCompleted(j, body)
       \/ \E code \in Codes : MarkFailed(j, code)
  \/ Get
  \/ Tick
  \/ Restart

Spec == Init /\ [][Next]_vars

-----------------------------------------------------------------------------

\* Type correctness: every entry is a well-formed Job whose progress stays
\* within 0..100 whatever update_progress is told.
TypeOK ==
  /\ jobs \in Stores
  /\ now \in Nat \ {0}
  /\ serial \in Nat
  /\ known \in SUBSET JobIds
  /\ popped \in [JobIds -> Nat]

\* Bounded memory, second goal of jobs.py: however calls interleave, the
\* store never holds more than max_jobs entries.
Bounded == IsFiniteSet(Held(jobs)) /\ Cardinality(Held(jobs)) <= MaxJobs

\* The fields one entry shows belong together, whichever methods wrote them:
\* 100% and "completed" come together, an error code only with a failure, a
\* body only with a completion, a completion time with every terminal status
\* (the TTL depends on it), and no queued job carries a cancel flag.
Coherent(job) ==
  /\ job.status = "completed" <=> job.progress = 100
  /\ job.error # None <=> job.status = "failed"
  /\ job.result # None => job.status = "completed"
  /\ job.completedAt # 0 <=> job.status \in TERMINAL
  /\ job.status = "queued" => job.progress = 0 /\ ~ job.cancelRequested
  /\ job.status = "canceled" => job.progress = 0 /\ job.cancelRequested

EntriesCoherent ==
  \A j \in JobIds :
    jobs[j] # NoJob =>
      /\ Coherent(jobs[j])
      /\ j \in known
      /\ jobs[j].result # None => popped[j] = 0

\* "State transitions are monotonic" and "never regress": an entry's
\* progress only grows, and once its status is terminal nothing about it
\* changes but the release of its body.
EntriesOnlyAdvance ==
  [][\A j \in JobIds :
       jobs[j] # NoJob /\ jobs'[j] # NoJob =>
         /\ jobs'[j].progress >= jobs[j].progress
         /\ Terminal(jobs, j) =>
              jobs'[j] \in {jobs[j], [jobs[j] EXCEPT !.result = None]}]_vars

Lost(j) == jobs[j] # NoJob /\ jobs'[j] = NoJob
Restarted == \A j \in JobIds : jobs'[j] = NoJob

\* A record survives its retention window: short of a restart an entry
\* leaves the store only when it is finished and past its TTL, or to keep a
\* full store at max_jobs.
NothingLostEarly ==
  [][\A j \in JobIds :
       Lost(j) => \/ Restarted
                  \/ /\ Terminal(jobs, j)
                     /\ now - jobs[j].completedAt > TtlSeconds
                  \/ Cardinality(Held(jobs')) = MaxJobs]_vars

\* Eviction takes finished jobs before running ones and older before newer;
\* in particular the job just created is never the one evicted.
EvictionOrder ==
  [][\A j, k \in JobIds :
       /\ Lost(j)
       /\ jobs'[k] # NoJob
       /\ ~ (Terminal(jobs, j) /\ now - jobs[j].completedAt > TtlSeconds)
       => IF jobs[k] = NoJob THEN TRUE
          ELSE IF Terminal(jobs, j) THEN
                 Terminal(jobs, k) => jobs[j].createdAt < jobs[k].createdAt
          ELSE ~ Terminal(jobs, k) /\ jobs[j].createdAt < jobs[k].createdAt]_vars

\* A poll that races the response of a submission finds the new id.
NewJobIsHeld == [][\A j \in known' \ known : jobs'[j] # NoJob]_vars

-----------------------------------------------------------------------------
(* The store implements the life cycle it promises. *)

lifeOf == [j \in JobIds |-> IF j \notin known THEN "unborn"
                            ELSE IF jobs[j] = NoJob THEN "gone"
                            ELSE jobs[j].status]

Lifecycle == INSTANCE JobLifecycle WITH life <- lifeOf, delivered <- popped

\* Every step of the store is a step the life cycle allows: no going back, no
\* double delivery of a body, no running job dropped while a finished one
\* stays.
ImplementsLifecycle == Lifecycle!Spec
=============================================================================
