--------------------------- MODULE JobStoreProofs ---------------------------
(***************************************************************************)
(* Theorems about JobStore for every set of ids, bound, TTL and caller.    *)
(***************************************************************************)
EXTENDS JobStore, FiniteSetTheorems, WellFoundedInduction, TLAPS

USE CallersAssumption

-----------------------------------------------------------------------------
(* Types *)

\* What the store forgets, it forgets as a whole; the other entries stay.
LEMMA SweptIsStore ==
  ASSUME NEW js \in Stores, NEW t
  PROVE  /\ Swept(js, t) \in Stores
         /\ \A j \in JobIds : Swept(js, t)[j] \in {js[j], NoJob}
BY DEF Swept, Stores

LEMMA EvictedIsStore ==
  ASSUME NEW js \in Stores
  PROVE  /\ EvictedIfOver(js) \in Stores
         /\ \A j \in JobIds : EvictedIfOver(js)[j] \in {js[j], NoJob}
BY DEF EvictedIfOver, Stores

LEMMA NewJobType == ASSUME NEW rank \in Nat PROVE NewJob(rank) \in Job
BY DEF NewJob, Job, JobStatus, Stages, TERMINAL

LEMMA CreateType ==
  ASSUME NEW js \in Stores, NEW j \in JobIds, NEW rank \in Nat, NEW t
  PROVE  AfterCreate(js, j, rank, t) \in Stores
<1> DEFINE grown == [Swept(js, t) EXCEPT ![j] = NewJob(rank)]
<1>1. grown \in Stores
  BY SweptIsStore, NewJobType DEF Stores
<1>2. QED
  BY <1>1, EvictedIsStore DEF AfterCreate

\* Whatever a mutator writes into a Job is a Job.
LEMMA EntryTypes ==
  ASSUME NEW job \in Job
  PROVE  /\ \A stage \in {"reading", "cache"} : Started(job, stage) \in Job
         /\ \A r \in Reports : Reported(job, r[1], r[2]) \in Job
         /\ \A body \in Bodies, t \in Nat : Completed(job, body, t) \in Job
         /\ \A code \in Codes, t \in Nat : Failed(job, code, t) \in Job
         /\ \A t \in Nat : CanceledAtOnce(job, t) \in Job
         /\ CancelAsked(job) \in Job
         /\ [job EXCEPT !.result = None] \in Job
<1> USE DEF Job, JobStatus, Stages, TERMINAL
<1>1. ASSUME NEW r \in Reports PROVE Reported(job, r[1], r[2]) \in Job
  <2>1. r[1] \in Nat /\ r[2] \in {"reading", "vectorizing", "persisting"}
    OBVIOUS
  <2>2. Raised(job.progress, r[1]) \in 0 .. 100
    BY <2>1 DEF Raised
  <2>3. QED
    BY <2>1, <2>2 DEF Reported
<1>2. ASSUME NEW stage \in {"reading", "cache"} PROVE Started(job, stage) \in Job
  <2>1. 5 \in 0 .. 100 /\ stage \in Stages
    OBVIOUS
  <2>2. QED
    BY <2>1 DEF Started
<1>3. ASSUME NEW body \in Bodies, NEW t \in Nat
      PROVE  Completed(job, body, t) \in Job
  <2>1. 100 \in 0 .. 100
    OBVIOUS
  <2>2. QED
    BY <2>1 DEF Completed
<1>4. \A code \in Codes, t \in Nat : Failed(job, code, t) \in Job
  BY DEF Failed
<1>5. CancelAsked(job) \in Job
  BY DEF CancelAsked
<1>6. \A t \in Nat : CanceledAtOnce(job, t) \in Job
  BY <1>5 DEF CanceledAtOnce
<1>7. [job EXCEPT !.result = None] \in Job
  OBVIOUS
<1>8. QED
  BY <1>1, <1>2, <1>3, <1>4, <1>5, <1>6, <1>7

\* A mutator replaces one entry by another, or changes nothing.
Rewrites(js, j, new) ==
  new = js \/ (js[j] \in Job /\ \E job \in Job : new = Write(js, j, job))

LEMMA MutatorsRewrite ==
  ASSUME NEW js \in Stores, NEW j \in JobIds
  PROVE  /\ Rewrites(js, j, AfterPop(js, j))
         /\ \A stage \in {"reading", "cache"} :
              Rewrites(js, j, AfterMarkProcessing(js, j, stage))
         /\ \A r \in Reports :
              Rewrites(js, j, AfterUpdateProgress(js, j, r[1], r[2]))
         /\ \A body \in Bodies, t \in Nat :
              Rewrites(js, j, AfterMarkCompleted(js, j, body, t))
         /\ \A code \in Codes, t \in Nat :
              Rewrites(js, j, AfterMarkFailed(js, j, code, t))
         /\ \A t \in Nat : Rewrites(js, j, AfterRequestCancel(js, j, t))
<1>1. js[j] # NoJob => js[j] \in Job
  BY DEF Stores
<1>2. Rewrites(js, j, AfterPop(js, j))
  <2>1. [js EXCEPT ![j].result = None] = Write(js, j, [js[j] EXCEPT !.result = None])
    BY DEF Write
  <2>2. QED
    BY <1>1, <2>1, EntryTypes DEF Rewrites, AfterPop, HasResult
<1>3. QED
  BY <1>1, <1>2, EntryTypes DEF Rewrites, AfterMarkProcessing, AfterUpdateProgress,
       AfterMarkCompleted, AfterMarkFailed, AfterRequestCancel, Live

LEMMA RewriteType ==
  ASSUME NEW js \in Stores, NEW j \in JobIds, NEW new, Rewrites(js, j, new)
  PROVE  new \in Stores
BY DEF Rewrites, Write, Stores

LEMMA TypeStep == TypeOK /\ [Next]_vars => TypeOK'
<1> SUFFICES ASSUME TypeOK, [Next]_vars PROVE TypeOK'
  OBVIOUS
<1> USE DEF TypeOK
<1>1. ASSUME NEW j \in JobIds, Create(j) PROVE TypeOK'
  BY <1>1, CreateType DEF Create
<1>2. ASSUME NEW j \in JobIds, PopResult(j) PROVE TypeOK'
  <2>1. jobs' \in Stores
    BY <1>2, MutatorsRewrite, RewriteType DEF PopResult, SetJobs
  <2>2. popped' \in [JobIds -> Nat]
    BY <1>2 DEF PopResult
  <2>3. QED
    BY <1>2, <2>1, <2>2 DEF PopResult, SetJobs
<1>3. ASSUME NEW j \in JobIds, RequestCancel(j) PROVE TypeOK'
  BY <1>3, MutatorsRewrite, RewriteType DEF RequestCancel, SetJobs
<1>4. ASSUME NEW j \in JobIds, NEW stage \in {"reading", "cache"},
             MarkProcessing(j, stage)
      PROVE  TypeOK'
  BY <1>4, MutatorsRewrite, RewriteType DEF MarkProcessing, SetJobs
<1>5. ASSUME NEW j \in JobIds, NEW r \in Reports, UpdateProgress(j, r[1], r[2])
      PROVE  TypeOK'
  BY <1>5, MutatorsRewrite, RewriteType DEF UpdateProgress, SetJobs
<1>6. ASSUME NEW j \in JobIds, NEW body \in Bodies, MarkCompleted(j, body)
      PROVE  TypeOK'
  BY <1>6, MutatorsRewrite, RewriteType DEF MarkCompleted, SetJobs
<1>7. ASSUME NEW j \in JobIds, NEW code \in Codes, MarkFailed(j, code)
      PROVE  TypeOK'
  BY <1>7, MutatorsRewrite, RewriteType DEF MarkFailed, SetJobs
<1>8. CASE Get
  BY <1>8, SweptIsStore DEF Get, SetJobs, AfterGet
<1>9. CASE Tick
  BY <1>9 DEF Tick
<1>10. CASE Restart
  BY <1>10 DEF Restart, SetJobs, Stores
<1>11. CASE UNCHANGED vars
  BY <1>11 DEF vars
<1>12. QED
  BY <1>1, <1>2, <1>3, <1>4, <1>5, <1>6, <1>7, <1>8, <1>9, <1>10, <1>11 DEF Next

\* The store never leaves its type, however its methods interleave.
THEOREM TypeCorrect == Spec => []TypeOK
<1>1. Init => TypeOK
  BY DEF Init, TypeOK, Stores
<1>2. QED
  BY <1>1, TypeStep, PTL DEF Spec

-----------------------------------------------------------------------------
(* What one step may do to one entry *)

Kept(k) == jobs'[k] = jobs[k] /\ popped'[k] = popped[k]
Removed(k) == jobs'[k] = NoJob /\ popped'[k] = popped[k]
Added(k) == /\ k \in known' \ known /\ serial' = serial + 1
            /\ jobs'[k] = NewJob(serial) /\ popped'[k] = popped[k]
Popped(k) == /\ HasResult(jobs, k)
             /\ jobs'[k] = [jobs[k] EXCEPT !.result = None]
             /\ popped'[k] = popped[k] + 1
Began(k) == /\ jobs[k].status = "queued"
            /\ \E stage \in {"reading", "cache"} : jobs'[k] = Started(jobs[k], stage)
Progressed(k) == /\ jobs[k].status = "processing"
                 /\ \E r \in Reports : jobs'[k] = Reported(jobs[k], r[1], r[2])
Ended(k) == /\ ~ Terminal(jobs, k)
            /\ \/ \E body \in Bodies : jobs'[k] = Completed(jobs[k], body, now)
               \/ \E code \in Codes : jobs'[k] = Failed(jobs[k], code, now)
CancelSeen(k) ==
  \/ jobs[k].status = "queued" /\ jobs'[k] = CanceledAtOnce(jobs[k], now)
  \/ jobs[k].status = "processing" /\ jobs'[k] = CancelAsked(jobs[k])

Rewritten(k) == /\ jobs[k] \in Job /\ jobs[k] # NoJob
                /\ popped'[k] = popped[k]
                /\ Began(k) \/ Progressed(k) \/ Ended(k) \/ CancelSeen(k)

Changes(k) == Kept(k) \/ Removed(k) \/ Added(k) \/ Popped(k) \/ Rewritten(k)

LEMMA StepChanges ==
  ASSUME TypeOK, [Next]_vars
  PROVE  /\ \A k \in JobIds : Changes(k)
         /\ known \subseteq known' /\ serial' \in {serial, serial + 1}
<1> USE DEF TypeOK, Changes
<1>1. \A k \in JobIds : jobs[k] # NoJob => jobs[k] \in Job
  BY DEF Stores
<1>2. ASSUME NEW j \in JobIds, Create(j)
      PROVE  \A k \in JobIds : Changes(k)
  <2> DEFINE grown == [Swept(jobs, now) EXCEPT ![j] = NewJob(serial)]
  <2>1. grown \in Stores
    BY SweptIsStore, NewJobType DEF Stores
  <2>2. \A k \in JobIds : jobs'[k] \in {grown[k], NoJob}
    BY <1>2, <2>1, EvictedIsStore DEF Create, AfterCreate
  <2>3. ASSUME NEW k \in JobIds, k # j PROVE Kept(k) \/ Removed(k)
    <3>1. grown[k] \in {jobs[k], NoJob}
      BY <2>3, SweptIsStore DEF Stores
    <3>2. QED
      BY <1>2, <2>2, <3>1 DEF Create, Kept, Removed
  <2>4. grown[j] = NewJob(serial)
    BY SweptIsStore DEF Stores
  <2>5. Added(j) \/ Removed(j)
    BY <1>2, <2>2, <2>4 DEF Create, Added, Removed
  <2>6. QED
    BY <2>3, <2>5
<1>3. ASSUME NEW j \in JobIds, PopResult(j)
      PROVE  \A k \in JobIds : Changes(k)
  BY <1>3 DEF PopResult, SetJobs, AfterPop, Popped, Kept, Stores
<1>4. ASSUME NEW j \in JobIds, RequestCancel(j)
      PROVE  \A k \in JobIds : Changes(k)
  <2>1. Live(jobs, j) => jobs[j] \in Job /\ jobs[j].status \in {"queued", "processing"}
    BY <1>1 DEF Live, Terminal, Job, JobStatus
  <2>2. QED
    BY <1>4, <2>1 DEF RequestCancel, SetJobs, AfterRequestCancel, Write, Live,
         Rewritten, CancelSeen, Kept, Stores
<1>5. ASSUME NEW j \in JobIds, NEW stage \in {"reading", "cache"},
             MarkProcessing(j, stage)
      PROVE  \A k \in JobIds : Changes(k)
  BY <1>1, <1>5 DEF MarkProcessing, SetJobs, AfterMarkProcessing, Write,
       Rewritten, Began, Kept, Stores
<1>6. ASSUME NEW j \in JobIds, NEW r \in Reports, UpdateProgress(j, r[1], r[2])
      PROVE  \A k \in JobIds : Changes(k)
  BY <1>1, <1>6 DEF UpdateProgress, SetJobs, AfterUpdateProgress, Write,
       Rewritten, Progressed, Kept, Stores
<1>7. ASSUME NEW j \in JobIds, NEW body \in Bodies, MarkCompleted(j, body)
      PROVE  \A k \in JobIds : Changes(k)
  BY <1>1, <1>7 DEF MarkCompleted, SetJobs, AfterMarkCompleted, Write, Live,
       Rewritten, Ended, Kept, Stores
<1>8. ASSUME NEW j \in JobIds, NEW code \in Codes, MarkFailed(j, code)
      PROVE  \A k \in JobIds : Changes(k)
  BY <1>1, <1>8 DEF MarkFailed, SetJobs, AfterMarkFailed, Write, Live,
       Rewritten, Ended, Kept, Stores
<1>9. ASSUME Get \/ Tick \/ Restart \/ UNCHANGED vars
      PROVE  \A k \in JobIds : Kept(k) \/ Removed(k)
  BY <1>9, SweptIsStore DEF Get, Tick, Restart, SetJobs, AfterGet, vars, Kept, Removed
<1>10. known \subseteq known' /\ serial' \in {serial, serial + 1}
  BY DEF Next, vars, Create, PopResult, RequestCancel, MarkProcessing, UpdateProgress,
       MarkCompleted, MarkFailed, Get, Tick, Restart, SetJobs
<1>11. QED
  BY <1>2, <1>3, <1>4, <1>5, <1>6, <1>7, <1>8, <1>9, <1>10 DEF Next

-----------------------------------------------------------------------------
(* The inductive invariant *)

\* Ids and creation ranks of entries come from the past.
Dated(j) == jobs[j] # NoJob => j \in known /\ jobs[j].createdAt < serial

\* A body that is still to come, or still in the entry, was never handed out.
Undelivered(j) ==
  \/ j \notin known
  \/ jobs[j] # NoJob /\ (~ Terminal(jobs, j) \/ jobs[j].result # None)
  => popped[j] = 0

EntryInv(j) ==
  /\ Dated(j)
  /\ Undelivered(j)
  /\ jobs[j] # NoJob => Coherent(jobs[j])

IInv == TypeOK /\ \A j \in JobIds : EntryInv(j)

LEMMA NewJobCoherent == \A rank : Coherent(NewJob(rank))
BY DEF Coherent, NewJob, TERMINAL

\* Each write a mutator makes under its guard keeps an entry coherent, keeps
\* its creation rank and does not lower its progress.
Extends(old, new) ==
  new \in Job /\ Coherent(new) /\ new.createdAt = old.createdAt /\ new.progress >= old.progress

LEMMA WritesExtend ==
  ASSUME NEW job \in Job, Coherent(job)
  PROVE  /\ job.status = "queued" =>
              /\ \A stage \in {"reading", "cache"} : Extends(job, Started(job, stage))
              /\ \A t \in Nat \ {0} : Extends(job, CanceledAtOnce(job, t))
         /\ job.status = "processing" =>
              /\ \A r \in Reports : Extends(job, Reported(job, r[1], r[2]))
              /\ Extends(job, CancelAsked(job))
         /\ job.status \notin TERMINAL =>
              /\ \A body \in Bodies, t \in Nat \ {0} : Extends(job, Completed(job, body, t))
              /\ \A code \in Codes, t \in Nat \ {0} : Extends(job, Failed(job, code, t))
<1> USE DEF Extends
<1>0. /\ job.progress \in 0 .. 100 /\ job.createdAt \in Nat
      /\ DOMAIN job = {"status", "progress", "stage", "createdAt", "completedAt",
                       "error", "result", "cancelRequested"}
      /\ None \notin Bodies /\ None \notin Codes
  BY StoreAssumption DEF Job
<1>1. ASSUME job.status = "queued", NEW stage \in {"reading", "cache"}
      PROVE  Extends(job, Started(job, stage))
  <2> DEFINE new == Started(job, stage)
  <2>1. /\ new.status = "processing" /\ new.progress = 5
        /\ new.createdAt = job.createdAt /\ new.completedAt = job.completedAt
        /\ new.error = job.error /\ new.result = job.result
    BY <1>0 DEF Started
  <2>2. new \in Job
    BY EntryTypes
  <2>3. QED
    BY <1>0, <1>1, <2>1, <2>2 DEF Coherent, TERMINAL
<1>2. ASSUME job.status = "queued", NEW t \in Nat \ {0}
      PROVE  Extends(job, CanceledAtOnce(job, t))
  <2> DEFINE new == CanceledAtOnce(job, t)
  <2>1. /\ new.status = "canceled" /\ new.progress = job.progress
        /\ new.createdAt = job.createdAt /\ new.completedAt = t
        /\ new.error = job.error /\ new.result = job.result /\ new.cancelRequested
    BY <1>0 DEF CanceledAtOnce, CancelAsked
  <2>2. new \in Job
    BY EntryTypes
  <2>3. QED
    BY <1>0, <1>2, <2>1, <2>2 DEF Coherent, TERMINAL
<1>3. ASSUME job.status = "processing", NEW r \in Reports
      PROVE  Extends(job, Reported(job, r[1], r[2]))
  <2> DEFINE new == Reported(job, r[1], r[2])
  <2>1. /\ new.status = job.status /\ new.progress = Raised(job.progress, r[1])
        /\ new.createdAt = job.createdAt /\ new.completedAt = job.completedAt
        /\ new.error = job.error /\ new.result = job.result
    BY <1>0 DEF Reported
  <2>2. new \in Job
    BY EntryTypes
  <2>3. job.progress # 100
    BY <1>3 DEF Coherent
  <2>4. r[1] \in Nat
    OBVIOUS
  <2>5. /\ Raised(job.progress, r[1]) >= job.progress
        /\ Raised(job.progress, r[1]) # 100
    BY <1>0, <2>3, <2>4 DEF Raised
  <2>6. QED
    BY <1>0, <1>3, <2>1, <2>2, <2>5 DEF Coherent, TERMINAL
<1>4. ASSUME job.status = "processing" PROVE Extends(job, CancelAsked(job))
  <2> DEFINE new == CancelAsked(job)
  <2>1. /\ new.status = job.status /\ new.progress = job.progress
        /\ new.createdAt = job.createdAt /\ new.completedAt = job.completedAt
        /\ new.error = job.error /\ new.result = job.result
    BY <1>0 DEF CancelAsked
  <2>2. new \in Job
    BY EntryTypes
  <2>3. QED
    BY <1>0, <1>4, <2>1, <2>2 DEF Coherent, TERMINAL
<1>5. ASSUME job.status \notin TERMINAL, NEW body \in Bodies, NEW t \in Nat \ {0}
      PROVE  Extends(job, Completed(job, body, t))
  <2> DEFINE new == Completed(job, body, t)
  <2>1. /\ new.status = "completed" /\ new.progress = 100
        /\ new.createdAt = job.createdAt /\ new.completedAt = t
        /\ new.error = job.error /\ new.result = body
    BY <1>0 DEF Completed
  <2>2. new \in Job
    BY EntryTypes
  <2>3. QED
    BY <1>0, <1>5, <2>1, <2>2 DEF Coherent, TERMINAL
<1>6. ASSUME job.status \notin TERMINAL, NEW code \in Codes, NEW t \in Nat \ {0}
      PROVE  Extends(job, Failed(job, code, t))
  <2> DEFINE new == Failed(job, code, t)
  <2>1. /\ new.status = "failed" /\ new.progress = job.progress
        /\ new.createdAt = job.createdAt /\ new.completedAt = t
        /\ new.error = code /\ new.result = job.result
    BY <1>0 DEF Failed
  <2>2. new \in Job
    BY EntryTypes
  <2>3. QED
    BY <1>0, <1>6, <2>1, <2>2 DEF Coherent, TERMINAL
<1>7. QED
  BY <1>1, <1>2, <1>3, <1>4, <1>5, <1>6

LEMMA RewrittenExtends ==
  ASSUME NEW k \in JobIds, TypeOK, Rewritten(k), Coherent(jobs[k])
  PROVE  Extends(jobs[k], jobs'[k]) /\ ~ Terminal(jobs, k)
<1>1. jobs[k] \in Job /\ now \in Nat \ {0}
  BY DEF Rewritten, TypeOK
<1>2. CASE Began(k) \/ Progressed(k) \/ CancelSeen(k)
  BY <1>1, <1>2, WritesExtend DEF Began, Progressed, CancelSeen, Terminal, TERMINAL
<1>3. CASE Ended(k)
  BY <1>1, <1>3, WritesExtend DEF Ended, Terminal
<1>4. QED
  BY <1>2, <1>3 DEF Rewritten

LEMMA InitEstablishes == Init => IInv
<1> SUFFICES ASSUME Init PROVE IInv
  OBVIOUS
<1>1. TypeOK
  BY DEF Init, TypeOK, Stores
<1>2. QED
  BY <1>1 DEF Init, IInv, EntryInv, Dated, Undelivered

LEMMA StepPreserves == IInv /\ [Next]_vars => IInv'
<1> SUFFICES ASSUME IInv, [Next]_vars PROVE IInv'
  OBVIOUS
<1>1. TypeOK /\ TypeOK'
  BY TypeStep DEF IInv
<1>2. /\ \A k \in JobIds : Changes(k)
      /\ known \subseteq known' /\ serial' \in {serial, serial + 1}
  BY <1>1, StepChanges
<1>3. serial \in Nat /\ serial' >= serial
  BY <1>1, <1>2 DEF TypeOK
<1>4. ASSUME NEW k \in JobIds PROVE EntryInv(k)'
  <2>1. EntryInv(k)
    BY DEF IInv
  <2>2. jobs[k] # NoJob => jobs[k] \in Job
    BY <1>1 DEF TypeOK, Stores
  <2> USE DEF EntryInv, Dated, Undelivered, Terminal
  <2>3. CASE Kept(k)
    BY <1>2, <1>3, <2>1, <2>2, <2>3 DEF Kept, Job
  <2>4. CASE Removed(k)
    BY <1>2, <2>1, <2>4 DEF Removed
  <2>5. CASE Added(k)
    <3>1. /\ jobs'[k].createdAt = serial /\ jobs'[k].result = None
          /\ Coherent(jobs'[k])
      BY <2>5, NewJobCoherent DEF Added, NewJob
    <3>2. QED
      BY <1>3, <2>1, <2>5, <3>1 DEF Added
  <2>6. CASE Popped(k)
    <3>1. jobs[k] \in Job /\ jobs[k].status = "completed" /\ jobs[k] # NoJob
      BY <2>2, <2>6 DEF Popped, HasResult
    <3>2. /\ jobs'[k].status = "completed" /\ jobs'[k].result = None
          /\ jobs'[k].createdAt = jobs[k].createdAt
          /\ jobs'[k].progress = jobs[k].progress /\ jobs'[k].error = jobs[k].error
          /\ jobs'[k].completedAt = jobs[k].completedAt
      BY <2>6, <3>1 DEF Popped, Job
    <3>3. QED
      BY <1>2, <1>3, <2>1, <3>1, <3>2 DEF Coherent, TERMINAL, Job
  <2>7. CASE Rewritten(k)
    <3>1. jobs[k] # NoJob /\ Coherent(jobs[k]) /\ popped'[k] = popped[k]
      BY <2>1, <2>7 DEF Rewritten
    <3>2. Extends(jobs[k], jobs'[k]) /\ ~ Terminal(jobs, k)
      BY <1>1, <2>7, <3>1, RewrittenExtends
    <3>3. jobs[k].createdAt \in Nat
      BY <2>7 DEF Rewritten, Job
    <3>4. QED
      BY <1>2, <1>3, <2>1, <3>1, <3>2, <3>3 DEF Extends
  <2>8. QED
    BY <1>2, <2>3, <2>4, <2>5, <2>6, <2>7 DEF Changes
<1>5. QED
  BY <1>1, <1>4 DEF IInv

LEMMA Inductive == Spec => []IInv
BY InitEstablishes, StepPreserves, PTL DEF Spec

\* An entry never shows fields that do not belong together, and a body that
\* is still in the store was never handed out.
THEOREM EntriesStayCoherent == Spec => []EntriesCoherent
<1>1. IInv => EntriesCoherent
  BY DEF IInv, EntryInv, Dated, Undelivered, EntriesCoherent
<1>2. QED
  BY <1>1, Inductive, PTL

\* Progress and status never go back.
THEOREM NoRegress == Spec => EntriesOnlyAdvance
<1> DEFINE A == \A j \in JobIds :
       jobs[j] # NoJob /\ jobs'[j] # NoJob =>
         /\ jobs'[j].progress >= jobs[j].progress
         /\ Terminal(jobs, j) =>
              jobs'[j] \in {jobs[j], [jobs[j] EXCEPT !.result = None]}
<1>1. IInv /\ [Next]_vars => [A]_vars
  <2> SUFFICES ASSUME IInv, [Next]_vars, NEW j \in JobIds,
                      jobs[j] # NoJob, jobs'[j] # NoJob
               PROVE  /\ jobs'[j].progress >= jobs[j].progress
                      /\ Terminal(jobs, j) =>
                           jobs'[j] \in {jobs[j], [jobs[j] EXCEPT !.result = None]}
    OBVIOUS
  <2>1. Changes(j) /\ EntryInv(j) /\ TypeOK
    BY StepChanges DEF IInv
  <2>2. jobs[j] \in Job /\ jobs[j].progress \in 0 .. 100
    BY <2>1 DEF TypeOK, Stores, Job
  <2>3. CASE Rewritten(j)
    BY <2>1, <2>3, RewrittenExtends DEF EntryInv, Extends
  <2>4. CASE Popped(j)
    <3>1. jobs'[j].progress = jobs[j].progress
      BY <2>2, <2>4 DEF Popped, Job
    <3>2. QED
      BY <2>2, <2>4, <3>1 DEF Popped
  <2>5. CASE Kept(j)
    BY <2>2, <2>5 DEF Kept
  <2>6. QED
    BY <2>1, <2>3, <2>4, <2>5 DEF Changes, Added, Removed, EntryInv, Dated
<1>2. QED
  BY <1>1, Inductive, PTL DEF Spec, EntriesOnlyAdvance

-----------------------------------------------------------------------------
(* Capacity *)

Before(js, j) == {k \in Held(js) : DropsBefore(js, k, j)}

LEMMA DropOrder ==
  ASSUME NEW js \in Stores, NEW a \in Held(js), NEW b \in Held(js), NEW c \in Held(js)
  PROVE  /\ ~ DropsBefore(js, a, a)
         /\ DropsBefore(js, a, b) /\ DropsBefore(js, b, c) => DropsBefore(js, a, c)
<1>1. \A k \in Held(js) : js[k].createdAt \in Nat
  BY DEF Held, Stores, Job
<1>2. QED
  BY <1>1 DEF DropsBefore, Terminal

\* Among finitely many entries one is first in the order of eviction.  (The
\* sets Before(js, j) are finite, so one of them has none below it.)
LEMMA SomeEntryIsFirst ==
  ASSUME NEW js \in Stores, IsFiniteSet(Held(js)), Held(js) # {}
  PROVE  \E j \in Held(js) : Before(js, j) = {}
<1> DEFINE H == Held(js)
           T == {Before(js, j) : j \in H}
           R == StrictSubsetOrdering(H)
<1>1. T \subseteq FiniteSubsetsOf(H) /\ T # {}
  <2>1. \A j \in H : Before(js, j) \in SUBSET H
    BY DEF Before
  <2>2. \A j \in H : IsFiniteSet(Before(js, j))
    BY <2>1, FS_Subset
  <2>3. QED
    BY <2>1, <2>2 DEF FiniteSubsetsOf
<1>2. IsWellFoundedOn(R, FiniteSubsetsOf(H))
  BY FS_StrictSubsetOrderingWellFounded
<1>3. PICK x \in T : \A y \in T : <<y, x>> \notin R
  <2> HIDE DEF T, R, H
  <2>1. QED
    BY <1>1, <1>2, WFMin
<1>4. PICK j \in H : x = Before(js, j)
  OBVIOUS
<1>5. ASSUME NEW k \in Before(js, j) PROVE FALSE
  <2>1. k \in H /\ DropsBefore(js, k, j)
    BY DEF Before
  <2>2. Before(js, k) \subseteq Before(js, j)
    BY <2>1, DropOrder DEF Before
  <2>3. k \notin Before(js, k)
    BY <2>1, DropOrder DEF Before
  <2>4. <<Before(js, k), x>> \in R
    BY <1>4, <1>5, <2>2, <2>3 DEF StrictSubsetOrdering, Before
  <2>5. QED
    BY <1>3, <2>1, <2>4
<1>6. QED
  BY <1>4, <1>5

LEMMA HeldAfterEviction ==
  ASSUME NEW js \in Stores
  PROVE  Held(EvictedIfOver(js)) = Held(js) \ Dropped(js)
BY DEF Held, EvictedIfOver, Dropped

LEMMA EvictionMakesRoom ==
  ASSUME NEW js \in Stores, IsFiniteSet(Held(js)),
         Cardinality(Held(js)) <= MaxJobs + 1
  PROVE  /\ IsFiniteSet(Held(EvictedIfOver(js)))
         /\ Cardinality(Held(EvictedIfOver(js))) <= MaxJobs
<1> DEFINE H == Held(js)  L == Held(EvictedIfOver(js))
<1>1. L = H \ Dropped(js)
  BY HeldAfterEviction
<1>2. IsFiniteSet(L) /\ Cardinality(L) <= Cardinality(H)
  BY <1>1, FS_Subset
<1>3. Cardinality(H) \in Nat /\ MaxJobs \in Nat \ {0}
  BY FS_CardinalityType, StoreAssumption
<1>4. CASE Cardinality(H) = MaxJobs + 1
  <2>1. H # {}
    BY <1>3, <1>4, FS_EmptySet
  <2>2. PICK j \in H : Before(js, j) = {}
    BY <2>1, SomeEntryIsFirst
  <2>3. j \in Dropped(js)
    BY <1>3, <1>4, <2>2, FS_EmptySet DEF Dropped, Excess, Before
  <2>4. L \subseteq H \ {j}
    BY <1>1, <2>3
  <2>5. IsFiniteSet(H \ {j}) /\ Cardinality(H \ {j}) = MaxJobs
    BY <1>3, <1>4, FS_RemoveElement
  <2>6. Cardinality(L) <= MaxJobs
    BY <2>4, <2>5, FS_Subset
  <2>7. QED
    BY <1>2, <2>6
<1>5. QED
  BY <1>2, <1>3, <1>4, FS_CardinalityType

\* What create() inserts is the newest running entry, so room is made for it.
LEMMA NewestStays ==
  ASSUME NEW js \in Stores, IsFiniteSet(Held(js)),
         Cardinality(Held(js)) <= MaxJobs + 1,
         NEW j \in Held(js), ~ Terminal(js, j),
         \A k \in Held(js) \ {j} : js[k].createdAt < js[j].createdAt
  PROVE  j \notin Dropped(js)
<1> SUFFICES ASSUME j \in Dropped(js) PROVE FALSE
  OBVIOUS
<1>1. Before(js, j) = Held(js) \ {j}
  <2>1. \A k \in Held(js) : js[k].createdAt \in Nat
    BY DEF Held, Stores, Job
  <2>2. QED
    BY <2>1 DEF Before, DropsBefore, Terminal
<1>2. Cardinality(Before(js, j)) = Cardinality(Held(js)) - 1
  BY <1>1, FS_RemoveElement
<1>3. Cardinality(Before(js, j)) < Cardinality(Held(js)) - MaxJobs
  BY DEF Dropped, Excess, Before
<1>4. QED
  BY <1>2, <1>3, FS_CardinalityType, StoreAssumption

\* The store create() sorts before it evicts.
Grown(j) == [Swept(jobs, now) EXCEPT ![j] = NewJob(serial)]

LEMMA GrownFacts ==
  ASSUME IInv, Bounded, NEW j \in JobIds, Create(j)
  PROVE  /\ Grown(j) \in Stores /\ jobs' = EvictedIfOver(Grown(j))
         /\ Grown(j)[j] = NewJob(serial)
         /\ \A k \in JobIds \ {j} : Grown(j)[k] = Swept(jobs, now)[k]
         /\ j \in Held(Grown(j)) /\ ~ Terminal(Grown(j), j)
         /\ Held(Grown(j)) \subseteq Held(jobs) \cup {j}
         /\ IsFiniteSet(Held(Grown(j)))
         /\ Cardinality(Held(Grown(j))) <= MaxJobs + 1
         /\ \A k \in Held(Grown(j)) \ {j} :
              Grown(j)[k].createdAt < Grown(j)[j].createdAt
<1> USE DEF IInv, TypeOK
<1>1. /\ Swept(jobs, now) \in Stores
      /\ \A k \in JobIds : Swept(jobs, now)[k] \in {jobs[k], NoJob}
  BY SweptIsStore
<1>2. /\ Grown(j)[j] = NewJob(serial)
      /\ \A k \in JobIds \ {j} : Grown(j)[k] = Swept(jobs, now)[k]
  BY <1>1 DEF Grown, Stores
<1>3. NewJob(serial) \in Job /\ NewJob(serial) # NoJob
  BY NewJobType, StoreAssumption
<1>4. Grown(j) \in Stores
  BY <1>1, <1>3 DEF Grown, Stores
<1>5. jobs' = EvictedIfOver(Grown(j))
  BY DEF Create, AfterCreate, Grown
<1>6. j \in Held(Grown(j)) /\ ~ Terminal(Grown(j), j)
  BY <1>2, <1>3 DEF Held, Terminal, TERMINAL, NewJob
<1>7. Held(Grown(j)) \subseteq Held(jobs) \cup {j}
  BY <1>1, <1>2 DEF Held
<1>8. /\ IsFiniteSet(Held(Grown(j)))
      /\ Cardinality(Held(Grown(j))) <= MaxJobs + 1
  <2>1. IsFiniteSet(Held(jobs)) /\ Cardinality(Held(jobs)) <= MaxJobs
    BY DEF Bounded
  <2>2. /\ IsFiniteSet(Held(jobs) \cup {j})
        /\ Cardinality(Held(jobs) \cup {j}) <= MaxJobs + 1
    <3>1. /\ IsFiniteSet(Held(jobs) \cup {j})
          /\ Cardinality(Held(jobs) \cup {j}) =
               IF j \in Held(jobs) THEN Cardinality(Held(jobs))
               ELSE Cardinality(Held(jobs)) + 1
      BY <2>1, FS_AddElement
    <3>2. Cardinality(Held(jobs)) \in Nat
      BY <2>1, FS_CardinalityType
    <3>3. QED
      BY <2>1, <3>1, <3>2, StoreAssumption
  <2>3. /\ IsFiniteSet(Held(Grown(j)))
        /\ Cardinality(Held(Grown(j))) <= Cardinality(Held(jobs) \cup {j})
    BY <1>7, <2>2, FS_Subset
  <2>4. Cardinality(Held(Grown(j))) \in Nat /\ Cardinality(Held(jobs) \cup {j}) \in Nat
    BY <2>2, <2>3, FS_CardinalityType
  <2>5. QED
    BY <2>2, <2>3, <2>4, StoreAssumption
<1>9. \A k \in Held(Grown(j)) \ {j} : Grown(j)[k].createdAt < Grown(j)[j].createdAt
  <2> SUFFICES ASSUME NEW k \in Held(Grown(j)) \ {j}
               PROVE  Grown(j)[k].createdAt < Grown(j)[j].createdAt
    OBVIOUS
  <2>1. Grown(j)[k] = jobs[k] /\ jobs[k] # NoJob /\ k \in JobIds
    BY <1>1, <1>2 DEF Held
  <2>2. Grown(j)[j].createdAt = serial
    BY <1>2 DEF NewJob
  <2>3. QED
    BY <2>1, <2>2 DEF EntryInv, Dated
<1>10. QED
  BY <1>2, <1>4, <1>5, <1>6, <1>7, <1>8, <1>9

\* Every other step only rewrites or removes entries.
LEMMA OthersHoldNoMore ==
  ASSUME TypeOK, [Next]_vars, known' = known
  PROVE  Held(jobs') \subseteq Held(jobs)
<1>1. \A k \in JobIds : Changes(k)
  BY StepChanges
<1>2. QED
  BY <1>1 DEF Changes, Kept, Removed, Added, Popped, HasResult, Rewritten, Held

LEMMA OnlyCreateKnows ==
  ASSUME [Next]_vars
  PROVE  known' = known \/ \E j \in JobIds : Create(j)
BY DEF Next, vars, PopResult, RequestCancel, MarkProcessing, UpdateProgress,
   MarkCompleted, MarkFailed, Get, Tick, Restart, SetJobs

LEMMA BoundedStep == IInv /\ Bounded /\ [Next]_vars => Bounded'
<1> SUFFICES ASSUME IInv, Bounded, [Next]_vars PROVE Bounded'
  OBVIOUS
<1>1. ASSUME NEW j \in JobIds, Create(j) PROVE Bounded'
  BY <1>1, GrownFacts, EvictionMakesRoom DEF Bounded
<1>2. CASE known' = known
  <2>1. Held(jobs') \subseteq Held(jobs)
    BY <1>2, OthersHoldNoMore DEF IInv
  <2>2. /\ IsFiniteSet(Held(jobs'))
        /\ Cardinality(Held(jobs')) <= Cardinality(Held(jobs))
    BY <2>1, FS_Subset DEF Bounded
  <2>3. Cardinality(Held(jobs')) \in Nat /\ Cardinality(Held(jobs)) \in Nat
    BY <2>2, FS_CardinalityType DEF Bounded
  <2>4. QED
    BY <2>2, <2>3, StoreAssumption DEF Bounded
<1>3. QED
  BY <1>1, <1>2, OnlyCreateKnows

LEMMA CapacityInvariant == Spec => [](IInv /\ Bounded)
<1>1. Init => Bounded
  <2> SUFFICES ASSUME Init PROVE Bounded
    OBVIOUS
  <2>1. Held(jobs) = {}
    BY DEF Init, Held
  <2>2. QED
    BY <2>1, FS_EmptySet, StoreAssumption DEF Bounded
<1>2. QED
  BY <1>1, BoundedStep, InitEstablishes, StepPreserves, PTL DEF Spec

\* The store never holds more than max_jobs entries: the eviction create()
\* runs under the lock always makes the room it needs.
THEOREM StoreIsBounded == Spec => []Bounded
BY CapacityInvariant, PTL

\* The job create() returns is in the store when create() returns.
THEOREM NewJobStays == Spec => NewJobIsHeld
<1> DEFINE A == \A j \in known' \ known : jobs'[j] # NoJob
<1>1. IInv /\ Bounded /\ [Next]_vars => [A]_vars
  <2> SUFFICES ASSUME IInv, Bounded, [Next]_vars, NEW j \in known' \ known
               PROVE  jobs'[j] # NoJob
    OBVIOUS
  <2>1. PICK i \in JobIds : Create(i)
    BY OnlyCreateKnows
  <2>2. i = j
    BY <2>1 DEF Create
  <2>3. j \notin Dropped(Grown(j))
    BY <2>1, <2>2, GrownFacts, NewestStays
  <2>4. j \in Held(jobs')
    <3>1. Held(EvictedIfOver(Grown(j))) = Held(Grown(j)) \ Dropped(Grown(j))
      BY <2>1, <2>2, GrownFacts, HeldAfterEviction
    <3>2. QED
      BY <2>1, <2>2, <2>3, <3>1, GrownFacts
  <2>5. QED
    BY <2>4 DEF Held
<1>2. QED
  BY <1>1, CapacityInvariant, PTL DEF Spec, NewJobIsHeld

-----------------------------------------------------------------------------
(* What is evicted, and why *)

\* No two entries have the same rank, so "the first" of the sorted dict is one.
RanksDiffer ==
  \A j, k \in Held(jobs) : jobs[j].createdAt = jobs[k].createdAt => j = k

LEMMA RanksStayDifferent == IInv /\ RanksDiffer /\ [Next]_vars => RanksDiffer'
<1> SUFFICES ASSUME IInv, RanksDiffer, [Next]_vars PROVE RanksDiffer'
  OBVIOUS
<1>1. \A k \in JobIds : Changes(k)
  BY StepChanges DEF IInv
<1>2. ASSUME NEW k \in JobIds, jobs'[k] # NoJob
      PROVE  \/ Added(k) /\ jobs'[k].createdAt = serial
             \/ jobs[k] # NoJob /\ jobs'[k].createdAt = jobs[k].createdAt
  <2>1. jobs[k] # NoJob => jobs[k] \in Job /\ Coherent(jobs[k])
    BY DEF IInv, TypeOK, Stores, EntryInv
  <2>2. CASE Added(k)
    BY <2>2 DEF Added, NewJob
  <2>3. CASE Popped(k)
    BY <2>1, <2>3 DEF Popped, HasResult, Job
  <2>4. CASE Rewritten(k)
    BY <2>1, <2>4, RewrittenExtends DEF Rewritten, Extends, IInv
  <2>5. CASE Kept(k)
    BY <1>2, <2>5 DEF Kept
  <2>6. QED
    BY <1>1, <1>2, <2>2, <2>3, <2>4, <2>5 DEF Changes, Removed
<1>3. ASSUME NEW j \in JobIds, NEW k \in JobIds, Added(j), Added(k) PROVE j = k
  <2>1. PICK i \in JobIds : Create(i)
    BY <1>3, OnlyCreateKnows DEF Added
  <2>2. QED
    BY <1>3, <2>1 DEF Added, Create
<1>4. \A k \in JobIds : jobs[k] # NoJob => jobs[k].createdAt < serial
  BY DEF IInv, EntryInv, Dated
<1>5. serial \in Nat /\ \A k \in JobIds : jobs[k] # NoJob => jobs[k].createdAt \in Nat
  BY DEF IInv, TypeOK, Stores, Job
<1>6. QED
  BY <1>2, <1>3, <1>4, <1>5 DEF RanksDiffer, Held

LEMMA OrderInvariant == Spec => [](IInv /\ Bounded /\ RanksDiffer)
<1>1. Init => RanksDiffer
  BY DEF Init, RanksDiffer, Held
<1>2. QED
  BY <1>1, RanksStayDifferent, CapacityInvariant, PTL DEF Spec

LEMMA GrownKeeps ==
  ASSUME IInv, Bounded, NEW i \in JobIds, Create(i), NEW k \in Held(Grown(i)) \ {i}
  PROVE  Grown(i)[k] = jobs[k] /\ k \in Held(jobs)
<1>1. k \in JobIds /\ Grown(i)[k] # NoJob
  BY DEF Held
<1>2. Grown(i)[k] = Swept(jobs, now)[k]
  BY <1>1, GrownFacts
<1>3. Swept(jobs, now)[k] \in {jobs[k], NoJob}
  BY <1>1, SweptIsStore DEF IInv, TypeOK
<1>4. QED
  BY <1>1, <1>2, <1>3 DEF Held

\* When create() evicts, the store has one entry too many and loses the one
\* that comes before all others.
LEMMA OneVictim ==
  ASSUME IInv, Bounded, RanksDiffer, NEW i \in JobIds, Create(i),
         NEW j \in Dropped(Grown(i))
  PROVE  /\ \A k \in Held(Grown(i)) \ {j} : DropsBefore(Grown(i), j, k)
         /\ Held(jobs') = Held(Grown(i)) \ {j}
         /\ Cardinality(Held(jobs')) = MaxJobs
<1> DEFINE g == Grown(i)
           H == Held(g)
<1>1. /\ g \in Stores /\ jobs' = EvictedIfOver(g) /\ IsFiniteSet(H)
      /\ Cardinality(H) <= MaxJobs + 1 /\ j \in H
  BY GrownFacts DEF Dropped
<1>2. Cardinality(H) \in Nat /\ MaxJobs \in Nat
  BY <1>1, FS_CardinalityType, StoreAssumption
<1>3. \A k \in H : IsFiniteSet(Before(g, k)) /\ Cardinality(Before(g, k)) \in Nat
                   /\ (Cardinality(Before(g, k)) = 0 <=> Before(g, k) = {})
  <2> SUFFICES ASSUME NEW k \in H
               PROVE  IsFiniteSet(Before(g, k)) /\ Cardinality(Before(g, k)) \in Nat
                      /\ (Cardinality(Before(g, k)) = 0 <=> Before(g, k) = {})
    OBVIOUS
  <2>1. IsFiniteSet(Before(g, k))
    BY <1>1, FS_Subset DEF Before
  <2>2. QED
    BY <2>1, FS_CardinalityType, FS_EmptySet
<1>4. \A k \in H : k \in Dropped(g)
                   <=> Cardinality(Before(g, k)) < Cardinality(H) - MaxJobs
  BY DEF Dropped, Excess, Before
<1>5. Cardinality(H) = MaxJobs + 1 /\ Before(g, j) = {}
  <2> HIDE DEF g, H
  <2>1. Cardinality(Before(g, j)) < Cardinality(H) - MaxJobs
    BY <1>1, <1>4 DEF g
  <2>2. Cardinality(Before(g, j)) \in Nat
    BY <1>1, <1>3
  <2>3. Cardinality(H) = MaxJobs + 1 /\ Cardinality(Before(g, j)) = 0
    BY <1>1, <1>2, <2>1, <2>2
  <2>4. QED
    BY <1>1, <1>3, <2>3
<1>6. \A a, b \in H : g[a].createdAt = g[b].createdAt => a = b
  <2>1. \A k \in H \ {i} : k \in Held(jobs) /\ g[k] = jobs[k]
    BY GrownKeeps
  <2>2. \A k \in H \ {i} : g[k].createdAt < g[i].createdAt
    BY GrownFacts
  <2>3. \A k \in H : g[k].createdAt \in Nat
    BY <1>1 DEF Held, Stores, Job
  <2> HIDE DEF g
  <2>4. QED
    BY <2>1, <2>2, <2>3 DEF RanksDiffer
<1>7. \A k \in H \ {j} : DropsBefore(g, j, k)
  <2> SUFFICES ASSUME NEW k \in H \ {j} PROVE DropsBefore(g, j, k)
    OBVIOUS
  <2>1. ~ DropsBefore(g, k, j)
    BY <1>5 DEF Before
  <2>2. g[k].createdAt \in Nat /\ g[j].createdAt \in Nat
    BY <1>1 DEF Held, Stores, Job
  <2>3. g[k].createdAt # g[j].createdAt
    BY <1>1, <1>6
  <2> HIDE DEF g
  <2>4. QED
    BY <2>1, <2>2, <2>3 DEF DropsBefore
<1>8. \A k \in H \ {j} : k \notin Dropped(g)
  <2> SUFFICES ASSUME NEW k \in H \ {j}, k \in Dropped(g) PROVE FALSE
    OBVIOUS
  <2>1. j \in Before(g, k)
    BY <1>1, <1>7 DEF Before
  <2>2. Cardinality(Before(g, k)) < 1 /\ Cardinality(Before(g, k)) \in Nat
    BY <1>2, <1>3, <1>4, <1>5
  <2>3. Cardinality(Before(g, k)) = 0
    BY <2>2
  <2>4. QED
    BY <1>3, <2>1, <2>3
<1>9. Held(jobs') = H \ {j}
  <2>1. Held(EvictedIfOver(g)) = H \ Dropped(g)
    BY <1>1, HeldAfterEviction
  <2>2. Dropped(g) \subseteq H
    BY DEF Dropped
  <2>3. QED
    BY <1>1, <1>8, <2>1, <2>2
<1>10. Cardinality(H \ {j}) = MaxJobs
  <2>1. Cardinality(H \ {j}) = Cardinality(H) - 1
    BY <1>1, FS_RemoveElement
  <2>2. QED
    BY <1>2, <1>5, <2>1
<1>11. QED
  BY <1>7, <1>9, <1>10

\* An entry leaves the store in three ways only.
LEMMA WaysToLeave ==
  ASSUME IInv, Bounded, [Next]_vars, NEW j \in JobIds, Lost(j)
  PROVE  \/ Restarted
         \/ Terminal(jobs, j) /\ now - jobs[j].completedAt > TtlSeconds
         \/ \E i \in JobIds : /\ Create(i) /\ j \in Dropped(Grown(i))
                              /\ Grown(i)[j] = jobs[j]
<1>1. jobs \in Stores /\ now \in Nat
  BY DEF IInv, TypeOK
<1>2. Swept(jobs, now)[j] = NoJob
        => Terminal(jobs, j) /\ now - jobs[j].completedAt > TtlSeconds
  <2>1. jobs[j] \in Job /\ jobs[j] # NoJob /\ TtlSeconds \in Nat
    BY <1>1, StoreAssumption DEF Lost, Stores
  <2>2. jobs[j].completedAt \in Nat
    BY <2>1 DEF Job
  <2>3. Swept(jobs, now)[j] = NoJob => Expired(jobs, j, now)
    BY <2>1 DEF Swept
  <2>4. QED
    BY <1>1, <2>1, <2>2, <2>3 DEF Expired
<1>3. ASSUME NEW i \in JobIds, Create(i), Swept(jobs, now)[j] # NoJob
      PROVE  j \in Dropped(Grown(i)) /\ Grown(i)[j] = jobs[j]
  <2>1. i # j
    BY <1>3 DEF Create, Lost, IInv, EntryInv, Dated
  <2>2. Grown(i)[j] = jobs[j]
    BY <1>1, <1>3, <2>1, GrownFacts, SweptIsStore
  <2>3. j \in Held(Grown(i)) /\ j \notin Held(jobs')
    BY <2>2 DEF Lost, Held
  <2>4. Held(jobs') = Held(Grown(i)) \ Dropped(Grown(i))
    BY <1>3, GrownFacts, HeldAfterEviction
  <2>5. QED
    BY <2>2, <2>3, <2>4
<1>4. CASE \E i \in JobIds : Create(i)
  BY <1>2, <1>3, <1>4
<1>5. CASE Get
  BY <1>2, <1>5 DEF Get, SetJobs, AfterGet, Lost
<1>6. CASE Restart
  BY <1>6 DEF Restart, SetJobs, Restarted
<1>7. CASE Tick \/ UNCHANGED vars
  BY <1>7 DEF Tick, vars, Lost
<1>8. ASSUME NEW k \in JobIds,
             \/ PopResult(k) \/ RequestCancel(k)
             \/ \E stage \in {"reading", "cache"} : MarkProcessing(k, stage)
             \/ \E r \in Reports : UpdateProgress(k, r[1], r[2])
             \/ \E body \in Bodies : MarkCompleted(k, body)
             \/ \E code \in Codes : MarkFailed(k, code)
      PROVE  FALSE
  <2>1. now \in Nat /\ NoJob \notin Job
    BY <1>1, StoreAssumption
  <2>2. Rewrites(jobs, k, jobs')
    BY <1>1, <1>8, MutatorsRewrite DEF PopResult, RequestCancel, MarkProcessing,
       UpdateProgress, MarkCompleted, MarkFailed, SetJobs
  <2>3. QED
    BY <1>1, <2>1, <2>2 DEF Rewrites, Write, Stores, Lost
<1>9. QED
  BY <1>4, <1>5, <1>6, <1>7, <1>8 DEF Next

\* Short of a restart a finished entry stays for its TTL and an unfinished one
\* for good, unless a full store needs its room.
THEOREM NothingGoesEarly == Spec => NothingLostEarly
<1> DEFINE A == \A j \in JobIds :
       Lost(j) => \/ Restarted
                  \/ /\ Terminal(jobs, j)
                     /\ now - jobs[j].completedAt > TtlSeconds
                  \/ Cardinality(Held(jobs')) = MaxJobs
<1>1. IInv /\ Bounded /\ RanksDiffer /\ [Next]_vars => [A]_vars
  <2> SUFFICES ASSUME IInv, Bounded, RanksDiffer, [Next]_vars, NEW j \in JobIds, Lost(j)
               PROVE  \/ Restarted
                      \/ Terminal(jobs, j) /\ now - jobs[j].completedAt > TtlSeconds
                      \/ Cardinality(Held(jobs')) = MaxJobs
    OBVIOUS
  <2>1. QED
    BY WaysToLeave, OneVictim
<1>2. QED
  BY <1>1, OrderInvariant, PTL DEF Spec, NothingLostEarly

\* What a full store gives up is finished if anything is, and older than all
\* that stays of its kind.
THEOREM OldestGoFirst == Spec => EvictionOrder
<1> DEFINE Order(j, k) ==
       IF jobs[k] = NoJob THEN TRUE
       ELSE IF Terminal(jobs, j) THEN
              Terminal(jobs, k) => jobs[j].createdAt < jobs[k].createdAt
       ELSE ~ Terminal(jobs, k) /\ jobs[j].createdAt < jobs[k].createdAt
           A == \A j, k \in JobIds :
       /\ Lost(j)
       /\ jobs'[k] # NoJob
       /\ ~ (Terminal(jobs, j) /\ now - jobs[j].completedAt > TtlSeconds)
       => Order(j, k)
<1>1. IInv /\ Bounded /\ RanksDiffer /\ [Next]_vars => [A]_vars
  <2> SUFFICES ASSUME IInv, Bounded, RanksDiffer, [Next]_vars,
                      NEW j \in JobIds, NEW k \in JobIds,
                      Lost(j), jobs'[k] # NoJob, jobs[k] # NoJob,
                      ~ (Terminal(jobs, j) /\ now - jobs[j].completedAt > TtlSeconds)
               PROVE  Order(j, k)
    OBVIOUS
  <2>1. PICK i \in JobIds : /\ Create(i) /\ j \in Dropped(Grown(i))
                           /\ Grown(i)[j] = jobs[j]
    BY WaysToLeave DEF Restarted
  <2>2. k \in Held(Grown(i)) \ {j}
    <3>1. Held(jobs') = Held(Grown(i)) \ {j}
      BY <2>1, OneVictim
    <3>2. k \in Held(jobs')
      BY DEF Held
    <3>3. QED
      BY <3>1, <3>2
  <2>3. DropsBefore(Grown(i), j, k)
    BY <2>1, <2>2, OneVictim
  <2>4. Grown(i)[k] = jobs[k]
    <3>1. i # k
      BY <2>1 DEF Create, IInv, EntryInv, Dated
    <3>2. QED
      BY <2>1, <2>2, <3>1, GrownKeeps
  <2>5. QED
    BY <2>1, <2>3, <2>4 DEF DropsBefore, Terminal
<1>2. QED
  BY <1>1, OrderInvariant, PTL DEF Spec, EvictionOrder

-----------------------------------------------------------------------------
(* The store implements the life cycle it promises *)

LEMMA LifeTypes ==
  ASSUME TypeOK, NEW j \in JobIds
  PROVE  /\ j \notin known <=> lifeOf[j] = "unborn"
         /\ j \in known /\ jobs[j] = NoJob <=> lifeOf[j] = "gone"
         /\ j \in known /\ jobs[j] # NoJob => lifeOf[j] = jobs[j].status
         /\ lifeOf[j] \in Lifecycle!Present <=> j \in known /\ jobs[j] # NoJob
         /\ lifeOf[j] \in Lifecycle!Settled <=>
              j \in known /\ jobs[j] # NoJob /\ Terminal(jobs, j)
<1>1. jobs[j] # NoJob => jobs[j].status \in JobStatus
  BY DEF TypeOK, Stores, Job
<1>2. QED
  BY <1>1 DEF lifeOf, JobStatus, TERMINAL, Terminal, Lifecycle!Present,
       Lifecycle!Running, Lifecycle!Settled

\* Writing one entry moves one life.
LEMMA WriteMoves ==
  ASSUME IInv, NEW j \in JobIds, jobs[j] # NoJob, known' = known,
         NEW job \in Job, jobs' = Write(jobs, j, job)
  PROVE  lifeOf' = [lifeOf EXCEPT ![j] = job.status]
<1>1. j \in known /\ jobs'[j] = job /\ job # NoJob
  BY StoreAssumption DEF IInv, EntryInv, Dated, TypeOK, Stores, Write
<1>2. \A k \in JobIds \ {j} : jobs'[k] = jobs[k]
  BY DEF IInv, TypeOK, Stores, Write
<1>3. QED
  BY <1>1, <1>2 DEF lifeOf

\* Forgetting a set of entries moves their lives to "gone".
LEMMA ForgetMoves ==
  ASSUME IInv, NEW S \in SUBSET JobIds, known' = known,
         \A k \in S : jobs[k] # NoJob /\ jobs'[k] = NoJob,
         \A k \in JobIds \ S : jobs'[k] = jobs[k]
  PROVE  lifeOf' = Lifecycle!Without(S)
BY DEF lifeOf, Lifecycle!Without, IInv, EntryInv, Dated

LEMMA CreateSubmits ==
  ASSUME IInv, Bounded, NEW j \in JobIds, Create(j)
  PROVE  \E S \in SUBSET JobIds : Lifecycle!Submit(j, S)
<1> DEFINE S == {k \in JobIds : jobs[k] # NoJob /\ jobs'[k] = NoJob}
           g == Grown(j)
<1>1. j \notin known /\ jobs[j] = NoJob /\ TypeOK
  BY DEF Create, IInv, EntryInv, Dated
<1>2. Held(jobs') = Held(g) \ Dropped(g)
  BY GrownFacts, HeldAfterEviction
<1>3. /\ jobs'[j] = NewJob(serial) /\ NewJob(serial) # NoJob
      /\ \A k \in JobIds \ {j} : jobs'[k] \in {jobs[k], NoJob}
  <2>1. j \notin Dropped(g)
    BY GrownFacts, NewestStays
  <2>2. \A k \in JobIds : Swept(jobs, now)[k] \in {jobs[k], NoJob}
    BY SweptIsStore DEF IInv, TypeOK
  <2>3. \A k \in JobIds : jobs'[k] = IF k \in Dropped(g) THEN NoJob ELSE g[k]
    BY GrownFacts DEF EvictedIfOver
  <2>4. NewJob(serial) # NoJob
    BY <1>1, NewJobType, StoreAssumption DEF TypeOK
  <2>5. QED
    BY <2>1, <2>2, <2>3, <2>4, GrownFacts
<1>4. \A k \in S : lifeOf[k] \in Lifecycle!Present
  BY <1>1, LifeTypes DEF IInv, EntryInv, Dated
<1>5. lifeOf' = [Lifecycle!Without(S) EXCEPT ![j] = "queued"]
  <2>1. known' = known \cup {j} /\ NewJob(serial).status = "queued"
    BY DEF Create, NewJob
  <2>2. lifeOf'[j] = "queued"
    BY <1>3, <2>1 DEF lifeOf
  <2>3. ASSUME NEW k \in JobIds \ {j}
        PROVE  lifeOf'[k] = IF k \in S THEN "gone" ELSE lifeOf[k]
    BY <1>3, <2>1 DEF lifeOf, IInv, EntryInv, Dated
  <2>4. QED
    BY <2>2, <2>3 DEF lifeOf, Lifecycle!Without
<1>6. ASSUME NEW r \in S, lifeOf[r] \in Lifecycle!Running,
             NEW k \in JobIds, lifeOf[k] \in Lifecycle!Settled
      PROVE  k \in S
  <2>1. /\ jobs[r] # NoJob /\ ~ Terminal(jobs, r) /\ r # j
        /\ jobs[k] # NoJob /\ Terminal(jobs, k) /\ k # j
    BY <1>1, <1>6, LifeTypes DEF Lifecycle!Running, Lifecycle!Settled, Lifecycle!Present,
         Terminal, TERMINAL, IInv, EntryInv, Dated
  <2>2. g[r] = jobs[r] /\ r \in Held(g)
    <3>1. Swept(jobs, now)[r] = jobs[r]
      BY <2>1 DEF Swept, Expired
    <3>2. QED
      BY <2>1, <3>1, GrownFacts DEF Held
  <2>3. r \in Dropped(g)
    BY <1>2, <2>2 DEF Held
  <2>4. SUFFICES ASSUME jobs'[k] # NoJob PROVE FALSE
    BY <2>1
  <2>5. k \in Held(g) /\ Terminal(g, k)
    <3>1. k \in Held(g)
      BY <1>2, <2>4 DEF Held
    <3>2. g[k] = jobs[k]
      <4>1. g[k] = Swept(jobs, now)[k] /\ g[k] # NoJob
        BY <2>1, <3>1, GrownFacts DEF Held
      <4>2. Swept(jobs, now)[k] \in {jobs[k], NoJob}
        BY <1>1, SweptIsStore DEF TypeOK
      <4>3. QED
        BY <4>1, <4>2
    <3>3. QED
      BY <2>1, <3>1, <3>2 DEF Terminal
  <2>6. k \in Before(g, r)
    BY <2>1, <2>2, <2>5 DEF Before, DropsBefore, Terminal
  <2>7. /\ IsFiniteSet(Before(g, r)) /\ Before(g, r) # {}
        /\ IsFiniteSet(Held(g)) /\ Cardinality(Held(g)) <= MaxJobs + 1
    BY <2>6, GrownFacts, FS_Subset DEF Before
  <2>8. Cardinality(Before(g, r)) < Cardinality(Held(g)) - MaxJobs
    BY <2>3 DEF Dropped, Excess, Before
  <2>9. Cardinality(Before(g, r)) \in Nat \ {0} /\ Cardinality(Held(g)) \in Nat
    BY <2>7, FS_CardinalityType, FS_EmptySet
  <2>10. QED
    BY <2>7, <2>8, <2>9, StoreAssumption
<1>7. Lifecycle!Submit(j, S)
  BY <1>1, <1>4, <1>5, <1>6, LifeTypes DEF Lifecycle!Submit, Create
<1>8. QED
  BY <1>7

\* Every step of the store is a step of its life cycle or leaves it alone.
LEMMA StepRefines ==
  ASSUME IInv, Bounded, [Next]_vars
  PROVE  [Lifecycle!Next]_(Lifecycle!vars)
<1> USE DEF IInv
<1>1. /\ \A k \in JobIds : jobs[k] # NoJob => jobs[k] \in Job /\ k \in known
      /\ \A k \in JobIds : jobs[k] # NoJob => lifeOf[k] = jobs[k].status
      /\ now \in Nat
  BY DEF TypeOK, Stores, EntryInv, Dated, lifeOf
<1>2. ASSUME NEW j \in JobIds, Create(j) PROVE Lifecycle!Next
  BY <1>2, CreateSubmits DEF Lifecycle!Next
<1>3. ASSUME NEW j \in JobIds, PopResult(j)
      PROVE  Lifecycle!Deliver(j) \/ UNCHANGED Lifecycle!vars
  <2>1. CASE HasResult(jobs, j)
    <3>1. [jobs[j] EXCEPT !.result = None] \in Job
      BY <1>1, <2>1, EntryTypes DEF HasResult
    <3>2. jobs' = Write(jobs, j, [jobs[j] EXCEPT !.result = None]) /\ known' = known
      BY <1>3, <2>1 DEF PopResult, SetJobs, AfterPop, Write
    <3>3. lifeOf' = [lifeOf EXCEPT ![j] = [jobs[j] EXCEPT !.result = None].status]
      BY <2>1, <3>1, <3>2, WriteMoves DEF HasResult
    <3>4. [jobs[j] EXCEPT !.result = None].status = jobs[j].status
      BY <1>1, <2>1 DEF HasResult, Job
    <3>5. lifeOf' = lifeOf
      BY <1>1, <2>1, <3>3, <3>4 DEF HasResult, lifeOf
    <3>6. popped[j] = 0 /\ popped' = [popped EXCEPT ![j] = 1]
      <4>1. popped[j] = 0
        BY <2>1 DEF EntryInv, Undelivered, HasResult
      <4>2. popped' = [popped EXCEPT ![j] = popped[j] + 1]
        BY <1>3, <2>1 DEF PopResult
      <4>3. QED
        BY <4>1, <4>2
    <3>7. QED
      BY <1>1, <2>1, <3>5, <3>6 DEF HasResult, Lifecycle!Deliver
  <2>2. CASE ~ HasResult(jobs, j)
    BY <1>3, <2>2 DEF PopResult, SetJobs, AfterPop, lifeOf, Lifecycle!vars
  <2>3. QED
    BY <2>1, <2>2
<1>4. ASSUME NEW j \in JobIds, RequestCancel(j)
      PROVE  Lifecycle!Cancel(j) \/ UNCHANGED Lifecycle!vars
  <2> USE DEF RequestCancel, SetJobs, AfterRequestCancel
  <2>1. CASE ~ Live(jobs, j)
    BY <1>4, <2>1 DEF lifeOf, Lifecycle!vars
  <2>2. CASE Live(jobs, j) /\ jobs[j].status = "queued"
    <3>1. CanceledAtOnce(jobs[j], now) \in Job
      BY <1>1, <2>2, EntryTypes DEF Live
    <3>2. CanceledAtOnce(jobs[j], now).status = "canceled"
      BY <1>1, <2>2 DEF CanceledAtOnce, CancelAsked, Live, Job
    <3>3. lifeOf' = [lifeOf EXCEPT ![j] = "canceled"]
      BY <1>4, <2>2, <3>1, <3>2, WriteMoves DEF Live
    <3>4. QED
      BY <1>1, <1>4, <2>2, <3>3 DEF Live, Lifecycle!Cancel, Lifecycle!Move
  <2>3. CASE Live(jobs, j) /\ jobs[j].status # "queued"
    <3>1. CancelAsked(jobs[j]) \in Job
      BY <1>1, <2>3, EntryTypes DEF Live
    <3>2. CancelAsked(jobs[j]).status = jobs[j].status
      BY <1>1, <2>3 DEF CancelAsked, Live, Job
    <3>3. lifeOf' = [lifeOf EXCEPT ![j] = jobs[j].status]
      BY <1>4, <2>3, <3>1, <3>2, WriteMoves DEF Live
    <3>4. QED
      BY <1>1, <1>4, <2>3, <3>3 DEF Live, lifeOf, Lifecycle!vars
  <2>4. QED
    BY <2>1, <2>2, <2>3
<1>5. ASSUME NEW j \in JobIds, NEW stage \in {"reading", "cache"},
             MarkProcessing(j, stage)
      PROVE  Lifecycle!Start(j) \/ UNCHANGED Lifecycle!vars
  <2> USE DEF MarkProcessing, SetJobs, AfterMarkProcessing
  <2>1. CASE jobs[j] # NoJob /\ jobs[j].status = "queued"
    <3>1. Started(jobs[j], stage) \in Job
      BY <1>1, <2>1, EntryTypes
    <3>2. Started(jobs[j], stage).status = "processing"
      BY <1>1, <2>1 DEF Started, Job
    <3>3. lifeOf' = [lifeOf EXCEPT ![j] = "processing"]
      BY <1>5, <2>1, <3>1, <3>2, WriteMoves
    <3>4. QED
      BY <1>1, <1>5, <2>1, <3>3 DEF Lifecycle!Start, Lifecycle!Move
  <2>2. QED
    BY <1>5, <2>1 DEF lifeOf, Lifecycle!vars
<1>6. ASSUME NEW j \in JobIds, NEW r \in Reports, UpdateProgress(j, r[1], r[2])
      PROVE  UNCHANGED Lifecycle!vars
  <2> USE DEF UpdateProgress, SetJobs, AfterUpdateProgress
  <2>1. CASE jobs[j] # NoJob /\ jobs[j].status = "processing"
    <3>1. Reported(jobs[j], r[1], r[2]) \in Job
      BY <1>1, <2>1, EntryTypes
    <3>2. Reported(jobs[j], r[1], r[2]).status = jobs[j].status
      BY <1>1, <2>1 DEF Reported, Job
    <3>3. lifeOf' = [lifeOf EXCEPT ![j] = jobs[j].status]
      BY <1>6, <2>1, <3>1, <3>2, WriteMoves
    <3>4. QED
      BY <1>1, <1>6, <2>1, <3>3 DEF lifeOf, Lifecycle!vars
  <2>2. QED
    BY <1>6, <2>1 DEF lifeOf, Lifecycle!vars
<1>7. ASSUME NEW j \in JobIds, NEW body \in Bodies, MarkCompleted(j, body)
      PROVE  Lifecycle!Finish(j) \/ UNCHANGED Lifecycle!vars
  <2> USE DEF MarkCompleted, SetJobs, AfterMarkCompleted
  <2>1. CASE Live(jobs, j)
    <3>1. Completed(jobs[j], body, now) \in Job
      BY <1>1, <2>1, EntryTypes DEF Live
    <3>2. Completed(jobs[j], body, now).status = "completed"
      BY <1>1, <2>1 DEF Completed, Live, Job
    <3>3. lifeOf' = [lifeOf EXCEPT ![j] = "completed"]
      BY <1>7, <2>1, <3>1, <3>2, WriteMoves DEF Live
    <3>4. lifeOf[j] \in Lifecycle!Running
      BY <1>1, <2>1 DEF Live, Terminal, TERMINAL, Job, JobStatus, Lifecycle!Running
    <3>5. QED
      BY <1>7, <3>3, <3>4 DEF Lifecycle!Finish, Lifecycle!Move
  <2>2. QED
    BY <1>7, <2>1 DEF lifeOf, Lifecycle!vars
<1>8. ASSUME NEW j \in JobIds, NEW code \in Codes, MarkFailed(j, code)
      PROVE  Lifecycle!Fail(j) \/ UNCHANGED Lifecycle!vars
  <2> USE DEF MarkFailed, SetJobs, AfterMarkFailed
  <2>1. CASE Live(jobs, j)
    <3>1. Failed(jobs[j], code, now) \in Job
      BY <1>1, <2>1, EntryTypes DEF Live
    <3>2. Failed(jobs[j], code, now).status = "failed"
      BY <1>1, <2>1 DEF Failed, Live, Job
    <3>3. lifeOf' = [lifeOf EXCEPT ![j] = "failed"]
      BY <1>8, <2>1, <3>1, <3>2, WriteMoves DEF Live
    <3>4. lifeOf[j] \in Lifecycle!Running
      BY <1>1, <2>1 DEF Live, Terminal, TERMINAL, Job, JobStatus, Lifecycle!Running
    <3>5. QED
      BY <1>8, <3>3, <3>4 DEF Lifecycle!Fail, Lifecycle!Move
  <2>2. QED
    BY <1>8, <2>1 DEF lifeOf, Lifecycle!vars
<1>9. CASE Get
  <2> DEFINE S == {k \in JobIds : jobs[k] # NoJob /\ Expired(jobs, k, now)}
  <2>1. lifeOf' = Lifecycle!Without(S)
    <3>1. /\ known' = known /\ popped' = popped
          /\ \A k \in JobIds : jobs'[k] = IF k \in S THEN NoJob ELSE jobs[k]
      BY <1>9 DEF Get, SetJobs, AfterGet, Swept
    <3>2. QED
      BY <3>1, ForgetMoves
  <2>2. \A k \in S : lifeOf[k] \in Lifecycle!Settled
    BY <1>1 DEF Expired, Terminal, TERMINAL, Lifecycle!Settled
  <2>3. Lifecycle!Expire(S)
    BY <1>9, <2>1, <2>2 DEF Get, SetJobs, Lifecycle!Expire
  <2>4. QED
    BY <2>3 DEF Lifecycle!Next
<1>10. CASE Tick \/ UNCHANGED vars
  BY <1>10 DEF Tick, vars, lifeOf, Lifecycle!vars
<1>11. CASE Restart
  <2> DEFINE S == {k \in JobIds : jobs[k] # NoJob}
  <2>1. lifeOf' = Lifecycle!Without(S)
    BY <1>11, ForgetMoves DEF Restart, SetJobs
  <2>2. S = {k \in JobIds : lifeOf[k] \in Lifecycle!Present}
    BY LifeTypes, <1>1
  <2>3. Lifecycle!Crash
    BY <1>11, <2>1, <2>2 DEF Restart, SetJobs, Lifecycle!Crash
  <2>4. QED
    BY <2>3 DEF Lifecycle!Next
<1>12. QED
  BY <1>2, <1>3, <1>4, <1>5, <1>6, <1>7, <1>8, <1>9, <1>10, <1>11
     DEF Next, Lifecycle!Next

\* For every configuration and every caller, the store implements the life
\* cycle: a job lives once, its status only advances, its body is delivered at
\* most once, and no running job is forgotten while a settled one is kept.
THEOREM Implementation == Spec => ImplementsLifecycle
<1>1. Init => Lifecycle!Init
  BY DEF Init, Lifecycle!Init, lifeOf
<1>2. QED
  BY <1>1, StepRefines, CapacityInvariant, PTL DEF Spec, ImplementsLifecycle, Lifecycle!Spec
=============================================================================
