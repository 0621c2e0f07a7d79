------------------------- MODULE JobSnapshotProofs -------------------------
(***************************************************************************)
(* Theorems about JobSnapshot for every set of fetching clients, error     *)
(* codes and bodies, and any number of polls, updates and drops.           *)
(***************************************************************************)
EXTENDS JobSnapshot, FiniteSetTheorems, TLAPS

Fields == {"status", "progress", "stage", "createdAt", "completedAt",
           "error", "result", "cancelRequested"}

-----------------------------------------------------------------------------
(* What never goes back, field by field *)

StatusAdvances(a, b) == b = a \/ Rank[b] > Rank[a]
ProgressAdvances(a, b) == b >= a
ErrorAdvances(a, b) == a # None => b = a

Advances(a, b) ==
  /\ StatusAdvances(a.status, b.status)
  /\ ProgressAdvances(a.progress, b.progress)
  /\ ErrorAdvances(a.error, b.error)

-----------------------------------------------------------------------------
(* The inductive invariant *)

\* The job as the store counts it: a mutator under way has already happened.
Current == IF LockFree THEN job ELSE writing.to

View == [status : JobStatus, progress : 0 .. 100, error : Codes \cup {None}]

Typed ==
  /\ TypeOK
  /\ writing = Nobody \/ writing \in [fields : Seq(Fields), to : Job]
  /\ poll \in [next : 0 .. 4, seen : View] /\ shown \in View

\* An unfinished job has neither error nor body, a queued one no progress,
\* and a completed one its body until somebody got it.
Sane(j) ==
  /\ j.status = "queued" => j.progress = 0
  /\ j.status \notin TERMINAL => j.error = None /\ j.result = None
  /\ j.status = "completed" => j.result # None \/ popped > 0

\* A mutator under way only has the fields left to write in which the job
\* differs from what it shall be, and takes none of them back.
HalfWritten ==
  ~ LockFree =>
    /\ held
    /\ Advances(job, writing.to)
    /\ \A f \in Fields : (\A i \in DOMAIN writing.fields : writing.fields[i] # f)
                           => job[f] = writing.to[f]

\* Before create() there is no job to be seen.
Unborn ==
  /\ known = {} => ~ held /\ LockFree /\ popped = 0 /\ job = NewJob(0)
  /\ \A c \in Fetchers : fetch[c] # "idle" => known # {}

\* The body went out: then the job is complete and stays as it is.
Delivered == popped > 0 => LockFree /\ job.status = "completed" /\ job.result = None

\* What was shown is behind what was read, and that is behind the job.
PollBehind ==
  /\ Advances(shown, job)
  /\ poll.next > 1 => /\ StatusAdvances(shown.status, poll.seen.status)
                      /\ StatusAdvances(poll.seen.status, job.status)
  /\ poll.next > 2 => /\ ProgressAdvances(shown.progress, poll.seen.progress)
                      /\ ProgressAdvances(poll.seen.progress, job.progress)
  /\ poll.next > 3 => /\ ErrorAdvances(shown.error, poll.seen.error)
                      /\ ErrorAdvances(poll.seen.error, job.error)

\* What a fetch has learned about the job is still so.
FetchRight(c) ==
  /\ fetch[c] = "200" => popped > 0
  /\ fetch[c] \in {"code", "422"} => job.status \in {"failed", "canceled"}
  /\ code[c] # None => job.error = code[c]
  /\ c \in told => job.status = "completed"
  /\ c \in told /\ fetch[c] = "410" => popped > 0 \/ ~ held

OneGotIt == \A c, d \in Fetchers : fetch[c] = "200" /\ fetch[d] = "200" => c = d

SnapshotInv ==
  /\ Typed /\ Sane(Current) /\ HalfWritten /\ Unborn /\ Delivered
  /\ PollBehind
  /\ (\A c \in Fetchers : FetchRight(c)) /\ OneGotIt

-----------------------------------------------------------------------------
(* Advancing *)

LEMMA NeverBack ==
  ASSUME NEW a \in JobStatus, NEW b \in JobStatus, NEW c \in JobStatus
  PROVE  /\ StatusAdvances(a, a)
         /\ StatusAdvances(a, b) /\ StatusAdvances(b, c) => StatusAdvances(a, c)
         /\ StatusAdvances(a, b) /\ a \in TERMINAL => b = a
<1>1. \A s \in JobStatus : Rank[s] \in 0 .. 2 /\ (s \in TERMINAL => Rank[s] = 2)
  BY DEF JobStatus, TERMINAL, Rank
<1> HIDE DEF Rank
<1>2. QED
  BY <1>1 DEF StatusAdvances

LEMMA JobsCompare ==
  ASSUME NEW a \in Job, NEW b \in Job
  PROVE  /\ Advances(a, a)
         /\ a.status \in JobStatus /\ a.progress \in 0 .. 100
         /\ a.error \in Codes \cup {None}
         /\ Advances(a, b) /\ a.status \in TERMINAL => b.status = a.status
<1>1. /\ a.status \in JobStatus /\ a.progress \in 0 .. 100
      /\ a.error \in Codes \cup {None} /\ b.status \in JobStatus
  BY DEF Job
<1>2. QED
  BY <1>1, NeverBack DEF Advances, ProgressAdvances, ErrorAdvances

\* A job that moved on is still ahead of all that was read and shown.
LEMMA ReadersStayBehind ==
  ASSUME Typed, PollBehind, \A c \in Fetchers : FetchRight(c), OneGotIt,
         job' \in Job, Advances(job, job'),
         UNCHANGED <<held, readers, popped>>
  PROVE  PollBehind' /\ (\A c \in Fetchers : FetchRight(c)') /\ OneGotIt'
<1>1. /\ poll' = poll /\ shown' = shown /\ fetch' = fetch /\ code' = code
      /\ told' = told /\ popped' = popped /\ held' = held
  BY DEF readers
<1>2. /\ job \in Job /\ shown \in View /\ poll.seen \in View
  BY DEF Typed, TypeOK
<1>3. /\ job.status \in JobStatus /\ job'.status \in JobStatus
      /\ shown.status \in JobStatus /\ poll.seen.status \in JobStatus
      /\ job.progress \in 0 .. 100 /\ job'.progress \in 0 .. 100
      /\ shown.progress \in 0 .. 100 /\ poll.seen.progress \in 0 .. 100
  BY <1>2 DEF Job, View
<1>4. StatusAdvances(job.status, job'.status) /\ ProgressAdvances(job.progress, job'.progress)
      /\ ErrorAdvances(job.error, job'.error)
  BY DEF Advances
<1>5. \A s \in JobStatus : StatusAdvances(s, job.status) => StatusAdvances(s, job'.status)
  BY <1>3, <1>4, NeverBack
<1>6. \A p \in 0 .. 100 : ProgressAdvances(p, job.progress) => ProgressAdvances(p, job'.progress)
  <2>1. job'.progress >= job.progress
    BY <1>4 DEF ProgressAdvances
  <2>2. \A p, q, r \in 0 .. 100 : q >= p /\ r >= q => r >= p
    OBVIOUS
  <2>3. QED
    BY <1>3, <2>1, <2>2 DEF ProgressAdvances
<1>7. \A e : ErrorAdvances(e, job.error) => ErrorAdvances(e, job'.error)
  BY <1>4 DEF ErrorAdvances
<1>8. PollBehind'
  BY <1>1, <1>3, <1>5, <1>6, <1>7 DEF PollBehind, Advances
<1>9. ASSUME NEW c \in Fetchers PROVE FetchRight(c)'
  <2>1. FetchRight(c)
    OBVIOUS
  <2>2. job.status \in TERMINAL => job'.status = job.status
    BY <1>3, <1>4, NeverBack
  <2>3. code[c] # None => job'.error = code[c]
    BY <2>1, <1>4 DEF FetchRight, ErrorAdvances
  <2>4. QED
    BY <1>1, <2>1, <2>2, <2>3 DEF FetchRight, TERMINAL
<1>10. QED
  BY <1>1, <1>8, <1>9 DEF OneGotIt

-----------------------------------------------------------------------------
(* The mutators *)

\* What a step of a mutator that takes the lock amounts to.
Covers(fields, to) ==
  \A f \in Fields : (\A i \in DOMAIN fields : fields[i] # f) => job[f] = to[f]

Change(fields, to) ==
  /\ fields \in Seq(Fields) /\ fields # <<>>
  /\ to \in Job
  /\ Advances(job, to) /\ Sane(to) /\ Covers(fields, to)

Enters ==
  /\ LockFree /\ known # {}
  /\ \/ writing' = Nobody
     \/ \E fields, to : /\ held /\ popped = 0 /\ Change(fields, to)
                        /\ writing' = [fields |-> fields, to |-> to]
  /\ UNCHANGED <<job, held, known, readers, popped>>

LEMMA MutateEnters ==
  ASSUME NEW guard, NEW fields, NEW to,
         Mutate(guard, fields, to), Delivered, popped \in Nat,
         guard => Change(fields, to) /\ job.status # "completed"
  PROVE  Enters
<1>1. held /\ guard => popped = 0
  BY DEF Delivered
<1>2. CASE held /\ guard
  <2>1. writing' = [fields |-> fields, to |-> to]
    BY <1>2 DEF Mutate
  <2>2. QED
    BY <1>1, <1>2, <2>1 DEF Mutate, Enters
<1>3. CASE ~ (held /\ guard)
  <2>1. writing' = Nobody
    BY <1>3 DEF Mutate
  <2>2. QED
    BY <2>1 DEF Mutate, Enters
<1>4. QED
  BY <1>2, <1>3

LEMMA StartedChange ==
  ASSUME job \in Job, Sane(job), job.status = "queued"
  PROVE  Change(<<"status", "stage", "progress">>, Started(job, "reading"))
<1> DEFINE fields == <<"status", "stage", "progress">>
           to == Started(job, "reading")
<1>1. fields \in Seq(Fields) /\ fields # <<>>
  BY DEF Fields
<1>2. to \in Job
  <2>1. 5 \in 0 .. 100 /\ "processing" \in JobStatus /\ "reading" \in Stages
    BY DEF JobStatus, Stages
  <2>2. QED
    BY <2>1 DEF Job, Started
<1>3. Advances(job, to)
  BY DEF Job, Started, Advances, StatusAdvances, ProgressAdvances, ErrorAdvances, Rank, Sane
<1>4. Sane(to)
  BY DEF Job, Started, Sane, TERMINAL
<1>5. fields[1] = "status" /\ fields[2] = "stage" /\ fields[3] = "progress"
      /\ DOMAIN fields = 1 .. 3
  OBVIOUS
<1>6. Covers(fields, to)
  <2> HIDE DEF fields
  <2>1. \A f \in Fields \ {"status", "stage", "progress"} : job[f] = to[f]
    BY DEF Job, Started, Fields
  <2> HIDE DEF to
  <2>2. QED
    BY <1>5, <2>1 DEF Covers
<1>7. QED
  BY <1>1, <1>2, <1>3, <1>4, <1>6 DEF Change

LEMMA ReportedChange ==
  ASSUME job \in Job, Sane(job), job.status = "processing",
         NEW p \in 0 .. 99, NEW s \in Stages
  PROVE  Change(<<"progress", "stage">>, Reported(job, p, s))
<1> DEFINE fields == <<"progress", "stage">>
           to == Reported(job, p, s)
<1>1. fields \in Seq(Fields) /\ fields # <<>>
  BY DEF Fields
<1>2. Raised(job.progress, p) \in 0 .. 100 /\ Raised(job.progress, p) >= job.progress
  BY DEF Job, Raised
<1>3. /\ to \in Job
      /\ to.status = job.status /\ to.error = job.error /\ to.result = job.result
      /\ to.progress = Raised(job.progress, p)
  BY <1>2 DEF Job, Reported
<1>4. Advances(job, to)
  BY <1>2, <1>3 DEF Advances, StatusAdvances, ProgressAdvances, ErrorAdvances
<1>5. Sane(to)
  BY <1>3 DEF Sane, TERMINAL
<1>6. fields[1] = "progress" /\ fields[2] = "stage" /\ DOMAIN fields = 1 .. 2
  OBVIOUS
<1>7. Covers(fields, to)
  <2> HIDE DEF fields
  <2>1. \A f \in Fields \ {"stage", "progress"} : job[f] = to[f]
    BY DEF Job, Reported, Fields
  <2> HIDE DEF to
  <2>2. QED
    BY <1>6, <2>1 DEF Covers
<1>8. QED
  BY <1>1, <1>3, <1>4, <1>5, <1>7 DEF Change

LEMMA CompletedChange ==
  ASSUME job \in Job, Sane(job), Running
  PROVE  Change(<<"status", "progress", "stage", "completedAt", "result">>,
                Completed(job, "full", 1))
<1> DEFINE fields == <<"status", "progress", "stage", "completedAt", "result">>
           to == Completed(job, "full", 1)
<1>1. fields \in Seq(Fields) /\ fields # <<>>
  BY DEF Fields
<1>2. "full" \in Bodies /\ "full" # None
  BY SnapshotAssumption, StoreAssumption
<1>3. to \in Job
  <2>1. /\ 100 \in 0 .. 100 /\ 1 \in Nat /\ "completed" \in JobStatus
        /\ "completed" \in Stages
    BY DEF JobStatus, Stages, TERMINAL
  <2>2. QED
    BY <1>2, <2>1 DEF Job, Completed
<1>4. Advances(job, to)
  BY DEF Job, Completed, Advances, StatusAdvances, ProgressAdvances, ErrorAdvances, Rank,
         Running, JobStatus, TERMINAL
<1>5. Sane(to)
  BY <1>2 DEF Job, Completed, Sane, TERMINAL
<1>6. /\ fields[1] = "status" /\ fields[2] = "progress" /\ fields[3] = "stage"
      /\ fields[4] = "completedAt" /\ fields[5] = "result" /\ DOMAIN fields = 1 .. 5
  OBVIOUS
<1>7. Covers(fields, to)
  <2> HIDE DEF fields
  <2>1. \A f \in Fields \ {"status", "progress", "stage", "completedAt", "result"} :
          job[f] = to[f]
    BY DEF Job, Completed, Fields
  <2> HIDE DEF to
  <2>2. QED
    BY <1>6, <2>1 DEF Covers
<1>8. QED
  BY <1>1, <1>3, <1>4, <1>5, <1>7 DEF Change

LEMMA FailedChange ==
  ASSUME job \in Job, Sane(job), Running, NEW e \in Codes
  PROVE  Change(<<"status", "completedAt", "stage", "error">>, Failed(job, e, 1))
<1> DEFINE fields == <<"status", "completedAt", "stage", "error">>
           to == Failed(job, e, 1)
<1>1. fields \in Seq(Fields) /\ fields # <<>>
  BY DEF Fields
<1>2. to \in Job
  BY DEF Job, Failed, JobStatus, Stages, TERMINAL
<1>3. Advances(job, to)
  BY DEF Job, Failed, Advances, StatusAdvances, ProgressAdvances, ErrorAdvances, Rank,
         Running, JobStatus, TERMINAL, Sane
<1>4. Sane(to)
  BY DEF Job, Failed, Sane, TERMINAL
<1>5. /\ fields[1] = "status" /\ fields[2] = "completedAt" /\ fields[3] = "stage"
      /\ fields[4] = "error" /\ DOMAIN fields = 1 .. 4
  OBVIOUS
<1>6. Covers(fields, to)
  <2> HIDE DEF fields
  <2>1. \A f \in Fields \ {"status", "completedAt", "stage", "error"} : job[f] = to[f]
    BY DEF Job, Failed, Fields
  <2> HIDE DEF to
  <2>2. QED
    BY <1>5, <2>1 DEF Covers
<1>7. QED
  BY <1>1, <1>2, <1>3, <1>4, <1>6 DEF Change

LEMMA CanceledChange ==
  ASSUME job \in Job, Sane(job), job.status = "queued"
  PROVE  Change(<<"cancelRequested", "status", "completedAt", "stage">>,
                CanceledAtOnce(job, 1))
<1> DEFINE fields == <<"cancelRequested", "status", "completedAt", "stage">>
           to == CanceledAtOnce(job, 1)
<1>1. fields \in Seq(Fields) /\ fields # <<>>
  BY DEF Fields
<1>2. to \in Job
  BY DEF Job, CanceledAtOnce, CancelAsked, JobStatus, Stages, TERMINAL
<1>3. Advances(job, to)
  BY DEF Job, CanceledAtOnce, CancelAsked, Advances, StatusAdvances, ProgressAdvances,
         ErrorAdvances, Rank
<1>4. Sane(to)
  BY DEF Job, CanceledAtOnce, CancelAsked, Sane, TERMINAL
<1>5. /\ fields[1] = "cancelRequested" /\ fields[2] = "status"
      /\ fields[3] = "completedAt" /\ fields[4] = "stage" /\ DOMAIN fields = 1 .. 4
  OBVIOUS
<1>6. Covers(fields, to)
  <2> HIDE DEF fields
  <2>1. \A f \in Fields \ {"cancelRequested", "status", "completedAt", "stage"} :
          job[f] = to[f]
    BY DEF Job, CanceledAtOnce, CancelAsked, Fields
  <2> HIDE DEF to
  <2>2. QED
    BY <1>5, <2>1 DEF Covers
<1>7. QED
  BY <1>1, <1>2, <1>3, <1>4, <1>6 DEF Change

LEMMA AskedChange ==
  ASSUME job \in Job, Sane(job), Running, job.status # "queued"
  PROVE  Change(<<"cancelRequested">>, CancelAsked(job))
<1> DEFINE fields == <<"cancelRequested">>
           to == CancelAsked(job)
<1>1. fields \in Seq(Fields) /\ fields # <<>>
  BY DEF Fields
<1>2. to \in Job
  BY DEF Job, CancelAsked
<1>3. Advances(job, to)
  BY DEF Job, CancelAsked, Advances, StatusAdvances, ProgressAdvances, ErrorAdvances
<1>4. Sane(to)
  BY DEF Job, CancelAsked, Sane
<1>5. fields[1] = "cancelRequested" /\ DOMAIN fields = 1 .. 1
  OBVIOUS
<1>6. Covers(fields, to)
  <2> HIDE DEF fields
  <2>1. \A f \in Fields \ {"cancelRequested"} : job[f] = to[f]
    BY DEF Job, CancelAsked, Fields
  <2> HIDE DEF to
  <2>2. QED
    BY <1>5, <2>1 DEF Covers
<1>7. QED
  BY <1>1, <1>2, <1>3, <1>4, <1>6 DEF Change

-----------------------------------------------------------------------------
(* One field written *)

LEMMA OneFieldSet ==
  ASSUME NEW a \in Job, NEW b \in Job, NEW f \in Fields
  PROVE  /\ [a EXCEPT ![f] = b[f]] \in Job
         /\ \A g \in Fields : [a EXCEPT ![f] = b[f]][g] = IF g = f THEN b[g] ELSE a[g]
<1>1. CASE f \in {"status", "progress", "stage"}
  BY <1>1 DEF Job, Fields
<1>2. CASE f \in {"createdAt", "completedAt", "error"}
  BY <1>2 DEF Job, Fields
<1>3. CASE f \in {"result", "cancelRequested"}
  BY <1>3 DEF Job, Fields
<1>4. QED
  BY <1>1, <1>2, <1>3 DEF Fields

LEMMA SameFieldsSameJob ==
  ASSUME NEW a \in Job, NEW b \in Job, \A f \in Fields : a[f] = b[f]
  PROVE  a = b
BY DEF Job, Fields

\* Every field of Advances may come from the job or from what it shall be.
LEMMA BetweenAdvances ==
  ASSUME NEW a \in Job, NEW b \in Job, NEW m \in Job, Advances(a, b),
         \A f \in Fields : m[f] \in {a[f], b[f]}
  PROVE  Advances(a, m) /\ Advances(m, b)
<1>1. /\ m.status \in {a.status, b.status} /\ m.progress \in {a.progress, b.progress}
      /\ m.error \in {a.error, b.error}
  BY DEF Fields
<1>2. /\ a.progress \in 0 .. 100 /\ b.progress \in 0 .. 100
  BY DEF Job
<1>3. QED
  BY <1>1, <1>2 DEF Advances, StatusAdvances, ProgressAdvances, ErrorAdvances

LEMMA WriteFieldFacts ==
  ASSUME Typed, HalfWritten, WriteField
  PROVE  /\ job' \in Job /\ Advances(job, job')
         /\ writing' = Nobody \/ writing' \in [fields : Seq(Fields), to : Job]
         /\ LockFree' \/ writing'.fields # <<>>
         /\ HalfWritten'
         /\ Current' = Current
         /\ UNCHANGED <<held, known, worker, readers, popped>>
<1> DEFINE fs == writing.fields
           to == writing.to
           rest == Tail(fs)
<1>1. ~ LockFree /\ held /\ held' = held
  BY DEF WriteField, HalfWritten
<1>2. /\ writing = [fields |-> fs, to |-> to] /\ fs \in Seq(Fields) /\ to \in Job
      /\ fs # <<>> /\ job \in Job
  BY <1>1 DEF Typed, TypeOK, LockFree
<1>3. /\ Advances(job, to) /\ Covers(fs, to) /\ Current = to
  BY <1>1 DEF HalfWritten, Covers, Current
<1>4. /\ job' = [job EXCEPT ![Head(fs)] = to[Head(fs)]]
      /\ writing' = IF rest = <<>> THEN Nobody ELSE [fields |-> rest, to |-> to]
  <2>1. /\ job' = [job EXCEPT ![Head(fs)] = to[Head(fs)]]
        /\ writing' = IF rest = <<>> THEN Nobody ELSE [writing EXCEPT !.fields = rest]
    BY DEF WriteField
  <2>2. \A x, y, z : [[fields |-> x, to |-> y] EXCEPT !.fields = z] = [fields |-> z, to |-> y]
    OBVIOUS
  <2> HIDE DEF fs, to, rest
  <2>3. QED
    BY <1>2, <2>1, <2>2
<1>5. UNCHANGED <<held, known, worker, readers, popped>>
  BY DEF WriteField
<1> HIDE DEF fs, to
<1>6. /\ Head(fs) \in Fields /\ Head(fs) = fs[1] /\ 1 \in DOMAIN fs
      /\ rest \in Seq(Fields)
      /\ \A i \in DOMAIN fs : i # 1 => i - 1 \in DOMAIN rest /\ rest[i - 1] = fs[i]
  BY <1>2
<1>7. /\ job' \in Job
      /\ \A g \in Fields : job'[g] = IF g = Head(fs) THEN to[g] ELSE job[g]
  <2>1. \A f \in Fields :
          /\ [job EXCEPT ![f] = to[f]] \in Job
          /\ \A g \in Fields :
               [job EXCEPT ![f] = to[f]][g] = IF g = f THEN to[g] ELSE job[g]
    BY <1>2, OneFieldSet
  <2> DEFINE h == Head(fs)
  <2>2. h \in Fields /\ job' = [job EXCEPT ![h] = to[h]]
    BY <1>4, <1>6
  <2> HIDE DEF h
  <2>3. /\ job' \in Job
        /\ \A g \in Fields : job'[g] = IF g = h THEN to[g] ELSE job[g]
    BY <2>1, <2>2
  <2>4. QED
    BY <2>3 DEF h
<1>8. Advances(job, job') /\ Advances(job', to)
  BY <1>2, <1>3, <1>7, BetweenAdvances
<1> HIDE DEF rest
<1>9. \A g \in Fields : (\A i \in DOMAIN rest : rest[i] # g) => job'[g] = to[g]
  <2> SUFFICES ASSUME NEW g \in Fields, \A i \in DOMAIN rest : rest[i] # g, g # Head(fs)
               PROVE  job'[g] = to[g]
    BY <1>7
  <2>1. \A i \in DOMAIN fs : fs[i] # g
    BY <1>6
  <2>2. QED
    BY <2>1, <1>3, <1>7 DEF Covers
<1>10. CASE rest = <<>>
  <2>1. writing' = Nobody
    BY <1>4, <1>10
  <2>2. DOMAIN rest = {}
    BY <1>10
  <2>3. job' = to
    BY <1>2, <1>7, <1>9, <2>2, SameFieldsSameJob
  <2>4. LockFree'
    BY <2>1 DEF LockFree, Nobody
  <2>5. Current' = Current
    BY <1>3, <2>3, <2>4 DEF Current
  <2>6. HalfWritten'
    BY <2>4 DEF HalfWritten
  <2>7. QED
    BY <1>5, <1>7, <1>8, <2>1, <2>4, <2>5, <2>6
<1>11. CASE rest # <<>>
  <2>1. writing' = [fields |-> rest, to |-> to]
    BY <1>4, <1>11
  <2>2. writing'.fields = rest /\ writing'.to = to
    BY <2>1
  <2>3. ~ LockFree'
    BY <2>2, <1>11 DEF LockFree, Nobody
  <2>4. writing' \in [fields : Seq(Fields), to : Job]
    BY <2>1, <1>2, <1>6
  <2>5. Current' = Current
    BY <1>3, <2>2, <2>3 DEF Current
  <2>6. HalfWritten'
    BY <1>1, <1>8, <1>9, <2>2 DEF HalfWritten
  <2>7. QED
    BY <1>5, <1>7, <1>8, <1>11, <2>2, <2>4, <2>5, <2>6
<1>12. QED
  BY <1>10, <1>11

-----------------------------------------------------------------------------
(* What a step of a mutator does to the invariant *)

LEMMA MutatorsEnter ==
  ASSUME SnapshotInv,
         \/ MarkProcessing \/ MarkCompleted \/ MarkFailed \/ RequestCancel
         \/ UpdateProgress(25, "vectorizing") \/ UpdateProgress(85, "persisting")
  PROVE  Enters /\ worker' \in {"start", "run", "end"}
<1>1. /\ job \in Job /\ popped \in Nat /\ worker \in {"start", "run", "end"}
  BY DEF SnapshotInv, Typed, TypeOK
<1>2. Delivered
  BY DEF SnapshotInv
<1>3. LockFree => Sane(job)
  BY DEF SnapshotInv, Current
<1>4. "completed" \in TERMINAL /\ "vectorizing" \in Stages /\ "persisting" \in Stages
  BY DEF TERMINAL, Stages
<1>5. CASE MarkProcessing
  BY <1>1, <1>2, <1>3, <1>5, StartedChange, MutateEnters DEF MarkProcessing, Mutate
<1>6. CASE MarkCompleted
  BY <1>1, <1>2, <1>3, <1>4, <1>6, CompletedChange, MutateEnters
     DEF MarkCompleted, Mutate, Running
<1>7. CASE MarkFailed
  BY <1>1, <1>2, <1>3, <1>4, <1>7, FailedChange, MutateEnters
     DEF MarkFailed, Mutate, Running
<1>8. CASE RequestCancel
  BY <1>1, <1>2, <1>3, <1>4, <1>8, CanceledChange, AskedChange, MutateEnters
     DEF RequestCancel, Mutate, Running
<1>9. ASSUME NEW p \in {25, 85}, NEW s \in {"vectorizing", "persisting"},
             UpdateProgress(p, s)
      PROVE  Enters /\ worker' \in {"start", "run", "end"}
  BY <1>1, <1>2, <1>3, <1>4, <1>9, ReportedChange, MutateEnters
     DEF UpdateProgress, Mutate
<1>10. QED
  BY <1>5, <1>6, <1>7, <1>8, <1>9

LEMMA EntersKeeps ==
  ASSUME SnapshotInv, Enters, worker' \in {"start", "run", "end"}
  PROVE  SnapshotInv'
<1>1. /\ LockFree /\ known # {} /\ job' = job /\ held' = held /\ known' = known
      /\ popped' = popped /\ poll' = poll /\ shown' = shown /\ fetch' = fetch
      /\ code' = code /\ told' = told /\ UNCHANGED <<held, readers, popped>>
  BY DEF Enters, readers
<1>2. /\ Typed /\ Sane(Current) /\ Delivered /\ PollBehind /\ OneGotIt
      /\ (\A c \in Fetchers : FetchRight(c)) /\ Unborn
  BY DEF SnapshotInv
<1>3. job \in Job /\ popped \in Nat /\ Advances(job, job)
  <2>1. job \in Job /\ popped \in Nat
    BY <1>2 DEF Typed, TypeOK
  <2>2. QED
    BY <2>1, JobsCompare
<1>4. PollBehind' /\ (\A c \in Fetchers : FetchRight(c)') /\ OneGotIt'
  BY <1>1, <1>2, <1>3, ReadersStayBehind
<1>5. Unborn'
  BY <1>1, <1>2 DEF Unborn
<1>6. CASE writing' = Nobody
  <2>1. LockFree' /\ Current' = Current
    BY <1>1, <1>6 DEF LockFree, Nobody, Current
  <2>2. Typed'
    BY <1>1, <1>2, <1>6, <2>1 DEF Typed, TypeOK, Nobody
  <2>3. Sane(Current)'
    BY <1>1, <1>2, <2>1 DEF Sane
  <2>4. HalfWritten' /\ Delivered'
    BY <1>1, <1>2, <2>1 DEF HalfWritten, Delivered
  <2>5. QED
    BY <1>4, <1>5, <2>2, <2>3, <2>4 DEF SnapshotInv
<1>7. CASE writing' # Nobody
  <2>1. PICK fields, to : /\ held /\ popped = 0 /\ Change(fields, to)
                          /\ writing' = [fields |-> fields, to |-> to]
    BY <1>7 DEF Enters
  <2>2. /\ ~ LockFree' /\ writing'.fields = fields /\ writing'.to = to /\ Current' = to
    BY <1>7, <2>1 DEF LockFree, Nobody, Current
  <2>3. /\ fields \in Seq(Fields) /\ fields # <<>> /\ to \in Job /\ Advances(job, to)
        /\ Sane(to) /\ Covers(fields, to)
    BY <2>1 DEF Change
  <2>4. writing' \in [fields : Seq(Fields), to : Job]
    BY <2>1, <2>3
  <2>5. Typed'
    BY <1>1, <1>2, <2>2, <2>3, <2>4 DEF Typed, TypeOK
  <2>6. Sane(Current)'
    BY <1>1, <2>2, <2>3 DEF Sane
  <2>7. HalfWritten'
    BY <1>1, <2>1, <2>2, <2>3 DEF HalfWritten, Covers
  <2>8. Delivered'
    BY <1>1, <2>1 DEF Delivered
  <2>9. QED
    BY <1>4, <1>5, <2>5, <2>6, <2>7, <2>8 DEF SnapshotInv
<1>8. QED
  BY <1>6, <1>7

LEMMA WriteFieldKeeps ==
  ASSUME SnapshotInv, WriteField
  PROVE  SnapshotInv'
<1>1. /\ Typed /\ Sane(Current) /\ HalfWritten /\ Delivered /\ PollBehind /\ OneGotIt
      /\ (\A c \in Fetchers : FetchRight(c)) /\ Unborn
  BY DEF SnapshotInv
<1>2. /\ job' \in Job /\ Advances(job, job')
      /\ writing' = Nobody \/ writing' \in [fields : Seq(Fields), to : Job]
      /\ LockFree' \/ writing'.fields # <<>>
      /\ HalfWritten'
      /\ Current' = Current
      /\ UNCHANGED <<held, known, worker, readers, popped>>
  BY <1>1, WriteFieldFacts
<1>3. /\ held' = held /\ known' = known /\ worker' = worker /\ popped' = popped
      /\ poll' = poll /\ shown' = shown /\ fetch' = fetch /\ code' = code /\ told' = told
      /\ UNCHANGED <<held, readers, popped>>
  BY <1>2 DEF readers
<1>4. PollBehind' /\ (\A c \in Fetchers : FetchRight(c)') /\ OneGotIt'
  BY <1>1, <1>2, <1>3, ReadersStayBehind
<1>5. ~ LockFree /\ popped = 0
  BY <1>1 DEF WriteField, Delivered, Typed, TypeOK
<1>6. Typed'
  BY <1>1, <1>2, <1>3 DEF Typed, TypeOK, LockFree
<1>7. Sane(Current)' /\ Delivered'
  BY <1>1, <1>2, <1>3, <1>5 DEF Sane, Delivered
<1>8. Unborn'
  BY <1>1, <1>3, <1>5 DEF Unborn
<1>9. QED
  BY <1>2, <1>4, <1>6, <1>7, <1>8 DEF SnapshotInv

-----------------------------------------------------------------------------
(* What a step of the store or of a reader does to the invariant *)

LEMMA CreateKeeps ==
  ASSUME SnapshotInv, Create
  PROVE  SnapshotInv'
<1>1. /\ Typed /\ Sane(Current) /\ PollBehind /\ OneGotIt /\ Delivered
      /\ (\A c \in Fetchers : FetchRight(c)) /\ Unborn
  BY DEF SnapshotInv
<1>2. /\ LockFree /\ known = {} /\ held' = TRUE /\ known' = {Id} /\ job' = job
      /\ writing' = writing /\ worker' = worker /\ poll' = poll /\ shown' = shown
      /\ fetch' = fetch /\ code' = code /\ told' = told /\ popped' = popped
  BY DEF Create, readers
<1>3. LockFree' /\ Current' = Current
  BY <1>2 DEF LockFree, Current, Nobody
<1>4. Typed' /\ Sane(Current)' /\ HalfWritten' /\ Delivered' /\ PollBehind' /\ OneGotIt'
  BY <1>1, <1>2, <1>3
     DEF Typed, TypeOK, Sane, HalfWritten, Delivered, PollBehind, OneGotIt, LockFree
<1>5. \A c \in Fetchers : fetch[c] = "idle"
  BY <1>1, <1>2 DEF Unborn
<1>6. \A c \in Fetchers : FetchRight(c)'
  BY <1>1, <1>2, <1>5 DEF FetchRight
<1>7. Unborn'
  BY <1>2 DEF Unborn
<1>8. QED
  BY <1>4, <1>6, <1>7 DEF SnapshotInv

LEMMA DropKeeps ==
  ASSUME SnapshotInv, Drop
  PROVE  SnapshotInv'
<1>1. /\ Typed /\ Sane(Current) /\ PollBehind /\ OneGotIt /\ Delivered
      /\ (\A c \in Fetchers : FetchRight(c)) /\ Unborn
  BY DEF SnapshotInv
<1>2. /\ LockFree /\ held' = FALSE /\ known' = known /\ job' = job
      /\ writing' = writing /\ worker' = worker /\ poll' = poll /\ shown' = shown
      /\ fetch' = fetch /\ code' = code /\ told' = told /\ popped' = popped
  BY DEF Drop, readers
<1>3. LockFree' /\ Current' = Current
  BY <1>2 DEF LockFree, Current, Nobody
<1>4. Typed' /\ Sane(Current)' /\ HalfWritten' /\ Delivered' /\ PollBehind' /\ OneGotIt'
  BY <1>1, <1>2, <1>3
     DEF Typed, TypeOK, Sane, HalfWritten, Delivered, PollBehind, OneGotIt, LockFree
<1>5. \A c \in Fetchers : FetchRight(c)'
  BY <1>1, <1>2 DEF FetchRight
<1>6. Unborn'
  BY <1>1, <1>2, <1>3 DEF Unborn
<1>7. QED
  BY <1>4, <1>5, <1>6 DEF SnapshotInv

\* The readers leave the store alone.
LEMMA StoreKept ==
  ASSUME SnapshotInv, UNCHANGED <<job, held, known, writing, popped>>
  PROVE  Sane(Current)' /\ HalfWritten' /\ Delivered'
<1>1. LockFree' = LockFree /\ Current' = Current
  BY DEF LockFree, Current, Nobody
<1>2. QED
  BY <1>1 DEF SnapshotInv, Sane, HalfWritten, Delivered

LEMMA PollKeeps ==
  ASSUME SnapshotInv, PollGet \/ PollRead \/ PollAnswer
  PROVE  SnapshotInv'
<1>1. /\ Typed /\ PollBehind /\ OneGotIt /\ Unborn
      /\ (\A c \in Fetchers : FetchRight(c))
  BY DEF SnapshotInv
<1>2. /\ job' = job /\ held' = held /\ known' = known /\ writing' = writing
      /\ worker' = worker /\ fetch' = fetch /\ code' = code /\ told' = told
      /\ popped' = popped
  BY DEF PollGet, PollRead, PollAnswer
<1>3. Sane(Current)' /\ HalfWritten' /\ Delivered'
  BY <1>2, StoreKept
<1>4. (\A c \in Fetchers : FetchRight(c)') /\ OneGotIt' /\ Unborn'
  BY <1>1, <1>2 DEF FetchRight, OneGotIt, Unborn, LockFree, Nobody
<1>5. /\ job \in Job /\ shown \in View /\ poll \in [next : 0 .. 4, seen : View]
  BY <1>1 DEF Typed, TypeOK
<1>6. \A p : p \in [next : 0 .. 4, seen : View] /\ poll' = p /\ shown' \in View => Typed'
  BY <1>1, <1>2 DEF Typed, TypeOK, LockFree, Nobody, SnapshotFields
<1>7. Unread \in View
  BY DEF Unread, View, JobStatus
<1>8. CASE PollGet
  <2>1. poll' = [next |-> 1, seen |-> Unread] /\ shown' = shown
    BY <1>8 DEF PollGet, NoPoll
  <2>2. Typed'
    BY <1>5, <1>6, <1>7, <2>1
  <2>3. PollBehind'
    BY <1>1, <1>2, <2>1 DEF PollBehind
  <2>4. QED
    BY <1>3, <1>4, <2>2, <2>3 DEF SnapshotInv
<1>9. CASE PollRead
  <2> DEFINE n == poll.next
             f == SnapshotFields[n]
             s == [poll.seen EXCEPT ![f] = job[f]]
  <2>1. /\ poll' = [next |-> n + 1, seen |-> s] /\ shown' = shown
        /\ n \in 1 .. 3
    BY <1>9 DEF PollRead, SnapshotFields
  <2>2. /\ job.status \in JobStatus /\ job.progress \in 0 .. 100
        /\ job.error \in Codes \cup {None}
    BY <1>5 DEF Job
  <2>3. poll.seen \in View
    BY <1>5
  <2>4. /\ n = 1 => s = [poll.seen EXCEPT !.status = job.status]
        /\ n = 2 => s = [poll.seen EXCEPT !.progress = job.progress]
        /\ n = 3 => s = [poll.seen EXCEPT !.error = job.error]
    BY DEF SnapshotFields
  <2> HIDE DEF s
  <2>5. /\ s \in View
        /\ s.status = IF n = 1 THEN job.status ELSE poll.seen.status
        /\ s.progress = IF n = 2 THEN job.progress ELSE poll.seen.progress
        /\ s.error = IF n = 3 THEN job.error ELSE poll.seen.error
    BY <2>1, <2>2, <2>3, <2>4 DEF View
  <2>6. Typed'
    <3>1. n + 1 \in 0 .. 4
      BY <2>1
    <3>2. poll' \in [next : 0 .. 4, seen : View]
      BY <2>1, <2>5, <3>1
    <3>3. QED
      BY <1>5, <1>6, <2>1, <3>2
  <2>7. PollBehind'
    <3>1. poll'.next = n + 1 /\ poll'.seen = s
      BY <2>1
    <3>2. StatusAdvances(job.status, job.status) /\ ProgressAdvances(job.progress, job.progress)
          /\ ErrorAdvances(job.error, job.error)
      BY <2>2 DEF StatusAdvances, ProgressAdvances, ErrorAdvances
    <3> HIDE DEF n
    <3>3. QED
      BY <1>1, <1>2, <2>1, <2>5, <3>1, <3>2 DEF PollBehind, Advances, n
  <2>8. QED
    BY <1>3, <1>4, <2>6, <2>7 DEF SnapshotInv
<1>10. CASE PollAnswer
  <2>1. poll' = [next |-> 0, seen |-> Unread] /\ shown' = poll.seen /\ poll.next = 4
    BY <1>10 DEF PollAnswer, NoPoll, SnapshotFields
  <2>2. Typed'
    BY <1>5, <1>6, <1>7, <2>1
  <2>3. PollBehind'
    BY <1>1, <1>2, <2>1 DEF PollBehind, Advances
  <2>4. QED
    BY <1>3, <1>4, <2>2, <2>3 DEF SnapshotInv
<1>11. QED
  BY <1>8, <1>9, <1>10

-----------------------------------------------------------------------------
(* What a step of a fetch does to the invariant *)

\* A step of request c that leaves the store alone and does not end in 200
\* keeps the invariant if what c knows is right afterwards.
LEMMA AskingKeeps ==
  ASSUME SnapshotInv, NEW c \in Fetchers, NEW to \in (Steps \cup Answers) \ {"200"},
         Move(c, to), known # {}, UNCHANGED <<still, popped>>,
         code' \in [Fetchers -> Codes \cup {None}], told' \in SUBSET Fetchers,
         \A d \in Fetchers \ {c} : code'[d] = code[d] /\ (d \in told' <=> d \in told),
         FetchRight(c)'
  PROVE  SnapshotInv'
<1>1. /\ Typed /\ PollBehind /\ OneGotIt /\ Unborn
      /\ (\A d \in Fetchers : FetchRight(d))
  BY DEF SnapshotInv
<1>2. /\ job' = job /\ held' = held /\ known' = known /\ writing' = writing
      /\ worker' = worker /\ poll' = poll /\ shown' = shown /\ popped' = popped
  BY DEF still
<1>3. Sane(Current)' /\ HalfWritten' /\ Delivered'
  BY <1>2, StoreKept
<1>4. fetch \in [Fetchers -> Steps \cup Answers]
  BY <1>1 DEF Typed, TypeOK
<1>5. /\ fetch' \in [Fetchers -> Steps \cup Answers] /\ fetch'[c] = to
      /\ \A d \in Fetchers \ {c} : fetch'[d] = fetch[d]
  BY <1>4 DEF Move
<1>6. Typed'
  BY <1>1, <1>2, <1>5 DEF Typed, TypeOK, LockFree, Nobody
<1>7. PollBehind'
  BY <1>1, <1>2 DEF PollBehind
<1>8. OneGotIt'
  BY <1>1, <1>5 DEF OneGotIt
<1>9. Unborn'
  BY <1>1, <1>2, <1>5 DEF Unborn
<1>10. \A d \in Fetchers \ {c} : FetchRight(d)'
  BY <1>1, <1>2, <1>5 DEF FetchRight
<1>11. QED
  BY <1>3, <1>6, <1>7, <1>8, <1>9, <1>10 DEF SnapshotInv

LEMMA CompareKeeps ==
  ASSUME SnapshotInv, NEW c \in Fetchers, NEW at \in Steps \ {"idle"},
         NEW status, NEW yes \in {"409", "code"},
         NEW no \in {"queued?", "failed?", "canceled?", "pop"},
         Compare(c, at, status, yes, no),
         yes = "code" => status \in {"failed", "canceled"}
  PROVE  SnapshotInv'
<1>1. FetchRight(c) /\ Typed /\ Unborn
  BY DEF SnapshotInv
<1>2. known # {}
  BY <1>1 DEF Compare, Unborn
<1>3. /\ fetch[c] = at /\ UNCHANGED <<still, popped>> /\ code' = code /\ told' = told
      /\ job' = job /\ popped' = popped /\ held' = held
  BY DEF Compare, still
<1>4. code \in [Fetchers -> Codes \cup {None}] /\ told \in SUBSET Fetchers
      /\ fetch \in [Fetchers -> Steps \cup Answers]
  BY <1>1 DEF Typed, TypeOK
<1>5. PICK to \in {yes, no} : Move(c, to) /\ (to = yes => job.status = status \/ to = no)
  BY DEF Compare
<1>6. to \in (Steps \cup Answers) \ {"200"}
  BY <1>5 DEF Steps, Answers
<1>7. fetch'[c] = to
  BY <1>4, <1>5 DEF Move
<1>8. FetchRight(c)'
  BY <1>1, <1>3, <1>5, <1>7 DEF FetchRight
<1>9. QED
  BY <1>2, <1>3, <1>4, <1>5, <1>6, <1>8, AskingKeeps

LEMMA FetchKeeps ==
  ASSUME SnapshotInv, NEW c \in Fetchers,
         \/ FetchGet(c) \/ IsProcessing(c) \/ IsQueued(c)
         \/ IsFailed(c) \/ IsCanceled(c) \/ ReadCode(c)
  PROVE  SnapshotInv'
<1>1. FetchRight(c) /\ Typed /\ Unborn /\ PollBehind
  BY DEF SnapshotInv
<1>2. /\ code \in [Fetchers -> Codes \cup {None}] /\ told \in SUBSET Fetchers
      /\ fetch \in [Fetchers -> Steps \cup Answers]
      /\ job \in Job /\ shown \in View
  BY <1>1 DEF Typed, TypeOK
<1>3. CASE FetchGet(c)
  <2>1. /\ known # {} /\ UNCHANGED <<still, popped>> /\ code' = code
        /\ job' = job /\ popped' = popped /\ held' = held
        /\ told' = IF shown.status = "completed" THEN told \cup {c} ELSE told
    BY <1>3 DEF FetchGet, still
  <2>2. PICK to \in {"processing?", "404"} : Move(c, to)
    BY <1>3 DEF FetchGet
  <2>3. fetch'[c] = to /\ to \in (Steps \cup Answers) \ {"200"}
    BY <1>2, <2>2 DEF Move, Steps, Answers
  <2>4. shown.status = "completed" => job.status = "completed"
    <3>1. StatusAdvances(shown.status, job.status)
      BY <1>1 DEF PollBehind, Advances
    <3>2. shown.status \in JobStatus /\ job.status \in JobStatus
      BY <1>2 DEF View, Job
    <3>3. QED
      BY <3>1, <3>2, NeverBack DEF TERMINAL
  <2>5. FetchRight(c)'
    BY <1>1, <2>1, <2>2, <2>3, <2>4 DEF FetchRight
  <2>6. told' \in SUBSET Fetchers /\ \A d \in Fetchers \ {c} : d \in told' <=> d \in told
    BY <1>2, <2>1
  <2>7. QED
    BY <1>2, <2>1, <2>2, <2>3, <2>5, <2>6, AskingKeeps
<1>4. CASE IsProcessing(c)
  BY <1>4, CompareKeeps DEF IsProcessing, Steps
<1>5. CASE IsQueued(c)
  BY <1>5, CompareKeeps DEF IsQueued, Steps
<1>6. CASE IsFailed(c)
  BY <1>6, CompareKeeps DEF IsFailed, Steps
<1>7. CASE IsCanceled(c)
  BY <1>7, CompareKeeps DEF IsCanceled, Steps
<1>8. CASE ReadCode(c)
  <2>1. /\ fetch[c] = "code" /\ UNCHANGED <<still, popped>> /\ told' = told
        /\ code' = [code EXCEPT ![c] = job.error] /\ Move(c, "422")
        /\ job' = job /\ popped' = popped /\ held' = held
    BY <1>8 DEF ReadCode, still
  <2>2. known # {}
    BY <1>1, <2>1 DEF Unborn
  <2>3. job.error \in Codes \cup {None}
    BY <1>2 DEF Job
  <2>4. /\ code' \in [Fetchers -> Codes \cup {None}] /\ code'[c] = job.error
        /\ \A d \in Fetchers \ {c} : code'[d] = code[d]
    BY <1>2, <2>1, <2>3
  <2>5. fetch'[c] = "422" /\ "422" \in (Steps \cup Answers) \ {"200"}
    BY <1>2, <2>1 DEF Move, Steps, Answers
  <2>6. FetchRight(c)'
    BY <1>1, <2>1, <2>4, <2>5 DEF FetchRight
  <2>7. QED
    BY <1>2, <2>1, <2>2, <2>4, <2>5, <2>6, AskingKeeps
<1>9. QED
  BY <1>3, <1>4, <1>5, <1>6, <1>7, <1>8

LEMMA PopKeeps ==
  ASSUME SnapshotInv, NEW c \in Fetchers, Pop(c)
  PROVE  SnapshotInv'
<1>1. /\ Typed /\ Sane(Current) /\ PollBehind /\ OneGotIt /\ Delivered /\ Unborn
      /\ (\A d \in Fetchers : FetchRight(d))
  BY DEF SnapshotInv
<1>2. /\ code \in [Fetchers -> Codes \cup {None}] /\ told \in SUBSET Fetchers
      /\ fetch \in [Fetchers -> Steps \cup Answers]
      /\ job \in Job /\ popped \in Nat
  BY <1>1 DEF Typed, TypeOK
<1>3. /\ fetch[c] = "pop" /\ LockFree /\ held' = held /\ known' = known
      /\ writing' = writing /\ worker' = worker /\ poll' = poll /\ shown' = shown
      /\ code' = code /\ told' = told
  BY DEF Pop
<1>4. known # {}
  BY <1>1, <1>3 DEF Unborn
<1>5. CASE held /\ job.status = "completed" /\ job.result # None
  <2>1. /\ job' = [job EXCEPT !.result = None] /\ popped' = popped + 1
        /\ fetch' = [fetch EXCEPT ![c] = "200"]
    BY <1>5 DEF Pop, Move
  <2>2. popped = 0
    BY <1>1, <1>2, <1>5 DEF Delivered
  <2>3. /\ fetch' \in [Fetchers -> Steps \cup Answers] /\ fetch'[c] = "200"
        /\ \A d \in Fetchers \ {c} : fetch'[d] = fetch[d]
    BY <1>2, <2>1 DEF Answers
  <2>4. /\ job' \in Job /\ job'.status = "completed" /\ job'.result = None
        /\ job'.progress = job.progress /\ job'.error = job.error
    BY <1>2, <1>5, <2>1 DEF Job
  <2>5. LockFree' /\ Current' = job'
    BY <1>3 DEF LockFree, Nobody, Current
  <2>6. Typed'
    BY <1>1, <1>2, <1>3, <2>1, <2>3, <2>4, <2>5 DEF Typed, TypeOK
  <2>7. Sane(Current)' /\ HalfWritten' /\ Delivered'
    BY <1>2, <2>1, <2>4, <2>5 DEF Sane, HalfWritten, Delivered, TERMINAL
  <2>8. PollBehind'
    BY <1>1, <1>3, <1>5, <2>4 DEF PollBehind, Advances
  <2>9. Unborn'
    BY <1>3, <1>4 DEF Unborn
  <2>10. OneGotIt'
    BY <1>1, <2>2, <2>3 DEF OneGotIt, FetchRight
  <2>11. \A d \in Fetchers : FetchRight(d)'
    BY <1>1, <1>2, <1>3, <1>5, <2>1, <2>3, <2>4 DEF FetchRight
  <2>12. QED
    BY <2>6, <2>7, <2>8, <2>9, <2>10, <2>11 DEF SnapshotInv
<1>6. CASE ~ (held /\ job.status = "completed" /\ job.result # None)
  <2>1. /\ job' = job /\ popped' = popped /\ Move(c, "410")
    BY <1>6 DEF Pop
  <2>2. fetch'[c] = "410" /\ "410" \in (Steps \cup Answers) \ {"200"}
    BY <1>2, <2>1 DEF Move, Steps, Answers
  <2>3. job.status = "completed" => job.result # None \/ popped > 0
    BY <1>1, <1>3 DEF Sane, Current
  <2>4. FetchRight(c)'
    BY <1>1, <1>3, <1>6, <2>1, <2>2, <2>3 DEF FetchRight
  <2>5. UNCHANGED <<still, popped>>
    BY <1>3, <2>1 DEF still
  <2>6. QED
    BY <1>2, <1>3, <1>4, <2>1, <2>2, <2>4, <2>5, AskingKeeps
<1>7. QED
  BY <1>5, <1>6

-----------------------------------------------------------------------------
(* The invariant *)

LEMMA SnapshotInit == Init => SnapshotInv
<1> SUFFICES ASSUME Init PROVE SnapshotInv
  OBVIOUS
<1>1. /\ job = NewJob(0) /\ job \in Job /\ writing = Nobody /\ LockFree
      /\ Current = job
  BY DEF Init, NewJob, Job, JobStatus, Stages, LockFree, Current
<1>2. Unread \in View /\ 0 \in 0 .. 4
  BY DEF Unread, View, JobStatus
<1>3. Typed
  <2>1. poll \in [next : 0 .. 4, seen : View] /\ shown \in View
    BY <1>2 DEF Init, NoPoll
  <2>2. poll.next \in 0 .. Len(SnapshotFields) + 1
    BY DEF Init, NoPoll, SnapshotFields
  <2>3. /\ fetch \in [Fetchers -> Steps \cup Answers]
        /\ code \in [Fetchers -> Codes \cup {None}]
    BY DEF Init, Steps
  <2>4. TypeOK
    BY <1>1, <2>2, <2>3 DEF Init, TypeOK
  <2>5. QED
    BY <1>1, <2>1, <2>4 DEF Typed
<1>4. Sane(Current) /\ HalfWritten /\ Unborn /\ Delivered
  BY <1>1 DEF Init, NewJob, Sane, HalfWritten, Unborn, Delivered, TERMINAL
<1>5. PollBehind
  BY <1>1 DEF Init, NewJob, NoPoll, Unread, PollBehind, Advances, StatusAdvances,
              ProgressAdvances, ErrorAdvances
<1>6. (\A c \in Fetchers : FetchRight(c)) /\ OneGotIt
  BY DEF Init, FetchRight, OneGotIt
<1>7. QED
  BY <1>3, <1>4, <1>5, <1>6 DEF SnapshotInv

LEMMA SnapshotStep == SnapshotInv /\ [Next]_vars => SnapshotInv'
<1> SUFFICES ASSUME SnapshotInv, [Next]_vars PROVE SnapshotInv'
  OBVIOUS
<1>1. CASE Create \/ Drop
  BY <1>1, CreateKeeps, DropKeeps
<1>2. CASE WriteField
  BY <1>2, WriteFieldKeeps
<1>3. CASE \/ MarkProcessing \/ MarkCompleted \/ MarkFailed \/ RequestCancel
           \/ UpdateProgress(25, "vectorizing") \/ UpdateProgress(85, "persisting")
  BY <1>3, MutatorsEnter, EntersKeeps
<1>4. CASE PollGet \/ PollRead \/ PollAnswer
  BY <1>4, PollKeeps
<1>5. ASSUME NEW c \in Fetchers,
             \/ FetchGet(c) \/ IsProcessing(c) \/ IsQueued(c)
             \/ IsFailed(c) \/ IsCanceled(c) \/ ReadCode(c) \/ Pop(c)
      PROVE  SnapshotInv'
  BY <1>5, FetchKeeps, PopKeeps
<1>6. CASE UNCHANGED vars
  BY <1>6 DEF vars, readers, SnapshotInv, Typed, TypeOK, Sane, Current, LockFree, Nobody,
              HalfWritten, Unborn, Delivered, PollBehind, FetchRight, OneGotIt
<1>7. QED
  BY <1>1, <1>2, <1>3, <1>4, <1>5, <1>6 DEF Next

LEMMA SnapshotHolds == Spec => []SnapshotInv
BY SnapshotInit, SnapshotStep, PTL DEF Spec

-----------------------------------------------------------------------------

\* The job is a well-formed Job between any two of the writes of a mutator,
\* and so is everything the handlers read.
THEOREM JobStaysWellFormed == Spec => []TypeOK
<1>1. SnapshotInv => TypeOK
  BY DEF SnapshotInv, Typed
<1>2. QED
  BY <1>1, SnapshotHolds, PTL

\* However many requests fetch the result at once, one of them gets the body.
THEOREM OneFetchGetsTheBody == Spec => []DeliveredOnce
<1>1. SnapshotInv => DeliveredOnce
  <2> SUFFICES ASSUME OneGotIt PROVE DeliveredOnce
    BY DEF SnapshotInv
  <2> DEFINE S == {c \in Fetchers : fetch[c] = "200"}
  <2>1. CASE S = {}
    BY <2>1, FS_EmptySet DEF DeliveredOnce
  <2>2. CASE S # {}
    <3>1. PICK c : S = {c}
      BY <2>2 DEF OneGotIt
    <3>2. Cardinality(S) = 1
      BY <3>1, FS_Singleton
    <3>3. QED
      BY <3>2 DEF DeliveredOnce
  <2>3. QED
    BY <2>1, <2>2
<1>2. QED
  BY <1>1, SnapshotHolds, PTL

\* A 200 and the code of a 422 stay true of the job for ever.
THEOREM AnswersAreKept == Spec => []AnswersStayTrue
<1>1. SnapshotInv => AnswersStayTrue
  BY DEF SnapshotInv, FetchRight, Delivered, AnswersStayTrue
<1>2. QED
  BY <1>1, SnapshotHolds, PTL

\* A client that polled until "completed" and then fetched is answered 410
\* only if another request got the body or the store dropped the job.
THEOREM PollingClientsAreServed == Spec => []PollThenFetch
<1>1. SnapshotInv => PollThenFetch
  <2>1. SnapshotInv => told \subseteq Fetchers
    BY DEF SnapshotInv, Typed, TypeOK
  <2>2. QED
    BY <2>1 DEF SnapshotInv, FetchRight, PollThenFetch
<1>2. QED
  BY <1>1, SnapshotHolds, PTL

\* What a client is shown never goes back, although each answer is put
\* together from fields read at different times.
THEOREM AnswersNeverGoBack == Spec => PollsNeverGoBack
<1> DEFINE Forward ==
      /\ shown'.progress >= shown.progress
      /\ shown'.status = shown.status \/ Rank[shown'.status] > Rank[shown.status]
      /\ shown.error # None => shown'.error = shown.error
<1>1. SnapshotInv /\ [Next]_vars => [Forward]_vars
  <2> SUFFICES ASSUME SnapshotInv, Next PROVE Forward
    OBVIOUS
  <2>1. shown \in View /\ PollBehind
    BY DEF SnapshotInv, Typed
  <2>2. CASE PollAnswer
    BY <2>1, <2>2 DEF PollAnswer, PollBehind, SnapshotFields, StatusAdvances,
                      ProgressAdvances, ErrorAdvances
  <2>3. CASE shown' = shown
    BY <2>1, <2>3 DEF View
  <2>4. ~ PollAnswer => shown' = shown
    BY DEF Next, Create, WriteField, MarkProcessing, MarkCompleted, MarkFailed,
           RequestCancel, Drop, UpdateProgress, Mutate, PollGet, PollRead, FetchGet,
           IsProcessing, IsQueued, IsFailed, IsCanceled, Compare, ReadCode, Pop,
           still, readers
  <2>5. QED
    BY <2>2, <2>3, <2>4
<1>2. QED
  BY <1>1, SnapshotHolds, PTL DEF Spec, PollsNeverGoBack

-----------------------------------------------------------------------------
(* The locked field writes are the atomic methods of JobStore *)

\* The dict as the store counts it.
Dict == [j \in JobIds |-> IF ~ held THEN NoJob
                          ELSE IF LockFree THEN job ELSE writing.to]

LEMMA DictIs ==
  ASSUME NEW js, js = Dict
  PROVE  /\ js[Id] = IF held THEN Current ELSE NoJob
         /\ JobIds = {Id} /\ Id \in JobIds
         /\ js = [j \in JobIds |-> js[Id]]
BY SnapshotAssumption DEF Dict, Current

\* A write into the only entry gives the dict with the new entry.
LEMMA DictWrite ==
  ASSUME NEW js, js = Dict, NEW x
  PROVE  [js EXCEPT ![Id] = x] = [j \in JobIds |-> x]
BY SnapshotAssumption DEF Dict

\* The store counts what it holds as the readers do.
LEMMA SameCount == \A S : Atomic!Cardinality(S) = Cardinality(S)
<1>1. \A S : Atomic!IsFiniteSet(S) <=> IsFiniteSet(S)
  BY DEF Atomic!IsFiniteSet, IsFiniteSet
<1>2. QED
  BY <1>1 DEF Atomic!Cardinality, Cardinality

\* Of a store with one entry and room for one nothing is evicted.
LEMMA NoneDropped ==
  ASSUME NEW x \in Job, NEW js, js = [j \in JobIds |-> x]
  PROVE  Atomic!EvictedIfOver(js) = js
<1>1. Atomic!Held(js) = {Id}
  BY SnapshotAssumption, StoreAssumption DEF Atomic!Held
<1>2. Atomic!Excess(js) <= 0 /\ Atomic!Excess(js) \in Int
  <2>1. Atomic!Cardinality(Atomic!Held(js)) = 1
    BY <1>1, FS_Singleton, SameCount
  <2>2. MaxJobs \in Nat \ {0}
    BY StoreAssumption
  <2>3. Atomic!Excess(js) = 1 - MaxJobs
    BY <2>1 DEF Atomic!Excess
  <2>4. QED
    BY <2>2, <2>3
<1>3. Atomic!Dropped(js) = {}
  <2> SUFFICES ASSUME NEW j \in Atomic!Dropped(js) PROVE FALSE
    OBVIOUS
  <2> DEFINE before == {k \in Atomic!Held(js) : Atomic!DropsBefore(js, k, j)}
  <2>1. Cardinality(before) < Atomic!Excess(js)
    BY SameCount DEF Atomic!Dropped
  <2>2. before \subseteq {Id} /\ IsFiniteSet({Id})
    BY <1>1, FS_Singleton
  <2>3. IsFiniteSet(before)
    BY <2>2, FS_Subset
  <2>4. Cardinality(before) \in Nat
    BY <2>3, FS_CardinalityType
  <2> HIDE DEF before
  <2>5. QED
    BY <1>2, <2>1, <2>4
<1>4. QED
  BY <1>3 DEF Atomic!EvictedIfOver

LEMMA CreateIsCreate ==
  ASSUME SnapshotInv, Create
  PROVE  Atomic!Create(Id)
<1>1. /\ LockFree /\ known = {} /\ held' = TRUE /\ known' = {Id} /\ job' = job
      /\ writing' = writing /\ popped' = popped
  BY DEF Create
<1>2. ~ held /\ job = NewJob(0) /\ job \in Job
  BY <1>1 DEF SnapshotInv, Unborn, Typed, TypeOK
<1>3. Dict = [j \in JobIds |-> NoJob] /\ Dict' = [j \in JobIds |-> job]
  BY <1>1, <1>2 DEF Dict, LockFree, Nobody
<1>4. Atomic!Swept(Dict, 1) = Dict
  BY <1>3 DEF Atomic!Swept
<1>5. Atomic!NewJob(0) = job
  BY <1>2 DEF Atomic!NewJob, NewJob
<1>6. [Dict EXCEPT ![Id] = job] = Dict'
  BY <1>3, SnapshotAssumption
<1>7. Atomic!AfterCreate(Dict, Id, 0, 1) = Dict'
  <2>1. Atomic!EvictedIfOver(Dict') = Dict'
    BY <1>2, <1>3, NoneDropped
  <2>2. QED
    BY <1>4, <1>5, <1>6, <2>1 DEF Atomic!AfterCreate
<1>8. Cardinality(known) = 0 /\ Cardinality(known') = 1
  BY <1>1, FS_EmptySet, FS_Singleton
<1>9. QED
  BY <1>1, <1>7, <1>8, SnapshotAssumption DEF Atomic!Create, Dict

\* A mutator is done when it enters.
LEMMA MutateAtOnce ==
  ASSUME SnapshotInv, NEW guard, NEW fields, NEW to, fields # <<>>,
         Mutate(guard, fields, to)
  PROVE  /\ LockFree /\ job \in Job
         /\ Dict[Id] = IF held THEN job ELSE NoJob
         /\ Dict' = IF held /\ guard THEN [Dict EXCEPT ![Id] = to] ELSE Dict
         /\ known' = known /\ popped' = popped
<1>1. /\ LockFree /\ job' = job /\ held' = held /\ known' = known /\ popped' = popped
      /\ writing' = IF held /\ guard THEN [fields |-> fields, to |-> to] ELSE Nobody
  BY DEF Mutate
<1>2. job \in Job
  BY DEF SnapshotInv, Typed, TypeOK
<1>3. Dict = [j \in JobIds |-> IF held THEN job ELSE NoJob]
  BY <1>1 DEF Dict
<1>4. CASE held /\ guard
  <2>1. ~ LockFree' /\ writing'.to = to
    BY <1>1, <1>4 DEF LockFree, Nobody
  <2>2. Dict' = [j \in JobIds |-> to]
    BY <1>1, <1>4, <2>1 DEF Dict
  <2>3. QED
    BY <1>1, <1>2, <1>3, <1>4, <2>2, SnapshotAssumption
<1>5. CASE ~ (held /\ guard)
  <2>1. LockFree'
    BY <1>1, <1>5 DEF LockFree, Nobody
  <2>2. Dict' = Dict
    BY <1>1, <1>3, <2>1 DEF Dict
  <2>3. QED
    BY <1>1, <1>2, <1>3, <1>5, <2>2, SnapshotAssumption
<1>6. QED
  BY <1>4, <1>5

LEMMA SameWrites ==
  /\ \A x, s : Atomic!Started(x, s) = Started(x, s)
  /\ \A x, p, s : Atomic!Reported(x, p, s) = Reported(x, p, s)
  /\ \A x, b, t : Atomic!Completed(x, b, t) = Completed(x, b, t)
  /\ \A x, e, t : Atomic!Failed(x, e, t) = Failed(x, e, t)
  /\ \A x : Atomic!CancelAsked(x) = CancelAsked(x)
  /\ \A x, t : Atomic!CanceledAtOnce(x, t) = CanceledAtOnce(x, t)
  /\ Atomic!TERMINAL = TERMINAL
BY DEF Atomic!Started, Started, Atomic!Reported, Reported, Atomic!Raised, Raised,
   Atomic!Completed, Completed, Atomic!Failed, Failed, Atomic!CancelAsked, CancelAsked,
   Atomic!CanceledAtOnce, CanceledAtOnce, Atomic!TERMINAL, TERMINAL

\* A method that turns the dict into this one is a step of the store.
LEMMA SetJobsIs ==
  ASSUME NEW js, Dict' = js, known' = known, popped' = popped
  PROVE  Atomic!SetJobs(js) /\ UNCHANGED [j \in JobIds |-> popped]
BY DEF Atomic!SetJobs, Dict

LEMMA MutatorIsMethod ==
  ASSUME SnapshotInv,
         \/ MarkProcessing \/ MarkCompleted \/ MarkFailed \/ RequestCancel
         \/ UpdateProgress(25, "vectorizing") \/ UpdateProgress(85, "persisting")
  PROVE  Atomic!Next
<1>1. Id \in JobIds /\ "full" \in Bodies /\ NoJob \notin Job
  BY SnapshotAssumption, StoreAssumption
<1>2. CASE MarkProcessing
  <2>1. Mutate(job.status = "queued", <<"status", "stage", "progress">>, Started(job, "reading"))
    BY <1>2 DEF MarkProcessing
  <2>2. Dict' = Atomic!AfterMarkProcessing(Dict, Id, "reading") /\ known' = known /\ popped' = popped
    BY <1>1, <2>1, MutateAtOnce, SameWrites DEF Atomic!AfterMarkProcessing, Atomic!Write
  <2>3. Atomic!MarkProcessing(Id, "reading")
    BY <2>2, SetJobsIs DEF Atomic!MarkProcessing, Dict
  <2>4. QED
    BY <1>1, <2>3 DEF Atomic!Next
<1>3. CASE MarkCompleted
  <2>1. Mutate(Running, <<"status", "progress", "stage", "completedAt", "result">>,
               Completed(job, "full", 1))
    BY <1>3 DEF MarkCompleted
  <2>2. Dict' = Atomic!AfterMarkCompleted(Dict, Id, "full", 1) /\ known' = known /\ popped' = popped
    BY <1>1, <2>1, MutateAtOnce, SameWrites
       DEF Atomic!AfterMarkCompleted, Atomic!Write, Atomic!Live, Atomic!Terminal, Running
  <2>3. Atomic!MarkCompleted(Id, "full")
    BY <2>2, SetJobsIs DEF Atomic!MarkCompleted, Dict
  <2>4. QED
    BY <1>1, <2>3 DEF Atomic!Next
<1>4. CASE MarkFailed
  <2>1. PICK e \in Codes : Mutate(Running, <<"status", "completedAt", "stage", "error">>,
                                  Failed(job, e, 1))
    BY <1>4 DEF MarkFailed
  <2>2. Dict' = Atomic!AfterMarkFailed(Dict, Id, e, 1) /\ known' = known /\ popped' = popped
    BY <1>1, <2>1, MutateAtOnce, SameWrites
       DEF Atomic!AfterMarkFailed, Atomic!Write, Atomic!Live, Atomic!Terminal, Running
  <2>3. Atomic!MarkFailed(Id, e)
    BY <2>2, SetJobsIs DEF Atomic!MarkFailed, Dict
  <2>4. QED
    BY <1>1, <2>3 DEF Atomic!Next
<1>5. CASE RequestCancel
  <2>1. CASE /\ job.status = "queued"
             /\ Mutate(TRUE, <<"cancelRequested", "status", "completedAt", "stage">>,
                       CanceledAtOnce(job, 1))
    <3>1. Dict' = Atomic!AfterRequestCancel(Dict, Id, 1) /\ known' = known /\ popped' = popped
      BY <1>1, <2>1, MutateAtOnce, SameWrites
         DEF Atomic!AfterRequestCancel, Atomic!Write, Atomic!Live, Atomic!Terminal, TERMINAL
    <3>2. Atomic!RequestCancel(Id)
      BY <3>1, SetJobsIs DEF Atomic!RequestCancel, Dict
    <3>3. QED
      BY <1>1, <3>2 DEF Atomic!Next
  <2>2. CASE /\ job.status # "queued"
             /\ Mutate(Running, <<"cancelRequested">>, CancelAsked(job))
    <3>1. Dict' = Atomic!AfterRequestCancel(Dict, Id, 1) /\ known' = known /\ popped' = popped
      BY <1>1, <2>2, MutateAtOnce, SameWrites
         DEF Atomic!AfterRequestCancel, Atomic!Write, Atomic!Live, Atomic!Terminal, Running
    <3>2. Atomic!RequestCancel(Id)
      BY <3>1, SetJobsIs DEF Atomic!RequestCancel, Dict
    <3>3. QED
      BY <1>1, <3>2 DEF Atomic!Next
  <2>3. QED
    BY <1>5, <2>1, <2>2 DEF RequestCancel
<1>6. ASSUME NEW p, NEW s, <<p, s>> \in {<<25, "vectorizing">>, <<85, "persisting">>},
             UpdateProgress(p, s)
      PROVE  Atomic!Next
  <2>1. Mutate(job.status = "processing", <<"progress", "stage">>, Reported(job, p, s))
    BY <1>6 DEF UpdateProgress
  <2>2. Dict' = Atomic!AfterUpdateProgress(Dict, Id, p, s) /\ known' = known /\ popped' = popped
    BY <1>1, <2>1, MutateAtOnce, SameWrites DEF Atomic!AfterUpdateProgress, Atomic!Write
  <2>3. Atomic!UpdateProgress(Id, p, s)
    BY <2>2, SetJobsIs DEF Atomic!UpdateProgress, Dict
  <2>4. PICK r \in {<<25, "vectorizing">>, <<85, "persisting">>} : r[1] = p /\ r[2] = s
    BY <1>6
  <2>5. QED
    BY <1>1, <2>3, <2>4 DEF Atomic!Next
<1>7. QED
  BY <1>2, <1>3, <1>4, <1>5, <1>6

LEMMA PopIsPop ==
  ASSUME SnapshotInv, NEW c \in Fetchers, Pop(c)
  PROVE  Atomic!PopResult(Id)
<1>1. /\ LockFree /\ held' = held /\ known' = known /\ writing' = writing
      /\ job \in Job /\ popped \in Nat
  BY DEF Pop, SnapshotInv, Typed, TypeOK
<1>2. LockFree'
  BY <1>1 DEF LockFree, Nobody
<1>3. Dict = [j \in JobIds |-> IF held THEN job ELSE NoJob]
      /\ Dict' = [j \in JobIds |-> IF held THEN job' ELSE NoJob]
  BY <1>1, <1>2 DEF Dict
<1>4. Id \in JobIds /\ JobIds = {Id} /\ NoJob \notin Job
  BY SnapshotAssumption, StoreAssumption
<1>5. Atomic!HasResult(Dict, Id)
        <=> held /\ job.status = "completed" /\ job.result # None
  BY <1>1, <1>3, <1>4 DEF Atomic!HasResult
<1>6. CASE held /\ job.status = "completed" /\ job.result # None
  <2>1. job' = [job EXCEPT !.result = None] /\ popped' = popped + 1
    BY <1>6 DEF Pop
  <2>2. Dict' = Atomic!AfterPop(Dict, Id)
    BY <1>3, <1>4, <1>5, <1>6, <2>1 DEF Atomic!AfterPop
  <2>3. [j \in JobIds |-> popped'] = [[j \in JobIds |-> popped] EXCEPT ![Id] = @ + 1]
    BY <1>4, <2>1
  <2>4. QED
    BY <1>1, <1>5, <1>6, <2>2, <2>3 DEF Atomic!PopResult, Atomic!SetJobs, Dict
<1>7. CASE ~ (held /\ job.status = "completed" /\ job.result # None)
  <2>1. job' = job /\ popped' = popped
    BY <1>7 DEF Pop
  <2>2. Dict' = Atomic!AfterPop(Dict, Id)
    BY <1>3, <1>5, <1>7, <2>1 DEF Atomic!AfterPop
  <2>3. QED
    BY <1>1, <1>5, <1>7, <2>1, <2>2 DEF Atomic!PopResult, Atomic!SetJobs, Dict
<1>8. QED
  BY <1>6, <1>7

\* Writing a field, polling and comparing change nothing the store counts.
LEMMA SilentSteps ==
  ASSUME SnapshotInv,
         \/ WriteField \/ PollGet \/ PollRead \/ PollAnswer \/ UNCHANGED vars
         \/ \E c \in Fetchers :
              \/ FetchGet(c) \/ IsProcessing(c) \/ IsQueued(c)
              \/ IsFailed(c) \/ IsCanceled(c) \/ ReadCode(c)
  PROVE  UNCHANGED Atomic!vars
<1>1. CASE WriteField
  <2>1. held' = held /\ known' = known /\ popped' = popped /\ Current' = Current
    BY <1>1, WriteFieldFacts DEF SnapshotInv
  <2>2. Dict' = Dict
    BY <2>1 DEF Dict, Current
  <2>3. QED
    BY <2>1, <2>2 DEF Atomic!vars, Dict
<1>2. CASE ~ WriteField
  <2>1. /\ job' = job /\ held' = held /\ known' = known /\ writing' = writing
        /\ popped' = popped
    BY <1>2 DEF PollGet, PollRead, PollAnswer, FetchGet, IsProcessing, IsQueued, IsFailed,
                IsCanceled, Compare, ReadCode, still, vars
  <2>2. Dict' = Dict
    BY <2>1 DEF Dict, LockFree, Nobody
  <2>3. QED
    BY <2>1, <2>2 DEF Atomic!vars, Dict
<1>3. QED
  BY <1>1, <1>2

LEMMA SnapshotStepIsStoreStep ==
  ASSUME SnapshotInv, [Next]_vars
  PROVE  [Atomic!Next]_(Atomic!vars)
<1>1. Id \in JobIds
  BY SnapshotAssumption
<1>2. CASE Create
  BY <1>1, <1>2, CreateIsCreate DEF Atomic!Next
<1>3. CASE Drop
  <2>1. /\ Dict' = [j \in JobIds |-> NoJob] /\ known' = known /\ popped' = popped
    BY <1>3 DEF Drop, Dict
  <2>2. Atomic!Restart
    BY <2>1 DEF Atomic!Restart, Atomic!SetJobs, Dict
  <2>3. QED
    BY <2>2 DEF Atomic!Next
<1>4. CASE \/ MarkProcessing \/ MarkCompleted \/ MarkFailed \/ RequestCancel
           \/ UpdateProgress(25, "vectorizing") \/ UpdateProgress(85, "persisting")
  BY <1>4, MutatorIsMethod
<1>5. ASSUME NEW c \in Fetchers, Pop(c) PROVE Atomic!Next
  BY <1>1, <1>5, PopIsPop DEF Atomic!Next
<1>6. CASE \/ WriteField \/ PollGet \/ PollRead \/ PollAnswer \/ UNCHANGED vars
           \/ \E c \in Fetchers :
                \/ FetchGet(c) \/ IsProcessing(c) \/ IsQueued(c)
                \/ IsFailed(c) \/ IsCanceled(c) \/ ReadCode(c)
  BY <1>6, SilentSteps
<1>7. QED
  BY <1>2, <1>3, <1>4, <1>5, <1>6, Zenon DEF Next

\* The field writes made under the lock amount to the atomic methods of the
\* store, so that what is proved of the store holds of the job: while a mutator
\* is inside, the store is already past it.
THEOREM LockMakesAtomic == Spec => ImplementsStore
<1>1. Init => Atomic!Init
  <2> SUFFICES ASSUME Init PROVE Atomic!Init
    OBVIOUS
  <2>1. Dict = [j \in JobIds |-> NoJob] /\ known = {} /\ popped = 0
    BY DEF Init, Dict
  <2>2. Cardinality(known) = 0
    BY <2>1, FS_EmptySet
  <2>3. QED
    BY <2>1, <2>2 DEF Atomic!Init, Dict
<1>2. QED
  BY <1>1, SnapshotStepIsStoreStep, SnapshotHolds, PTL DEF Spec, ImplementsStore, Atomic!Spec
=============================================================================
