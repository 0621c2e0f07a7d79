------------------------ MODULE ClusterServiceProofs ------------------------
(***************************************************************************)
(* Theorems about ClusterService for every number of jobs, threads, slots  *)
(* and uploads, whatever the capacities and however the stages end.        *)
(***************************************************************************)
EXTENDS ClusterService, FiniteSetTheorems, TLAPS

-----------------------------------------------------------------------------
(* The store inside the service, and what is proved of it *)

Proved == INSTANCE JobStoreProofs
            WITH Reports <- {<<25, "vectorizing">>, <<85, "persisting">>}

\* The service meets the assumptions of the store's theorems.
LEMMA StoreIsInstance == Proved!StoreAssumption /\ Proved!CallersAssumption
<1>1. Proved!Job = Job
  BY DEF Proved!Job, Job, Proved!JobStatus, JobStatus, Proved!TERMINAL, TERMINAL,
     Proved!Stages, Stages
<1>2. QED
  BY <1>1, StoreAssumption, ServiceAssumption
     DEF Proved!StoreAssumption, Proved!CallersAssumption

LEMMA SameTypes ==
  /\ Store!Job = Job /\ Store!Stores = Stores
  /\ Proved!Job = Job /\ Proved!Stores = Stores
<1>1. Store!Job = Job /\ Proved!Job = Job
  BY DEF Job, JobStatus, TERMINAL, Stages,
     Store!Job, Store!JobStatus, Store!TERMINAL, Store!Stages,
     Proved!Job, Proved!JobStatus, Proved!TERMINAL, Proved!Stages
<1>2. QED
  BY <1>1 DEF Stores, Store!Stores, Proved!Stores

LEMMA SameStates ==
  /\ Store!TypeOK <=> Proved!TypeOK
  /\ Store!EntriesCoherent <=> Proved!EntriesCoherent
<1>1. Store!TypeOK <=> Proved!TypeOK
  BY SameTypes DEF Store!TypeOK, Proved!TypeOK
<1>2. Store!EntriesCoherent <=> Proved!EntriesCoherent
  BY DEF Store!EntriesCoherent, Proved!EntriesCoherent, Store!Coherent, Proved!Coherent,
     Store!TERMINAL, Proved!TERMINAL
<1>3. QED
  BY <1>1, <1>2

LEMMA SameCreate == \A j : Store!Create(j) <=> Proved!Create(j)
<1>1. \A js : Store!Held(js) = Proved!Held(js)
  BY DEF Store!Held, Proved!Held
<1>2. \A S : Store!Cardinality(S) = Proved!Cardinality(S)
  BY DEF Store!Cardinality, Proved!Cardinality
<1>3. \A js : Store!Dropped(js) = Proved!Dropped(js)
  BY <1>1, <1>2 DEF Store!Dropped, Proved!Dropped, Store!Excess, Proved!Excess, 
     Store!DropsBefore, Proved!DropsBefore, Store!Terminal, Proved!Terminal,
     Store!TERMINAL, Proved!TERMINAL
<1>4. \A js, t : Store!Swept(js, t) = Proved!Swept(js, t)
  BY DEF Store!Swept, Proved!Swept, Store!Expired, Proved!Expired, 
     Store!Terminal, Proved!Terminal, Store!TERMINAL, Proved!TERMINAL
<1>5. QED
  BY <1>3, <1>4 DEF Store!Create, Proved!Create, Store!AfterCreate, Proved!AfterCreate,
     Store!EvictedIfOver, Proved!EvictedIfOver, Store!NewJob, Proved!NewJob

LEMMA SameNext == Store!Next <=> Proved!Next
BY SameCreate DEF Store!Next, Proved!Next,
   Store!SetJobs, Proved!SetJobs, Store!Write, Proved!Write,
   Store!HasResult, Proved!HasResult, Store!Live, Proved!Live,
   Store!Terminal, Proved!Terminal, Store!TERMINAL, Proved!TERMINAL,
   Store!Get, Proved!Get, Store!AfterGet, Proved!AfterGet,
   Store!Swept, Proved!Swept, Store!Expired, Proved!Expired,
   Store!PopResult, Proved!PopResult, Store!AfterPop, Proved!AfterPop,
   Store!MarkProcessing, Proved!MarkProcessing,
   Store!AfterMarkProcessing, Proved!AfterMarkProcessing,
   Store!Started, Proved!Started, 
   Store!UpdateProgress, Proved!UpdateProgress,
   Store!AfterUpdateProgress, Proved!AfterUpdateProgress,
   Store!Reported, Proved!Reported, Store!Raised, Proved!Raised,
   Store!MarkCompleted, Proved!MarkCompleted,
   Store!AfterMarkCompleted, Proved!AfterMarkCompleted,
   Store!Completed, Proved!Completed, 
   Store!MarkFailed, Proved!MarkFailed,
   Store!AfterMarkFailed, Proved!AfterMarkFailed, Store!Failed, Proved!Failed, 
   Store!RequestCancel, Proved!RequestCancel,
   Store!AfterRequestCancel, Proved!AfterRequestCancel,
   Store!CanceledAtOnce, Proved!CanceledAtOnce, Store!CancelAsked, Proved!CancelAsked,
   Store!Tick, Proved!Tick, Store!Restart, Proved!Restart

\* What is true of the store under any caller is true of the service's store.
LEMMA StoreTheorems ==
  /\ Store!Spec => []Store!TypeOK
  /\ Store!Spec => []Store!EntriesCoherent
<1>1. Store!Spec => Proved!Spec
  <2>1. Store!Init => Proved!Init
    BY DEF Store!Init, Proved!Init
  <2>2. [Store!Next]_(Store!vars) => [Proved!Next]_(Proved!vars)
    BY SameNext DEF Store!vars, Proved!vars
  <2>3. QED
    BY <2>1, <2>2, PTL DEF Store!Spec, Proved!Spec
<1>2. Proved!Spec => []Proved!TypeOK
  BY StoreIsInstance, Proved!TypeCorrect
<1>3. Proved!Spec => []Proved!EntriesCoherent
  BY StoreIsInstance, Proved!EntriesStayCoherent
<1>4. QED
  BY <1>1, <1>2, <1>3, SameStates, PTL

-----------------------------------------------------------------------------
(* Control: who has which job, whatever the store and the cache hold *)

Task == [file : Files, ctx : BOOLEAN, hit : BOOLEAN]

FrontOK ==
  \/ front = Idle
  \/ front \in [at : {"create"}, task : Task]
  \/ front \in [at : {"start", "complete"}, job : JobIds]

\* The executor queues each task once.
PoolOK ==
  /\ pool \in Seq(JobIds)
  /\ ToSet(pool) = {j \in JobIds : pc[j] = "pooled"}
  /\ \A a, b \in DOMAIN pool : pool[a] = pool[b] => a = b

\* The event loop answers a job itself or leaves it to a worker, never both,
\* and the worker of a job knows its upload and the error it is to report.
HandsOK(j) ==
  /\ pc[j] # "none" => j \in known /\ task[j] \in Task
  /\ pc[j] = "failing" => raised[j] \in Codes
  /\ j \in saved => j \in known
  /\ InFront(j) => /\ j \in known /\ pc[j] = "none" /\ j \notin saved
                   /\ task[j] \in Task /\ Answered(task[j])

Control ==
  /\ pc \in [JobIds -> Points]
  /\ task \in [JobIds -> Task \cup {NoTask}]
  /\ raised \in [JobIds -> Codes \cup {None}]
  /\ known \in SUBSET JobIds
  /\ saved \in SUBSET JobIds
  /\ restarts \in 0 .. MaxRestarts
  /\ FrontOK
  /\ PoolOK
  /\ \A j \in JobIds : HandsOK(j)

LEMMA PoolFacts ==
  ASSUME NEW s \in Seq(JobIds), \A a, b \in DOMAIN s : s[a] = s[b] => a = b
  PROVE  /\ \A j \in JobIds \ ToSet(s) :
              /\ Append(s, j) \in Seq(JobIds)
              /\ ToSet(Append(s, j)) = ToSet(s) \cup {j}
              /\ \A a, b \in DOMAIN Append(s, j) :
                   Append(s, j)[a] = Append(s, j)[b] => a = b
         /\ s # <<>> =>
              /\ Tail(s) \in Seq(JobIds)
              /\ ToSet(Tail(s)) = ToSet(s) \ {Head(s)}
              /\ \A a, b \in DOMAIN Tail(s) : Tail(s)[a] = Tail(s)[b] => a = b
<1> USE DEF ToSet
<1>1. ASSUME NEW j \in JobIds \ ToSet(s)
      PROVE  /\ Append(s, j) \in Seq(JobIds)
             /\ ToSet(Append(s, j)) = ToSet(s) \cup {j}
             /\ \A a, b \in DOMAIN Append(s, j) :
                  Append(s, j)[a] = Append(s, j)[b] => a = b
  <2> DEFINE t == Append(s, j)
  <2>1. /\ t \in Seq(JobIds) /\ Len(t) = Len(s) + 1 /\ Len(s) \in Nat
        /\ DOMAIN t = 1 .. Len(s) + 1 /\ DOMAIN s = 1 .. Len(s)
        /\ \A i \in 1 .. Len(s) : t[i] = s[i]
        /\ t[Len(s) + 1] = j
    OBVIOUS
  <2>2. ToSet(t) = ToSet(s) \cup {j}
    <3> HIDE DEF t
    <3>1. QED
      BY <2>1
  <2>3. \A i \in 1 .. Len(s) : s[i] # j
    BY <2>1
  <2>4. \A a, b \in DOMAIN t : t[a] = t[b] => a = b
    <3> HIDE DEF t, ToSet
    <3>1. QED
      BY <2>1, <2>3
  <2>5. QED
    BY <2>1, <2>2, <2>4
<1>2. ASSUME s # <<>>
      PROVE  /\ Tail(s) \in Seq(JobIds)
             /\ ToSet(Tail(s)) = ToSet(s) \ {Head(s)}
             /\ \A a, b \in DOMAIN Tail(s) : Tail(s)[a] = Tail(s)[b] => a = b
  <2> DEFINE t == Tail(s)
  <2>1. /\ t \in Seq(JobIds) /\ Len(s) \in Nat \ {0} /\ Len(t) = Len(s) - 1
        /\ DOMAIN t = 1 .. Len(s) - 1 /\ DOMAIN s = 1 .. Len(s)
        /\ \A i \in 1 .. Len(s) - 1 : t[i] = s[i + 1]
        /\ Head(s) = s[1]
    BY <1>2
  <2>2. ToSet(t) = ToSet(s) \ {Head(s)}
    <3> HIDE DEF t
    <3>1. ASSUME NEW i \in DOMAIN t PROVE t[i] \in ToSet(s) \ {s[1]}
      <4>1. i \in Int /\ i + 1 \in DOMAIN s /\ i + 1 # 1 /\ 1 \in DOMAIN s
        BY <2>1
      <4>2. s[i + 1] # s[1]
        BY <4>1
      <4>3. QED
        BY <2>1, <4>1, <4>2
    <3>2. ASSUME NEW i \in DOMAIN s, s[i] # s[1] PROVE i - 1 \in DOMAIN t /\ s[i] = t[i - 1]
      BY <2>1, <3>2
    <3>3. QED
      BY <2>1, <3>1, <3>2
  <2>3. ASSUME NEW a \in DOMAIN t, NEW b \in DOMAIN t, t[a] = t[b] PROVE a = b
    <3> HIDE DEF t, ToSet
    <3>1. a \in Int /\ b \in Int /\ a + 1 \in DOMAIN s /\ b + 1 \in DOMAIN s
      BY <2>1
    <3>2. s[a + 1] = s[b + 1]
      BY <2>1, <2>3
    <3>3. QED
      BY <3>1, <3>2
  <2>4. QED
    BY <2>1, <2>2, <2>3
<1>3. QED
  BY <1>1, <1>2

\* A worker that has a thread moves on: only its own point, its own exception
\* and its own results change.
Moves(j, to) ==
  /\ pc[j] \notin {"none", "pooled"}
  /\ to \in Holding \cup {"waiting", "done"}
  /\ pc' = [pc EXCEPT ![j] = to]
  /\ \/ raised' = raised /\ to # "failing"
     \/ to = "failing" /\ \E e \in Codes : raised' = [raised EXCEPT ![j] = e]
     \/ to = "done" /\ raised' = [raised EXCEPT ![j] = None]
  /\ saved' \in {saved, saved \cup {j}}
  /\ UNCHANGED <<known, front, pool, task, restarts>>

LEMMA MovesKeepControl ==
  ASSUME Control, NEW j \in JobIds, NEW to, Moves(j, to)
  PROVE  Control'
<1> USE DEF Control, Moves
<1>1. pc' \in [JobIds -> Points] /\ raised' \in [JobIds -> Codes \cup {None}]
  BY DEF Points, Holding
<1>2. {i \in JobIds : pc'[i] = "pooled"} = {i \in JobIds : pc[i] = "pooled"}
  BY DEF Holding
<1>3. PoolOK'
  BY <1>2 DEF PoolOK
<1>4. ASSUME NEW i \in JobIds PROVE HandsOK(i)'
  <2>1. InFront(i)' <=> InFront(i)
    BY DEF InFront
  <2>2. j \in known /\ ~ InFront(j)
    BY DEF HandsOK
  <2>3. CASE i = j
    BY <2>1, <2>2, <2>3 DEF HandsOK
  <2>4. CASE i # j
    BY <2>1, <2>2, <2>4 DEF HandsOK
  <2>5. QED
    BY <2>3, <2>4
<1>5. known' \in SUBSET JobIds /\ saved' \in SUBSET JobIds /\ restarts' \in 0 .. MaxRestarts
  OBVIOUS
<1>6. FrontOK'
  BY DEF FrontOK
<1>7. QED
  BY <1>1, <1>3, <1>4, <1>5, <1>6

\* What the store's methods leave alone.
LEMMA MethodsKeepIds ==
  ASSUME \/ Store!Get \/ Store!Tick \/ Store!Restart
         \/ \E j : \/ Store!PopResult(j) \/ Store!RequestCancel(j)
                   \/ \E x : Store!MarkProcessing(j, x)
                   \/ \E x, y : Store!UpdateProgress(j, x, y)
                   \/ \E x : Store!MarkCompleted(j, x)
                   \/ \E x : Store!MarkFailed(j, x)
         \/ UNCHANGED storeVars
  PROVE  known' = known
BY DEF Store!Get, Store!Tick, Store!Restart, Store!PopResult, Store!RequestCancel,
   Store!MarkProcessing, Store!UpdateProgress, Store!MarkCompleted, Store!MarkFailed,
   Store!SetJobs, storeVars

\* Every step of a worker that has its thread is a move.
LEMMA WorkerMoves ==
  ASSUME Control, NEW j \in JobIds, Worker(j), ~ TakeThread(j)
  PROVE  \E to : Moves(j, to)
<1> USE DEF Control, Go, Raise, rest, Holding
<1>1. CASE AcquireSlot(j)
  BY <1>1, MethodsKeepIds DEF AcquireSlot, Moves, storeVars
<1>2. ASSUME NEW at \in Holding, NEW to \in Holding \ {"failing"}, Check(j, at, to)
      PROVE  \E x : Moves(j, x)
  <2>1. CASE CancelRequested(jobs, j)
    <3>1. "CANCELED" \in Codes
      BY ServiceAssumption DEF WorkerCodes
    <3>2. Moves(j, "failing")
      BY <1>2, <2>1, <3>1, MethodsKeepIds DEF Check, Moves, storeVars
    <3>3. QED
      BY <3>2
  <2>2. CASE ~ CancelRequested(jobs, j)
    <3>1. Moves(j, to)
      BY <1>2, <2>2, MethodsKeepIds DEF Check, Moves, storeVars
    <3>2. QED
      BY <3>1
  <2>3. QED
    BY <2>1, <2>2
<1>3. CASE Check1(j) \/ Check2(j) \/ Check3(j)
  BY <1>2, <1>3 DEF Check1, Check2, Check3
<1>4. ASSUME NEW end \in Codes \cup {"ok"}, NEW to \in Holding \ {"failing"},
             EndsWith(j, end, to), pc[j] \in Holding, UNCHANGED <<storeVars, rest>>
      PROVE  \E x : Moves(j, x)
  <2>1. CASE end = "ok"
    <3>1. Moves(j, to)
      BY <1>4, <2>1 DEF EndsWith, Moves, storeVars
    <3>2. QED
      BY <3>1
  <2>2. CASE end # "ok"
    <3>1. Moves(j, "failing")
      BY <1>4, <2>2 DEF EndsWith, Moves, storeVars
    <3>2. QED
      BY <3>1
  <2>3. QED
    BY <2>1, <2>2
<1>5. pc[j] # "none" => task[j].file \in Files
  BY DEF HandsOK, Task
<1>6. CASE Read(j)
  <2>1. pc[j] = "reading" /\ UNCHANGED <<storeVars, rest>>
    BY <1>6 DEF Read
  <2>2. PICK end \in ReadEnds[task[j].file] : EndsWith(j, end, "report")
    BY <1>6 DEF Read
  <2>3. end \in Codes \cup {"ok"}
    BY <1>5, <2>1, ServiceAssumption DEF WorkerCodes
  <2>4. QED
    BY <1>4, <2>1, <2>2, <2>3
<1>7. CASE Cluster(j)
  <2>1. pc[j] = "clustering" /\ UNCHANGED <<storeVars, rest>>
    BY <1>7 DEF Cluster
  <2>2. PICK end \in ClusterEnds[task[j].file] : EndsWith(j, end, "check3")
    BY <1>7 DEF Cluster
  <2>3. end \in Codes \cup {"ok"}
    BY <1>5, <2>1, ServiceAssumption DEF WorkerCodes
  <2>4. QED
    BY <1>4, <2>1, <2>2, <2>3
<1>8. CASE Start(j)
  BY <1>8, MethodsKeepIds DEF Start, Moves
<1>9. CASE Report(j)
  BY <1>9, MethodsKeepIds DEF Report, Moves
<1>10. CASE CachePut(j)
  BY <1>10 DEF CachePut, Moves, storeVars
<1>11. CASE Finish(j)
  BY <1>11, MethodsKeepIds DEF Finish, Moves
<1>12. CASE Persist(j)
  <2>1. pc[j] = "persisting" /\ UNCHANGED <<known, front, pool, task, restarts>>
    BY <1>12 DEF Persist, storeVars
  <2>2. PICK end \in PersistEnds :
          CASE end = "ok" -> Go(j, "complete") /\ saved' = saved \cup {j}
            [] end = "refused" -> Raise(j, "PERSIST_FAILED") /\ UNCHANGED saved
            [] end = "broken" -> /\ Raise(j, "INTERNAL_ERROR")
                                 /\ saved' \in {saved, saved \cup {j}}
    BY <1>12 DEF Persist
  <2>3. {"PERSIST_FAILED", "INTERNAL_ERROR"} \subseteq Codes
    BY ServiceAssumption DEF WorkerCodes
  <2>4. CASE end = "ok"
    <3>1. Moves(j, "complete")
      BY <2>1, <2>2, <2>4 DEF Moves
    <3>2. QED
      BY <3>1
  <2>5. CASE end \in {"refused", "broken"}
    <3>1. Moves(j, "failing")
      BY <2>1, <2>2, <2>3, <2>5 DEF Moves
    <3>2. QED
      BY <3>1
  <2>6. QED
    BY <2>4, <2>5, ServiceAssumption
<1>13. CASE Complete(j)
  BY <1>13, MethodsKeepIds DEF Complete, Moves
<1>14. CASE Fail(j)
  BY <1>14, MethodsKeepIds DEF Fail, Moves
<1>15. QED
  BY <1>1, <1>3, <1>6, <1>7, <1>8, <1>9, <1>10, <1>11, <1>12, <1>13, <1>14 DEF Worker

LEMMA ControlInit == Init => Control
<1> SUFFICES ASSUME Init PROVE Control
  OBVIOUS
<1>1. PoolOK
  BY DEF Init, PoolOK, ToSet
<1>2. FrontOK /\ \A j \in JobIds : HandsOK(j)
  BY DEF Init, FrontOK, HandsOK, InFront, Idle
<1>3. QED
  BY <1>1, <1>2, ServiceAssumption DEF Init, Store!Init, Control, Points

LEMMA ControlStep == Control /\ [Next]_vars => Control'
<1> SUFFICES ASSUME Control, [Next]_vars PROVE Control'
  OBVIOUS
<1> USE DEF Control
<1>1. ASSUME NEW f \in Files, NEW ctx \in Contexts, Receive(f, ctx) PROVE Control'
  <2>1. front' \in [at : {"create"}, task : Task]
    BY <1>1, ServiceAssumption DEF Receive, Task
  <2>2. FrontOK' /\ \A i \in JobIds : ~ InFront(i)'
    BY <2>1 DEF FrontOK, InFront
  <2>3. PoolOK'
    BY <1>1 DEF Receive, PoolOK
  <2>4. UNCHANGED <<known, pc, task, raised, saved, restarts>>
    BY <1>1 DEF Receive, storeVars
  <2>5. \A i \in JobIds : HandsOK(i)'
    BY <2>2, <2>4 DEF HandsOK
  <2>6. QED
    BY <2>2, <2>3, <2>4, <2>5
<1>2. ASSUME NEW j \in JobIds, CreateJob(j) PROVE Control'
  <2>1. /\ front.at = "create" /\ j \notin known /\ known' = known \cup {j}
        /\ task' = [task EXCEPT ![j] = front.task]
        /\ UNCHANGED <<raised, saved, restarts>>
    BY <1>2 DEF CreateJob, Store!Create
  <2>2. front \in [at : {"create"}, task : Task] /\ front.task \in Task
    BY <2>1 DEF FrontOK, Idle
  <2>3. pc[j] = "none" /\ j \notin saved
    BY <2>1 DEF HandsOK
  <2>4. \A i \in JobIds : ~ InFront(i)
    BY <2>1 DEF InFront
  <2>5. known' \in SUBSET JobIds /\ task' \in [JobIds -> Task \cup {NoTask}]
    BY <2>1, <2>2
  <2>6. CASE Answered(front.task)
    <3>1. front' = [at |-> "start", job |-> j] /\ UNCHANGED <<pool, pc>>
      BY <1>2, <2>6 DEF CreateJob
    <3>2. FrontOK' /\ \A i \in JobIds : InFront(i)' => i = j
      BY <3>1 DEF FrontOK, InFront
    <3>3. PoolOK'
      BY <3>1 DEF PoolOK
    <3>4. ASSUME NEW i \in JobIds PROVE HandsOK(i)'
      BY <2>1, <2>2, <2>3, <2>6, <3>1, <3>2 DEF HandsOK
    <3>5. QED
      BY <2>1, <2>5, <3>1, <3>2, <3>3, <3>4
  <2>7. CASE ~ Answered(front.task)
    <3>1. /\ front' = Idle /\ pool' = Append(pool, j)
          /\ pc' = [pc EXCEPT ![j] = "pooled"]
      BY <1>2, <2>7 DEF CreateJob
    <3>2. FrontOK' /\ \A i \in JobIds : ~ InFront(i)'
      BY <3>1 DEF FrontOK, InFront, Idle
    <3>3. j \notin ToSet(pool)
      BY <2>3 DEF PoolOK
    <3>4. /\ pool' \in Seq(JobIds) /\ ToSet(pool') = ToSet(pool) \cup {j}
          /\ \A a, b \in DOMAIN pool' : pool'[a] = pool'[b] => a = b
      BY <3>1, <3>3, PoolFacts DEF PoolOK
    <3>5. {i \in JobIds : pc'[i] = "pooled"} = {i \in JobIds : pc[i] = "pooled"} \cup {j}
      BY <3>1
    <3>6. PoolOK'
      BY <3>4, <3>5 DEF PoolOK
    <3>7. ASSUME NEW i \in JobIds PROVE HandsOK(i)'
      BY <2>1, <2>2, <3>1, <3>2 DEF HandsOK
    <3>8. pc' \in [JobIds -> Points]
      BY <3>1 DEF Points
    <3>9. QED
      BY <2>1, <2>5, <3>2, <3>6, <3>7, <3>8
  <2>8. QED
    BY <2>6, <2>7
<1>3. ASSUME NEW j \in JobIds, TakeThread(j) PROVE Control'
  <2>1. /\ pool # <<>> /\ j = Head(pool) /\ pool' = Tail(pool)
        /\ pc' = [pc EXCEPT ![j] = "waiting"]
        /\ UNCHANGED <<known, front, task, raised, saved, restarts>>
    BY <1>3 DEF TakeThread, storeVars
  <2>2. /\ pool' \in Seq(JobIds) /\ ToSet(pool') = ToSet(pool) \ {j}
        /\ \A a, b \in DOMAIN pool' : pool'[a] = pool'[b] => a = b
    BY <2>1, PoolFacts DEF PoolOK
  <2>3. {i \in JobIds : pc'[i] = "pooled"} = {i \in JobIds : pc[i] = "pooled"} \ {j}
    BY <2>1
  <2>4. PoolOK'
    BY <2>2, <2>3 DEF PoolOK
  <2>5. pc[j] = "pooled"
    <3>1. pool[1] \in ToSet(pool) /\ Head(pool) = pool[1]
      BY <2>1 DEF PoolOK, ToSet
    <3>2. QED
      BY <2>1, <3>1 DEF PoolOK
  <2>6. \A i \in JobIds : InFront(i)' <=> InFront(i)
    BY <2>1 DEF InFront
  <2>7. \A i \in JobIds : HandsOK(i)'
    BY <2>1, <2>5, <2>6 DEF HandsOK
  <2>8. pc' \in [JobIds -> Points] /\ FrontOK'
    BY <2>1 DEF Points, FrontOK
  <2>9. QED
    BY <2>1, <2>4, <2>7, <2>8
<1>4. ASSUME NEW j \in JobIds, Worker(j), ~ TakeThread(j) PROVE Control'
  BY <1>4, WorkerMoves, MovesKeepControl
<1>5. ASSUME UNCHANGED <<known, pool, pc, task, raised, saved, restarts>>, FrontOK',
             \A i \in JobIds : InFront(i)' => InFront(i)
      PROVE  Control'
  <2>1. PoolOK' /\ \A i \in JobIds : HandsOK(i)'
    BY <1>5 DEF PoolOK, HandsOK
  <2>2. QED
    BY <1>5, <2>1
<1>6. CASE FrontStart
  <2>1. /\ front.at = "start" /\ front' = [front EXCEPT !.at = "complete"]
        /\ UNCHANGED <<known, pool, pc, task, raised, saved, restarts>>
    BY <1>6, MethodsKeepIds DEF FrontStart
  <2>2. front \in [at : {"start", "complete"}, job : JobIds]
    BY <2>1 DEF FrontOK, Idle
  <2>3. front' \in [at : {"start", "complete"}, job : JobIds] /\ front'.job = front.job
    BY <2>1, <2>2
  <2>4. FrontOK' /\ \A i \in JobIds : InFront(i)' => InFront(i)
    BY <2>1, <2>3 DEF FrontOK, InFront
  <2>5. QED
    BY <1>5, <2>1, <2>4
<1>7. CASE FrontComplete
  <2>1. front' = Idle /\ UNCHANGED <<known, pool, pc, task, raised, saved, restarts>>
    BY <1>7, MethodsKeepIds DEF FrontComplete
  <2>2. FrontOK' /\ \A i \in JobIds : ~ InFront(i)'
    BY <2>1 DEF FrontOK, InFront, Idle
  <2>3. QED
    BY <1>5, <2>1, <2>2
<1>8. ASSUME UNCHANGED <<known, front, pool, pc, task, raised, saved, restarts>>
      PROVE  Control'
  BY <1>5, <1>8 DEF FrontOK, InFront
<1>9. ASSUME NEW j \in JobIds, Fetch(j) \/ Cancel(j) PROVE Control'
  BY <1>8, <1>9, MethodsKeepIds DEF Fetch, Cancel, elsewhere, rest
<1>10. CASE Poll \/ Tick
  BY <1>8, <1>10, MethodsKeepIds DEF Poll, Tick, elsewhere, rest
<1>11. CASE Restart
  <2>1. /\ known' = known /\ front' = Idle /\ pool' = <<>> /\ saved' = saved
        /\ pc' = [j \in JobIds |-> "none"] /\ task' = [j \in JobIds |-> NoTask]
        /\ raised' = [j \in JobIds |-> None]
    BY <1>11, MethodsKeepIds DEF Restart
  <2>2. restarts' \in 0 .. MaxRestarts
    BY <1>11, ServiceAssumption DEF Restart
  <2>3. PoolOK'
    BY <2>1 DEF PoolOK, ToSet
  <2>4. FrontOK' /\ \A i \in JobIds : ~ InFront(i)'
    BY <2>1 DEF FrontOK, InFront, Idle
  <2>5. \A i \in JobIds : HandsOK(i)'
    BY <2>1, <2>4 DEF HandsOK
  <2>6. QED
    BY <2>1, <2>2, <2>3, <2>4, <2>5 DEF Points
<1>12. CASE UNCHANGED vars
  BY <1>8, <1>12 DEF vars, storeVars
<1>13. QED
  BY <1>1, <1>2, <1>3, <1>4, <1>6, <1>7, <1>9, <1>10, <1>11, <1>12 DEF Next

LEMMA ControlHolds == Spec => []Control
BY ControlInit, ControlStep, PTL DEF Spec

-----------------------------------------------------------------------------
(* Every call the service makes is one of the store's methods *)

LEMMA ServiceStepIsStoreStep ==
  ASSUME Control, [Next]_vars
  PROVE  [Store!Next]_(Store!vars)
<1> DEFINE Quiet == UNCHANGED Store!vars
<1>1. Quiet <=> UNCHANGED storeVars
  BY DEF storeVars, Store!vars
<1>2. ASSUME NEW j \in JobIds, Worker(j) PROVE Store!Next \/ Quiet
  <2>1. CASE \/ TakeThread(j) \/ AcquireSlot(j) \/ Check1(j) \/ Read(j) \/ Check2(j)
             \/ Cluster(j) \/ Check3(j) \/ CachePut(j) \/ Persist(j)
    BY <1>1, <2>1 DEF TakeThread, AcquireSlot, Check1, Check2, Check3, Check, Read, Cluster,
         CachePut, Persist
  <2>2. CASE Start(j)
    BY <2>2 DEF Start, Store!Next
  <2>3. CASE Report(j)
    <3>1. Store!UpdateProgress(j, 25, "vectorizing")
      BY <2>3 DEF Report
    <3>2. PICK r \in {<<25, "vectorizing">>, <<85, "persisting">>} :
            r = <<25, "vectorizing">> /\ r[1] = 25 /\ r[2] = "vectorizing"
      OBVIOUS
    <3>3. QED
      BY <3>1, <3>2 DEF Store!Next
  <2>4. CASE Finish(j)
    <3>1. CASE task[j].ctx
      <4>1. Store!UpdateProgress(j, 85, "persisting")
        BY <2>4, <3>1 DEF Finish
      <4>2. PICK r \in {<<25, "vectorizing">>, <<85, "persisting">>} :
              r = <<85, "persisting">> /\ r[1] = 85 /\ r[2] = "persisting"
        OBVIOUS
      <4>3. QED
        BY <4>1, <4>2 DEF Store!Next
    <3>2. CASE ~ task[j].ctx
      BY <2>4, <3>2, ServiceAssumption DEF Finish, Store!Next
    <3>3. QED
      BY <3>1, <3>2
  <2>5. CASE Complete(j)
    BY <2>5, ServiceAssumption DEF Complete, Store!Next
  <2>6. CASE Fail(j)
    BY <2>6 DEF Fail, Control, HandsOK, Store!Next
  <2>7. QED
    BY <1>2, <2>1, <2>2, <2>3, <2>4, <2>5, <2>6 DEF Worker
<1>3. ASSUME NEW j \in JobIds, CreateJob(j) \/ Fetch(j) \/ Cancel(j)
      PROVE  Store!Next \/ Quiet
  BY <1>3 DEF CreateJob, Fetch, Cancel, Store!Next
<1>4. CASE FrontStart
  <2>1. front.job \in JobIds
    BY <1>4 DEF FrontStart, Control, FrontOK, Idle
  <2>2. QED
    BY <1>4, <2>1 DEF FrontStart, Store!Next
<1>5. CASE FrontComplete
  <2>1. front.job \in JobIds
    BY <1>5 DEF FrontComplete, Control, FrontOK, Idle
  <2>2. QED
    BY <1>5, <2>1, ServiceAssumption DEF FrontComplete, Store!Next
<1>6. CASE Poll \/ Tick \/ Restart
  BY <1>6 DEF Poll, Tick, Restart, Store!Next
<1>7. CASE (\E f \in Files, ctx \in Contexts : Receive(f, ctx)) \/ UNCHANGED vars
  BY <1>1, <1>7 DEF Receive, vars
<1>8. QED
  BY <1>2, <1>3, <1>4, <1>5, <1>6, <1>7 DEF Next

\* Whatever the event loop, the workers and the clients do, the store sees a
\* sequence of calls of its own methods, with an error code for every failure
\* and a body for every completion.
THEOREM ServiceUsesStore == Spec => UsesStore
<1>1. Init => Store!Init
  BY DEF Init
<1>2. QED
  BY <1>1, ServiceStepIsStoreStep, ControlHolds, PTL DEF Spec, UsesStore, Store!Spec

-----------------------------------------------------------------------------
(* What a method of the store does to the entries, field by field *)

OnlyEntry(j) == \A k \in JobIds \ {j} : jobs'[k] = jobs[k]

\* The fields the verdicts depend on; the rest may be anything.
Shows(job, status, error, cancel) ==
  /\ job.status = status
  /\ job.error = error
  /\ job.cancelRequested = cancel

Turns(j, status, error, cancel) == Shows(jobs'[j], status, error, cancel)

LEMMA EntryWrites ==
  ASSUME NEW job \in Job
  PROVE  /\ \A x : Shows(Store!Started(job, x), "processing", job.error, job.cancelRequested)
         /\ \A x, y : Shows(Store!Reported(job, x, y),
                            job.status, job.error, job.cancelRequested)
         /\ \A x, t : Shows(Store!Completed(job, x, t),
                            "completed", job.error, job.cancelRequested)
         /\ \A x, t : Shows(Store!Failed(job, x, t), "failed", x, job.cancelRequested)
         /\ Shows(Store!CancelAsked(job), job.status, job.error, TRUE)
         /\ \A t : Shows(Store!CanceledAtOnce(job, t), "canceled", job.error, TRUE)
         /\ Shows([job EXCEPT !.result = None], job.status, job.error, job.cancelRequested)
BY DEF Job, Shows, Store!Started, Store!Reported, Store!Completed, Store!Failed,
   Store!CancelAsked, Store!CanceledAtOnce

LEMMA MethodWrites ==
  ASSUME jobs \in Stores, NEW j \in JobIds
  PROVE  /\ \A x : Store!MarkProcessing(j, x) =>
              /\ OnlyEntry(j)
              /\ IF jobs[j] # NoJob /\ jobs[j].status = "queued"
                 THEN Turns(j, "processing", jobs[j].error, jobs[j].cancelRequested)
                 ELSE jobs'[j] = jobs[j]
         /\ \A x, y : Store!UpdateProgress(j, x, y) =>
              /\ OnlyEntry(j)
              /\ IF jobs[j] # NoJob
                 THEN Turns(j, jobs[j].status, jobs[j].error, jobs[j].cancelRequested)
                 ELSE jobs'[j] = jobs[j]
         /\ \A x : Store!MarkCompleted(j, x) =>
              /\ OnlyEntry(j)
              /\ IF Live(jobs, j)
                 THEN Turns(j, "completed", jobs[j].error, jobs[j].cancelRequested)
                 ELSE jobs'[j] = jobs[j]
         /\ \A x : Store!MarkFailed(j, x) =>
              /\ OnlyEntry(j)
              /\ IF Live(jobs, j)
                 THEN Turns(j, "failed", x, jobs[j].cancelRequested)
                 ELSE jobs'[j] = jobs[j]
         /\ Store!RequestCancel(j) =>
              /\ OnlyEntry(j)
              /\ IF Live(jobs, j)
                 THEN Turns(j, IF jobs[j].status = "queued" THEN "canceled"
                               ELSE jobs[j].status, jobs[j].error, TRUE)
                 ELSE jobs'[j] = jobs[j]
         /\ Store!PopResult(j) =>
              /\ OnlyEntry(j)
              /\ IF jobs[j] # NoJob
                 THEN Turns(j, jobs[j].status, jobs[j].error, jobs[j].cancelRequested)
                 ELSE jobs'[j] = jobs[j]
<1>1. jobs \in [JobIds -> Job \cup {NoJob}]
  BY DEF Stores
<1>2. jobs[j] # NoJob => jobs[j] \in Job
  BY <1>1
<1>3. Store!Live(jobs, j) <=> Live(jobs, j)
  BY DEF Live, Store!Live, Terminal, Store!Terminal, TERMINAL, Store!TERMINAL
<1> USE DEF OnlyEntry, Store!SetJobs, Store!Write
<1>4. ASSUME NEW x, Store!MarkProcessing(j, x)
      PROVE  /\ OnlyEntry(j)
             /\ IF jobs[j] # NoJob /\ jobs[j].status = "queued"
                THEN Turns(j, "processing", jobs[j].error, jobs[j].cancelRequested)
                ELSE jobs'[j] = jobs[j]
  <2>1. CASE jobs[j] # NoJob /\ jobs[j].status = "queued"
    <3>1. jobs' = [jobs EXCEPT ![j] = Store!Started(jobs[j], x)]
      BY <1>3, <1>4, <2>1 DEF Store!MarkProcessing, Store!AfterMarkProcessing
    <3>2. OnlyEntry(j) /\ jobs'[j] = Store!Started(jobs[j], x)
      BY <1>1, <3>1
    <3>3. QED
      BY <1>2, <2>1, <3>2, EntryWrites DEF Live, Turns
  <2>2. CASE ~ (jobs[j] # NoJob /\ jobs[j].status = "queued")
    BY <1>1, <1>3, <1>4, <2>2 DEF Store!MarkProcessing, Store!AfterMarkProcessing
  <2>3. QED
    BY <2>1, <2>2
<1>5. ASSUME NEW x, NEW y, Store!UpdateProgress(j, x, y)
      PROVE  /\ OnlyEntry(j)
             /\ IF jobs[j] # NoJob
                THEN Turns(j, jobs[j].status, jobs[j].error, jobs[j].cancelRequested)
                ELSE jobs'[j] = jobs[j]
  <2>1. CASE jobs[j] # NoJob /\ jobs[j].status = "processing"
    <3>1. jobs' = [jobs EXCEPT ![j] = Store!Reported(jobs[j], x, y)]
      BY <1>5, <2>1 DEF Store!UpdateProgress, Store!AfterUpdateProgress
    <3>2. OnlyEntry(j) /\ jobs'[j] = Store!Reported(jobs[j], x, y)
      BY <1>1, <3>1
    <3>3. Shows(Store!Reported(jobs[j], x, y),
                jobs[j].status, jobs[j].error, jobs[j].cancelRequested)
      BY <1>2, <2>1, EntryWrites
    <3>4. QED
      BY <2>1, <3>2, <3>3 DEF Turns
  <2>2. CASE ~ (jobs[j] # NoJob /\ jobs[j].status = "processing")
    BY <1>1, <1>5, <2>2 DEF Store!UpdateProgress, Store!AfterUpdateProgress, Turns, Shows
  <2>3. QED
    BY <2>1, <2>2
<1>6. ASSUME NEW x, Store!MarkCompleted(j, x)
      PROVE  /\ OnlyEntry(j)
             /\ IF Live(jobs, j)
                THEN Turns(j, "completed", jobs[j].error, jobs[j].cancelRequested)
                ELSE jobs'[j] = jobs[j]
  <2>1. CASE Live(jobs, j)
    <3>1. jobs' = [jobs EXCEPT ![j] = Store!Completed(jobs[j], x, now)]
      BY <1>3, <1>6, <2>1 DEF Store!MarkCompleted, Store!AfterMarkCompleted
    <3>2. OnlyEntry(j) /\ jobs'[j] = Store!Completed(jobs[j], x, now)
      BY <1>1, <3>1
    <3>3. QED
      BY <1>2, <2>1, <3>2, EntryWrites DEF Live, Turns
  <2>2. CASE ~ (Live(jobs, j))
    BY <1>1, <1>3, <1>6, <2>2 DEF Store!MarkCompleted, Store!AfterMarkCompleted
  <2>3. QED
    BY <2>1, <2>2
<1>7. ASSUME NEW x, Store!MarkFailed(j, x)
      PROVE  /\ OnlyEntry(j)
             /\ IF Live(jobs, j)
                THEN Turns(j, "failed", x, jobs[j].cancelRequested)
                ELSE jobs'[j] = jobs[j]
  <2>1. CASE Live(jobs, j)
    <3>1. jobs' = [jobs EXCEPT ![j] = Store!Failed(jobs[j], x, now)]
      BY <1>3, <1>7, <2>1 DEF Store!MarkFailed, Store!AfterMarkFailed
    <3>2. OnlyEntry(j) /\ jobs'[j] = Store!Failed(jobs[j], x, now)
      BY <1>1, <3>1
    <3>3. QED
      BY <1>2, <2>1, <3>2, EntryWrites DEF Live, Turns
  <2>2. CASE ~ (Live(jobs, j))
    BY <1>1, <1>3, <1>7, <2>2 DEF Store!MarkFailed, Store!AfterMarkFailed
  <2>3. QED
    BY <2>1, <2>2
<1>8. ASSUME Store!RequestCancel(j)
      PROVE  /\ OnlyEntry(j)
             /\ IF Live(jobs, j)
                THEN Turns(j, IF jobs[j].status = "queued" THEN "canceled"
                              ELSE jobs[j].status, jobs[j].error, TRUE)
                ELSE jobs'[j] = jobs[j]
  <2> DEFINE new == IF jobs[j].status = "queued" THEN Store!CanceledAtOnce(jobs[j], now)
                    ELSE Store!CancelAsked(jobs[j])
  <2>1. CASE Live(jobs, j)
    <3>1. jobs' = [jobs EXCEPT ![j] = new]
      BY <1>3, <1>8, <2>1 DEF Store!RequestCancel, Store!AfterRequestCancel
    <3>2. OnlyEntry(j) /\ jobs'[j] = new
      BY <1>1, <3>1
    <3>3. QED
      BY <1>2, <2>1, <3>2, EntryWrites DEF Live, Turns
  <2>2. CASE ~ Live(jobs, j)
    BY <1>1, <1>3, <1>8, <2>2 DEF Store!RequestCancel, Store!AfterRequestCancel
  <2>3. QED
    BY <2>1, <2>2
<1>9. ASSUME Store!PopResult(j)
      PROVE  /\ OnlyEntry(j)
             /\ IF jobs[j] # NoJob
                THEN Turns(j, jobs[j].status, jobs[j].error, jobs[j].cancelRequested)
                ELSE jobs'[j] = jobs[j]
  <2>1. CASE Store!HasResult(jobs, j)
    <3>1. jobs[j] # NoJob /\ jobs' = [jobs EXCEPT ![j] = [jobs[j] EXCEPT !.result = None]]
      BY <1>9, <2>1 DEF Store!PopResult, Store!AfterPop, Store!HasResult
    <3>2. QED
      BY <1>1, <1>2, <3>1, EntryWrites DEF Turns
  <2>2. CASE ~ Store!HasResult(jobs, j)
    BY <1>1, <1>9, <2>2 DEF Store!PopResult, Store!AfterPop, Turns, Shows
  <2>3. QED
    BY <2>1, <2>2
<1>10. QED
  BY <1>4, <1>5, <1>6, <1>7, <1>8, <1>9

\* create and the sweep forget whole entries and write only the new one.
LEMMA SweepForgets ==
  ASSUME jobs \in Stores
  PROVE  /\ Store!Get => \A k \in JobIds : jobs'[k] \in {jobs[k], NoJob}
         /\ Store!Restart => \A k \in JobIds : jobs'[k] = NoJob
         /\ Store!Tick => jobs' = jobs
         /\ \A j \in JobIds : Store!Create(j) =>
              /\ \A k \in JobIds \ {j} : jobs'[k] \in {jobs[k], NoJob}
              /\ jobs'[j] # NoJob => Turns(j, "queued", None, FALSE)
<1>1. jobs \in [JobIds -> Job \cup {NoJob}]
  BY DEF Stores
<1>2. \A t : /\ Store!Swept(jobs, t) \in [JobIds -> Job \cup {NoJob}]
             /\ \A k \in JobIds : Store!Swept(jobs, t)[k] \in {jobs[k], NoJob}
  BY <1>1 DEF Store!Swept
<1>3. ASSUME NEW j \in JobIds, Store!Create(j)
      PROVE  /\ \A k \in JobIds \ {j} : jobs'[k] \in {jobs[k], NoJob}
             /\ jobs'[j] # NoJob => Turns(j, "queued", None, FALSE)
  <2> DEFINE grown == [Store!Swept(jobs, now) EXCEPT ![j] = Store!NewJob(serial)]
  <2>1. /\ \A k \in JobIds \ {j} : grown[k] \in {jobs[k], NoJob}
        /\ grown[j] = Store!NewJob(serial)
    BY <1>2
  <2>2. \A k \in JobIds : jobs'[k] \in {grown[k], NoJob}
    <3>1. jobs' = Store!EvictedIfOver(grown)
      BY <1>3 DEF Store!Create, Store!AfterCreate
    <3>2. QED
      BY <3>1 DEF Store!EvictedIfOver
  <2>3. QED
    BY <2>1, <2>2 DEF Turns, Shows, Store!NewJob
<1>4. QED
  BY <1>2, <1>3 DEF Store!Get, Store!Restart, Store!Tick, Store!SetJobs, Store!AfterGet

-----------------------------------------------------------------------------
(* Entries, workers and the database *)

Early == {"pooled", "waiting", "check1", "start"}
InRun == Holding \ {"check1", "start"}

\* Where the worker of a job is decides what its entry may show; a job the
\* event loop answers itself is in nobody else's reach until it is complete.
EntryFollows(j) ==
  /\ pc[j] \in {"none", "done"} /\ ~ InFront(j) => Terminal(jobs, j)
  /\ InFront(j) => jobs[j].status = IF front.at = "start" THEN "queued" ELSE "processing"
  /\ pc[j] \in Early => jobs[j].status \in {"queued", "canceled"}
  /\ pc[j] \in InRun => jobs[j].status \in {"processing", "canceled"}
  /\ jobs[j].status = "failed" => pc[j] = "done"

\* The codes that tell the caller why there are no results.
Told == {"CANCELED", "PERSIST_FAILED", "USER_ERROR", "TOO_MANY_ROWS"}

\* The results of a job are in the database from the end of "persisting" on,
\* and never once an exception other than a broken transport is in flight.
ResultsFollow(j) ==
  /\ j \in saved => pc[j] \in {"complete", "failing", "done"}
  /\ pc[j] = "complete" => j \in saved
  /\ pc[j] = "failing" => /\ j \in saved => raised[j] = "INTERNAL_ERROR"
                          /\ raised[j] = "CANCELED" => jobs[j].cancelRequested
  /\ jobs[j].status = "completed" /\ task[j].ctx => j \in saved
  /\ jobs[j].error \in Told => j \notin saved
  /\ jobs[j].error = "CANCELED" => jobs[j].cancelRequested

JobInv(j) == jobs[j] # NoJob => EntryFollows(j) /\ ResultsFollow(j)

LEMMA EntryFacts ==
  ASSUME Store!TypeOK, Store!EntriesCoherent
  PROVE  /\ jobs \in Stores
         /\ \A k \in JobIds : jobs[k] # NoJob =>
              /\ jobs[k].status \in JobStatus
              /\ jobs[k].cancelRequested \in BOOLEAN
              /\ jobs[k].status = "queued" => ~ jobs[k].cancelRequested
              /\ jobs[k].error # None <=> jobs[k].status = "failed"
              /\ k \in known
         /\ None \notin Told
<1>1. jobs \in Stores
  BY SameTypes DEF Store!TypeOK
<1>2. \A k \in JobIds : jobs[k] # NoJob => jobs[k] \in Job
  BY <1>1 DEF Stores
<1>3. None \notin Told
  BY StoreAssumption, ServiceAssumption DEF Told, WorkerCodes
<1>4. QED
  BY <1>1, <1>2, <1>3 DEF Job, Store!EntriesCoherent, Store!Coherent

\* Nothing about the worker of k changes.
Untouched(k) ==
  /\ pc'[k] = pc[k] /\ task'[k] = task[k] /\ raised'[k] = raised[k]
  /\ k \in saved' <=> k \in saved
  /\ InFront(k)' <=> InFront(k)
  /\ InFront(k) => front' = front

LEMMA UntouchedKeeps ==
  ASSUME NEW k \in JobIds, Untouched(k), JobInv(k), jobs'[k] \in {jobs[k], NoJob}
  PROVE  JobInv(k)'
<1>1. CASE jobs'[k] = jobs[k] /\ jobs[k] # NoJob
  <2>1. EntryFollows(k)'
    BY <1>1 DEF Untouched, JobInv, EntryFollows, Terminal
  <2>2. ResultsFollow(k)'
    BY <1>1 DEF Untouched, JobInv, ResultsFollow
  <2>3. QED
    BY <2>1, <2>2 DEF JobInv
<1>2. QED
  BY <1>1 DEF JobInv

LEMMA ShownKeeps ==
  ASSUME NEW k \in JobIds, Untouched(k), JobInv(k), jobs[k] # NoJob,
         NEW cancel \in {jobs[k].cancelRequested, TRUE},
         Turns(k, jobs[k].status, jobs[k].error, cancel)
  PROVE  JobInv(k)'
<1>1. EntryFollows(k)'
  BY DEF Untouched, JobInv, EntryFollows, Terminal, Turns, Shows
<1>2. ResultsFollow(k)'
  BY DEF Untouched, JobInv, ResultsFollow, Turns, Shows
<1>3. QED
  BY <1>1, <1>2 DEF JobInv

\* A worker's step touches no other job.
LEMMA OthersUntouched ==
  ASSUME Control, NEW j \in JobIds, NEW to, Moves(j, to),
         NEW k \in JobIds \ {j}
  PROVE  Untouched(k)
BY DEF Control, Moves, Untouched, InFront

\* The facts about the entry of j its worker's steps need.
Sound(j) ==
  jobs[j] # NoJob =>
    /\ jobs[j].status \in JobStatus
    /\ jobs[j].cancelRequested \in BOOLEAN
    /\ jobs[j].status = "queued" => ~ jobs[j].cancelRequested
    /\ jobs[j].error # None <=> jobs[j].status = "failed"

\* The worker goes on without touching its entry.
LEMMA AdvanceKeeps ==
  ASSUME NEW j \in JobIds, JobInv(j), ~ InFront(j)', jobs'[j] = jobs[j],
         task' = task, saved' = saved,
         \/ pc[j] \in Early /\ pc'[j] \in Early
         \/ /\ pc[j] \in InRun \ {"complete", "failing"}
            /\ pc'[j] \in InRun \ {"complete", "failing"}
  PROVE  JobInv(j)'
<1> SUFFICES ASSUME jobs[j] # NoJob PROVE EntryFollows(j)' /\ ResultsFollow(j)'
  BY DEF JobInv
<1> USE DEF Early, InRun, Holding
<1>1. EntryFollows(j)'
  BY DEF JobInv, EntryFollows, Terminal
<1>2. ResultsFollow(j)'
  BY DEF JobInv, ResultsFollow
<1>3. QED
  BY <1>1, <1>2

\* The worker runs into an exception.
LEMMA RaiseKeeps ==
  ASSUME NEW j \in JobIds, JobInv(j), Sound(j), ~ InFront(j)', jobs'[j] = jobs[j],
         task' = task, pc'[j] = "failing",
         \/ pc[j] = "check1" /\ CancelRequested(jobs, j)
         \/ pc[j] \in InRun \ {"complete", "failing"},
         raised'[j] = "CANCELED" => CancelRequested(jobs, j),
         j \in saved' => raised'[j] = "INTERNAL_ERROR"
  PROVE  JobInv(j)'
<1> SUFFICES ASSUME jobs[j] # NoJob PROVE EntryFollows(j)' /\ ResultsFollow(j)'
  BY DEF JobInv
<1> USE DEF Early, InRun, Holding
<1>1. jobs[j].status \in {"processing", "canceled"}
  BY DEF JobInv, EntryFollows, Sound, CancelRequested
<1>2. EntryFollows(j)'
  BY <1>1 DEF EntryFollows
<1>3. jobs[j].error = None
  BY <1>1 DEF Sound
<1>4. None \notin Told
  BY StoreAssumption, ServiceAssumption DEF Told, WorkerCodes
<1>5. ResultsFollow(j)'
  BY <1>1, <1>3, <1>4 DEF ResultsFollow, CancelRequested, Told
<1>6. QED
  BY <1>2, <1>5

\* The worker ends its job, unless somebody canceled it first.
LEMMA EndKeeps ==
  ASSUME NEW j \in JobIds, JobInv(j), Sound(j), ~ InFront(j)', task' = task, saved' = saved,
         pc[j] \in InRun, pc'[j] = "done",
         NEW code \in Codes \cup {None},
         IF Live(jobs, j)
         THEN Turns(j, IF code = None THEN "completed" ELSE "failed", code,
                    jobs[j].cancelRequested)
         ELSE jobs'[j] = jobs[j],
         code = None => (task[j].ctx => j \in saved),
         code \in Told => j \notin saved,
         code = "CANCELED" => (jobs[j] # NoJob => jobs[j].cancelRequested)
  PROVE  JobInv(j)'
<1> SUFFICES ASSUME jobs'[j] # NoJob PROVE EntryFollows(j)' /\ ResultsFollow(j)'
  BY DEF JobInv
<1>1. jobs[j] # NoJob
  BY DEF Live
<1>2. None \notin Told
  BY StoreAssumption, ServiceAssumption DEF Told, WorkerCodes
<1>3. jobs[j].status \in {"processing", "canceled"} /\ jobs[j].error = None
  BY <1>1 DEF JobInv, EntryFollows, Sound
<1>4. Live(jobs, j) <=> jobs[j].status = "processing"
  BY <1>1, <1>3 DEF Live, Terminal, TERMINAL
<1>5. CASE Live(jobs, j)
  <2>1. EntryFollows(j)'
    BY <1>5 DEF EntryFollows, Terminal, TERMINAL, Turns, Shows, Early, InRun, Holding
  <2>2. ResultsFollow(j)'
    BY <1>1, <1>2, <1>5 DEF ResultsFollow, Turns, Shows, Told
  <2>3. QED
    BY <2>1, <2>2
<1>6. CASE ~ Live(jobs, j)
  <2>1. jobs'[j] = jobs[j] /\ jobs[j].status = "canceled"
    BY <1>3, <1>4, <1>6
  <2>2. EntryFollows(j)'
    BY <2>1 DEF EntryFollows, Terminal, TERMINAL, Early, InRun, Holding
  <2>3. ResultsFollow(j)'
    BY <1>2, <1>3, <2>1 DEF ResultsFollow, Told
  <2>4. QED
    BY <2>2, <2>3
<1>7. QED
  BY <1>5, <1>6

\* The worker's own job after each of its steps; the other entries stay.
LEMMA WorkerKeepsOwn ==
  ASSUME Control, jobs \in Stores, NEW j \in JobIds, JobInv(j), Sound(j), Worker(j)
  PROVE  JobInv(j)' /\ OnlyEntry(j)
<1> USE DEF Control
<1>1. pc[j] # "none" /\ ~ InFront(j) /\ task' = task /\ front' = front
  <2>1. CASE TakeThread(j)
    <3>1. pool[1] \in ToSet(pool) /\ Head(pool) = pool[1]
      BY <2>1 DEF TakeThread, PoolOK, ToSet
    <3>2. pc[j] = "pooled"
      BY <2>1, <3>1 DEF TakeThread, PoolOK
    <3>3. QED
      BY <2>1, <3>2 DEF TakeThread, HandsOK
  <2>2. CASE ~ TakeThread(j)
    BY <2>2, WorkerMoves DEF Moves, HandsOK
  <2>3. QED
    BY <2>1, <2>2
<1>2. ~ InFront(j)'
  BY <1>1 DEF InFront
<1>3. ASSUME UNCHANGED storeVars PROVE OnlyEntry(j) /\ jobs'[j] = jobs[j]
  BY <1>3 DEF storeVars, OnlyEntry
<1> USE DEF Go, Raise, rest, Early, InRun, Holding
<1>4. CASE TakeThread(j)
  <2>1. pool[1] \in ToSet(pool) /\ Head(pool) = pool[1]
    BY <1>4 DEF TakeThread, PoolOK, ToSet
  <2>2. pc[j] = "pooled" /\ pc'[j] = "waiting" /\ saved' = saved /\ UNCHANGED storeVars
    BY <1>4, <2>1 DEF TakeThread, PoolOK
  <2>3. QED
    BY <1>1, <1>2, <1>3, <2>2, AdvanceKeeps
<1>5. CASE AcquireSlot(j)
  <2>1. pc[j] = "waiting" /\ pc'[j] = "check1" /\ saved' = saved /\ UNCHANGED storeVars
    BY <1>5 DEF AcquireSlot
  <2>2. QED
    BY <1>1, <1>2, <1>3, <2>1, AdvanceKeeps
<1>6. ASSUME NEW at, NEW to, Check(j, at, to),
             \/ at = "check1" /\ to = "start"
             \/ at = "check2" /\ to = "clustering"
             \/ at = "check3" /\ to = "caching"
      PROVE  JobInv(j)' /\ OnlyEntry(j)
  <2>1. pc[j] = at /\ saved' = saved /\ UNCHANGED storeVars
    BY <1>6 DEF Check
  <2>2. CASE CancelRequested(jobs, j)
    <3>1. pc'[j] = "failing" /\ raised'[j] = "CANCELED"
      BY <1>6, <2>2 DEF Check
    <3>2. j \notin saved'
      BY <1>6, <2>1, <2>2 DEF JobInv, ResultsFollow, CancelRequested
    <3>3. QED
      BY <1>1, <1>2, <1>3, <1>6, <2>1, <2>2, <3>1, <3>2, RaiseKeeps
  <2>3. CASE ~ CancelRequested(jobs, j)
    <3>1. pc'[j] = to
      BY <1>6, <2>3 DEF Check
    <3>2. QED
      BY <1>1, <1>2, <1>3, <1>6, <2>1, <3>1, AdvanceKeeps
  <2>4. QED
    BY <2>2, <2>3
<1>7. CASE Check1(j) \/ Check2(j) \/ Check3(j)
  BY <1>6, <1>7 DEF Check1, Check2, Check3
<1>8. ASSUME NEW end \in Codes \cup {"ok"}, NEW to \in {"report", "check3"},
             EndsWith(j, end, to), pc[j] \in {"reading", "clustering"},
             end # "CANCELED", UNCHANGED <<storeVars, rest>>
      PROVE  JobInv(j)' /\ OnlyEntry(j)
  <2>1. CASE end = "ok"
    <3>1. pc'[j] = to
      BY <1>8, <2>1 DEF EndsWith
    <3>2. QED
      BY <1>1, <1>2, <1>3, <1>8, <3>1, AdvanceKeeps
  <2>2. CASE end # "ok"
    <3>1. pc'[j] = "failing" /\ raised'[j] = end
      BY <1>8, <2>2 DEF EndsWith
    <3>2. jobs[j] # NoJob => j \notin saved'
      BY <1>8 DEF JobInv, ResultsFollow
    <3>3. CASE jobs[j] # NoJob
      BY <1>1, <1>2, <1>3, <1>8, <3>1, <3>2, <3>3, RaiseKeeps
    <3>4. CASE jobs[j] = NoJob
      BY <1>3, <1>8, <3>4 DEF JobInv
    <3>5. QED
      BY <3>3, <3>4
  <2>3. QED
    BY <2>1, <2>2
<1>9. task[j].file \in Files
  BY <1>1 DEF HandsOK, Task
<1>10. CASE Read(j)
  <2>1. PICK end \in ReadEnds[task[j].file] : EndsWith(j, end, "report")
    BY <1>10 DEF Read
  <2>2. end \in (Codes \cup {"ok"}) \ {"CANCELED"}
    BY <1>9, ServiceAssumption DEF WorkerCodes
  <2>3. QED
    BY <1>8, <1>10, <2>1, <2>2 DEF Read
<1>11. CASE Cluster(j)
  <2>1. PICK end \in ClusterEnds[task[j].file] : EndsWith(j, end, "check3")
    BY <1>11 DEF Cluster
  <2>2. end \in (Codes \cup {"ok"}) \ {"CANCELED"}
    BY <1>9, ServiceAssumption DEF WorkerCodes
  <2>3. QED
    BY <1>8, <1>11, <2>1, <2>2 DEF Cluster
<1>12. CASE Start(j)
  <2>1. pc[j] = "start" /\ saved' = saved /\ pc'[j] \in {"finish", "reading"}
    BY <1>12 DEF Start
  <2>2. PICK stage : Store!MarkProcessing(j, stage)
    BY <1>12 DEF Start
  <2>3. /\ OnlyEntry(j)
        /\ IF jobs[j] # NoJob /\ jobs[j].status = "queued"
           THEN Turns(j, "processing", jobs[j].error, jobs[j].cancelRequested)
           ELSE jobs'[j] = jobs[j]
    BY <2>2, MethodWrites
  <2>4. ASSUME jobs[j] # NoJob PROVE EntryFollows(j)' /\ ResultsFollow(j)'
    <3>1. jobs[j].status \in {"queued", "canceled"}
      BY <2>1, <2>4 DEF JobInv, EntryFollows
    <3>2. jobs'[j].status \in {"processing", "canceled"} /\ jobs'[j].error = jobs[j].error
          /\ jobs'[j].cancelRequested = jobs[j].cancelRequested
      BY <2>3, <2>4, <3>1 DEF Turns, Shows
    <3>3. EntryFollows(j)'
      BY <1>2, <2>1, <3>2 DEF EntryFollows
    <3>4. ResultsFollow(j)'
      BY <1>1, <2>1, <2>4, <3>2 DEF JobInv, ResultsFollow
    <3>5. QED
      BY <3>3, <3>4
  <2>5. QED
    BY <2>3, <2>4 DEF JobInv
<1>13. ASSUME jobs[j] # NoJob => Turns(j, jobs[j].status, jobs[j].error, jobs[j].cancelRequested),
              jobs[j] = NoJob => jobs'[j] = NoJob, saved' = saved,
              pc[j] \in InRun \ {"complete", "failing"},
              pc'[j] \in InRun \ {"complete", "failing"}
       PROVE  JobInv(j)'
  <2>1. ASSUME jobs[j] # NoJob PROVE EntryFollows(j)' /\ ResultsFollow(j)'
    <3>1. EntryFollows(j)'
      BY <1>2, <1>13, <2>1 DEF JobInv, EntryFollows, Turns, Shows
    <3>2. ResultsFollow(j)'
      BY <1>1, <1>13, <2>1 DEF JobInv, ResultsFollow, Turns, Shows
    <3>3. QED
      BY <3>1, <3>2
  <2>2. QED
    BY <1>13, <2>1 DEF JobInv
<1>14. CASE Report(j)
  <2>1. /\ pc[j] = "report" /\ saved' = saved /\ pc'[j] = "check2"
        /\ Store!UpdateProgress(j, 25, "vectorizing")
    BY <1>14 DEF Report
  <2>2. /\ OnlyEntry(j)
        /\ IF jobs[j] # NoJob
           THEN Turns(j, jobs[j].status, jobs[j].error, jobs[j].cancelRequested)
           ELSE jobs'[j] = jobs[j]
    BY <2>1, MethodWrites
  <2>3. QED
    BY <1>13, <2>1, <2>2
<1>15. CASE CachePut(j)
  <2>1. pc[j] = "caching" /\ pc'[j] = "finish" /\ saved' = saved /\ UNCHANGED storeVars
    BY <1>15 DEF CachePut
  <2>2. QED
    BY <1>1, <1>2, <1>3, <2>1, AdvanceKeeps
<1>16. ASSUME NEW body, Store!MarkCompleted(j, body), pc[j] \in InRun, pc'[j] = "done",
              saved' = saved, task[j].ctx /\ jobs[j] # NoJob => j \in saved
       PROVE  JobInv(j)' /\ OnlyEntry(j)
  <2>1. /\ OnlyEntry(j)
        /\ IF Live(jobs, j)
           THEN Turns(j, "completed", jobs[j].error, jobs[j].cancelRequested)
           ELSE jobs'[j] = jobs[j]
    BY <1>16, MethodWrites
  <2>2. CASE jobs[j] = NoJob
    BY <2>1, <2>2 DEF Live, JobInv
  <2>3. CASE jobs[j] # NoJob
    <3>1. Live(jobs, j) => jobs[j].error = None
      BY <2>3 DEF Live, Terminal, TERMINAL, Sound
    <3>2. None \notin Told /\ None # "CANCELED"
      BY StoreAssumption, ServiceAssumption DEF Told, WorkerCodes
    <3>3. QED
      BY <1>1, <1>2, <1>16, <2>1, <2>3, <3>1, <3>2, EndKeeps
  <2>4. QED
    BY <2>2, <2>3
<1>17. CASE Finish(j)
  <2>1. CASE task[j].ctx
    <3>1. /\ pc[j] = "finish" /\ saved' = saved /\ pc'[j] = "persisting"
          /\ Store!UpdateProgress(j, 85, "persisting")
      BY <1>17, <2>1 DEF Finish
    <3>2. /\ OnlyEntry(j)
          /\ IF jobs[j] # NoJob
             THEN Turns(j, jobs[j].status, jobs[j].error, jobs[j].cancelRequested)
             ELSE jobs'[j] = jobs[j]
      BY <3>1, MethodWrites
    <3>3. QED
      BY <1>13, <3>1, <3>2
  <2>2. CASE ~ task[j].ctx
    <3>1. /\ pc[j] = "finish" /\ saved' = saved /\ pc'[j] = "done"
          /\ Store!MarkCompleted(j, "full")
      BY <1>17, <2>2 DEF Finish
    <3>2. QED
      BY <1>16, <2>2, <3>1
  <2>3. QED
    BY <2>1, <2>2
<1>18. CASE Persist(j)
  <2>1. pc[j] = "persisting" /\ UNCHANGED storeVars
    BY <1>18 DEF Persist
  <2>2. PICK end \in PersistEnds :
          CASE end = "ok" -> Go(j, "complete") /\ saved' = saved \cup {j}
            [] end = "refused" -> Raise(j, "PERSIST_FAILED") /\ UNCHANGED saved
            [] end = "broken" -> /\ Raise(j, "INTERNAL_ERROR")
                                 /\ saved' \in {saved, saved \cup {j}}
    BY <1>18 DEF Persist
  <2>3. jobs[j] # NoJob => j \notin saved
    BY <2>1 DEF JobInv, ResultsFollow
  <2>4. CASE jobs[j] = NoJob
    BY <1>3, <2>1, <2>4 DEF JobInv
  <2>5. CASE jobs[j] # NoJob /\ end = "ok"
    <3>1. pc'[j] = "complete" /\ j \in saved' /\ jobs'[j] = jobs[j]
      BY <1>3, <2>1, <2>2, <2>5
    <3>2. jobs[j].status \in {"processing", "canceled"} /\ jobs[j].error = None
      BY <2>1, <2>5 DEF JobInv, EntryFollows, Sound
    <3>3. None \notin Told
      BY StoreAssumption, ServiceAssumption DEF Told, WorkerCodes
    <3>4. EntryFollows(j)'
      BY <1>2, <3>1, <3>2 DEF EntryFollows
    <3>5. ResultsFollow(j)'
      BY <3>1, <3>2, <3>3 DEF ResultsFollow, Told
    <3>6. QED
      BY <1>3, <2>1, <3>4, <3>5 DEF JobInv
  <2>6. CASE jobs[j] # NoJob /\ end = "refused"
    <3>1. pc'[j] = "failing" /\ raised'[j] = "PERSIST_FAILED" /\ saved' = saved
      BY <2>2, <2>6
    <3>2. QED
      BY <1>1, <1>2, <1>3, <2>1, <2>3, <2>6, <3>1, RaiseKeeps
  <2>7. CASE jobs[j] # NoJob /\ end = "broken"
    <3>1. pc'[j] = "failing" /\ raised'[j] = "INTERNAL_ERROR"
      BY <2>2, <2>7
    <3>2. QED
      BY <1>1, <1>2, <1>3, <2>1, <2>7, <3>1, RaiseKeeps
  <2>8. QED
    BY <2>4, <2>5, <2>6, <2>7, ServiceAssumption
<1>19. CASE Complete(j)
  <2>1. /\ pc[j] = "complete" /\ saved' = saved /\ pc'[j] = "done"
        /\ Store!MarkCompleted(j, "compact")
    BY <1>19 DEF Complete
  <2>2. jobs[j] # NoJob => j \in saved
    BY <2>1 DEF JobInv, ResultsFollow
  <2>3. QED
    BY <1>16, <2>1, <2>2
<1>20. CASE Fail(j)
  <2>1. /\ pc[j] = "failing" /\ saved' = saved /\ pc'[j] = "done"
        /\ Store!MarkFailed(j, raised[j]) /\ raised[j] \in Codes
    BY <1>20 DEF Fail, HandsOK
  <2>2. /\ OnlyEntry(j)
        /\ IF Live(jobs, j)
           THEN Turns(j, "failed", raised[j], jobs[j].cancelRequested)
           ELSE jobs'[j] = jobs[j]
    BY <2>1, MethodWrites
  <2>3. CASE jobs[j] = NoJob
    BY <2>2, <2>3 DEF Live, JobInv
  <2>4. CASE jobs[j] # NoJob
    <3>1. raised[j] # None
      BY <2>1, StoreAssumption
    <3>2. /\ raised[j] \in Told => j \notin saved
          /\ raised[j] = "CANCELED" => jobs[j].cancelRequested
      BY <2>1, <2>4 DEF JobInv, ResultsFollow, Told
    <3>3. QED
      BY <1>1, <1>2, <2>1, <2>2, <2>4, <3>1, <3>2, EndKeeps
  <2>5. QED
    BY <2>3, <2>4
<1>21. QED
  BY <1>4, <1>5, <1>7, <1>10, <1>11, <1>12, <1>14, <1>15, <1>17, <1>18, <1>19, <1>20 DEF Worker

LEMMA CreateKeeps ==
  ASSUME Control, jobs \in Stores, \A k \in JobIds : JobInv(k),
         NEW j \in JobIds, CreateJob(j)
  PROVE  \A k \in JobIds : JobInv(k)'
<1> USE DEF Control
<1>1. /\ front.at = "create" /\ Store!Create(j) /\ j \notin known
      /\ task' = [task EXCEPT ![j] = front.task]
      /\ UNCHANGED <<raised, saved>>
  BY DEF CreateJob, Store!Create
<1>2. \A k \in JobIds : ~ InFront(k)
  BY <1>1 DEF InFront
<1>3. \/ front' = [at |-> "start", job |-> j] /\ pc' = pc
      \/ front' = Idle /\ pc' = [pc EXCEPT ![j] = "pooled"]
  BY DEF CreateJob
<1>4. \A k \in JobIds : InFront(k)' => k = j
  BY <1>3 DEF InFront, Idle
<1>5. pc[j] = "none" /\ j \notin saved
  BY <1>1 DEF HandsOK
<1>6. /\ \A k \in JobIds \ {j} : jobs'[k] \in {jobs[k], NoJob}
      /\ jobs'[j] # NoJob => Turns(j, "queued", None, FALSE)
  BY <1>1, SweepForgets
<1>7. ASSUME NEW k \in JobIds \ {j} PROVE JobInv(k)'
  <2>1. Untouched(k)
    BY <1>1, <1>2, <1>3, <1>4 DEF Untouched
  <2>2. QED
    BY <1>6, <2>1, UntouchedKeeps
<1>8. ASSUME jobs'[j] # NoJob PROVE EntryFollows(j)' /\ ResultsFollow(j)'
  <2>1. jobs'[j].status = "queued" /\ jobs'[j].error = None
    BY <1>6, <1>8 DEF Turns, Shows
  <2>2. None \notin Told
    BY StoreAssumption, ServiceAssumption DEF Told, WorkerCodes
  <2>3. \/ pc'[j] = "none" /\ InFront(j)' /\ front'.at = "start"
        \/ pc'[j] = "pooled" /\ ~ InFront(j)'
    BY <1>3, <1>5 DEF InFront, Idle
  <2>4. EntryFollows(j)'
    BY <2>1, <2>3 DEF EntryFollows, Early, InRun, Holding
  <2>5. ResultsFollow(j)'
    BY <1>1, <1>5, <2>1, <2>2, <2>3 DEF ResultsFollow, Told
  <2>6. QED
    BY <2>4, <2>5
<1>9. QED
  BY <1>7, <1>8 DEF JobInv

LEMMA FrontKeeps ==
  ASSUME Control, jobs \in Stores, \A k \in JobIds : JobInv(k) /\ Sound(k),
         FrontStart \/ FrontComplete, NEW j \in JobIds, j = front.job
  PROVE  \A k \in JobIds : JobInv(k)'
<1> USE DEF Control
<1>1. front.at \in {"start", "complete"} /\ InFront(j)
      /\ \A k \in JobIds : InFront(k) => k = j
  BY DEF FrontStart, FrontComplete, FrontOK, Idle, InFront
<1>2. pc[j] = "none" /\ j \notin saved /\ ~ task[j].ctx
  BY <1>1 DEF HandsOK, Answered
<1>3. UNCHANGED <<pc, task, raised, saved>>
  BY DEF FrontStart, FrontComplete
<1>4. CASE FrontStart
  <2>1. front' = [front EXCEPT !.at = "complete"] /\ Store!MarkProcessing(j, "cache")
        /\ front.at = "start"
    BY <1>4 DEF FrontStart
  <2>2. front'.at = "complete" /\ front'.job = j
    BY <1>1, <2>1 DEF FrontOK, Idle
  <2>3. InFront(j)' /\ \A k \in JobIds : InFront(k)' => k = j
    BY <2>2 DEF InFront
  <2>4. /\ OnlyEntry(j)
        /\ IF jobs[j] # NoJob /\ jobs[j].status = "queued"
           THEN Turns(j, "processing", jobs[j].error, jobs[j].cancelRequested)
           ELSE jobs'[j] = jobs[j]
    BY <1>1, <2>1, MethodWrites
  <2>5. ASSUME jobs[j] # NoJob PROVE EntryFollows(j)' /\ ResultsFollow(j)'
    <3>1. jobs[j].status = "queued" /\ jobs[j].error = None
      BY <1>1, <2>1, <2>5 DEF JobInv, EntryFollows, Sound
    <3>2. Turns(j, "processing", None, jobs[j].cancelRequested)
      BY <2>4, <2>5, <3>1
    <3>3. None \notin Told
      BY StoreAssumption, ServiceAssumption DEF Told, WorkerCodes
    <3>4. EntryFollows(j)'
      BY <1>2, <1>3, <2>2, <2>3, <3>2 DEF EntryFollows, Turns, Shows, Early, InRun, Holding
    <3>5. ResultsFollow(j)'
      BY <1>2, <1>3, <3>2, <3>3 DEF ResultsFollow, Turns, Shows, Told
    <3>6. QED
      BY <3>4, <3>5
  <2>6. ASSUME NEW k \in JobIds \ {j} PROVE JobInv(k)'
    <3>1. Untouched(k)
      BY <1>1, <1>3, <2>3 DEF Untouched
    <3>2. QED
      BY <2>4, <3>1, UntouchedKeeps DEF OnlyEntry
  <2>7. QED
    BY <2>4, <2>5, <2>6 DEF JobInv
<1>5. CASE FrontComplete
  <2>1. front' = Idle /\ Store!MarkCompleted(j, "full") /\ front.at = "complete"
    BY <1>5 DEF FrontComplete
  <2>2. \A k \in JobIds : ~ InFront(k)'
    BY <2>1 DEF InFront, Idle
  <2>3. /\ OnlyEntry(j)
        /\ IF Live(jobs, j)
           THEN Turns(j, "completed", jobs[j].error, jobs[j].cancelRequested)
           ELSE jobs'[j] = jobs[j]
    BY <1>1, <2>1, MethodWrites
  <2>4. ASSUME jobs[j] # NoJob PROVE EntryFollows(j)' /\ ResultsFollow(j)'
    <3>1. jobs[j].status = "processing" /\ jobs[j].error = None
      BY <1>1, <2>1, <2>4 DEF JobInv, EntryFollows, Sound
    <3>2. Live(jobs, j)
      BY <2>4, <3>1 DEF Live, Terminal, TERMINAL
    <3>3. Turns(j, "completed", None, jobs[j].cancelRequested)
      BY <2>3, <3>1, <3>2
    <3>4. None \notin Told
      BY StoreAssumption, ServiceAssumption DEF Told, WorkerCodes
    <3>5. EntryFollows(j)'
      BY <1>2, <1>3, <2>2, <3>3
         DEF EntryFollows, Terminal, TERMINAL, Turns, Shows, Early, InRun, Holding
    <3>6. ResultsFollow(j)'
      BY <1>2, <1>3, <3>3, <3>4 DEF ResultsFollow, Turns, Shows, Told
    <3>7. QED
      BY <3>5, <3>6
  <2>5. ASSUME NEW k \in JobIds \ {j} PROVE JobInv(k)'
    <3>1. Untouched(k)
      BY <1>1, <1>3, <2>2 DEF Untouched
    <3>2. QED
      BY <2>3, <3>1, UntouchedKeeps DEF OnlyEntry
  <2>6. CASE jobs[j] = NoJob
    BY <2>3, <2>5, <2>6 DEF JobInv, Live
  <2>7. QED
    BY <2>4, <2>5, <2>6 DEF JobInv
<1>6. QED
  BY <1>4, <1>5

\* A client's call, which is none of the worker's business until it looks.
LEMMA ClientKeeps ==
  ASSUME Control, jobs \in Stores, \A k \in JobIds : JobInv(k) /\ Sound(k),
         NEW j \in JobIds, Fetch(j) \/ Cancel(j)
  PROVE  \A k \in JobIds : JobInv(k)'
<1>1. /\ \A k \in JobIds : Untouched(k)
      /\ CanName(j) /\ UNCHANGED <<pc, task, raised, saved, front>>
  BY DEF Fetch, Cancel, elsewhere, rest, Untouched, InFront
<1>2. ASSUME OnlyEntry(j), JobInv(j)' PROVE \A k \in JobIds : JobInv(k)'
  <2>1. ASSUME NEW k \in JobIds \ {j} PROVE JobInv(k)'
    BY <1>1, <1>2, UntouchedKeeps DEF OnlyEntry
  <2>2. QED
    BY <1>2, <2>1
<1>3. CASE Fetch(j)
  <2>1. Store!PopResult(j)
    BY <1>3 DEF Fetch
  <2>2. /\ OnlyEntry(j)
        /\ IF jobs[j] # NoJob
           THEN Turns(j, jobs[j].status, jobs[j].error, jobs[j].cancelRequested)
           ELSE jobs'[j] = jobs[j]
    BY <2>1, MethodWrites
  <2>3. CASE jobs[j] # NoJob
    BY <1>1, <1>2, <2>2, <2>3, ShownKeeps
  <2>4. CASE jobs[j] = NoJob
    BY <1>2, <2>2, <2>4 DEF JobInv
  <2>5. QED
    BY <2>3, <2>4
<1>4. CASE Cancel(j) /\ Live(jobs, j)
  <2>1. Store!RequestCancel(j) /\ jobs[j] # NoJob
    BY <1>4 DEF Cancel, Live
  <2>2. /\ OnlyEntry(j)
        /\ Turns(j, IF jobs[j].status = "queued" THEN "canceled" ELSE jobs[j].status,
                 jobs[j].error, TRUE)
    BY <1>4, <2>1, MethodWrites
  <2>3. CASE jobs[j].status # "queued"
    BY <1>1, <1>2, <2>1, <2>2, <2>3, ShownKeeps
  <2>4. CASE jobs[j].status = "queued"
    <3>1. Turns(j, "canceled", jobs[j].error, TRUE) /\ ~ InFront(j) /\ ~ InFront(j)'
      BY <1>1, <2>2, <2>4 DEF CanName, InFront
    <3>2. EntryFollows(j)'
      BY <1>1, <2>1, <2>4, <3>1
         DEF JobInv, EntryFollows, Turns, Shows, Terminal, TERMINAL
    <3>3. ResultsFollow(j)'
      BY <1>1, <2>1, <2>4, <3>1 DEF JobInv, ResultsFollow, Turns, Shows
    <3>4. QED
      BY <1>2, <2>2, <3>2, <3>3 DEF JobInv
  <2>5. QED
    BY <2>3, <2>4
<1>5. CASE Cancel(j) /\ ~ Live(jobs, j)
  <2>1. \A k \in JobIds : jobs'[k] \in {jobs[k], NoJob}
    BY <1>5, SweepForgets DEF Cancel
  <2>2. QED
    BY <1>1, <2>1, UntouchedKeeps
<1>6. QED
  BY <1>3, <1>4, <1>5

LEMMA JobsStep ==
  ASSUME Control, Store!TypeOK, Store!EntriesCoherent, \A k \in JobIds : JobInv(k),
         [Next]_vars
  PROVE  \A k \in JobIds : JobInv(k)'
<1>1. jobs \in Stores /\ \A k \in JobIds : Sound(k)
  BY EntryFacts DEF Sound
<1>2. ASSUME NEW j \in JobIds, Worker(j) PROVE \A k \in JobIds : JobInv(k)'
  <2>1. JobInv(j)' /\ OnlyEntry(j)
    BY <1>1, <1>2, WorkerKeepsOwn
  <2>2. ASSUME NEW k \in JobIds \ {j} PROVE Untouched(k)
    <3>1. CASE TakeThread(j)
      BY <3>1 DEF TakeThread, Control, Untouched, InFront
    <3>2. CASE ~ TakeThread(j)
      BY <1>2, <3>2, WorkerMoves, OthersUntouched
    <3>3. QED
      BY <3>1, <3>2
  <2>3. ASSUME NEW k \in JobIds \ {j} PROVE JobInv(k)'
    BY <2>1, <2>2, UntouchedKeeps DEF OnlyEntry
  <2>4. QED
    BY <2>1, <2>3
<1>3. ASSUME NEW j \in JobIds, CreateJob(j) PROVE \A k \in JobIds : JobInv(k)'
  BY <1>1, <1>3, CreateKeeps
<1>4. ASSUME NEW j \in JobIds, Fetch(j) \/ Cancel(j) PROVE \A k \in JobIds : JobInv(k)'
  BY <1>1, <1>4, ClientKeeps
<1>5. CASE FrontStart \/ FrontComplete
  <2>1. front.job \in JobIds
    BY <1>5 DEF FrontStart, FrontComplete, Control, FrontOK, Idle
  <2>2. QED
    BY <1>1, <1>5, <2>1, FrontKeeps
<1>6. ASSUME NEW f \in Files, NEW ctx \in Contexts, Receive(f, ctx)
      PROVE  \A k \in JobIds : JobInv(k)'
  <2>1. front = Idle /\ front'.at = "create" /\ UNCHANGED <<jobs, pc, task, raised, saved>>
    BY <1>6 DEF Receive, storeVars
  <2>2. \A k \in JobIds : Untouched(k)
    BY <2>1 DEF Untouched, InFront, Idle
  <2>3. QED
    BY <2>1, <2>2, UntouchedKeeps
<1>7. CASE Poll \/ Tick \/ UNCHANGED vars
  <2>1. \A k \in JobIds : Untouched(k)
    BY <1>7 DEF Poll, Tick, vars, elsewhere, rest, Untouched, InFront
  <2>2. \A k \in JobIds : jobs'[k] \in {jobs[k], NoJob}
    BY <1>1, <1>7, SweepForgets DEF Poll, Tick, vars, storeVars
  <2>3. QED
    BY <2>1, <2>2, UntouchedKeeps
<1>8. CASE Restart
  BY <1>1, <1>8, SweepForgets DEF Restart, JobInv
<1>9. QED
  BY <1>2, <1>3, <1>4, <1>5, <1>6, <1>7, <1>8 DEF Next

LEMMA JobsHold == Spec => [](Control /\ Store!TypeOK /\ Store!EntriesCoherent
                             /\ \A k \in JobIds : JobInv(k))
<1> DEFINE Jobs == \A k \in JobIds : JobInv(k)
<1>1. Init => Jobs
  BY DEF Init, Store!Init, JobInv
<1>2. Control /\ Store!TypeOK /\ Store!EntriesCoherent /\ Jobs /\ [Next]_vars => Jobs'
  BY JobsStep
<1>3. Spec => []Store!TypeOK /\ []Store!EntriesCoherent
  BY ServiceUsesStore, StoreTheorems DEF UsesStore
<1> HIDE DEF Jobs
<1>4. Spec => []Jobs
  BY <1>1, <1>2, <1>3, ControlHolds, PTL DEF Spec
<1>5. Spec => [](Control /\ Store!TypeOK /\ Store!EntriesCoherent /\ Jobs)
  BY <1>3, <1>4, ControlHolds, PTL
<1>6. QED
  BY <1>5 DEF Jobs

\* Entry and worker agree in every reachable state, however cancels, sweeps
\* and evictions fall between the worker's steps.
THEOREM WorkerIsFollowed == Spec => []StatusFollowsWorker
<1>1. Control /\ Store!EntriesCoherent /\ (\A k \in JobIds : JobInv(k)) => StatusFollowsWorker
  <2> SUFFICES ASSUME Control, \A k \in JobIds : JobInv(k),
                      NEW j \in JobIds, jobs[j] # NoJob
               PROVE  /\ pc[j] \in {"pooled", "waiting", "check1", "start"}
                           => jobs[j].status \in {"queued", "canceled"}
                      /\ pc[j] \in Holding \ {"check1", "start"}
                           => jobs[j].status \in {"processing", "canceled"}
                      /\ pc[j] = "done" => Terminal(jobs, j)
    BY DEF StatusFollowsWorker
  <2>1. pc[j] = "done" => ~ InFront(j)
    BY DEF Control, HandsOK
  <2>2. QED
    BY <2>1 DEF JobInv, EntryFollows, Early, InRun
<1>2. QED
  BY <1>1, JobsHold, PTL

\* No entry is left that shows an unfinished job nobody will finish.
THEOREM NobodyIsForgotten == Spec => []LiveHasWorker
<1>1. (\A k \in JobIds : JobInv(k)) => LiveHasWorker
  BY DEF JobInv, EntryFollows, LiveHasWorker, Live
<1>2. QED
  BY <1>1, JobsHold, PTL

\* "completed" with a context means the results are in the database, and a
\* failure with a cause means they are not.
THEOREM VerdictsAreTrue == Spec => []VerdictsTruthful
<1>1. (\A k \in JobIds : JobInv(k)) => VerdictsTruthful
  BY DEF JobInv, ResultsFollow, VerdictsTruthful, Told
<1>2. QED
  BY <1>1, JobsHold, PTL

-----------------------------------------------------------------------------
(* The cache inside the service, and what is proved of its methods *)

\* The cache inside the service: its keys are the uploads.
Cached == INSTANCE ResultCacheProofs
            WITH Keys <- Files, Sizes <- {BodySize[f] : f \in Files},
                 MaxOps <- 0, clock <- 0, used <- [f \in Files |-> 0]

\* The service meets the assumptions of the cache's lemmas, and its operators on
\* the cache are the ones they speak of.
LEMMA CacheIsInstance ==
  /\ Cached!CacheAssumption /\ Cached!SizesAssumption /\ Cached!BoundAssumption
  /\ \A s : Cached!Bytes(s) = Bytes(s)
  /\ \A s, k : Cached!Deleted(s, k) = Deleted(s, k)
  /\ \A s, n : Cached!Over(s, n) <=> Over(s, n)
  /\ \A c : Cached!CachedKeys(c) = CachedKeys(c)
  /\ \A c, k : Cached!AfterCacheGet(c, k) = AfterCacheGet(c, k)
  /\ \A c, k, n : Cached!AfterPut(c, k, n) = AfterPut(c, k, n)
<1>1. Cached!CacheAssumption /\ Cached!SizesAssumption /\ Cached!BoundAssumption
  BY CacheAssumption, ServiceAssumption
     DEF Cached!CacheAssumption, Cached!SizesAssumption, Cached!BoundAssumption
<1>2. \A s : Cached!Bytes(s) = Bytes(s)
  BY DEF Cached!Bytes, Bytes, Cached!FoldLeft, FoldLeft,
     Cached!MapThenFoldSet, MapThenFoldSet, Cached!Max, Max
<1>3. \A s, k : Cached!Deleted(s, k) = Deleted(s, k)
  BY DEF Cached!Deleted, Deleted, Cached!RemoveFirstMatch, RemoveFirstMatch,
     Cached!RemoveAt, RemoveAt, Cached!SelectInSeq, SelectInSeq, Cached!Min, Min
<1>4. \A s, n : Cached!Over(s, n) <=> Over(s, n)
  BY DEF Cached!Over, Over
<1>5. \A c : Cached!CachedKeys(c) = CachedKeys(c)
  BY DEF Cached!CachedKeys, CachedKeys
<1>6. \A c, k : Cached!SizeOf(c, k) = SizeOf(c, k)
  BY DEF Cached!SizeOf, SizeOf, Cached!SelectInSeq, SelectInSeq, Cached!Min, Min
<1>7. \A c, k : Cached!AfterCacheGet(c, k) = AfterCacheGet(c, k)
  <2>1. Cached!Enabled <=> Enabled
    BY DEF Cached!Enabled, Enabled
  <2>2. QED
    BY <1>3, <1>5, <1>6, <2>1 DEF Cached!AfterCacheGet, AfterCacheGet
<1>8. \A s, n : Cached!Evicted(s, n) = Evicted(s, n)
  BY DEF Cached!Evicted, Evicted, Cached!Over, Over, Cached!Bytes, Bytes,
     Cached!FoldLeft, FoldLeft, Cached!MapThenFoldSet, MapThenFoldSet, Cached!Max, Max
<1>9. \A c, k, n : Cached!AfterPut(c, k, n) = AfterPut(c, k, n)
  BY <1>3, <1>6, <1>8
     DEF Cached!AfterPut, AfterPut, Cached!Enabled, Enabled, Cached!Oversized, Oversized
<1>10. QED
  BY <1>1, <1>2, <1>3, <1>4, <1>5, <1>7, <1>9

Body == [key : Files, size : {BodySize[f] : f \in Files}]

\* The cache is sound, and an entry has the size of its upload's body.
CacheOK ==
  /\ Cached!SoundCache(cache)
  /\ \A e \in Cached!EntriesOf(cache.store) : e.size = BodySize[e.key]

LEMMA OnlyUploads ==
  ASSUME CacheOK
  PROVE  CachedKeys(cache) \subseteq Files
<1>1. cache.store \in Seq(Body)
  BY DEF CacheOK, Cached!SoundCache, Cached!Entry, Body
<1>2. \A i \in DOMAIN cache.store : cache.store[i] \in Body
  BY <1>1
<1>3. QED
  BY <1>2 DEF CachedKeys, Body

LEMMA LookUpKeeps ==
  ASSUME CacheOK, NEW f \in Files, cache' = AfterCacheGet(cache, f)
  PROVE  CacheOK' /\ CachedKeys(cache') = CachedKeys(cache)
<1>1. /\ Cached!SoundCache(Cached!AfterCacheGet(cache, f))
      /\ Cached!CachedKeys(Cached!AfterCacheGet(cache, f)) = Cached!CachedKeys(cache)
      /\ Cached!EntriesOf(Cached!AfterCacheGet(cache, f).store)
           \subseteq Cached!EntriesOf(cache.store)
  BY CacheIsInstance, Cached!GetKeepsSound DEF CacheOK
<1>2. cache' = Cached!AfterCacheGet(cache, f)
  BY CacheIsInstance
<1>3. Cached!CachedKeys(cache') = Cached!CachedKeys(cache)
  BY <1>1, <1>2
<1>4. CachedKeys(cache') = CachedKeys(cache)
  BY <1>3, CacheIsInstance
<1>5. Cached!SoundCache(cache')
      /\ Cached!EntriesOf(cache'.store) \subseteq Cached!EntriesOf(cache.store)
  BY <1>1, <1>2
<1>6. Cached!SoundCache(cache)' <=> Cached!SoundCache(cache')
  OBVIOUS
<1>7. QED
  BY <1>4, <1>5, <1>6 DEF CacheOK

\* What the cache would hold if it held bodies of different uploads and nothing else.
Bodied(s) ==
  /\ s \in Seq(Body)
  /\ \A i \in DOMAIN s : s[i].size = BodySize[s[i].key]
  /\ \A i, j \in DOMAIN s : s[i].key = s[j].key => i = j

\* The cache has room for the bodies of all uploads together.
RoomForAll == \A s : Bodied(s) => ~ Over(s, Bytes(s))

\* Without a byte budget this is a cache with an entry for each upload.
LEMMA RoomWithoutBudget ==
  ASSUME IsFiniteSet(Files), Cardinality(Files) <= MaxEntries, MaxTotalBytes = 0
  PROVE  RoomForAll
<1> SUFFICES ASSUME NEW s, Bodied(s) PROVE ~ Over(s, Bytes(s))
  BY DEF RoomForAll
<1>1. /\ DOMAIN s = 1 .. Len(s) /\ Len(s) \in Nat
      /\ \A i \in DOMAIN s : s[i] \in Body
  BY DEF Bodied
<1>2. \A i \in DOMAIN s : s[i].key \in Files
  BY <1>1 DEF Body
<1> DEFINE f == [i \in DOMAIN s |-> s[i].key]
<1>3. f \in Injection(DOMAIN s, Files)
  BY <1>2 DEF Bodied, Injection, IsInjective
<1>4. IsFiniteSet(DOMAIN s) /\ Cardinality(DOMAIN s) <= Cardinality(Files)
  BY <1>3, FS_Injection
<1>5. Cardinality(DOMAIN s) = Len(s)
  <2>1. Cardinality(1 .. Len(s)) = Len(s)
    BY <1>1, FS_Interval
  <2>2. QED
    BY <1>1, <2>1
<1>6. Cardinality(Files) \in Nat
  BY FS_CardinalityType
<1>7. Len(s) <= MaxEntries
  BY <1>1, <1>4, <1>5, <1>6, CacheAssumption
<1>8. QED
  BY <1>1, <1>7, CacheAssumption DEF Over

LEMMA RoomForOne ==
  ASSUME RoomForAll, NEW f \in Files
  PROVE  Enabled /\ ~ Oversized(BodySize[f])
<1> DEFINE e == [key |-> f, size |-> BodySize[f]]
           s == <<e>>
<1>1. e \in Body /\ e.key = f /\ e.size = BodySize[f]
  BY DEF Body
<1> HIDE DEF e
<1>2. s \in Seq(Body) /\ Len(s) = 1 /\ DOMAIN s = {1} /\ s[1] = e
  BY <1>1
<1>3. Bodied(s)
  <2> HIDE DEF s
  <2>1. QED
    BY <1>1, <1>2 DEF Bodied
<1>4. Bytes(s) = BodySize[f]
  <2>1. e \in Cached!Entry
    BY <1>1 DEF Body, Cached!Entry
  <2>2. Cached!Bytes(<<e>>) = e.size
    BY <2>1, CacheIsInstance, Cached!BytesOfOne
  <2>3. QED
    BY <1>1, <2>2, CacheIsInstance
<1>5. ~ Over(s, Bytes(s))
  BY <1>3 DEF RoomForAll
<1> HIDE DEF s
<1>6. QED
  BY <1>2, <1>4, <1>5, CacheAssumption DEF Over, Enabled, Oversized

LEMMA StoringKeeps ==
  ASSUME CacheOK, NEW f \in Files, cache' = AfterPut(cache, f, BodySize[f])
  PROVE  /\ CacheOK'
         /\ RoomForAll => CachedKeys(cache') = CachedKeys(cache) \cup {f}
<1> DEFINE e == [key |-> f, size |-> BodySize[f]]
           a == Append(Cached!Deleted(cache.store, e.key), e)
           p == Cached!AfterPut(cache, e.key, e.size)
<1>1. e \in Cached!Entry /\ e \in Body /\ e.key = f /\ e.size = BodySize[f]
  BY DEF Cached!Entry, Body
<1>2. cache' = p
  BY <1>1, CacheIsInstance
<1> HIDE DEF e
<1>3. /\ a \in Seq(Cached!Entry) /\ Cached!Distinct(a)
      /\ Cached!EntriesOf(a) \subseteq Cached!EntriesOf(cache.store) \cup {e}
  BY <1>1, CacheIsInstance, Cached!RenewedStore DEF CacheOK
<1>4. /\ Cached!SoundCache(p)
      /\ Cached!EntriesOf(p.store) \subseteq Cached!EntriesOf(cache.store) \cup {e}
      /\ Cached!Enabled /\ ~ Cached!Oversized(e.size) /\ ~ Cached!Over(a, Cached!Bytes(a))
           => Cached!CachedKeys(p) = Cached!CachedKeys(cache) \cup {e.key}
  BY <1>1, CacheIsInstance, Cached!PutKeepsSound DEF CacheOK
<1> HIDE DEF a, p
<1>5. CacheOK'
  <2>1. Cached!SoundCache(cache)' <=> Cached!SoundCache(cache')
    OBVIOUS
  <2>2. \A x \in Cached!EntriesOf(cache'.store) : x.size = BodySize[x.key]
    BY <1>1, <1>2, <1>4 DEF CacheOK
  <2>3. QED
    BY <1>2, <1>4, <2>1, <2>2 DEF CacheOK
<1>6. ASSUME RoomForAll PROVE CachedKeys(cache') = CachedKeys(cache) \cup {f}
  <2>1. Bodied(a)
    <3>1. a \in Seq(Body)
      BY <1>3 DEF Cached!Entry, Body
    <3>2. \A i \in DOMAIN a : a[i] \in Cached!EntriesOf(cache.store) \cup {e}
      BY <1>3 DEF Cached!EntriesOf
    <3>3. \A i \in DOMAIN a : a[i].size = BodySize[a[i].key]
      BY <1>1, <3>2 DEF CacheOK
    <3>4. QED
      BY <1>3, <3>1, <3>3 DEF Bodied, Cached!Distinct
  <2>2. ~ Cached!Over(a, Cached!Bytes(a))
    BY <1>6, <2>1, CacheIsInstance DEF RoomForAll
  <2>3. Cached!Enabled /\ ~ Cached!Oversized(e.size)
    BY <1>1, <1>6, RoomForOne DEF Enabled, Oversized, Cached!Enabled, Cached!Oversized
  <2>4. QED
    BY <1>1, <1>2, <1>4, <2>2, <2>3, CacheIsInstance
<1>7. QED
  BY <1>5, <1>6

LEMMA CacheStep ==
  ASSUME CacheOK, Control, [Next]_vars
  PROVE  /\ CacheOK'
         /\ RoomForAll /\ ~ Restart => CachedKeys(cache) \subseteq CachedKeys(cache')
<1>1. CASE UNCHANGED cache
  BY <1>1 DEF CacheOK
<1>2. ASSUME NEW f \in Files, NEW ctx, Receive(f, ctx)
      PROVE  CacheOK' /\ CachedKeys(cache) \subseteq CachedKeys(cache')
  BY <1>2, LookUpKeeps DEF Receive
<1>3. ASSUME NEW j \in JobIds, CachePut(j)
      PROVE  /\ CacheOK'
             /\ RoomForAll => CachedKeys(cache) \subseteq CachedKeys(cache')
  <2>1. task[j].file \in Files
    BY <1>3 DEF CachePut, Control, HandsOK, Task
  <2>2. QED
    BY <1>3, <2>1, StoringKeeps DEF CachePut
<1>4. CASE Restart
  <2>1. cache'.store = <<>> /\ cache'.total = 0
    BY <1>4 DEF Restart, EmptyCache
  <2>2. Cached!SoundCache(cache')
    <3>1. Cached!Bytes(<<>>) = 0
      BY CacheIsInstance, Cached!BytesOfEmpty
    <3>2. cache' \in [store : Seq(Cached!Entry), total : Nat]
      BY <1>4 DEF Restart, EmptyCache
    <3>3. QED
      BY <2>1, <3>1, <3>2 DEF Cached!SoundCache, Cached!Distinct
  <2>3. Cached!EntriesOf(cache'.store) = {}
    BY <2>1 DEF Cached!EntriesOf
  <2>4. QED
    BY <1>4, <2>2, <2>3 DEF CacheOK
<1>5. ASSUME NEW j \in JobIds, Worker(j), ~ CachePut(j) PROVE UNCHANGED cache
  BY <1>5 DEF Worker, TakeThread, AcquireSlot, Check1, Check2, Check3, Check, Start,
     Read, Report, Cluster, Finish, Persist, Complete, Fail, rest
<1>6. ASSUME NEW j \in JobIds, CreateJob(j) \/ Fetch(j) \/ Cancel(j) PROVE UNCHANGED cache
  BY <1>6 DEF CreateJob, Fetch, Cancel, elsewhere, rest
<1>7. ASSUME FrontStart \/ FrontComplete \/ Poll \/ Tick \/ UNCHANGED vars
      PROVE  UNCHANGED cache
  BY <1>7 DEF FrontStart, FrontComplete, Poll, Tick, vars, elsewhere, rest
<1>8. QED
  BY <1>1, <1>2, <1>3, <1>4, <1>5, <1>6, <1>7 DEF Next

LEMMA CacheHolds == Spec => [](Control /\ CacheOK)
<1>1. Init => CacheOK
  <2> SUFFICES ASSUME Init PROVE CacheOK
    OBVIOUS
  <2>1. cache = EmptyCache /\ cache.store = <<>> /\ cache.total = 0
    BY DEF Init, EmptyCache
  <2>2. Cached!Bytes(<<>>) = 0
    BY CacheIsInstance, Cached!BytesOfEmpty
  <2>3. cache \in [store : Seq(Cached!Entry), total : Nat]
    BY <2>1 DEF EmptyCache
  <2>4. Cached!EntriesOf(cache.store) = {}
    BY <2>1 DEF Cached!EntriesOf
  <2>5. QED
    BY <2>1, <2>2, <2>3, <2>4 DEF CacheOK, Cached!SoundCache, Cached!Distinct
<1>2. Control /\ CacheOK /\ [Next]_vars => CacheOK'
  BY CacheStep
<1>3. QED
  BY <1>1, <1>2, ControlHolds, PTL DEF Spec

\* The state is well formed: the store, the cache, the executor's queue and the
\* workers' arguments.
THEOREM ServiceTypes == Spec => []TypeOK
<1>1. Control /\ CacheOK /\ Store!TypeOK => TypeOK
  <2> SUFFICES ASSUME Control, CacheOK, Store!TypeOK PROVE TypeOK
    OBVIOUS
  <2>1. CachedKeys(cache) \subseteq Files
    BY OnlyUploads
  <2>2. \/ front = Idle
        \/ front.at = "create" /\ front.task \in Task
        \/ front.at \in {"start", "complete"} /\ front.job \in JobIds
    BY DEF Control, FrontOK
  <2>3. QED
    BY <2>1, <2>2 DEF TypeOK, Control, PoolOK, Task
<1>2. QED
  BY <1>1, CacheHolds, JobsHold, PTL

-----------------------------------------------------------------------------
(* A resubmission is a hit *)

Have(j) == task[j].file \in CachedKeys(cache)

Vouched(j) ==
  jobs[j] # NoJob /\ (jobs[j].status = "completed" \/ jobs[j].error = "PERSIST_FAILED")

\* Whose body was computed, now or for an earlier job.
Computed(j) ==
  \/ task[j].hit
  \/ pc[j] \in {"finish", "persisting", "complete"}
  \/ pc[j] = "failing" /\ raised[j] = "PERSIST_FAILED"
  \/ Vouched(j)

Backed(j) == Computed(j) => Have(j)

FrontBacked == front.at = "create" /\ front.task.hit => front.task.file \in CachedKeys(cache)

LEMMA BackedKept ==
  ASSUME CachedKeys(cache) \subseteq CachedKeys(cache'), NEW k \in JobIds, Backed(k),
         task'[k] = task[k], Computed(k)' => Computed(k)
  PROVE  Backed(k)'
BY DEF Backed, Have

LEMMA VouchedKept ==
  ASSUME NEW k \in JobIds, jobs'[k] \in {jobs[k], NoJob}
  PROVE  Vouched(k)' => Vouched(k)
BY DEF Vouched

LEMMA WorkerBacks ==
  ASSUME RoomForAll, CacheOK, Control, jobs \in Stores, NEW j \in JobIds, Backed(j), Worker(j),
         CachedKeys(cache) \subseteq CachedKeys(cache')
  PROVE  Backed(j)' /\ OnlyEntry(j) /\ task' = task
<1>1. /\ pc \in [JobIds -> Points] /\ raised \in [JobIds -> Codes \cup {None}]
      /\ pc[j] # "none" => task[j] \in Task
  BY DEF Control, HandsOK
<1>2. ASSUME UNCHANGED storeVars
      PROVE  OnlyEntry(j) /\ (Vouched(j)' <=> Vouched(j))
  BY <1>2 DEF storeVars, OnlyEntry, Vouched
<1>3. ASSUME task' = task, Computed(j)' => Computed(j) PROVE Backed(j)'
  BY <1>3, BackedKept
<1> USE DEF Go, Raise, rest, Computed
<1>4. CASE TakeThread(j) \/ AcquireSlot(j)
  <2>1. UNCHANGED <<storeVars, task>> /\ pc'[j] \in {"waiting", "check1"}
    BY <1>1, <1>4 DEF TakeThread, AcquireSlot
  <2>2. QED
    BY <1>2, <1>3, <2>1
<1>5. CASE Check1(j) \/ Check2(j) \/ Check3(j)
  <2>1. PICK at, to : Check(j, at, to) /\ to \in {"start", "clustering", "caching"}
    BY <1>5 DEF Check1, Check2, Check3
  <2>2. \/ pc'[j] = "failing" /\ raised'[j] = "CANCELED"
        \/ pc'[j] = to
    BY <1>1, <2>1 DEF Check
  <2>3. UNCHANGED <<storeVars, task>>
    BY <2>1 DEF Check
  <2>4. QED
    BY <1>2, <1>3, <2>1, <2>2, <2>3
<1>6. CASE Read(j) \/ Cluster(j)
  <2>1. UNCHANGED <<storeVars, task>> /\ task[j].file \in Files
    BY <1>1, <1>6 DEF Read, Cluster, Task
  <2>2. PICK end, to : /\ EndsWith(j, end, to) /\ to \in {"report", "check3"}
                       /\ end # "PERSIST_FAILED"
    BY <1>6, <2>1, ServiceAssumption DEF Read, Cluster
  <2>3. \/ pc'[j] = "failing" /\ raised'[j] # "PERSIST_FAILED"
        \/ pc'[j] = to
    BY <1>1, <2>2 DEF EndsWith
  <2>4. QED
    BY <1>2, <1>3, <2>1, <2>2, <2>3
<1>7. CASE Start(j)
  <2>1. task' = task /\ pc'[j] \in {"finish", "reading"} /\ (pc'[j] = "finish" => task[j].hit)
    BY <1>1, <1>7 DEF Start
  <2>2. PICK stage : Store!MarkProcessing(j, stage)
    BY <1>7 DEF Start
  <2>3. /\ OnlyEntry(j)
        /\ IF jobs[j] # NoJob /\ jobs[j].status = "queued"
           THEN Turns(j, "processing", jobs[j].error, jobs[j].cancelRequested)
           ELSE jobs'[j] = jobs[j]
    BY <2>2, MethodWrites
  <2>4. Vouched(j)' => Vouched(j)
    BY <2>3 DEF Vouched, Turns, Shows
  <2>5. QED
    BY <1>3, <2>1, <2>3, <2>4
<1>8. CASE Report(j)
  <2>1. task' = task /\ pc'[j] = "check2" /\ Store!UpdateProgress(j, 25, "vectorizing")
    BY <1>1, <1>8 DEF Report
  <2>2. /\ OnlyEntry(j)
        /\ IF jobs[j] # NoJob
           THEN Turns(j, jobs[j].status, jobs[j].error, jobs[j].cancelRequested)
           ELSE jobs'[j] = jobs[j]
    BY <2>1, MethodWrites
  <2>3. Vouched(j)' => Vouched(j)
    BY <2>2 DEF Vouched, Turns, Shows
  <2>4. QED
    BY <1>3, <2>1, <2>2, <2>3
<1>9. CASE CachePut(j)
  <2>1. /\ UNCHANGED <<storeVars, task>> /\ task[j].file \in Files
        /\ cache' = AfterPut(cache, task[j].file, BodySize[task[j].file])
    BY <1>1, <1>9 DEF CachePut, Task
  <2>2. task[j].file \in CachedKeys(cache')
    BY <2>1, StoringKeeps
  <2>3. Backed(j)'
    BY <2>1, <2>2 DEF Backed, Have
  <2>4. QED
    BY <1>2, <2>1, <2>3
<1>10. CASE Finish(j) \/ Complete(j)
  <2>1. task' = task /\ Computed(j)
    BY <1>10 DEF Finish, Complete
  <2>2. \/ \E x : Store!MarkCompleted(j, x)
        \/ \E x, y : Store!UpdateProgress(j, x, y)
    BY <1>10 DEF Finish, Complete
  <2>3. OnlyEntry(j)
    BY <2>2, MethodWrites
  <2>4. QED
    BY <1>3, <2>1, <2>3
<1>11. CASE Persist(j)
  <2>1. UNCHANGED <<storeVars, task>> /\ Computed(j)
    BY <1>11 DEF Persist
  <2>2. QED
    BY <1>2, <1>3, <2>1
<1>12. CASE Fail(j)
  <2>1. /\ task' = task /\ pc[j] = "failing" /\ pc'[j] = "done"
        /\ Store!MarkFailed(j, raised[j])
    BY <1>1, <1>12 DEF Fail
  <2>2. /\ OnlyEntry(j)
        /\ IF Live(jobs, j)
           THEN Turns(j, "failed", raised[j], jobs[j].cancelRequested)
           ELSE jobs'[j] = jobs[j]
    BY <2>1, MethodWrites
  <2>3. Vouched(j)' => Vouched(j) \/ raised[j] = "PERSIST_FAILED"
    BY <2>2 DEF Vouched, Turns, Shows
  <2>4. QED
    BY <1>3, <2>1, <2>2, <2>3
<1>13. QED
  BY <1>4, <1>5, <1>6, <1>7, <1>8, <1>9, <1>10, <1>11, <1>12 DEF Worker

LEMMA CreateBacks ==
  ASSUME Control, jobs \in Stores, \A k \in JobIds : Backed(k), FrontBacked,
         NEW j \in JobIds, CreateJob(j)
  PROVE  FrontBacked' /\ \A k \in JobIds : Backed(k)'
<1>1. /\ front.at = "create" /\ Store!Create(j) /\ j \notin known
      /\ task' = [task EXCEPT ![j] = front.task]
      /\ UNCHANGED <<cache, raised>>
      /\ \/ front' = [at |-> "start", job |-> j] /\ pc' = pc
         \/ front' = Idle /\ pc' = [pc EXCEPT ![j] = "pooled"]
  BY DEF CreateJob, Store!Create
<1>2. /\ \A k \in JobIds \ {j} : jobs'[k] \in {jobs[k], NoJob}
      /\ jobs'[j] # NoJob => Turns(j, "queued", None, FALSE)
  BY <1>1, SweepForgets
<1>3. FrontBacked'
  BY <1>1 DEF FrontBacked, Idle
<1>4. ASSUME NEW k \in JobIds \ {j} PROVE Backed(k)'
  <2>1. Vouched(k)' => Vouched(k)
    BY <1>2, VouchedKept
  <2>2. pc'[k] = pc[k] /\ raised'[k] = raised[k] /\ task'[k] = task[k]
    BY <1>1 DEF Control
  <2>3. QED
    BY <1>1, <2>1, <2>2, BackedKept DEF Computed
<1>5. Backed(j)'
  <2>1. ~ Vouched(j)'
    <3>1. None # "PERSIST_FAILED"
      BY StoreAssumption, ServiceAssumption DEF WorkerCodes
    <3>2. QED
      BY <1>2, <3>1 DEF Vouched, Turns, Shows
  <2>2. pc[j] = "none" /\ pc'[j] \in {"none", "pooled"}
    BY <1>1 DEF Control, HandsOK
  <2>3. task'[j] = front.task
    BY <1>1 DEF Control
  <2>4. QED
    BY <1>1, <2>1, <2>2, <2>3 DEF Backed, Computed, Have, FrontBacked
<1>6. QED
  BY <1>3, <1>4, <1>5

LEMMA BackedStep ==
  ASSUME RoomForAll, CacheOK, Control, jobs \in Stores,
         \A k \in JobIds : Backed(k), FrontBacked, [Next]_vars
  PROVE  FrontBacked' /\ \A k \in JobIds : Backed(k)'
<1>1. ~ Restart => CachedKeys(cache) \subseteq CachedKeys(cache')
  BY CacheStep
<1>2. ASSUME ~ Restart, task' = task, pc' = pc, raised' = raised,
             \A k \in JobIds : Vouched(k)' => Vouched(k)
      PROVE  \A k \in JobIds : Backed(k)'
  BY <1>1, <1>2, BackedKept DEF Computed
<1>3. ASSUME ~ Restart, front' = front PROVE FrontBacked'
  BY <1>1, <1>3 DEF FrontBacked
<1>4. Restart => front' = Idle
  BY DEF Restart
<1>5. ASSUME NEW j \in JobIds, Worker(j) PROVE FrontBacked' /\ \A k \in JobIds : Backed(k)'
  <2>1. ~ Restart
    <3>1. restarts \in 0 .. MaxRestarts /\ restarts' = restarts
      BY <1>5 DEF Control, Worker, TakeThread, AcquireSlot, Check1, Check2, Check3, Check,
         Start, Read, Report, Cluster, CachePut, Finish, Persist, Complete, Fail, rest
    <3>2. QED
      BY <3>1 DEF Restart
  <2>2. Backed(j)' /\ OnlyEntry(j) /\ task' = task
    BY <1>1, <1>5, <2>1, WorkerBacks
  <2>3. ASSUME NEW k \in JobIds \ {j} PROVE pc'[k] = pc[k] /\ raised'[k] = raised[k]
    <3>1. CASE TakeThread(j)
      BY <3>1 DEF TakeThread, Control
    <3>2. CASE ~ TakeThread(j)
      BY <1>5, <3>2, WorkerMoves DEF Moves, Control
    <3>3. QED
      BY <3>1, <3>2
  <2>4. ASSUME NEW k \in JobIds \ {j} PROVE Backed(k)'
    BY <1>1, <2>1, <2>2, <2>3, <2>4, BackedKept DEF Computed, Vouched, OnlyEntry
  <2>5. front' = front
    <3>1. CASE TakeThread(j)
      BY <3>1 DEF TakeThread
    <3>2. CASE ~ TakeThread(j)
      BY <1>5, <3>2, WorkerMoves DEF Moves
    <3>3. QED
      BY <3>1, <3>2
  <2>6. QED
    BY <1>3, <2>1, <2>2, <2>4, <2>5
<1>6. ASSUME NEW j \in JobIds, CreateJob(j)
      PROVE  FrontBacked' /\ \A k \in JobIds : Backed(k)'
  BY <1>6, CreateBacks
<1>7. ASSUME NEW j \in JobIds, Fetch(j) \/ Cancel(j)
      PROVE  FrontBacked' /\ \A k \in JobIds : Backed(k)'
  <2>1. UNCHANGED <<cache, task, pc, raised, front>>
    BY <1>7 DEF Fetch, Cancel, elsewhere, rest
  <2>2. \A k \in JobIds : Vouched(k)' => Vouched(k)
    <3>1. CASE Fetch(j)
      <4>1. Store!PopResult(j)
        BY <3>1 DEF Fetch
      <4>2. /\ OnlyEntry(j)
            /\ IF jobs[j] # NoJob
               THEN Turns(j, jobs[j].status, jobs[j].error, jobs[j].cancelRequested)
               ELSE jobs'[j] = jobs[j]
        BY <4>1, MethodWrites
      <4>3. QED
        BY <4>2 DEF OnlyEntry, Vouched, Turns, Shows
    <3>2. CASE Cancel(j) /\ Live(jobs, j)
      <4>1. Store!RequestCancel(j)
        BY <3>2 DEF Cancel
      <4>2. /\ OnlyEntry(j) /\ jobs[j] # NoJob
            /\ Turns(j, IF jobs[j].status = "queued" THEN "canceled" ELSE jobs[j].status,
                     jobs[j].error, TRUE)
        BY <3>2, <4>1, MethodWrites DEF Live
      <4>3. QED
        BY <4>2 DEF OnlyEntry, Vouched, Turns, Shows
    <3>3. CASE Cancel(j) /\ ~ Live(jobs, j)
      BY <3>3, SweepForgets, VouchedKept DEF Cancel
    <3>4. QED
      BY <1>7, <3>1, <3>2, <3>3
  <2>3. QED
    BY <2>1, <2>2, BackedKept DEF FrontBacked, Computed
<1>8. CASE FrontStart \/ FrontComplete
  <2>1. /\ front.job \in JobIds /\ InFront(front.job)
        /\ front'.at # "create"
    BY <1>8 DEF FrontStart, FrontComplete, Control, FrontOK, Idle, InFront
  <2>2. PICK j \in JobIds : j = front.job
    BY <2>1
  <2>3. task[j].hit /\ UNCHANGED <<cache, task, pc, raised>>
    BY <1>8, <2>1, <2>2 DEF FrontStart, FrontComplete, Control, HandsOK, Answered
  <2>4. OnlyEntry(j)
    BY <1>8, <2>2, MethodWrites DEF FrontStart, FrontComplete
  <2>5. ASSUME NEW k \in JobIds PROVE Backed(k)'
    BY <2>3, <2>4, BackedKept DEF Computed, OnlyEntry, Vouched
  <2>6. QED
    BY <2>1, <2>5 DEF FrontBacked
<1>9. ASSUME NEW f \in Files, NEW ctx \in Contexts, Receive(f, ctx)
      PROVE  FrontBacked' /\ \A k \in JobIds : Backed(k)'
  <2>1. CachedKeys(cache') = CachedKeys(cache)
    BY <1>9, LookUpKeeps DEF Receive
  <2>2. FrontBacked'
    BY <1>9, <2>1 DEF Receive, FrontBacked
  <2>3. UNCHANGED <<jobs, pc, task, raised>>
    BY <1>9 DEF Receive, storeVars
  <2>4. QED
    BY <2>1, <2>2, <2>3, BackedKept DEF Computed, Vouched
<1>10. CASE Poll \/ Tick \/ UNCHANGED vars
  <2>1. UNCHANGED <<cache, task, pc, raised, front>>
    BY <1>10 DEF Poll, Tick, vars, elsewhere, rest
  <2>2. \A k \in JobIds : jobs'[k] \in {jobs[k], NoJob}
    BY <1>10, SweepForgets DEF Poll, Tick, vars, storeVars
  <2>3. QED
    BY <2>1, <2>2, BackedKept, VouchedKept DEF FrontBacked, Computed
<1>11. CASE Restart
  <2>1. \A k \in JobIds : jobs'[k] = NoJob
    BY <1>11, SweepForgets DEF Restart
  <2>2. QED
    BY <1>11, <2>1
       DEF Restart, FrontBacked, Idle, Backed, Computed, Vouched, NoTask
<1>12. QED
  BY <1>5, <1>6, <1>7, <1>8, <1>9, <1>10, <1>11 DEF Next

\* Whatever was computed for a job the store still vouches for is found when the
\* same upload comes again, if nothing has to be evicted: it was put before
\* anything was said about the job, and a restart forgets both.
THEOREM ResubmissionsHit == ASSUME RoomForAll PROVE Spec => []ResubmitIsHit
<1> DEFINE AllBacked == FrontBacked /\ \A k \in JobIds : Backed(k)
<1>1. Init => AllBacked
  BY DEF Init, Store!Init, FrontBacked, Idle, Backed, Computed, Vouched, NoTask
<1>2. Control /\ CacheOK /\ Store!TypeOK /\ AllBacked /\ [Next]_vars => AllBacked'
  BY BackedStep, SameTypes DEF Store!TypeOK
<1>3. AllBacked => ResubmitIsHit
  BY DEF Backed, Computed, Vouched, Have, ResubmitIsHit
<1> HIDE DEF AllBacked
<1>4. QED
  BY <1>1, <1>2, <1>3, CacheHolds, JobsHold, PTL DEF Spec
=============================================================================
