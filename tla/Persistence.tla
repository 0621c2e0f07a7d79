---------------------------- MODULE Persistence ----------------------------
(***************************************************************************)
(* persist_results of clusteriq_engine/persistence.py: the requests one    *)
(* run sends, one after the other, and what they leave in the database     *)
(* when some of them fail.  Runs are started by the workers of             *)
(* ClusterService, each with the upload id of its request; a retry is a    *)
(* second run for the same upload.  The database (PostgREST over the       *)
(* tables clusters, cluster_keywords and uploads) is external: requests    *)
(* take effect whole, and a keyword's cluster_id refers to a cluster, with *)
(* a cascading delete, as the module's docstring assumes.                  *)
(***************************************************************************)
EXTENDS Integers, SequencesExt

CONSTANTS Runs,       \* calls of persist_results, each for its own job
          Uploads,    \* upload ids
          UploadOf,   \* UploadOf[r]: the upload of run r
          Size,       \* Size[r]: how many clusters r's result has
          Member,     \* Member[r][i]: the cluster of row i of r's result, 0 if unknown
          CHUNK,      \* rows per insert request
          None        \* no run

ASSUME PersistAssumption ==
  /\ \A r \in Runs : UploadOf[r] \in Uploads /\ Size[r] \in Nat
  /\ \A r \in Runs : Member[r] \in Seq(0 .. Size[r])
  /\ CHUNK \in Nat \ {0}
  /\ None \notin Runs

VARIABLES clusters,  \* rows of clusters: <<run, index>>, the uuid of that run
          keywords,  \* rows of cluster_keywords: <<run, row>>
          complete,  \* complete[u]: the run whose PATCH last set the status, or None
          step,      \* step[r]: the request r is at
          outcome,   \* outcome[r]: how the call stands
          late,      \* requests still on their way after their sender gave up
          last,      \* last[u]: the run begun last for u
          inTurn,    \* the uploads whose runs came one at a time so far
          settled    \* the uploads no run began for while a request was late

tables == <<clusters, keywords, complete>>
vars == <<tables, step, outcome, late, last, inTurn, settled>>

-----------------------------------------------------------------------------
(* The requests of one run *)

\* Faulty: the last chunk is forgotten when it is not a full one.
SlicesShort(n) ==
  [k \in 1 .. n \div CHUNK |-> (k - 1) * CHUNK + 1 .. k * CHUNK]

\* for start in range(0, n, CHUNK): payload[start:start + CHUNK]
Slices(n) ==
  [k \in 1 .. (n + CHUNK - 1) \div CHUNK |->
     (k - 1) * CHUNK + 1 .. (IF k * CHUNK < n THEN k * CHUNK ELSE n)]

\* The rows of the result whose cluster is known: the rest are skipped before
\* the payload is cut into chunks.
Payload(r) == {i \in DOMAIN Member[r] : Member[r][i] # 0}

\* The place of row i in a payload, which keeps the order of the result.
Place(i, payload) == Cardinality({j \in payload : j <= i})

Posts(r, kind, payload) ==
  LET slices == Slices(Cardinality(payload))
  IN  [k \in DOMAIN slices |->
         [kind |-> kind, run |-> r,
          rows |-> {i \in payload : Place(i, payload) \in slices[k]}]]

Delete(r) == [kind |-> "delete", run |-> r, rows |-> {}]
Patch(r) == [kind |-> "patch", run |-> r, rows |-> {}]

\* Faulty: nothing is deleted first.
PlanWithoutDelete(r) ==
  Posts(r, "clusters", 1 .. Size[r])
    \o Posts(r, "keywords", Payload(r)) \o <<Patch(r)>>

\* Faulty: the upload is marked before its keywords are written.
PlanPatchEarly(r) ==
  <<Delete(r)>> \o Posts(r, "clusters", 1 .. Size[r])
    \o <<Patch(r)>> \o Posts(r, "keywords", Payload(r))

Plan(r) ==
  <<Delete(r)>>
    \o Posts(r, "clusters", 1 .. Size[r])
    \o Posts(r, "keywords", Payload(r))
    \o <<Patch(r)>>

-----------------------------------------------------------------------------
(* The database *)

Of(rows, u) == {x \in rows : UploadOf[x[1]] = u}
RowsOf(q) == {<<q.run, i>> : i \in q.rows}

\* The foreign key: a keyword needs its cluster.
Accepts(q) ==
  q.kind = "keywords" => \A i \in q.rows : <<q.run, Member[q.run][i]>> \in clusters

\* Faulty: keywords stay when their clusters go.
AppliedNoCascade(q) ==
  LET u == UploadOf[q.run]
  IN  /\ clusters' = CASE q.kind = "delete" -> clusters \ Of(clusters, u)
                       [] q.kind = "clusters" -> clusters \cup RowsOf(q)
                       [] OTHER -> clusters
      /\ keywords' = IF q.kind = "keywords" THEN keywords \cup RowsOf(q) ELSE keywords
      /\ complete' = IF q.kind = "patch" THEN [complete EXCEPT ![u] = q.run] ELSE complete

Applied(q) ==
  LET u == UploadOf[q.run]
  IN  /\ clusters' = CASE q.kind = "delete" -> clusters \ Of(clusters, u)
                       [] q.kind = "clusters" -> clusters \cup RowsOf(q)
                       [] OTHER -> clusters
      /\ keywords' = CASE q.kind = "delete" -> keywords \ Of(keywords, u)
                       [] q.kind = "keywords" -> keywords \cup RowsOf(q)
                       [] OTHER -> keywords
      /\ complete' = IF q.kind = "patch" THEN [complete EXCEPT ![u] = q.run] ELSE complete

-----------------------------------------------------------------------------

Init ==
  /\ clusters = {} /\ keywords = {}
  /\ complete = [u \in Uploads |-> None]
  /\ step = [r \in Runs |-> 1]
  /\ outcome = [r \in Runs |-> "idle"]
  /\ late = {}
  /\ last = [u \in Uploads |-> None]
  /\ inTurn = Uploads /\ settled = Uploads

Sending(r) == outcome[r] = "running"

SameUpload(r) == {s \in Runs : UploadOf[s] = UploadOf[r]}

\* Nothing in the engine keeps runs for one upload apart.
Begin(r) ==
  /\ outcome[r] = "idle"
  /\ outcome' = [outcome EXCEPT ![r] = "running"]
  /\ last' = [last EXCEPT ![UploadOf[r]] = r]
  /\ inTurn' = inTurn \ {UploadOf[s] : s \in {x \in Runs : Sending(x)} \cap SameUpload(r)}
  /\ settled' = settled \ {UploadOf[s] : s \in {q.run : q \in late} \cap SameUpload(r)}
  /\ UNCHANGED <<tables, step, late>>

Request(r) == Plan(r)[step[r]]

\* _request gets a status below 300; after the last one the call returns.
Succeed(r) ==
  /\ Sending(r) /\ Accepts(Request(r))
  /\ Applied(Request(r))
  /\ IF step[r] = Len(Plan(r))
     THEN outcome' = [outcome EXCEPT ![r] = "ok"] /\ UNCHANGED step
     ELSE step' = [step EXCEPT ![r] = @ + 1] /\ UNCHANGED outcome
  /\ UNCHANGED <<late, last, inTurn, settled>>

\* _request gets an error: PersistError, and nothing was written.
Refuse(r) ==
  /\ Sending(r)
  /\ outcome' = [outcome EXCEPT ![r] = "refused"]
  /\ UNCHANGED <<tables, step, late, last, inTurn, settled>>

\* The transport fails or the read times out (an httpx exception), or the
\* process dies: the request is lost, was applied, or is still to arrive.
Break(r) ==
  /\ Sending(r)
  /\ outcome' = [outcome EXCEPT ![r] = "broken"]
  /\ \/ UNCHANGED <<tables, late>>
     \/ Accepts(Request(r)) /\ Applied(Request(r)) /\ UNCHANGED late
     \/ late' = late \cup {Request(r)} /\ UNCHANGED tables
  /\ UNCHANGED <<step, last, inTurn, settled>>

Arrive(q) ==
  /\ late' = late \ {q}
  /\ IF Accepts(q) THEN Applied(q) ELSE UNCHANGED tables
  /\ UNCHANGED <<step, outcome, last, inTurn, settled>>

Next ==
  \/ \E r \in Runs : Begin(r) \/ Succeed(r) \/ Refuse(r) \/ Break(r)
  \/ \E q \in late : Arrive(q)

Spec == Init /\ [][Next]_vars

-----------------------------------------------------------------------------

\* Type correctness, and the database's own integrity: a stored keyword's
\* cluster is stored.
TypeOK ==
  /\ \A x \in clusters : x[1] \in Runs /\ x[2] \in 1 .. Size[x[1]]
  /\ \A x \in keywords : <<x[1], Member[x[1]][x[2]]>> \in clusters
  /\ complete \in [Uploads -> Runs \cup {None}]
  /\ last \in [Uploads -> Runs \cup {None}]
  /\ step \in [Runs -> Nat] /\ \A r \in Runs : step[r] \in 1 .. Len(Plan(r))
  /\ outcome \in [Runs -> {"idle", "running", "ok", "refused", "broken"}]

Whole(r) ==
  /\ Of(clusters, UploadOf[r]) = {<<r, i>> : i \in 1 .. Size[r]}
  /\ Of(keywords, UploadOf[r]) = {<<r, i>> : i \in Payload(r)}

OneRun(u) ==
  \A x, y \in clusters : UploadOf[x[1]] = u /\ UploadOf[y[1]] = u => x[1] = y[1]

\* A retry after a failure that left nothing under way duplicates nothing: the
\* rows of an upload are those of one run.
RetryReplaces == \A u \in inTurn \cap settled : OneRun(u)

\* Until a later run begins, an upload that a run marked complete has every
\* cluster and every keyword of that run's result, and nothing else.
CompleteMeansWhole ==
  \A r \in Runs :
    UploadOf[r] \in inTurn \cap settled /\ complete[UploadOf[r]] = r /\ last[UploadOf[r]] = r
    => Whole(r)

\* What the worker makes of the call is right (ClusterService models the call
\* by its outcome alone): a run that was refused did not mark its upload, and
\* a run that returned did, the last mark being its own or a later finisher's.
OutcomeTruthful ==
  \A r \in Runs :
    /\ outcome[r] = "refused" => complete[UploadOf[r]] # r
    /\ outcome[r] = "ok" => complete[UploadOf[r]] # None
    /\ complete[UploadOf[r]] = r => step[r] = Len(Plan(r))

-----------------------------------------------------------------------------

\* Header of persistence.py: "a retry after a partial failure can't duplicate
\* data": as long as every run began after the one before it had ended.
NoDuplicates == \A u \in inTurn : OneRun(u)
=============================================================================
