# ClusterIQ Engine: TLA+ specifications and proofs

The engine (`src/clusteriq_engine`) takes keyword exports over HTTP, clusters
them in background threads and lets clients poll for the outcome. Two things are
hard about it. One is an in-process job store shared by an event loop, worker
threads and polling request threads, with cancellation, eviction, expiry, a result
cache, a database written by several unreliable requests, and restarts that forget
everything but the database. The other is what happens to a file on its way to
clusters: columns rewritten in place, duplicates merged, labels taken while others
are still in use, tables that have to agree. The modules here model both, TLC
checks them on small instances, and TLAPS proves most of the safety properties,
and that the detailed models implement the abstract ones, for every value of the
parameters.

Paths below are relative to `src/clusteriq_engine` unless they start with `src/`.

## The system

| component | state | operations | who calls it |
|---|---|---|---|
| job store (`jobs.py`) | `_jobs`, a dict of `Job` records under one RLock | create, get, pop_result, mark_processing, update_progress, mark_completed, mark_failed, request_cancel, is_cancel_requested, stats; sweep and eviction inside them | endpoints, workers |
| service (`api.py`) | the default executor's queue, the worker semaphore, the arguments of each task | `POST /cluster`, `_run_clustering_job`, `_finish_job`, `GET /jobs/{id}`, `GET /jobs/{id}/result`, cancel, `/health` | HTTP clients, executor threads |
| unlocked readers (`api.py`, `Job.snapshot`) | a reference to a `Job`, used after the lock was released | the two GET handlers | request threads |
| result cache (`cache.py`) | an `OrderedDict` and a byte counter under a lock | get, put, eviction | event loop (get), workers (put) |
| persistence (`persistence.py`) | nothing of its own: tables `clusters`, `cluster_keywords`, `uploads` behind HTTP | `persist_results`: DELETE, chunked POSTs, PATCH | workers |
| rate limiter (`hardening.py`) | a token bucket per client | allow, retry_after | event loop |
| upload reader, job slots (`hardening.py`) | bytes so far; a counter nobody increments | `read_upload_limited`; `JobSlots` is unused | event loop |
| ingestion (`ingest.py`, `prepare_dataframe` of `pipeline.py`) | the frame it rewrites, the column mapping | `read_table`, `resolve_columns`, `prepare_dataframe`, de-duplication, tags | workers; `POST /preview` up to the mapping |
| clustering pipeline (`pipeline.py`) | vectors, pairs, graph, labels of one call | `run`: similarity graph, components, `_post_split`, descriptors, tables | workers |

The event loop looks the upload up in the cache, creates a job and hands a task
to the default executor; a task blocks on the semaphore, then goes through its
stages and writes its progress and its verdict to the store, its body to the
cache and its rows to the database. Clients see the store only.

What must be right, by component:

* store: bounded, status monotonic, fields of an entry consistent, records kept
  until their time is up, finished work evicted before running work, a result
  handed out once;
* service: no job without somebody who will finish it, verdicts that agree with
  the database, cancels that hold, resubmission that is a cache hit, termination;
* readers: no step back, no answer the job contradicts;
* cache: within both limits, exact counter, least recently used goes first;
* persistence: whole results, no duplicates after a retry, truthful outcome;
* rate limiter: the rate in every window, honest Retry-After, pruning unnoticed;
* upload reader: never more in memory than the limit and a chunk, no file within
  the limits refused, none over them parsed;
* ingestion: every usable keyword once, with the numbers of its rows and of the
  columns it was mapped to; a missing number never counts as 0;
* pipeline: no candidate pair lost between blocks, components that are those of
  the graph, a split that separates what differs and nothing else, cluster and row
  tables that agree, with exactly one canonical keyword in each cluster.

## Modules

| module | models | how |
|---|---|---|
| `JobLifecycle` | what the store promises (header and docstrings of `jobs.py`) | a job's life: unborn, a status, gone; how often its body was delivered |
| `JobStoreOps` | each method of `JobStore` | an operator from the dict to the dict: the lock is held for the whole method |
| `JobStore` | the store under arbitrary callers | one action per method, a clock, a restart; refines `JobLifecycle` |
| `JobStoreProofs` | theorems about `JobStore` | |
| `JobSnapshot` | one `Job` and the readers that hold no lock | mutators write one field at a time; each read of a handler is an action; refines `JobStore` |
| `JobSnapshotProofs` | theorems about `JobSnapshot` | |
| `ResultCacheOps`, `ResultCache` | `ResultCache` | operators on the entries in LRU order and the counter; any sequence of calls |
| `ResultCacheProofs` | theorems about `ResultCache`; what its methods do to any sound cache | |
| `ClusterService` | `api.py`: loop, executor, semaphore, worker, endpoints, restart | uses `JobStoreOps` and `ResultCacheOps`; `pc[j]` is the program point of j's worker |
| `ClusterServiceProofs` | theorems about `ClusterService` | uses those of `JobStoreProofs` and `ResultCacheProofs` |
| `Persistence` | `persist_results` and the tables it writes | a run is its sequence of requests; each may succeed, be refused, or break and be lost, applied or late |
| `PersistenceProofs` | theorems about `Persistence` | |
| `RateLimit`, `RateLimiter` | the promise and the code of the rate limiter | `RateLimiter` refines `RateLimit` |
| `RateLimiterProofs` | theorems about `RateLimiter` | |
| `Numbers` | a float column with missing cells | maximum and mean that skip what is missing; a mean is its sum and count |
| `Ingest` | `read_upload_limited`, `read_table`, `resolve_columns`, `prepare_dataframe` | one request; a chunk, then a column, a step |
| `GroupingOps` | the pure parts of `ClusterPipeline.run` | neighbours, candidate pairs, graph, components, groups, canonical keyword, order of the rows |
| `Grouping` | `ClusterPipeline.run` after `prepare_dataframe` | one action per stage, per block of pairs and per label given by `_post_split` |
| `Pipeline` | a request from upload to outcome | composes `Ingest` and `Grouping`; what the former prepared is the table of the latter |
| `PipelineProofs` | theorems about `Pipeline`, and what the actions of `Grouping` preserve | |
| `NaturalFacts` | lemmas about `Min`, `Max`, products, quotients, sums over finite sets and intervals, and ranks in an order | |
| `MC...` | sets of model values for TLC | |

How state corresponds to code. `jobs[j] = NoJob` is a missing key. The fields of
`Job` keep their names in camel case; `createdAt` is the rank of the creation,
because the code only compares creation times with each other (a wall clock set
back between two creations is not modelled), and `completedAt` is a clock value
with 0 for `None`, as in the code's `(j.completed_at or 0)`. `error` stands for
`error_code`; it is `None` for a job canceled while queued, as in the code.

A step of `ClusterService` ends where the code takes a lock or touches state
another thread can see, so its interleavings are those of the code. An upload and
its column mapping are a member of `Files`; `ReadEnds[f]` and `ClusterEnds[f]`
say how parsing and clustering it may end. `persist_results` is one step there,
with the outcomes `Persistence` justifies (`OutcomeTruthful`). The supabase
credentials, which only decide whether there is a persistence context, are the
flag `ctx`. A job's worker gets `task[j]`, whose `hit` says it was started with a
cached body. `saved` holds the jobs whose run wrote its whole result.

`Persistence` models the database from how the code uses it: a request takes
effect whole, `cluster_keywords.cluster_id` is a foreign key with a cascading
delete, as the docstring of `persistence.py` assumes. A payload is the set of the
rows it carries, which keep the order of the result: `Place` is a row's position
among them, by which the chunks are cut. `late` holds requests whose
sender gave up (httpx times out after 30 s) and that the server may still apply.

A request of `Ingest` is a file with its `Content-Length`, its endpoint and the
column mapping asked for; `stage` is how far it got, or the error code it ended
with, and `at` is the same for the stages of `run` in `Grouping`. A cell, a header
and a normalized keyword are model values, and what string functions make of them
(`strip`, `normalize_text`, `parse_number`, the intent and modifier patterns, the
topic root) is given by functions on the values in use; whether the parsers can
read a file is part of the file. `frame` is the data frame, header to column: each
column is written into it before the next is read, in the order of the code, which
is what one of the findings below is about. A role name is assumed not to be the
header of two columns of a file (`IngestAssumption`), and every conversion is defined
on the cells of the files and on what another makes of them, blanks around a number
do not matter, and a number converts to itself (`CellAssumption`).

The vectors are abstracted to what the code does with them: `sem` and `lex` give
every two rows any similarity, in tenths, `Threshold` being in hundredths because
the hybrid similarity is a weighted sum of two; `NearestLists` is any answer
`NearestNeighbors` may give, equally near rows in any order. `np.empty` is filled
with any value. The canonical and opportunity scores are any ranking of the rows.
A row of the table is its position, as `reset_index` makes it in the code, counted
from 1. Components are what no set closed under the edges separates, numbered by
their first rows, as `connected_components` numbers them.

`RateLimiter` counts in units of 1/Minute token and in whole seconds, in which
the code's float arithmetic is exact.

Definitions whose comment starts with "Faulty" are not part of a specification:
each is the definition next to it with a plausible bug, and shows that a property
notices the bug.

## Runs

| run | instance | what it shows |
|---|---|---|
| `job_store` | 3 ids, 2 entries, TTL 1, clock to 4, one report above 100 | any caller, any order: `Bounded`, `EntriesCoherent`, `EntriesOnlyAdvance`, `NothingLostEarly`, `EvictionOrder`, `NewJobIsHeld`, `ImplementsLifecycle` |
| `job_snapshot` | 1 job, 1 poller, 2 fetchers, a drop | `PollsNeverGoBack`, `DeliveredOnce`, `AnswersStayTrue`, `PollThenFetch`, `ImplementsStore` |
| `cluster_service` | 2 jobs, 1 entry, 2 threads, 1 slot, clock to 3, 1 restart, two files, with and without persistence | `LiveHasWorker`, `StatusFollowsWorker`, `VerdictsTruthful`, `ResubmitIsHit`, `UsesStore` |
| `service_progress` | the same, clock to 1, fair scheduling | `EveryJobSettles`, `EveryTaskEnds`, `CancelHolds` |
| `result_cache` | 4 keys, sizes 1, 2, 3, 5, 3 entries, 4 bytes, 7 calls | `WithinLimits` with the counter exact, `EvictsRightly`: the least recently used, and no more than needed |
| `persistence` | 3 runs for one upload, 1 for another, chunks of 2 | `RetryReplaces`, `CompleteMeansWhole`, `OutcomeTruthful` |
| `rate_limiter` | 2 clients, 2 requests per 3 seconds, pruning above 1 client, 7 seconds | `WithinRate`, `RetryExact`, `ImplementsEager` |
| `pipeline` | about 45 requests with up to 3 keywords after de-duplication, 1 neighbour, blocks of 2 pairs, similarities 0, 5, 10, limits of 5 and 4 bytes, chunks of 2 | `UploadTruthful`, `PreparedFaithful`, `NearestJoined`, `SplitExact`, `ResultCoherent` |
| `snapshot_gone`, `service_canceled_saved`, `persistence_late`, `pipeline_mapping` | as the run of their module | each finds a statement of the repository violated, see below |

Why the bounds are enough. Eviction needs one entry more than the store has:
3 ids for 2 entries let it choose between two victims, terminal or live, old or
new. The clock must pass TTL + 1 after a completion for the strict comparison of
the sweep to matter. With one entry in the store of `cluster_service` each new
submission evicts the other job in whatever state it is, so that workers run on
without their entry; 2 threads and 1 slot make one task wait for the semaphore.
One body of size 5 exceeds the cache's budget, one of size 3 forces two evictions.
Three runs for one upload are a failure, a retry and a retry of the retry; one
result has more rows than a chunk and one has none, and some rows belong to no
cluster. Three rows with one neighbour each are three candidate pairs, a whole block
and a part of one; they make chains, in which two rows are in a component without
being similar, and components of which one group stays, one leaves and one leaves
with another label. The uploads lie below, at and between the two limits and above
them, with every error `read_table` knows, equal headers, junk, missing and
negative numbers, and every mapping of three roles to one another's columns that
matters. `MaxTime`, `MaxRestarts` and `MaxOps` are the only bounds that are not
the code's; `CHECK_DEADLOCK FALSE` is set where all calls are made and the model
stops (`result_cache`, `persistence`, and `pipeline`, where a request ends).

Job ids, digests, request handlers and clients carry no order, so the safety
runs use symmetry; the liveness run does not.

Fairness (`ClusterService!Fairness`): weak fairness of each worker, because
threads are scheduled by the system and no step of a worker waits for anything
but the executor's queue and the semaphore, whose holders always leave; and of
the two steps of the event loop that complete a cache hit, which run without an
await. The semaphore is not assumed fair to a particular waiter: with finitely
many jobs weak fairness of each suffices. Clients need do nothing, time may
stop, and restarts are bounded.

Two limits of these properties are worth knowing. `CancelHolds` says nothing once
the store has forgotten the job: eviction of a running job loses its cancel flag,
`is_cancel_requested` is then False and the worker goes on to persist. And
`RetryReplaces` and `CompleteMeansWhole` are about uploads whose runs came one
after the other; nothing in the engine prevents two jobs for one upload from
persisting at the same time, which leaves the rows of both.

Of the hazards in `PROJECT.json` some can go wrong in ways no property excludes, and
each says so: a cancel after the worker's last check, a cancel flag lost with its
evicted entry, overlapping persists, a mark that a later broken run leaves standing,
rows with identical vectors that lose each other, the unbounded executor queue, a
file over the limit of `read_table` that is refused only by the worker, and the two
inputs that fail a whole request with INTERNAL_ERROR (volumes that sum to -1 or
less, headers that are equal once stripped).

## Where code and documentation disagree

Shown by a run each (`findings` in `PROJECT.json`):

* `snapshot_gone`: `src/README.md:170` has 410 mean "fetched before"; the handler
  reads the status once for each comparison (`api.py:587`), and a job that starts
  between two of them is answered 410.
* `service_canceled_saved`: a queued job cancels immediately (`jobs.py:180`); on
  the cached path (`api.py:443`) the refusal of `mark_processing` is ignored and
  the results of the canceled job are saved.
* `persistence_late`: "a retry after a partial failure can't duplicate data"
  (`persistence.py:19`); a late insert of the failed run can.
* `pipeline_mapping`: "an explicit user mapping always wins" (`ingest.py:10`);
  `prepare_dataframe` writes the column `volume` before it reads the ones mapped to
  difficulty and position (`pipeline.py:142`), so a role mapped to a column that has
  the name of an earlier role gets that role's numbers.

Noticed while modelling, visible in the actions and not given a run:

* `jobs.py:7` promises a consistent snapshot; the handlers read the fields of the
  `Job` after the lock was released (`api.py:573`), and may see a completed job
  without its final progress, say.
* `api.py:492` says the result is cached; the body may have been evicted since, or
  be larger than the cache.
* `jobs.py:212` says that after terminal jobs the oldest queued is evicted; the
  key orders live jobs by age alone, running or not.
* `jobs.py:197` says the sweep runs on every read and write; only create, get and
  stats sweep.
* `api.py:634` says processing jobs stop at the next stage boundary; none is
  checked between clustering and persisting, or before the cached path persists.
* `persistence.py:121` says any failed step raises PersistError; transport errors
  do not, and the job fails with INTERNAL_ERROR.
* `src/README.md:144` says excess jobs get 503 SERVER_BUSY; they queue.
* `src/README.md:146` and `api.py:325` say oversized and malformed files are
  refused at once (413, 400); the worker finds out and the job fails.
* `src/CHANGES.md:62` says 422 carries the job's code; the status is visible a few
  writes before the code is.
* `api.py:41` says 0 concurrent jobs is unlimited; the semaphore then has one slot.
* `hardening.py` allows `Content-Length` some slack for the form around the file; a
  form with more around it than that is refused although its file is within the
  limit (the last case of `UploadTruthful`).
* `MAX_UPLOAD_MB` above the 50 MB that `ingest.py` allows: the request is accepted
  and the job fails with FILE_TOO_LARGE.
* A cluster whose volumes sum to -1 or less, or a mapped header that two columns
  have once stripped, ends the job with INTERNAL_ERROR: `math.log1p` and the
  operations on a column are not guarded.
* `/health` reports the active jobs of `JobSlots`, which nothing acquires.

## Proofs

Each theorem holds for every value of the constants that meets the named
assumptions, and any number of steps; TLC evaluates each of these assumptions on
the runs of its module. Unless said otherwise a theorem states a property that
a run checks.

### Store

`JobStoreProofs`, for every set of ids, every `MaxJobs` above 0, every TTL, every
set of bodies, codes and reports:

| theorem | property |
|---|---|
| `TypeCorrect` | `TypeOK` |
| `EntriesStayCoherent` | `EntriesCoherent` |
| `NoRegress` | `EntriesOnlyAdvance` |
| `StoreIsBounded` | `Bounded` |
| `NewJobStays` | `NewJobIsHeld` |
| `NothingGoesEarly` | `NothingLostEarly` |
| `OldestGoFirst` | `EvictionOrder` |
| `Implementation` | `ImplementsLifecycle` |

Assumptions: `StoreAssumption` (a bound of at least one entry; the sentinels are no
bodies, codes or entries) and `CallersAssumption` (reports are natural numbers
with a stage).

The inductive invariant is `IInv`: `TypeOK`, and for each entry that its fields
are coherent, that it was created before (`createdAt < serial`), and that a body
still held was never delivered. Coherence alone is not inductive: that a body is
delivered once needs the counter tied to the body. `StepChanges` says what one step
may do to one entry (forget it, rewrite it as a mutator does, or leave it), and the
invariant, the action properties and the refinement are read off it. `Bounded` goes
through `EvictionMakesRoom`: create adds one entry to a store that was within its
bound, and a finite set with an order has a first element (`SomeEntryIsFirst`, from
well-founded induction over finite subsets). What is evicted needs `RanksDiffer`
besides, that no two entries have the same rank: the code drops the first entries of
a sorted list, and two equal keys would make "the first" ambiguous. With it a full
store gives up exactly one entry, the one before all others (`OneVictim`), and
`WaysToLeave` lists what else an entry can leave for. The refinement maps an entry
to its status and a missing one to "gone" or "unborn"; `CreateSubmits` shows that
what a create forgets is allowed.

### Readers without the lock

`JobSnapshotProofs`, for every set of fetching clients, bodies and codes, any number
of polls, updates and drops (`SnapshotAssumption`: one job, and "full" is a body):

| theorem | property |
|---|---|
| `JobStaysWellFormed` | `TypeOK` |
| `OneFetchGetsTheBody` | `DeliveredOnce` |
| `AnswersAreKept` | `AnswersStayTrue` |
| `PollingClientsAreServed` | `PollThenFetch` |
| `AnswersNeverGoBack` | `PollsNeverGoBack` |
| `LockMakesAtomic` | `ImplementsStore` |

A mutator holds the lock while it writes the fields one by one, and the readers see
the job in between. The refinement takes a mutator under way as done: `Current` is
what it is writing, a field write leaves it as it is (`WriteFieldFacts`), and taking
the lock is the step of the store. So `SnapshotInv` speaks of two jobs. `Sane` is
about the one the store counts. `HalfWritten` ties the one the readers see to it:
they differ only in the fields still to be written, and each of them only
advances. `PollBehind` keeps, field by field and by how far the request got, what was
last shown behind what was read, and that behind the job: the answers of a poll mix
fields of several moments, and only this makes them not go back. `FetchRight` says
what a fetch has learned is still so, `Delivered` that a job whose body went out
stays as it is.

### Service

`ClusterServiceProofs`, for every number of jobs, threads and slots, every capacity of
store and cache, and all ways the stages may end:

| theorem | property |
|---|---|
| `ServiceTypes` | `TypeOK` |
| `ServiceUsesStore` | `UsesStore` |
| `WorkerIsFollowed` | `StatusFollowsWorker` |
| `NobodyIsForgotten` | `LiveHasWorker` |
| `VerdictsAreTrue` | `VerdictsTruthful` |
| `ResubmissionsHit` | `ResubmitIsHit` |

Assumptions: those of the store, `CacheAssumption`, and `ServiceAssumption` (which codes
and bodies the worker uses, how stages may end, at least one thread and one slot).

`Control` is about hands: the executor queues each task once, a job belongs to the
event loop or to a worker and never to both, and a worker knows its upload and the
error it is about to report. With it every step of the service is one of the store
(`ServiceUsesStore`), and so all theorems of `JobStoreProofs` hold of the store inside
the service; they are brought in by `Proved == INSTANCE JobStoreProofs`. `JobInv` joins
an entry to its worker and to the database (`EntryFollows`, `ResultsFollow`): which
statuses an entry may show while its worker is at each point, and where the rows of
its results are. It is what the three cancel checks, the ignored return of
`mark_completed` and the `except` clauses establish between them, and each of the
three safety properties needs the whole of it, because a cancel, a sweep or an
eviction can fall between any two steps of a worker.

`ResubmissionsHit` has a hypothesis, `RoomForAll`: no cache that holds each upload's
body once is over its limits. It cannot be dropped, for an eviction forgets a body
the store still vouches for, and the code promises nothing then.
`RoomWithoutBudget` shows that a cache with an entry for each upload and no byte
budget meets it, which is the instance of `cluster_service`. The invariant is
`Backed`: a worker that is past "caching", or was started with a hit, has its body in
the cache. A hit is looked up before the job is created and used long after, so
that it must be known that nothing goes; and a restart must forget the entries and
the cache together.

### Cache

`ResultCacheProofs`, for every set of keys, all sizes and both limits:

| theorem | property |
|---|---|
| `CacheTypes` | `TypeOK` |
| `CacheWithinLimits` | `WithinLimits` |
| `LeastRecentlyUsedGoes` | `EvictsRightly` |

Assumptions: `CacheAssumption`, `SizesAssumption` (sizes are natural numbers),
`BoundAssumption`.

The invariant is that the limits hold and that the entries stand in the order in
which they were last used (`Aged`). The counter of bytes is a running difference in
the code and a fold here, and a fold over a set takes its elements in an order of its
own; `BytesAreSums` and `SumsAreUnique` characterise it by the running sums of the
sequence, from which what an append, a removal and an eviction do to it follows.
The loop that evicts is the shortest suffix that is within the limits.
The section "The methods on any sound cache" states the same of the operators alone,
and is what the service uses.

### Persistence

`PersistenceProofs`, for every number of runs and uploads, every size of result and
every chunk size (`PersistAssumption`: a row's cluster is one of its result or
unknown, a chunk has at least one row):

| theorem | property |
|---|---|
| `TablesAreSound` | `TypeOK` |
| `CallsAreTruthful` | `OutcomeTruthful` |
| `RetriesReplace` | `RetryReplaces` |
| `CompleteIsWhole` | `CompleteMeansWhole` |

`SlicesCover` and the lemmas on `Place` show that the chunks of a payload cover it, once
each. `Content` is the heart of `PersistInv`: an upload whose runs came one at a
time has the rows of the requests its last run has behind it, with or without those of
the request it is at, since that one may have broken and been applied all the same;
until its DELETE is through it has those of one earlier run. `Order` says what the two
ghost sets mean, `LateOnes` that a late request is the one its run broke at: it can
then only add what `Content` allows. `Marks` keeps an upload from being marked by a
run that has not sent its last request.

### Rate limiter

`RateLimiterProofs`, for every set of clients, every rate and length of the minute,
every pruning threshold and every idle time of at least a minute
(`LimiterAssumption`):

| theorem | property |
|---|---|
| `TypeCorrect` | `TypeOK` |
| `Implementation` | `ImplementsEager` |
| `RetryIsExact` | `RetryExact` |
| `RateKept` | `WithinRate` |

The argument is `PrunedUnnoticed`: a bucket idle for longer than a minute has earned
its capacity, and so counts now and at any later time as much as a missing one. This
is where the code's two constants, the minute and `IDLE_SECONDS`, have to agree.
`RetryInv` strengthens `RetryExact` from the present second to all later ones, since
the bucket of a waiting client may be pruned while it waits. What remains is
arithmetic: counting a second now or later is the same under the cap
(`RefilledNextSecond`), and a quotient rounded up is least (`RoundedUp`).

`WithinRate` alone is not inductive, since it does not know what a bucket still
holds. `RateInv` says of each window that ends now that what it admitted, together
with what the bucket holds now, is no more than a full bucket and what the window
earned: a request moves a token from one summand to the other, a second adds its
earnings to both sides, and a window that opens now has nothing in it. The sum over
a window is a fold over a set; `SumFacts` shows that its recursion has a solution,
that any solution adds up in any order, and so that a window one second longer adds
just what that second admitted.

### Upload and pipeline

`PipelineProofs`, for every set of requests, every limit and chunk size, every number
of rows, neighbours and pairs per block, all weights, thresholds and conversions of
cells:

| theorem | property |
|---|---|
| `TypesAreRight` | `TypeOK` |
| `UploadIsTruthful` | `UploadTruthful` |
| `ComponentsAreOfPairs` | `NearestJoined` |
| `SplitIsExact` | `SplitExact` |
| `TableIsFaithful` | `PreparedFaithful` |
| `TablesAgree` | `ResultCoherent` |
| `EveryPairIsScored` | `ScoresComplete`: when the graph is built no candidate pair still has what `np.empty` found in memory |

Assumptions: `IngestAssumption`, `CellAssumption`, `GroupingAssumption` and
`NaNAssumption` (a file has finitely many rows, each with a cell for every header; its
declared length is not below its size, limits are natural numbers; the conversions are
defined on the cells of the files and on what other conversions make of them,
`clean_numeric_series` strips a cell itself and keeps what is a number already; the
intents are among the labels a majority is taken over).
`UploadInv` says how much was read at each stage. `TableInv` carries through
`prepare_dataframe` that there is at least one row, which the numbers of components
depend on. For `SplitExact` the invariant `LabelsRight` says that all labels are below
`nextLabel`, that a group shares its label, and that two groups with one label are
both still waiting or the one that stays. This is needed because `_post_split` takes
labels for the groups of one component while later components hold theirs: a label
that is fresh now must be fresh for what is split later. `ComponentNumbers` bounds
the numbers of components by the rows, so that the first label taken is indeed above
all; `Min` and `Max` are characterised from well-foundedness of the naturals
(`NaturalFacts`); and `KeeperIsUnique` shows that at most one group of a component
stays. For the scores, what is scored is a prefix of the pairs, at every turn of the
loop.

`NearestJoined` is proved along the stages (`GraphInv`). The nearest row comes right
after the row itself (`NearestIsSecond`), so the cut of the first column keeps it; the
flat list of candidates has each row with the first that is kept and only pairs of
rows (`CandidatesOfRows`, division with remainder); every candidate was scored with
its own similarity, so the graph has just the similar ones, both ways
(`BuildGraphRight`); and two rows have the same component number exactly when they are
linked (`ComponentsAreLinked`), because being linked is an equivalence when edges go
both ways, and the number counts the components with an earlier first row.

Two parts of `TypeOK` need more than their own step. That a volume is a number depends
on the columns it may have been read from: `FrameTypes` says of the frame, stage by
stage, that every header of the file has a cell for each row, that what
`resolve_columns` finds is one of those headers (`ColumnIsThere`), and that once volumes
were written, first of all roles, nothing writes them again. And `nextLabel` stays
within the number of rows although a label is taken for every group that leaves its
component: `LabelCount` adds the groups still waiting, and at the beginning there are
enough rows because the component numbers have no gaps (`ComponentsHaveNoGaps`) and
each component has a group that keeps its label (`EnoughLabels`).

`TableIsFaithful` has the hazard of `prepare_dataframe` working in place as its
invariant. `FrameRight` says, at each turn, which columns are still the file's and
that a role written already has the numbers of its own column unless that one had been
overwritten (`Faithful`, the condition `PreparedFaithful` itself makes). The case that
needs an argument is a role mapped to a column that was written before: it is then a
role mapped to itself, whose cells were stripped or converted, and converting them
once more gives the same (`NumbersOfRole`). `_dedupe_keywords` works on the frame, whose
rows are numbered anew once those without a keyword are gone. `LikeRows` shows that the
new numbers lead, in order, from the rows with one key to the rows of the file with it,
and `MeanMoves` and `MaxMoves` that statistics do not depend on which rows their
numbers are in.

For `TablesAgree`, `RowsSound` says that keywords are distinct, for a normalized keyword
is always that of the keyword beside it. The order of the rows is a strict total one, so
the ranks in it are a permutation (`SortedFacts`, `RankedFacts`): every row is listed
once, those of a cluster together. A last row in the order of canonical keywords exists
(`CanonicalIsMember`), and the majority of intents that are all equal is that intent
(`ModeOfEqual`), which they are by `SplitIsExact`.

### Only model-checked

The liveness properties `EveryJobSettles`, `EveryTaskEnds` and `CancelHolds`, for the
prover handles neither fairness nor ENABLED.

## Not modelled

* TF-IDF, SVD and k-NN, which are numerical libraries: any similarities stand for
  them. The values of topic labels, quality, opportunity and priority, `is_brand`
  and the order of the cluster table are formulas over one cluster that no step
  reads back.
* Decoding, delimiter sniffing and the parsers behind `read_table`, and the sample
  rows of a preview: outcomes of a file.
* The pipeline inside `ClusterService`, where it is one step with the outcomes of a
  file; `Pipeline` has a single request, as the calls share no state.
* `JobSlots`, which nothing acquires; `client_ip`, which is the identity of a
  client; `/health`, configuration, logging and messages.
* Float rounding in the rate limiter, in statistics and in similarities; wall-clock
  steps.
* The copies `src/api.py`, `src/jobs.py` and the patch, which are version 1.4.0
  beside the package that is deployed.

## Plan

Done: every component named above as modelled is modelled and checked, and every
invariant and action property that a passing run checks is proved, with the
refinements. What is left:

1. The proofs of the pipeline, shorter: the two inductions over `prepare_dataframe`
   (`FrameTypes` and `FrameRight`) share their cases.
2. The parts listed under "Not modelled" stay with tests.
