SPECIFICATION Spec
CONSTANTS
  j1 = j1
  j2 = j2
  good = good
  bad = bad
  NoJob = NoJob
  None = None
  JobIds <- MCJobIds
  Bodies <- MCBodies
  Codes <- WorkerCodes
  MaxJobs = 1
  TtlSeconds = 1
  Files <- MCFiles
  ReadEnds <- MCReadEnds
  ClusterEnds <- MCClusterEnds
  PersistEnds = {"ok", "refused", "broken"}
  BodySize <- MCBodySize
  Contexts = {TRUE, FALSE}
  MaxEntries = 2
  MaxTotalBytes = 0
  Threads = 2
  Workers = 1
  MaxTime = 3
  MaxRestarts = 1
SYMMETRY Ids
INVARIANT
  CanceledNeverSaved
