SPECIFICATION Spec
CONSTANTS
  j1 = j1
  c1 = c1
  c2 = c2
  e1 = e1
  NoJob = NoJob
  None = None
  Id = j1
  JobIds <- MCJobIds
  Fetchers <- MCFetchers
  Bodies <- MCBodies
  Codes = {e1}
  MaxJobs = 1
  TtlSeconds = 1
SYMMETRY Requests
INVARIANT
  GoneMeansFetched
