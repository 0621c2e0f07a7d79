SPECIFICATION Spec
CONSTANTS
  j1 = j1
  j2 = j2
  j3 = j3
  full = full
  e1 = e1
  NoJob = NoJob
  None = None
  JobIds <- MCJobIds
  Reports <- MCReports
  Bodies = {full}
  Codes = {e1}
  MaxJobs = 2
  TtlSeconds = 1
  MaxTime = 4
SYMMETRY Ids
INVARIANTS
  TypeOK
  Bounded
  EntriesCoherent
PROPERTIES
  EntriesOnlyAdvance
  NothingLostEarly
  EvictionOrder
  NewJobIsHeld
  ImplementsLifecycle
