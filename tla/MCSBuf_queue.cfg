SPECIFICATION FairSpec
CONSTANTS
  Clients = {c1, c2, c3}
  JobThreads = {j1, j2}
  N = 2
  IntMax = 8
  JobBound = 4
  NoJob = NoJob
INVARIANTS
  TypeOK
  MutexExcludes
  SlotsAccounted
  
PROPERTIES
  ImplementsQueue
  EveryJobProcessed
