SPECIFICATION FairWorkerSpec
CONSTANTS
  Documents = {d1}
  Workers = {w1, w2}
  Daemons = {w1}
  Keys = {k1, k2}
  NoDocument = NoDocument
  NoWorker = NoWorker
  NoKey = NoKey
  LeaseSeconds = 2
  LockWait = 1
  MaxJobs = 2
  MaxClock = 6
INVARIANTS
  WorkerTypeOK
  FailedMeansAbandoned
PROPERTIES
  WorkersUseStore
  RunningJobsEnd
