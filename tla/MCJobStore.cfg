SPECIFICATION Spec
CONSTANTS
  Documents = {d1, d2}
  Workers = {w1, w2}
  Keys = {k1, k2, k3}
  NoDocument = NoDocument
  NoWorker = NoWorker
  NoKey = NoKey
  LeaseSeconds = 2
  LockWait = 1
  MaxJobs = 3
  MaxClock = 3
SYMMETRY Symmetry
INVARIANTS
  TypeOK
  OneOpenAttempt
  DocumentMirrorsAttempt
  PromotedOnce
PROPERTIES
  FactsAreFenced
  ImplementsLifecycle
