SPECIFICATION Spec
CONSTANTS
  Requests = {r1, r2}
  Workers = {w1, w2}
  NoWorker = NoWorker
  FaultSets <- SomeFaults
SYMMETRY Symmetry
INVARIANTS TypeOK SoleExecution ProcessingHasRunner
PROPERTY CompletedIsProtected
