SPECIFICATION Spec
CONSTANTS
  Requests = {r1, r2}
  Workers = {w1, w2}
  NoWorker = NoWorker
  FaultSets <- NoFaults
PROPERTY CompletedIsFinal
