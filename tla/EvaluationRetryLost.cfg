SPECIFICATION Spec
CONSTANTS
  Requests = {r1, r2}
  Workers = {w1, w2}
  NoWorker = NoWorker
  Demo = FALSE
  AiPerSession = 3
  Faults <- NoFaults
INVARIANT PendingIsQueued
