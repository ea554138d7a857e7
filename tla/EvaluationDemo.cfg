SPECIFICATION FairSpec
CONSTANTS
  Requests = {r1, r2}
  Workers = {w1, w2}
  NoWorker = NoWorker
  Demo = TRUE
  AiPerSession = 3
  Faults <- NoFaults
INVARIANTS PendingIsQueued CallsAreCharged SoleExecution
PROPERTY EventuallyDecided
