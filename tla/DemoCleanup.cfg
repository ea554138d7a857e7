SPECIFICATION Spec
CONSTANTS
  Workers = {w1}
  NoWorker = NoWorker
  Keys = {k1, k2}
  Requests = {r1}
  Cleaners = {c1, c2}
  Nobody = Nobody
  FaultSets <- Environments
INVARIANTS TypeOK DoneIsClean NoCallAfterDone SoleCleaner
PROPERTIES DoneIsFinal
SYMMETRY Symmetry
