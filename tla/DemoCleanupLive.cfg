SPECIFICATION FairSpec
CONSTANTS
  Workers = {w1}
  NoWorker = NoWorker
  Keys = {k1}
  Requests = {r1}
  Cleaners = {c1, c2}
  Nobody = Nobody
  FaultSets <- Crashes
PROPERTIES EventuallyDone
