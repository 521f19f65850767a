SPECIFICATION Spec
CONSTANTS
  j1 = j1  j2 = j2  s1 = s1  s2 = s2
  w1 = w1  w2 = w2  w3 = w3  w4 = w4  w5 = w5  w6 = w6
  Workers <- MCWorkers
  NoWorker = NoWorker
  NoJob = NoJob
  Jobs = {j1, j2}
  Slots = {s1, s2}
  Lease = 3
  RetryBase = 2
  BackoffCap = 1
  MaxWait = 0
  Budget = 1
  MaxDuration = 2
  ClaimBy = 2
  BatchLimit = 2
  MaxRetries <- NoRetries
  Unsupported = {}
  RunNowLocked = {}
  RunNowUnlocked = {j2}
  RunNowTakeover = {j2}
  Disconnectable = {}
  Closable = {j2}
  MaxCrashes = 1
  AttemptCap = 3
  RetryCap = 1
SYMMETRY SlotSymmetry
INVARIANT ClaimInv
PROPERTY SettledIsFinal
