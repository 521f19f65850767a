SPECIFICATION FairSpec
CONSTANTS
  j1 = j1  j2 = j2  s1 = s1  s2 = s2
  w1 = w1  w2 = w2  w3 = w3  w4 = w4  w5 = w5  w6 = w6
  Workers <- MCWorkers
  NoWorker = NoWorker
  NoJob = NoJob
  Jobs = {j1, j2}
  Slots = {s1, s2}
  Lease = 3
  RetryBase = 2
  BackoffCap = 1
  MaxWait = 1
  Budget = 2
  MaxDuration = 2
  ClaimBy = 1
  BatchLimit = 2
  MaxRetries <- OneRetry
  Unsupported = {j2}
  RunNowLocked = {j1}
  RunNowUnlocked = {}
  RunNowTakeover = {}
  Disconnectable = {j2}
  Closable = {}
  MaxCrashes = 2
  AttemptCap = 5
  RetryCap = 2
INVARIANTS TypeOK ClaimInv OneHandlerAtATime AttemptsAccounted RetryBudget
PROPERTIES ImplementsContract EventuallySettled
