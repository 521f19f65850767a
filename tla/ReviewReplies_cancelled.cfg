SPECIFICATION Spec
CONSTANTS
  w1 = w1  w2 = w2
  Workers = {w1, w2}
  NoWorker = NoWorker
  MaxRetries = 1
  Controls = {"pause", "resume", "cancel"}
  MaxControls = 1
  MaxOperator = 0
  MaxChanges = 0
  MaxKills = 0
CHECK_DEADLOCK FALSE
INVARIANT CancelledBeforePosting
