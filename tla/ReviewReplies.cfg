SPECIFICATION FairSpec
CONSTANTS
  w1 = w1  w2 = w2
  Workers = {w1, w2}
  NoWorker = NoWorker
  MaxRetries = 1
  Controls = {"pause", "resume", "cancel"}
  MaxControls = 2
  MaxOperator = 1
  MaxChanges = 1
  MaxKills = 1
CHECK_DEADLOCK FALSE
INVARIANTS TypeOK PostedReachedGoogle PutsAccounted
PROPERTIES AnsweredIsLeftAlone CancelledForGood EveryReplyConcludes
