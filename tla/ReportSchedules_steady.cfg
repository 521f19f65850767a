SPECIFICATION FairSpec
CONSTANTS
  LastTime = 2
  MaxRetries = 3
  MarkMayFail = FALSE
  MaxEdits = 0
  MaxClosures = 0
  MaxKills = 2
CHECK_DEADLOCK FALSE
INVARIANTS TypeOK RetriesInStep NeverStranded NoPeriodSkipped RepeatsPaidFor
PROPERTY DueOccurrenceIsServed
