SPECIFICATION FairSpec
CONSTANTS
  LastTime = 2
  MaxRetries = 3
  MarkMayFail = FALSE
  MaxEdits = 0
  MaxClosures = 1
  MaxKills = 0
CHECK_DEADLOCK FALSE
PROPERTY DueOccurrenceIsServed
