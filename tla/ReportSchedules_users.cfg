SPECIFICATION Spec
CONSTANTS
  LastTime = 2
  MaxRetries = 2
  MarkMayFail = TRUE
  MaxEdits = 1
  MaxClosures = 1
  MaxKills = 0
CHECK_DEADLOCK FALSE
PROPERTY ClosedIsQuiet
