SPECIFICATION FairSpec
CONSTANTS
  e1 = e1  t1 = t1
  Events = {e1}
  Tests = {t1}
  NoDelivery = NoDelivery
  MaxAttempts = 2
  MaxRetries = 1
  FanOutRetries = 1
  MaxRecoveries = 1
  MaxChanges = 2
  MaxFaults = 1
CHECK_DEADLOCK FALSE
INVARIANTS TypeOK QuietWhilePaused VerifiedSecret OpenHasJob
PROPERTIES NeverSentAgain EventsAreServed
