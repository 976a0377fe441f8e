SPECIFICATION FairSpec
CONSTANTS
  Ids = {d1, d2, d3}
  MaxActive = 2
  MaxRetries = 1
  Plans <- MCPlans
  Reports = {0, 1, 3}
INVARIANTS
  SchedulerIsSound
PROPERTIES
  PausedHoldsStill
  WaitingIsServed
