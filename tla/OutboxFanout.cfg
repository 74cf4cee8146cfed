\* Two workers and one cleanup, two events, one destination, three edits, one rollback. Not symmetric: liveness.
CONSTANTS
  Event = {1, 2}
  Destination = {d1}
  Worker = {w1, w2}
  Cleaner = {c1}
  BatchSize = 2
  PurgeSize = 1
  MaxEdits = 3
  MaxFaults = 1
SPECIFICATION FairSpec
INVARIANT OutboxInv
PROPERTIES FanOutReachesEnabled NoSecondDelivery CleanupSparesUnfinished EventIsFannedOut CompletedIsPurged
CHECK_DEADLOCK FALSE
