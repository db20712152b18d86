SPECIFICATION FairSpec
CONSTANTS
  CAP = 2
  FETCHES = {f1, f2}
  MAX_NOW = 2
  MAX_RESTARTS = 1
  MAX_QUEUE = 0
  MAX_LOSSES = 1
CHECK_DEADLOCK FALSE
INVARIANTS PublishedIsRefreshed DegradedIsRefreshed
PROPERTIES Resubscribes
