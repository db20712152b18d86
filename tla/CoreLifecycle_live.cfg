SPECIFICATION FairSpec
CONSTANTS
  WINDOW = 2
  MAX_RESTARTS = 1
  MAX_BACKOFF = 1
  TUN_FAIL_THRESHOLD = 1
  STARTUP_GRACE = 1
  TunEnabled = TRUE
  Slots = {c1}
  NoSlot = NoSlot
PROPERTIES
  LockReleased
  CrashAttended
  TunLossFailsOpen
CHECK_DEADLOCK FALSE
