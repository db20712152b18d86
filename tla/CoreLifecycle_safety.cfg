SPECIFICATION Spec
CONSTANTS
  WINDOW = 5
  MAX_RESTARTS = 3
  MAX_BACKOFF = 2
  TUN_FAIL_THRESHOLD = 3
  STARTUP_GRACE = 1
  TunEnabled = TRUE
  Slots = {c1, c2}
  NoSlot = NoSlot
SYMMETRY Symmetry
CHECK_DEADLOCK FALSE
INVARIANTS OneCore RunningIsSupervised GracefulExit IndInv
