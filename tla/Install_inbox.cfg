SPECIFICATION FairSpec
CONSTANTS
  FLOWS = {f1, f2}
  Nothing = Nothing
  Partial = Partial
  MAX_RELEASE = 2
  MAX_FAULTS = 1
CHECK_DEADLOCK FALSE
INVARIANTS InstalledIsWhole QuietAgrees
PROPERTIES OkMeansInstalled InboxIsEmptied
