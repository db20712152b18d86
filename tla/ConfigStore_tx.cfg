SPECIFICATION Spec
CONSTANTS
  Urls = {s1, s2}
  NoUrl = NoUrl
  MAX_VERSION = 2
  Nets = {n1, n2}
  Rejected <- MCRejected
  Archived <- MCArchived
  NoConfig = NoConfig
  MAX_FAULTS = 1
SYMMETRY MCSymmetry
CHECK_DEADLOCK FALSE
INVARIANTS
  TxInv
PROPERTIES
  SettingsNotSilentlyChanged
  CommitIsApplied
  AbortLeavesNoTrace
  ConfigIsAtomic
