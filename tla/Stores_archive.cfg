SPECIFICATION Spec
CONSTANTS
  Uids = {u1, u2, u3}
  NoUid = NoUid
  Urls = {s1, s2}
  Names = {renamed}
  GivenName = given
  Nodes = {x}
  NoNode = NoNode
  Labels = {a}
  Missing = Missing
  Torn = Torn
  MAX_BACKUPS = 3
  MAX_OPS = 2
  MAX_FAULTS = 1
CHECK_DEADLOCK FALSE
INVARIANT ArchivesRecoverable
