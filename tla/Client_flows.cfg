SPECIFICATION FairSpec
CONSTANTS
    UIDS = {u1, u2}
    KINDS <- MCKinds
    STARTS <- MCStarts
    MAX_FLOWS = 2
    MAX_FAULTS = 1
CHECK_DEADLOCK FALSE
INVARIANTS ToldIsTrue AtMostOnce
PROPERTIES NoSilentCoexistence EveryFlowEnds
