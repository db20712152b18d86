SPECIFICATION Spec
CONSTANTS
    NODES = {1, 2, 3}
    CONFIGS <- MCConfigs
    TRAFFIC <- MCTraffic
    FILTERS <- MCFilters
    CONCURRENCY = 2
    MAX_CHANGES = 1
    MAX_TASKS = 2
CHECK_DEADLOCK FALSE
INVARIANTS ViewIsCurrent TestIsComplete
PROPERTIES CursorFollowsNode
