\* One turn whose embedder fails.
CONSTANTS
    t1 = t1
    DEFAULT_TITLE = DEFAULT_TITLE
    Turns = {t1}
    MAX_TOOL_ROUNDS = 4
    MaxSearches = 1
    FaultSets <- FailingTools
SPECIFICATION Spec
INVARIANT EveryCallRecorded
CHECK_DEADLOCK FALSE
