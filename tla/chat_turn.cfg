\* Two turns of a conversation that may be deleted meanwhile.
CONSTANTS
    t1 = t1
    t2 = t2
    DEFAULT_TITLE = DEFAULT_TITLE
    Turns = {t1, t2}
    MAX_TOOL_ROUNDS = 4
    MaxSearches = 1
    FaultSets <- FailingStreams
SPECIFICATION FairSpec
INVARIANTS
    ConversationKept
    BooksAreKept
PROPERTIES
    NamedOnce
    TurnsEnd
CHECK_DEADLOCK FALSE
