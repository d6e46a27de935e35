\* Nine components, one at a time.
CONSTANTS
    NoLimit = NoLimit
    MaxCallers = 3
    TICKS = 2
    WINDOW_SECONDS = 2
    DAY_SECONDS = 2
    BaseLimits <- Base
    ProLimits <- Pro
    Overrides <- AdminOverrides
    MaxTokens = 1
    MaxCounting = 2
    MaxRunning = 2
    Horizon = 4
    a1 = a1
    a2 = a2
    b1 = b1
    b2 = b2
    Verifiers = {b1, b2}
    Kids = {a1, a2}
    TTL = 1
    FetchTime = 1
    LastSecond = 4
    Orgs = {a1, a2}
    Editors = {b1, b2}
    org_key = org_key
    server_key = server_key
    NoKey = NoKey
    Omitted = Omitted
    CHAT_PROVIDERS <- ChatProviders
    DefaultModel <- DefaultModels
    EMBEDDING_PROVIDERS <- EmbeddingProviders
    KeyField <- KeyFields
    ServerKey <- ServerKeys
    NewSettings <- Defaults
    Payloads <- SomePayloads
    CACHE_MAX = 1
    Users = {a1, a2}
    Calls = {b1, b2}
    MaxOrgs = 2
    People = {a1, a2}
    Requests = {b1, b2}
    i1 = i1
    Items = {i1}
    MaxTenants = 2
    TARGET_WORDS = 4
    OVERLAP_WORDS = 2
    MIN_CHUNK_WORDS = 2
    Documents <- ShortDocuments
    Indexes = {0, 1}
    MaxPieces = 2
    Usages <- SmallCalls
    MaxRows = 2
    LastHalfDay = 3
    Passages <- SomePassages
    Foreign = {"d3"}
    TOP_K = 2
    MaxSearches = 2
SPECIFICATION Spec
SYMMETRY Interchangeable
INVARIANTS
    ServicesTypeOK
    LimitsAreKept
    RetryMakesRoom
    RetiredIsForgotten
    CurrentIsAccepted
    PairInCatalog
    ServedAsConfigured
    ChunksAreSound
    AnswerIsWhole
    BooksAddUp
PROPERTIES
    RetryNextDay
    KeysChangeByName
    TenantsApart
    MembershipDecides
    SearchesHold
CHECK_DEADLOCK FALSE
