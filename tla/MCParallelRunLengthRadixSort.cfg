CONSTANTS
    MaxThreadCount = 2
    StoreKeyBits = TRUE
    SymBits = 3
    MaxFileId = 24
    MCSyms = {0, 2, 5}
    MCLens = {1, 2}
    MCThreads = {2}
    MCMaxFiles = {2, 8, 12}
    MCEmptyRange = TRUE
    MCCutZeroMax = FALSE
    RecordUnsort = TRUE
    UnsortThreads = 3
    Calls <- MCCalls
SPECIFICATION Spec
INVARIANTS
    TypeOK
    LSDRoundInvariant
    CompleteCopyOnDisk
    FileBudget
    HistogramMass
    RoundTrip
CHECK_DEADLOCK FALSE
