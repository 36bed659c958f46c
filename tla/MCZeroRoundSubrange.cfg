CONSTANTS
    MaxThreadCount = 2
    StoreKeyBits = FALSE
    SymBits = 3
    MaxFileId = 20
    MCSyms = {0}
    MCLens = {1, 2}
    MCThreads = {2}
    MCMaxFiles = {8}
    MCEmptyRange = FALSE
    MCCutZeroMax = TRUE
    RecordUnsort = FALSE
    UnsortThreads = 1
    Calls <- MCCalls
SPECIFICATION Spec
INVARIANTS
    ReturnsOnlyRange
CHECK_DEADLOCK FALSE
