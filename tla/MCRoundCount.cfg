CONSTANTS
    MaxThreadCount = 1
    StoreKeyBits = FALSE
    SymBits = 4
    MaxFileId = 20
    MCSyms = {5}
    MCLens = {1}
    MCThreads = {1}
    MCMaxFiles = {9}
    MCEmptyRange = FALSE
    MCCutZeroMax = FALSE
    RecordUnsort = FALSE
    UnsortThreads = 1
    Calls <- MCCalls
SPECIFICATION Spec
INVARIANTS
    RoundCountIndependentOfMaxSym
CHECK_DEADLOCK FALSE
