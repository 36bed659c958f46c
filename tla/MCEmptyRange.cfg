CONSTANTS
    MaxThreadCount = 2
    StoreKeyBits = FALSE
    SymBits = 3
    MaxFileId = 20
    MCSyms = {1}
    MCLens = {1}
    MCThreads = {2}
    MCMaxFiles = {8}
    MCEmptyRange = TRUE
    MCCutZeroMax = FALSE
    RecordUnsort = FALSE
    UnsortThreads = 1
    Calls <- MCCalls
SPECIFICATION Spec
INVARIANTS
    NoDivisionByZero
CHECK_DEADLOCK FALSE
