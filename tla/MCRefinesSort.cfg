CONSTANTS
    MaxThreadCount = 2
    StoreKeyBits = FALSE
    SymBits = 3
    MaxFileId = 20
    MCSyms = {1, 6}
    MCLens = {1, 2}
    MCThreads = {2}
    MCMaxFiles = {2, 10}
    MCEmptyRange = FALSE
    MCCutZeroMax = FALSE
    RecordUnsort = FALSE
    UnsortThreads = 1
    Calls <- MCCalls
SPECIFICATION Spec
PROPERTIES
    RefinesSort
CHECK_DEADLOCK FALSE
