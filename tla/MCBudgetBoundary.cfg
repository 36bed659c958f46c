CONSTANTS
    MaxThreadCount = 2
    StoreKeyBits = FALSE
    SymBits = 3
    MaxFileId = 20
    MCSyms = {1}
    MCLens = {1}
    MCThreads = {2}
    MCMaxFiles = {5}
    MCEmptyRange = FALSE
    MCCutZeroMax = FALSE
    RecordUnsort = FALSE
    UnsortThreads = 1
    Calls <- MCCalls
SPECIFICATION Spec
INVARIANTS
    BudgetBoundary
CHECK_DEADLOCK FALSE
