CONSTANTS
    NumFiles = 3
    NumReads = 4
SPECIFICATION Spec
INVARIANTS
    TypeOK
    RangesExact
    RangesInAReadOrder
    ScanReadsAll
CHECK_DEADLOCK FALSE
