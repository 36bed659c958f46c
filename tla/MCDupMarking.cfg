CONSTANTS
    Alns <- MCAlns
    Mates <- MCMates
    LibOf <- MCLibOf
    Libs = {0, 1}
    Tags = {0, 1}
    NumReads = 5
    MaxReports = 3
    MaxOptical = 2
    IntBits = 8
    ShiftBits = 5
SPECIFICATION Spec
INVARIANTS
    TypeOK
    FlushMarksExactly
    EncodedOrderAgrees
    OpticalFieldsParsed
    RecodeIdentity
    ComparatorsAgree
CHECK_DEADLOCK FALSE
