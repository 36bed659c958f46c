SPECIFICATION Spec
\* OpenMP without sync ops: the plain ++ from two threads
CONSTANTS
    Ranks = {0, 1}
    NT = 2
    OSize = 2
    ByteBits = 2
    MaxIncs = 7
    Builds = {"nosync"}
INVARIANT DecodedCounts
\* after flush() nothing is left to do
CHECK_DEADLOCK FALSE
