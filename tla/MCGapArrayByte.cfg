SPECIFICATION Spec
\* the correct builds: atomic increments from two threads, and the plain
\* ++ of a build without OpenMP from its one thread
CONSTANTS
    Ranks = {0, 1}
    NT = 2
    OSize = 2
    ByteBits = 2
    MaxIncs = 7
    Builds = {"sync", "serial"}
INVARIANT TypeOK CountsConserved DecodedCounts OverflowPairsAscending
\* after flush() nothing is left to do
CHECK_DEADLOCK FALSE
