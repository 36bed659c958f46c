SPECIFICATION Spec
CONSTANT W = 5
INVARIANT TypeOK GcdCorrect IlogCorrect
\* lcm(0,0) traps and ends the process
CHECK_DEADLOCK FALSE
