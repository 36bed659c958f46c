SPECIFICATION Spec
CONSTANT W = 4
INVARIANT LcmCorrect
CHECK_DEADLOCK FALSE
