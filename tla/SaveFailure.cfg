CONSTANTS
    thread_num = 2
    maxitr = 2
    MaxSents = 2
    MaxBlanks = 1
SPECIFICATION Spec
INVARIANTS
    NeverDeletedTwice
CHECK_DEADLOCK FALSE
