CONSTANTS
    size = 2
    msize = 3
    maxfev = 3
    MaxTrials = 9
SPECIFICATION Spec
INVARIANTS
    TypeOK
    LatestPairs
    SecantPairs
    OneBase
    SearchBounded
CHECK_DEADLOCK FALSE
