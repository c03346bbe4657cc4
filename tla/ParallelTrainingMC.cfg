CONSTANTS
    thread_num = 3
    maxitr = 3
    MaxSents = 5
    MaxBlanks = 1
SPECIFICATION FairSpec
INVARIANTS
    TypeOK
    NoArenaRace
    LatticeIntact
    DeletedOnce
PROPERTIES
    WeightsFrozen
    TrainsSequentially
    Returns
CHECK_DEADLOCK FALSE
