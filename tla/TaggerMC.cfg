CONSTANTS
    Taggers = {t1, t2}
    Models = {m1}
    Indexes = {1, 2, 3}
    Allocators = {11, 12, 13}
    MaxTokens = 2
    NBests = {0, 2}
    Vlevels = {0, 1}
    MaxTags = 2
    None = None
SPECIFICATION Spec
CONSTRAINT Careful
SYMMETRY Alike
INVARIANTS
    OwnedOnce
    FaultsAreMisuse
    NothingLeaks
CHECK_DEADLOCK FALSE
