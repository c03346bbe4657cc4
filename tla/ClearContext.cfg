CONSTANTS
    Taggers = {t1}
    Models = {m1}
    Indexes = {1, 2}
    Allocators = {11, 12}
    MaxTokens = 2
    NBests = {0, 2}
    Vlevels = {0, 1}
    MaxTags = 2
    None = None
SPECIFICATION Spec
INVARIANTS
    ClearedHasNoPenalties
CHECK_DEADLOCK FALSE
