CONSTANTS
    Unigram <- MCUnigram
    Bigram <- MCBigram
    KeyOrder <- MCKeyOrder
    L = 2
    freq = 2
    ChunkSize = 6
    MaxChunks = 8
    MaxSents = 3
    MaxLen = 2
SPECIFICATION Spec
INVARIANTS
    TypeOK
    IdsTile
    RowsFaithful
    FrequencyDecides
CHECK_DEADLOCK FALSE
