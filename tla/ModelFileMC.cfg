CONSTANTS
    MaxChar = 3
    Blank = 1
    Keys <- MCKeys
    KeySets <- MCKeySets
    MaxInt = 3
    Tags <- MCTags
    Unigrams <- MCUnigrams
    Bigrams <- MCBigrams
    Garbage = {0, 4, 60}
SPECIFICATION Spec
INVARIANTS
    FindsWhatWasSaved
    OpensOnlyWhole
CHECK_DEADLOCK FALSE
