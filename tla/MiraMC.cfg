CONSTANTS
    N = 3
    C = 2
    shrinking_size = 2
    CharSize = 4
    maxitr = 6
SPECIFICATION MiraSpec
INVARIANTS
    MiraTypeOK
    ConvergedSawAll
    WeightIsBound
    SkippedIffOptimal
