CONSTANTS
    ysize = 2
    Lattices <- MCLattices
    Exp <- MCExp
SPECIFICATION FairSpec
INVARIANTS
    TypeOK
    EstimatesExact
    GradientIsExpectation
PROPERTIES
    CostsAscend
    Answers
    EnumeratesBest
