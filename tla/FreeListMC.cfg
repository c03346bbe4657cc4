CONSTANTS
    Size <- MCSize
    Lens <- MCLens
    MaxBlocks <- MCMaxBlocks
SPECIFICATION Spec
INVARIANTS
    TypeOK
    BlocksInBounds
    LiveDisjoint
PROPERTIES
    FreshBlock
    GrowsOnlyWhenFull
