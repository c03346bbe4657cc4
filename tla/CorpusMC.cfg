CONSTANTS
    Long = Long
    LongLine = Long
    Lines <- MCLines
    XSizes = {1, 2}
    MaxColumns = 2
    MaxFiles = 3
    MaxLines = 4
SPECIFICATION Spec
INVARIANTS
    TrainsOnRuns
    WritesPieces
PROPERTIES
    AnswersKnown
    Finishes
