SPECIFICATION MCSpec
CONSTANTS
    K = 3
    MaxIterations = 3
    CellDimension = 2
    SequentialCells = 2
    Pixels <- MCPixels
    Images <- MCImages
    Starts <- MCStarts
    EpsValues <- MCEpsValues
    Sizes <- MCSizes
INVARIANTS
    TypeOK
    WithinItsCluster
    KeepsOrder
    EarlyEndIsFixedPoint
    HogTypeOK
    CellsShowTheirPixels
    AllCellsShown
PROPERTIES
    NeverFarther
    ResultIsSet
CHECK_DEADLOCK FALSE
