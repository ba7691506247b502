SPECIFICATION WindowSpec
CONSTANTS
    Width = 8
    Height = 6
    CutoffX = 4
    CutoffY = 4
    Source <- MCSource
    Outside = {0, 255}
    Kernels <- MCKernels
INVARIANTS
    TypeOK
    DisjointTiles
    NoPixelLost
    ResultOfItsTile
    WholeImageFiltered
    IgnoredBorderIsLeft
PROPERTIES
    GradientsAreSeamless
    WrongOnlyAtSeams
    Ends
    ImplementsPixelPass
\* The tiling stops when the caller has the result; Ends says that it gets it.
CHECK_DEADLOCK FALSE
