SPECIFICATION WindowSpec
CONSTANTS
    Width = 8
    Height = 6
    CutoffX = 4
    CutoffY = 4
    Source <- MCSource
    Outside = {0, 255}
    Kernels <- PoolingKernels
INVARIANT
    PoolingUsesBlocks
