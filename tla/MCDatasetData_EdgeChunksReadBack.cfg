SPECIFICATION Spec
CONSTANTS
    Shapes <- MCShapes
    MaxPerNode = 2
    MaxWrites = 2
    MaxFailures = 0
    HeaderSizes = {}
    MaxStride = 3
    MaxBlock = 3
    Word = 1000
    Zero = Zero
    Failed = Failed
    Nil = Nil
    Behind = Behind
    None = None
INVARIANT EdgeChunksReadBack
CHECK_DEADLOCK FALSE
