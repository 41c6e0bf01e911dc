SPECIFICATION Spec
CONSTANTS
    Shapes <- MCShapes
    MaxPerNode = 2
    MaxWrites = 2
    MaxFailures = 1
    HeaderSizes = {"wide"}
    MaxStride = 2
    MaxBlock = 3
    Word = 1000
    Zero = Zero
    Failed = Failed
    Nil = Nil
    Behind = Behind
    None = None
INVARIANTS   FreesOnlyChunks
CHECK_DEADLOCK FALSE
