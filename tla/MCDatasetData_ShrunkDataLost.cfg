SPECIFICATION Spec
CONSTANTS
    Shapes <- MCResized
    MaxPerNode = 2
    MaxWrites = 2
    MaxFailures = 1
    HeaderSizes = {"short", "long", "wide"}
    MaxStride = 1
    MaxBlock = 1
    Word = 1000
    Zero = Zero
    Failed = Failed
    Nil = Nil
    Behind = Behind
    None = None
INVARIANT ShrunkDataLost
CHECK_DEADLOCK FALSE
