SPECIFICATION Spec
CONSTANTS
    Kinds = {"root", "group", "dataset"}
    Names = {a, b, c}
    Values = {2, 4}
    ContSize = 1
    InfoSize = 1
    AllocSize = 4
    MaxCompact = 3
    MaxBlocks = 2
    MaxStores = 1
    MaxMessages = 4
INVARIANTS TypeOK ReadsBack OneForm
PROPERTIES AddStaysInside
CHECK_DEADLOCK FALSE
SYMMETRY NameSymmetry
