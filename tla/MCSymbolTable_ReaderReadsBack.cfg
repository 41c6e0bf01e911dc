SPECIFICATION Spec
CONSTANTS
    Groups = {root, g}
    Root = root
    Names = {1, 2, 3}
    Length <- MCLength
    Objs = {a}
    SnodCapacity = 2
    K = 1
    HeapSize = 6
    MaxLinks = 5
    MaxStrings = 5
INVARIANTS ReaderReadsBack
CHECK_DEADLOCK FALSE
