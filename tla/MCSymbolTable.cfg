SPECIFICATION Spec
CONSTANTS
    Groups = {root, g}
    Root = root
    Names = {1, 2, 3}
    Length <- MCLength
    Objs = {a, b}
    SnodCapacity = 2
    K = 1
    HeapSize = 6
    MaxLinks = 4
    MaxStrings = 4
INVARIANTS TypeOK SessionReadsBack RootReadsBack KeysBracketSnods
PROPERTIES ImplementsDirectory
CHECK_DEADLOCK FALSE
