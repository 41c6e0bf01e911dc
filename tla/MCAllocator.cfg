SPECIFICATION Spec
CONSTANTS
    InitialOffset = 2
    Sizes = {1, 2, 3}
    MaxEOF = 8
    MaxTracked = 4
CHECK_DEADLOCK FALSE
INVARIANTS
    TypeOK
    FreeListCoalesced
    SpaceConserved
    NoTrailingFree
    TrackedExactly
PROPERTY
    ImplementsSpaceManager
