SPECIFICATION Spec
CONSTANTS
    MaxRecords = 4
    MaxNodes = 3
    MaxEnables = 3
    NoLazy = NoLazy
INVARIANTS TypeOK PanicNeedsRace StopLeavesNone
PROPERTY StopReturns
CHECK_DEADLOCK FALSE
