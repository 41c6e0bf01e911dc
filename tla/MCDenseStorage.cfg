SPECIFICATION Spec
CONSTANTS
    Names = {"a", "b", "c"}
    Hash <- MCHash
    MaxRecords = 2
    Values <- MCValues
    MaxFailures = 1
    BlockSize = 8
    BlockHeader = 1
    Checksum = 1
    OffsetLimit = 8
    MaxObject = 3
    TableWidth = 2
INVARIANTS TypeOK DenseReadsBack DamageIsLocal ObjectsDisjoint HeapAccounts IndexSorted
CONSTRAINT Collisionless
CHECK_DEADLOCK FALSE
