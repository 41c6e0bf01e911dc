SPECIFICATION Spec
CONSTANTS
    Names = {1, 2}
    Addrs = {1, 2}
    Capacity = 2
    LinkKinds = {"dataset"}
    DenseGroups = TRUE
    MaxRefCount = 3
CONSTRAINT Explored
INVARIANTS TypeOK NoDanglingLink RefCountExact RefCountCovers KnownGroupsLive
