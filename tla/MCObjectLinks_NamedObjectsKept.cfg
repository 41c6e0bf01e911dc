SPECIFICATION Spec
CONSTANTS
    Names = {1, 2}
    Addrs = {1, 2}
    Capacity = 2
    LinkKinds = {"dataset"}
    DenseGroups = FALSE
    MaxRefCount = 3
INVARIANT NamedObjectsKept
