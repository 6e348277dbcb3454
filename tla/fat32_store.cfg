SPECIFICATION Spec
CONSTANTS
    CLUSTER_MAP_SIZE = 6
    CLUSTER_SIZE = 2
    DIRECTORY_ENTRIES = 2
    Names <- MCNames
    RootName = root
    a = a
    b = b
    root = root
    Sizes <- MCSizes
    Payloads = {x, y}
    MaxLosses = 0
    Misuse <- AnyParent
INVARIANTS
    TypeOK
    ClustersOwnedOnce
    FatCached
    ParentLinks
    EverythingReads
PROPERTIES
    ImplementsStore
