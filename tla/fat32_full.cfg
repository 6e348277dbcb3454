SPECIFICATION Spec
CONSTANTS
    CLUSTER_MAP_SIZE = 6
    CLUSTER_SIZE = 2
    DIRECTORY_ENTRIES = 2
    Names <- MCNames
    RootName = root
    a = a
    b = b
    root = root
    Sizes <- MCSizes
    Payloads = {x}
    MaxLosses = 0
    Misuse <- DiskFull
INVARIANTS
    ReservedEntries
