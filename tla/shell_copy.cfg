SPECIFICATION ShellSpec
CONSTANTS
    CLUSTER_MAP_SIZE = 9
    CLUSTER_SIZE = 2
    DIRECTORY_ENTRIES = 3
    Names <- MCNames
    RootName = "root"
    Sizes <- MCSizes
    Payloads <- MCPayloads
    MaxLosses = 0
    Misuse <- NoMisuse
    Shells <- MCShells
    Extended <- MCExtended
    RootLike <- MCRootLike
    Sessions <- FolderSessions
    FileSize = 2
    Reserve = 1
    Slips <- CopyFiles
PROPERTIES
    CopiesAreFaithful
