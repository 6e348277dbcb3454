SPECIFICATION ShellSpec
CONSTANTS
    CLUSTER_MAP_SIZE = 8
    CLUSTER_SIZE = 2
    DIRECTORY_ENTRIES = 3
    Names <- MCNames
    RootName = "root"
    Sizes <- MCSizes
    Payloads <- MCPayloads
    MaxLosses = 0
    Misuse <- NoMisuse
    Shells <- MCShells
    Extended <- MCExtended
    RootLike <- MCRootLike
    Sessions <- MCSessions
    FileSize = 2
    Reserve = 1
    Slips <- NoSlips
INVARIANTS
    ShellTypeOK
    StackIsAPath
    NoneIsLost
PROPERTIES
    MakesWhatIsNamed
    RemovesWhatIsNamed
    CopiesAreFaithful
    MovesLoseNothing
    CdGoesWhereNamed
    FindReportsAll
    EveryCommandEnds
