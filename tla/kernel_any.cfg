SPECIFICATION Spec
CONSTANTS
    PAGE_FRAME_MAX_COUNT = 5
    PAGING_DIRECTORY_TABLE_MAX_COUNT = 5
    PAGE_FRAME_SIZE = 4
    KERNEL_PAGE = 2
    WORD = 16
    PCB_QUEUE_MAX = 3
    PROCESS_COUNT_MAX = 3
    PROCESS_PAGE_FRAME_COUNT_MAX = 2
    ExecSizes <- MCExecSizes
    ShellSize <- MCShellSize
    Misuse <- AllMisuse
INVARIANTS
    TypeOK
    ProcessAccounting
    FrameAccounting
    FramesExclusive
    CpuStaysMapped
    OneRunning
    NothingLeftOver

    
