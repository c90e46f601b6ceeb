\* Two places for user tasks, up to four modules of two frames or too long.
SPECIFICATION BootSpec
CONSTANTS
    MAX_TASK = 7
    MAX_GDT = 14
    MAX_PAG_DRIVER = 2
    MODE_KERNEL = FALSE
    MAX_STRING = 5
    MaxModules = 4
    PathLen <- MCPathLen
    PAG_LEN = 4
    SEC_MEM = 4
    Slack = 2
    Megabyte = 4
    Video <- MCVideo
    VideoText <- MCVideoText
    KernelIni = 4
    KernelFin = 5
    TAB_PAG_LEN = 12
    CAN_TAB_PAG = 5
    V_USER = 8
    V_STACK = 11
    RamBytes = {184}
    Lengths = {5, 9}
    Requests = {0}
\* _main returns when there is no /boot/start.bin.
CHECK_DEADLOCK FALSE
INVARIANTS
    BootTypeOK
    ReachesItsProgram
    FramesApart
PROPERTY
    EveryoneReached
