\* Up to two modules of one, two or (too long) three frames.
SPECIFICATION Spec
CONSTANTS
    PAG_LEN = 4
    SEC_MEM = 4
    Slack = 2
    Megabyte = 4
    Video <- MCVideo
    VideoText <- MCVideoText
    KernelIni = 4
    KernelFin = 5
    TAB_PAG_LEN = 12
    CAN_TAB_PAG = 5
    V_USER = 8
    V_STACK = 11
    MAX_PAG_DRIVER = 2
    RamBytes = {112, 116}
    Lengths = {4, 5, 9}
    MaxModules = 2
    Requests <- MCRequests
INVARIANTS
    NoFrameTwice
    FramesInPlace
    OwnTableChecksOwnFrames
    NothingLost
