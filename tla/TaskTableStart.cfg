\* Room for every module, of which there are two at most, one of them start.bin.
SPECIFICATION MCSpec
CONSTANTS
    MAX_TASK = 8
    MAX_GDT = 16
    MAX_PAG_DRIVER = 1
    MODE_KERNEL = FALSE
    PathLen <- MCPathLen
    MAX_STRING = 5
    MaxModules = 2
CHECK_DEADLOCK FALSE
INVARIANT
    RunsStart
