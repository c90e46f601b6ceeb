\* Two clients of one driver; the table of tasks is full, so t_indice wraps at MAX_TASK.
SPECIFICATION Spec
CONSTANTS
    MAX_TASK = 6
    MAX_DRIVERS = 4
    LastTask = 5
    Clients = {4, 5}
    Drivers = {3}
    Sleepers <- NoTasks
    DevName <- MCOwnName
    NoName = "none"
    MaxXfer = 1
    Faults <- NoFaults
    Data = {"x", "y"}
    Rets = {2}
    HonestCount = TRUE
INVARIANTS
    TypeOK
    KernelTasksAsleep
    OneDebtPerCaller
    SomeRunnable
PROPERTIES
    OnlyTheReplyTouches
    ImplementsRendezvous
    ImplementsScheduler
