\* A driver (3) that calls another driver (4) while it serves a client.
SPECIFICATION Spec
CONSTANTS
    MAX_TASK = 8
    MAX_DRIVERS = 5
    LastTask = 6
    Clients = {3, 5, 6}
    Drivers = {3, 4}
    Sleepers <- NoTasks
    DevName <- MCOwnName
    NoName = "none"
    MaxXfer = 1
    Faults <- NoFaults
    Data = {"x"}
    Rets = {2}
    HonestCount = TRUE
INVARIANTS
    CallersOnRecord
