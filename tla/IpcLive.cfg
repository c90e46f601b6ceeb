\* Progress, and what an honest driver copies: two clients, one driver and a task
\* that calls SYS_WAIT; transfers of up to two bytes.
SPECIFICATION FairSpec
CONSTANTS
    MAX_TASK = 8
    MAX_DRIVERS = 4
    LastTask = 6
    Clients = {4, 5}
    Drivers = {3}
    Sleepers = {6}
    DevName <- MCOwnName
    NoName = "none"
    MaxXfer = 2
    Faults <- NoFaults
    Data = {"x"}
    Rets = {2}
    HonestCount = TRUE
PROPERTIES
    CallReturns
    CopyFits
    Dispatched
