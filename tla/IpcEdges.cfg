\* A client and two drivers that register the same name; every pointer check may fail.
SPECIFICATION Spec
CONSTANTS
    MAX_TASK = 8
    MAX_DRIVERS = 5
    LastTask = 5
    Clients = {5}
    Drivers = {3, 4}
    Sleepers <- NoTasks
    DevName <- MCSameName
    NoName = "none"
    MaxXfer = 1
    Faults <- SomeFaults
    Data = {"x"}
    Rets = {2}
    HonestCount = TRUE
PROPERTIES
    NamesKeepResolving
    ImplementsRendezvous
