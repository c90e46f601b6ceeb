\* Three user tasks; the clock and the keyboard at any instruction; a clock that ticks.
SPECIFICATION FairSpec
CONSTANTS
    MAX_TASK = 8
    LastTask = 5
INVARIANTS
    NeverFaults
    ServesItsCaller
    StackBound
    Acknowledged
PROPERTIES
    ImplementsScheduler
    ReadyRuns
