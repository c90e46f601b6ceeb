\* Two tasks, one of which may be the keyboard driver, and four ports.
SPECIFICATION SpeedSpec
CONSTANTS
    Users = {3, 4}
    Vectors <- MCVectors
    KeepsEdx = TRUE
    TSS_PORT = 2
    BITS = 2
    Polite = TRUE
\* int_hard_17 may call address 0, and nothing is known after that.
CHECK_DEADLOCK FALSE
INVARIANTS
    ToldOwners
    ClockStaysOn
    OwnSpace
    LostOnlyEarly
    MapsAgree
PROPERTY
    OpensExactly
