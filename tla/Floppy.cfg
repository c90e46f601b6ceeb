\* Three polls instead of a million; controllers ready at once, in the last poll,
\* and too late.  Head 64 is 0 when shifted.
SPECIFICATION Spec
CONSTANTS
    Tries = 3
    Delays = {0, 2, 4}
    Cylinders = {1, 15, 16}
    Heads = {0, 1, 64}
INVARIANTS
    FindsController
    SeeksWhereAsked
    MotorOff
PROPERTY
    CallsEnd
