\* Two addresses; three tokens of two parts each, full after six ticks, with a
\* cleanup at most every fifth tick.
CONSTANTS
    IP = {a, b}
    Unit = 2
    Rate = 1
    Capacity = 6
    CleanupTicks = 4
    MaxNow = 9
SPECIFICATION AcceptSpec
INVARIANTS
    WindowBound
PROPERTIES
    ImplementsLimit
