\* A command that comes too fast; every push read in its order.
CONSTANTS
    MaxToggle = 5
    MaxForce = 0
    MaxRefuse = 1
    MaxReorder = 0
    MaxInfo = 0
SPECIFICATION Spec
CHECK_DEADLOCK FALSE
INVARIANT
    ShownMutedIsMuted
