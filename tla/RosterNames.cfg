\* Two that join at once, with names that differ.
CONSTANTS
    Id = {1, 2, 3}
    Me = 2
    Name <- MCNames
    MaxKick = 0
    MaxReorder = 0
SPECIFICATION Spec
CHECK_DEADLOCK FALSE
INVARIANT
    NamesAccepted
