\* Two hand-overs; the roster of the first is sent after that of the second.
CONSTANTS
    Id = {1, 2, 3}
    Me = 2
    Name <- MCName
    MaxKick = 0
    MaxReorder = 0
SPECIFICATION Spec
CHECK_DEADLOCK FALSE
INVARIANT
    HostIsShown
