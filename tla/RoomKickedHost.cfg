\* Two joiners of a new room, one of which kicks the other.
CONSTANTS
    Conn = {c1, c2}
    MaxRoomSize = 3
    MaxJoining = 2
    FirstId = 1
SPECIFICATION RoleSpec
SYMMETRY ConnSymmetry
INVARIANT
    HostIsPresent
