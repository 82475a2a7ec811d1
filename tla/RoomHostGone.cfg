\* Joins one at a time; overlapping departures of the host and its successor.
CONSTANTS
    Conn = {c1, c2, c3}
    MaxRoomSize = 3
    MaxJoining = 1
    FirstId = 1
SPECIFICATION RoleSpec
SYMMETRY ConnSymmetry
INVARIANT
    HostIsPresent
