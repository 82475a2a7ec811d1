\* Three connections, two of which may pass the capacity check at once. There is
\* room for one, so that the roster of two is over the limit, and the third joins
\* while the first leaves.
CONSTANTS
    Conn = {c1, c2, c3}
    MaxRoomSize = 1
    MaxJoining = 2
    FirstId = 1
SPECIFICATION RoleSpec
SYMMETRY ConnSymmetry
INVARIANTS
    TypeOK
    MembersHaveHandlers
    RemovedMeansKicked
    HostIsTold
    RoomSizeBound
    RoleIsHeld
