\* Two connections that join, fail and leave as they like. The statements are
\* refuted one at a time: leave one of the invariants uncommented.
\*   RoomExistsAtRegister: a room is dropped between rooms.entry and rooms.get
\*   OneJoinerBecomesHost: two joiners of a new room
\*   HostMovesByCas: the maker of the room stores itself over a claimed role
\*   RoomHasHost: a newcomer while the last host departs
\*   LeftTheRoster: a client is lost while Joined or RoomInfo is written
\*   RoomWithinLimit: two joiners pass the capacity check before either is in
CONSTANTS
    Conn = {c1, c2}
    MaxRoomSize = 1
    MaxJoining = 2
    FirstId = 1
SPECIFICATION RoleSpec
SYMMETRY ConnSymmetry
INVARIANT
    RoomExistsAtRegister
\*  OneJoinerBecomesHost
\*  RoomHasHost
\*  LeftTheRoster
\*  RoomWithinLimit
\*PROPERTY
\*  HostMovesByCas
