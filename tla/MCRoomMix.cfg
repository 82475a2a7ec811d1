\* Three connections, room for two. They pass the capacity check one at a time;
\* the task of a dropped room can live on beside that of the next room. A command
\* queue of one place.
CONSTANTS
    Conn = {c1, c2, c3}
    MaxRoomSize = 2
    MaxJoining = 1
    FirstId = 1
    QueueCap = 1
SPECIFICATION MixSpec
SYMMETRY ConnSymmetry
INVARIANTS
    MixTypeOK
    MembersAreMixed
