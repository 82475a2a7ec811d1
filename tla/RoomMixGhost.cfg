\* A queue that is never full; a kick before the AddClient of the kicked client.
CONSTANTS
    Conn = {c1, c2}
    MaxRoomSize = 2
    MaxJoining = 2
    FirstId = 1
    QueueCap = 4
SPECIFICATION MixSpec
SYMMETRY ConnSymmetry
INVARIANT
    SoloIsSolo
