\* Two connections and room for one: both join if they pass the check at once,
\* else the second is refused. Handlers and mix tasks, with fairness; no symmetry,
\* the properties are temporal. A command queue of one place, so that handlers do
\* wait for the mix task.
CONSTANTS
    Conn = {c1, c2}
    MaxRoomSize = 1
    MaxJoining = 2
    FirstId = 1
    QueueCap = 1
SPECIFICATION FairMixSpec
PROPERTIES
    LostClientsLeave
    EmptyRoomsGo
    MixTasksEnd
