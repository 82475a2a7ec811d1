\* One configuration, two starts, nothing removed by hand.
CONSTANTS
    Path <- MCPaths
    Commands <- OnlyAB
    Client = {}
    MaxStart = 2
    MaxRemove = 0
SPECIFICATION Spec
CHECK_DEADLOCK FALSE
INVARIANT
    FilesAlwaysLoad
