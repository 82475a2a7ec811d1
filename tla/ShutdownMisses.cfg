\* One start, two clients.
CONSTANTS
    Path <- MCPaths
    Commands <- OnlyAB
    Client = {c1, c2}
    MaxStart = 1
    MaxRemove = 0
SPECIFICATION Spec
CHECK_DEADLOCK FALSE
INVARIANT
    AllAreNotified
