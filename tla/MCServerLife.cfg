\* Four starts, in seven ways, with three files; a file removed by hand once.
CONSTANTS
    Path <- MCPaths
    Commands <- MCCommands
    Client = {c1, c2}
    MaxStart = 4
    MaxRemove = 1
SPECIFICATION Spec
CHECK_DEADLOCK FALSE
INVARIANTS
    TypeOK
    PinStable
    ShutdownNotifies
