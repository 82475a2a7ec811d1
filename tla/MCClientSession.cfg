\* Every queue has one place. Six commands and a push fill the circle:
\* TUI, channel, writer, stream, server, stream, listener, channel.
CONSTANTS
    CmdCap = 1
    EventCap = 1
    StreamCap = 1
    MaxCmd = 6
    MaxPush = 1
SPECIFICATION FairSpec
CHECK_DEADLOCK FALSE
INVARIANTS
    TypeOK
    TerminalRestored
PROPERTIES
    QuitEnds
    DisconnectEnds
    ServerNotices
