\* Every queue has one place. Eight commands are enough to fill the circle:
\* TUI, channel, writer, stream, server, stream, listener, channel.
CONSTANTS
    CmdCap = 1
    EventCap = 1
    StreamCap = 1
    MaxCmd = 8
    MaxPush = 0
SPECIFICATION FairSpec
CHECK_DEADLOCK FALSE
PROPERTY
    QuitAlwaysEnds
