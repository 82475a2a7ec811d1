---------------------------- MODULE ClientSession ----------------------------
(***************************************************************************)
(* One client program from its start to its end: main and the TUI loop,    *)
(* the three signaling tasks beside it (command_writer, bidi_recv_listener,*)
(* uni_stream_listener) with the bounded channels between them, and at the *)
(* other end of the connection the handler that reads commands and answers *)
(* some of them with an Error.                                             *)
(*                                                                         *)
(* Every queue here is bounded and every sender waits for a place: the two *)
(* channels (64), and the two directions of the signaling stream, by the   *)
(* flow control of QUIC. Pushes come on streams of their own and are many. *)
(* What a message says matters only where it ends something. The handler   *)
(* may be held up by other clients, whom it kicks or whose handlers hold a *)
(* guard of a map: nothing here makes them let it go.                      *)
(***************************************************************************)
EXTENDS Naturals, Sequences

CONSTANTS
    CmdCap, EventCap,  \* the capacities of cmd_tx and event_tx
    StreamCap,         \* messages in a direction of the signaling stream
    MaxCmd,            \* bound: commands typed, quitting not counted
    MaxPush            \* bound: pushes, a kick not counted

ASSUME SessionConstants ==
    /\ {CmdCap, EventCap, StreamCap} \subseteq Nat \ {0}
    /\ MaxCmd \in Nat /\ MaxPush \in Nat

VARIABLES
    pc,           \* where main is; "send" is inside handle_key
    raw, alt,     \* the terminal is in raw mode, and shows the alternate screen
    io_failed,    \* history: a call that sets the terminal failed
    should_quit,
    held,         \* the command that handle_key waits to send, "" for none
    cmds,         \* the command channel
    writer,       \* command_writer: "recv", "gone", or the command it writes
    up, down,     \* the signaling stream: commands, and a number of Errors
    server,       \* the handler: "read", "answer", "held", "leaving" or "gone"
    bidi,         \* bidi_recv_listener: "read", "send" or "gone"
    pushes,       \* pushed streams the client has not accepted
    uni,          \* uni_stream_listener: "accept", "gone", or what it sends
    events,       \* the event channel
    conn,         \* the connection: "none", "open" or "closed"
    typed, pushed

term_vars == <<raw, alt, io_failed>>
tui_vars == <<should_quit, held, typed>>
up_vars == <<cmds, writer, up>>
down_vars == <<down, bidi, events>>
push_vars == <<pushes, uni, pushed>>
vars == <<pc, term_vars, tui_vars, up_vars, server, down_vars, push_vars, conn>>

Handshake == {"start", "join", "joined", "roster", "setup"}
Tui == {"tui", "send"}
Command == {"command", "Leave"}
Event == {"signal", "Kicked", "Disconnected"}

TypeOK ==
    /\ pc \in Handshake \cup Tui \cup {"restore", "cleanup", "ended"}
    /\ {raw, alt, io_failed, should_quit} \subseteq BOOLEAN
    /\ held \in Command \cup {""} /\ (held # "" <=> pc = "send")
    /\ cmds \in Seq(Command) /\ Len(cmds) <= CmdCap
    /\ writer \in Command \cup {"recv", "gone"}
    /\ up \in Seq(Command) /\ Len(up) <= StreamCap /\ down \in 0..StreamCap
    /\ server \in {"read", "answer", "held", "leaving", "gone"}
    /\ bidi \in {"read", "send", "gone"}
    /\ pushes \in Seq(Event \ {"Disconnected"}) /\ uni \in Event \cup {"accept", "gone"}
    /\ events \in Seq(Event) /\ Len(events) <= EventCap
    /\ conn \in {"none", "open", "closed"}
    /\ typed \in 0..MaxCmd /\ pushed \in 0..(MaxPush + 1)

Init ==
    /\ pc = "start" /\ conn = "none"
    /\ raw = FALSE /\ alt = FALSE /\ io_failed = FALSE
    /\ should_quit = FALSE /\ held = "" /\ typed = 0
    /\ cmds = <<>> /\ writer = "recv" /\ up = <<>>
    /\ server = "read" /\ down = 0 /\ bidi = "read" /\ events = <<>>
    /\ pushes = <<>> /\ uni = "accept" /\ pushed = 0

Go(from, to) == pc = from /\ pc' = to

-----------------------------------------------------------------------------
(* main, up to the TUI. *)

\* Bad options, no way to verify the server, or no connection.
FailToConnect ==
    /\ Go("start", "ended")
    /\ UNCHANGED <<term_vars, tui_vars, up_vars, server, down_vars, push_vars, conn>>

Connect ==
    /\ Go("start", "join") /\ conn' = "open"
    /\ UNCHANGED <<term_vars, tui_vars, up_vars, server, down_vars, push_vars>>

\* Join is written, Joined is read, and a RoomInfo, if there is one.
Handshaken ==
    /\ \/ conn = "open" /\ (Go("join", "joined") \/ Go("joined", "roster"))
       \/ Go("roster", "setup")
    /\ UNCHANGED <<term_vars, tui_vars, up_vars, server, down_vars, push_vars, conn>>

\* An Error in place of Joined, or the connection is lost: `?`. The connection
\* is dropped, and the handler notices when it reads or writes next.
HandshakeFails ==
    /\ Go("joined", "ended") \/ (conn = "closed" /\ Go("join", "ended"))
    /\ conn' = "closed"
    /\ UNCHANGED <<term_vars, tui_vars, up_vars, server, down_vars, push_vars>>

\* The tasks, the channels and the connection go.
Dropped ==
    /\ conn' = "closed" /\ cmds' = <<>> /\ events' = <<>>
    /\ writer' = "gone" /\ bidi' = "gone" /\ uni' = "gone"

\* enable_raw_mode, EnterAlternateScreen, Terminal::new; each may fail.
SetupTerminal ==
    /\ Go("setup", "tui")
    /\ raw' = TRUE /\ alt' = TRUE
    /\ UNCHANGED <<io_failed, tui_vars, up_vars, server, down_vars, push_vars, conn>>

SetupFails ==
    /\ Go("setup", "ended")
    /\ \/ UNCHANGED <<raw, alt>>
       \/ raw' = TRUE /\ UNCHANGED alt
       \/ raw' = TRUE /\ alt' = TRUE
    /\ io_failed' = TRUE
    /\ Dropped
    /\ UNCHANGED <<tui_vars, up, server, down, pushes, pushed>>

-----------------------------------------------------------------------------
(* The TUI loop: quit, or a key, or an event.                              *)

Running == pc = "tui" /\ ~should_quit

\* Enter, and process_command returns a message. Other keys change the input.
KeyCommand ==
    /\ Running /\ typed < MaxCmd
    /\ pc' = "send" /\ held' = "command" /\ typed' = typed + 1
    /\ UNCHANGED <<term_vars, should_quit, up_vars, server, down_vars, push_vars, conn>>

\* /leave, Ctrl+C or Esc.
KeyQuit ==
    /\ Running
    /\ pc' = "send" /\ held' = "Leave" /\ should_quit' = TRUE
    /\ UNCHANGED <<term_vars, typed, up_vars, server, down_vars, push_vars, conn>>

\* Mutant of SendCommand: a channel without a receiver is waited for, too.
SendCommandWaits ==
    /\ pc = "send" /\ pc' = "tui" /\ held' = ""
    /\ writer # "gone" /\ Len(cmds) < CmdCap /\ cmds' = Append(cmds, held)
    /\ UNCHANGED <<term_vars, should_quit, typed, writer, up, server, down_vars,
                   push_vars, conn>>

\* Mutant of SendCommand: a channel without a limit.
SendCommandAnyway ==
    /\ pc = "send" /\ pc' = "tui" /\ held' = ""
    /\ cmds' = IF writer = "gone" THEN cmds ELSE Append(cmds, held)
    /\ UNCHANGED <<term_vars, should_quit, typed, writer, up, server, down_vars,
                   push_vars, conn>>

\* cmd_tx.send(msg).await.ok(): an error when the writer is gone.
SendCommand ==
    /\ pc = "send" /\ pc' = "tui" /\ held' = ""
    /\ IF writer = "gone" THEN UNCHANGED cmds
       ELSE Len(cmds) < CmdCap /\ cmds' = Append(cmds, held)
    /\ UNCHANGED <<term_vars, should_quit, typed, writer, up, server, down_vars,
                   push_vars, conn>>

\* handle_signal quits when Kicked, run when disconnected.
TakeEvent ==
    /\ Running /\ events # <<>>
    /\ events' = Tail(events)
    /\ should_quit' = (Head(events) \in {"Kicked", "Disconnected"})
    /\ UNCHANGED <<pc, term_vars, held, typed, up_vars, server, down, bidi, push_vars, conn>>

Quit ==
    /\ should_quit /\ Go("tui", "restore")
    /\ UNCHANGED <<term_vars, tui_vars, up_vars, server, down_vars, push_vars, conn>>

\* Mutant of RestoreTerminal: the alternate screen is left up.
RestoreRawOnly ==
    /\ Go("restore", "cleanup")
    /\ raw' = FALSE
    /\ UNCHANGED <<alt, io_failed, tui_vars, up_vars, server, down_vars, push_vars, conn>>

RestoreTerminal ==
    /\ Go("restore", "cleanup")
    /\ raw' = FALSE /\ alt' = FALSE
    /\ UNCHANGED <<io_failed, tui_vars, up_vars, server, down_vars, push_vars, conn>>

\* disable_raw_mode, LeaveAlternateScreen or show_cursor fails: main returns,
\* and what it owns is dropped.
RestoreFails ==
    /\ Go("restore", "ended")
    /\ \/ UNCHANGED <<raw, alt>>
       \/ raw' = FALSE /\ UNCHANGED alt
       \/ raw' = FALSE /\ alt' = FALSE
    /\ io_failed' = TRUE
    /\ Dropped
    /\ UNCHANGED <<tui_vars, up, server, down, pushes, pushed>>

\* The tasks are aborted and the connection is closed.
Cleanup ==
    /\ Go("cleanup", "ended")
    /\ Dropped
    /\ UNCHANGED <<term_vars, tui_vars, up, server, down, pushes, pushed>>

-----------------------------------------------------------------------------
(* The tasks of the client; they run as long as the TUI does. *)

Spawned == pc \in Tui \cup {"restore", "cleanup"}

WriterRecv ==
    /\ Spawned /\ writer = "recv" /\ cmds # <<>>
    /\ writer' = Head(cmds) /\ cmds' = Tail(cmds)
    /\ UNCHANGED <<pc, term_vars, tui_vars, up, server, down_vars, push_vars, conn>>

WriterWrite ==
    /\ Spawned /\ writer \in Command /\ conn = "open" /\ Len(up) < StreamCap
    /\ up' = Append(up, writer) /\ writer' = "recv"
    /\ UNCHANGED <<pc, term_vars, tui_vars, cmds, server, down_vars, push_vars, conn>>

\* The write fails: the task returns, and the receiver of the channel goes.
WriterFails ==
    /\ Spawned /\ writer \in Command /\ conn = "closed"
    /\ writer' = "gone" /\ cmds' = <<>>
    /\ UNCHANGED <<pc, term_vars, tui_vars, up, server, down_vars, push_vars, conn>>

BidiRead ==
    /\ Spawned /\ bidi = "read" /\ down > 0
    /\ bidi' = "send" /\ down' = down - 1
    /\ UNCHANGED <<pc, term_vars, tui_vars, up_vars, server, events, push_vars, conn>>

BidiSend ==
    /\ Spawned /\ bidi = "send" /\ Len(events) < EventCap
    /\ bidi' = "read" /\ events' = Append(events, "signal")
    /\ UNCHANGED <<pc, term_vars, tui_vars, up_vars, server, down, push_vars, conn>>

BidiEnds ==
    /\ Spawned /\ bidi = "read" /\ down = 0 /\ conn = "closed"
    /\ bidi' = "gone"
    /\ UNCHANGED <<pc, term_vars, tui_vars, up_vars, server, down, events, push_vars, conn>>

UniAccept ==
    /\ Spawned /\ uni = "accept" /\ pushes # <<>>
    /\ uni' = Head(pushes) /\ pushes' = Tail(pushes)
    /\ UNCHANGED <<pc, term_vars, tui_vars, up_vars, server, down_vars, pushed, conn>>

\* Mutant of UniLost: the task ends without a word.
UniLostSilently ==
    /\ Spawned /\ uni = "accept" /\ pushes = <<>> /\ conn = "closed"
    /\ uni' = "gone"
    /\ UNCHANGED <<pc, term_vars, tui_vars, up_vars, server, down_vars, pushes, pushed, conn>>

\* accept_uni fails once there is no stream left.
UniLost ==
    /\ Spawned /\ uni = "accept" /\ pushes = <<>> /\ conn = "closed"
    /\ uni' = "Disconnected"
    /\ UNCHANGED <<pc, term_vars, tui_vars, up_vars, server, down_vars, pushes, pushed, conn>>

UniSend ==
    /\ Spawned /\ uni \in Event /\ Len(events) < EventCap
    /\ events' = Append(events, uni)
    /\ uni' = IF uni = "Disconnected" THEN "gone" ELSE "accept"
    /\ UNCHANGED <<pc, term_vars, tui_vars, up_vars, server, down, bidi, pushes, pushed, conn>>

-----------------------------------------------------------------------------
(* The server's handler, and the network. *)

\* handle_signaling reads a command, and may have an Error to write: too fast,
\* or not for this client to command. To carry it out it may have to wait for a
\* guard of a map, and in a kick for a stream to the target, and for room in it.
ServerRead ==
    /\ server = "read" /\ up # <<>>
    /\ up' = Tail(up)
    /\ IF Head(up) = "Leave" THEN server' = "leaving" ELSE server' \in {"read", "answer", "held"}
    /\ UNCHANGED <<pc, term_vars, tui_vars, cmds, writer, down_vars, push_vars, conn>>

\* The others let the handler go on.
ServerGoesOn ==
    /\ server = "held" /\ server' \in {"read", "answer"}
    /\ UNCHANGED <<pc, term_vars, tui_vars, up_vars, down_vars, push_vars, conn>>

\* Mutant of ServerAnswer: a write to a closed connection is waited for.
ServerAnswerWaits ==
    /\ server = "answer" /\ conn = "open" /\ down < StreamCap
    /\ down' = down + 1
    /\ server' = "read"
    /\ UNCHANGED <<pc, term_vars, tui_vars, up_vars, bidi, events, push_vars, conn>>

ServerAnswer ==
    /\ server = "answer" /\ (conn = "open" => down < StreamCap)
    /\ down' = IF conn = "open" THEN down + 1 ELSE down
    /\ server' = "read"
    /\ UNCHANGED <<pc, term_vars, tui_vars, up_vars, bidi, events, push_vars, conn>>

\* read_signal fails.
ServerLost ==
    /\ server = "read" /\ up = <<>> /\ conn = "closed"
    /\ server' = "leaving"
    /\ UNCHANGED <<pc, term_vars, tui_vars, up_vars, down_vars, push_vars, conn>>

\* The cleanup of the handler, which waits for the guards of the maps too.
ServerCleanup ==
    /\ server = "leaving" /\ server' = "gone"
    /\ UNCHANGED <<pc, term_vars, tui_vars, up_vars, down_vars, push_vars, conn>>

InRoom == conn = "open" /\ pc \notin {"start", "join", "joined"}

Push ==
    /\ InRoom /\ pushed < MaxPush
    /\ pushes' = Append(pushes, "signal") /\ pushed' = pushed + 1
    /\ UNCHANGED <<pc, term_vars, tui_vars, up_vars, server, down_vars, uni, conn>>

\* The notice of a kick, to a client that gets no other push after it. The
\* kicker's handler closes the connection next: see Close.
Kick ==
    /\ InRoom /\ pushed <= MaxPush
    /\ pushes' = Append(pushes, "Kicked") /\ pushed' = MaxPush + 1
    /\ UNCHANGED <<pc, term_vars, tui_vars, up_vars, server, down_vars, uni, conn>>

\* The connection closes: the network is gone, the handler has returned, or a
\* kick closes it. What is still on the way may be lost.
Close ==
    /\ conn = "open" /\ conn' = "closed"
    /\ \E k \in 0..Len(up) : up' = SubSeq(up, 1, k)
    /\ down' \in 0..down
    /\ \E k \in 0..Len(pushes) : pushes' = SubSeq(pushes, 1, k)
    /\ UNCHANGED <<pc, term_vars, tui_vars, cmds, writer, server, bidi, events, uni, pushed>>

-----------------------------------------------------------------------------
Main ==
    \/ Handshaken \/ SetupTerminal \/ SetupFails
    \/ Quit \/ RestoreTerminal \/ RestoreFails \/ Cleanup
    \/ SendCommand \/ TakeEvent

Next ==
    \/ FailToConnect \/ Connect \/ HandshakeFails \/ KeyCommand \/ KeyQuit \/ Main
    \/ WriterRecv \/ WriterWrite \/ WriterFails \/ BidiRead \/ BidiSend \/ BidiEnds
    \/ UniAccept \/ UniLost \/ UniSend
    \/ ServerRead \/ ServerGoesOn \/ ServerAnswer \/ ServerLost \/ ServerCleanup
    \/ Push \/ Close \/ Kick

Spec == Init /\ [][Next]_vars

\* Tasks that can go on do, here and at the server, whose connection goes with
\* its handler. The user, pushes, kicks, the network and those who hold up the
\* handler (ServerGoesOn, ServerCleanup) do as they like.
FairSpec ==
    /\ Spec
    /\ WF_vars(Main)
    /\ WF_vars(WriterRecv \/ WriterWrite \/ WriterFails)
    /\ WF_vars(BidiRead \/ BidiSend \/ BidiEnds)
    /\ WF_vars(UniAccept \/ UniLost \/ UniSend)
    /\ WF_vars(ServerRead \/ ServerAnswer \/ ServerLost)
    /\ WF_vars(server = "gone" /\ Close)

-----------------------------------------------------------------------------
(* Properties. *)

\* Everybody waits for a place in the next queue: the TUI with a command, the
\* writer, the server with an answer, the listener with an event for the TUI.
Jammed ==
    /\ conn = "open" /\ pc = "send" /\ Len(cmds) = CmdCap /\ writer \in Command
    /\ Len(up) = StreamCap /\ server = "answer" /\ down = StreamCap
    /\ bidi = "send" /\ Len(events) = EventCap

\* The terminal is given back however main returns, unless the terminal itself
\* refuses. (Panics, for which the TUI sets a hook, and signals are left out.)
TerminalRestored == pc = "ended" /\ ~io_failed => ~raw /\ ~alt

\* What the handler does depends on other clients.
HeldUp == server \in {"held", "leaving"}

\* A client that is told to quit, by its user or by a kick, ends, whatever its
\* queues hold: but for the circle in which everybody waits, and unless other
\* clients hold up its handler for good.
QuitEnds == []<>~HeldUp => (should_quit ~> (pc = "ended" \/ Jammed))

\* When the connection is gone the program ends, whatever its tasks, and the
\* handler, wait for.
DisconnectEnds == (conn = "closed" /\ pc \in Tui) ~> pc = "ended"

\* A handler whose client has ended does not stay, unless other clients hold it
\* up for good.
ServerNotices == []<>~HeldUp => ((pc = "ended" /\ conn = "closed") ~> server = "gone")

-----------------------------------------------------------------------------
(* What the documentation and the comments say, and the code does not do.  *)

\* README.md:176: "Exit with `/leave`, `/quit`, `/q`, Esc, or Ctrl+C." (Even if
\* nobody holds up the handler.)
QuitAlwaysEnds == []<>~HeldUp => (should_quit ~> pc = "ended")
=============================================================================
