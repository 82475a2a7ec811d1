------------------------- MODULE ClientSessionProofs -------------------------
(***************************************************************************)
(* What holds of a session of the client for queues of every length and    *)
(* any number of commands and pushes.                                      *)
(***************************************************************************)
EXTENDS ClientSession, SequenceTheorems, TLAPS

-----------------------------------------------------------------------------
(* The terminal. *)

\* The terminal is set only between its set-up and its restoration.
TerminalSet == pc \in Handshake \cup {"cleanup", "ended"} /\ ~io_failed => ~raw /\ ~alt

\* No way out of main leaves the terminal set, with queues of any length and
\* any number of commands and pushes.
THEOREM TerminalGivenBack == FairSpec => []TerminalRestored
  <1>1. Init => TerminalSet
    BY DEF Init, TerminalSet
  <1>2. TerminalSet /\ [Next]_vars => TerminalSet'
    <2> SUFFICES ASSUME TerminalSet, [Next]_vars PROVE TerminalSet'
      OBVIOUS
    <2> USE DEF TerminalSet, Handshake, Go, term_vars
    <2>1. CASE Main
      BY <2>1 DEF Main, Handshaken, SetupTerminal, SetupFails, Quit, RestoreTerminal,
         RestoreFails, Cleanup, SendCommand, TakeEvent
    <2>2. CASE FailToConnect \/ Connect \/ HandshakeFails \/ KeyCommand \/ KeyQuit
      BY <2>2 DEF FailToConnect, Connect, HandshakeFails, KeyCommand, KeyQuit
    <2>3. CASE UNCHANGED <<pc, term_vars>>
      BY <2>3
    <2>4. WriterRecv \/ WriterWrite \/ WriterFails \/ BidiRead \/ BidiSend \/ BidiEnds
          \/ UniAccept \/ UniLost \/ UniSend => UNCHANGED <<pc, term_vars>>
      BY DEF WriterRecv, WriterWrite, WriterFails, BidiRead, BidiSend, BidiEnds,
         UniAccept, UniLost, UniSend
    <2>5. ServerRead \/ ServerGoesOn \/ ServerAnswer \/ ServerLost \/ ServerCleanup \/ Push
          \/ Close \/ Kick => UNCHANGED <<pc, term_vars>>
      BY DEF ServerRead, ServerGoesOn, ServerAnswer, ServerLost, ServerCleanup, Push, Close, Kick
    <2>6. QED
      BY <2>1, <2>2, <2>3, <2>4, <2>5 DEF Next, vars
  <1>3. TerminalSet => TerminalRestored
    BY DEF TerminalSet, TerminalRestored
  <1>4. QED
    BY <1>1, <1>2, <1>3, PTL DEF FairSpec, Spec

-----------------------------------------------------------------------------
(* Types and capacities. *)

\* What is taken from a queue, put into it, and kept of it.
LEMMA Queues ==
  ASSUME NEW S, NEW q \in Seq(S)
  PROVE  /\ Len(q) \in Nat
         /\ q # <<>> => Head(q) \in S /\ Tail(q) \in Seq(S) /\ Len(Tail(q)) = Len(q) - 1
         /\ \A m \in S : Append(q, m) \in Seq(S) /\ Len(Append(q, m)) = Len(q) + 1
         /\ \A k \in 0..Len(q) : SubSeq(q, 1, k) \in Seq(S) /\ Len(SubSeq(q, 1, k)) = k
  <1>1. Len(q) \in Nat
    OBVIOUS
  <1>2. q # <<>> => Head(q) \in S /\ Tail(q) \in Seq(S) /\ Len(Tail(q)) = Len(q) - 1
    OBVIOUS
  <1>3. \A m \in S : Append(q, m) \in Seq(S) /\ Len(Append(q, m)) = Len(q) + 1
    OBVIOUS
  <1>4. ASSUME NEW k \in 0..Len(q)
        PROVE  SubSeq(q, 1, k) \in Seq(S) /\ Len(SubSeq(q, 1, k)) = k
    <2>1. k \in Nat /\ \A i \in 1..k : q[i] \in S
      BY <1>1
    <2>2. SubSeq(q, 1, k) \in Seq(S) /\ Len(SubSeq(q, 1, k)) = IF 1 <= k THEN k - 1 + 1 ELSE 0
      BY <2>1, SubSeqProperties
    <2>3. QED
      BY <2>1, <2>2
  <1>5. QED
    BY <1>1, <1>2, <1>3, <1>4

\* The same of a queue with a limit.
LEMMA BoundedQueues ==
  ASSUME NEW S, NEW q \in Seq(S), NEW cap \in Nat, Len(q) <= cap
  PROVE  /\ <<>> \in Seq(S) /\ Len(<<>>) <= cap
         /\ q # <<>> => Head(q) \in S /\ Tail(q) \in Seq(S) /\ Len(Tail(q)) <= cap
         /\ \A m \in S : Len(q) < cap => Append(q, m) \in Seq(S) /\ Len(Append(q, m)) <= cap
         /\ \A k \in 0..Len(q) : SubSeq(q, 1, k) \in Seq(S) /\ Len(SubSeq(q, 1, k)) <= cap
  <1>1. <<>> \in Seq(S) /\ Len(<<>>) <= cap /\ Len(q) \in Nat
    OBVIOUS
  <1>2. q # <<>> => Head(q) \in S /\ Tail(q) \in Seq(S) /\ Len(Tail(q)) <= cap
    <2>1. q # <<>> => Len(q) - 1 <= cap
      BY <1>1
    <2>2. QED
      BY <2>1, Queues
  <1>3. ASSUME NEW m \in S, Len(q) < cap
        PROVE  Append(q, m) \in Seq(S) /\ Len(Append(q, m)) <= cap
    <2>1. Len(q) + 1 <= cap
      BY <1>1, <1>3
    <2>2. QED
      BY <2>1, Queues
  <1>4. ASSUME NEW k \in 0..Len(q)
        PROVE  SubSeq(q, 1, k) \in Seq(S) /\ Len(SubSeq(q, 1, k)) <= cap
    <2>1. k <= cap
      BY <1>1
    <2>2. QED
      BY <2>1, Queues
  <1>5. QED
    BY <1>1, <1>2, <1>3, <1>4

\* The parts of the type invariant, by who changes them.
MainTypes ==
    /\ pc \in Handshake \cup Tui \cup {"restore", "cleanup", "ended"}
    /\ {raw, alt, io_failed, should_quit} \subseteq BOOLEAN
    /\ held \in Command \cup {""} /\ (held # "" <=> pc = "send")
    /\ typed \in 0..MaxCmd

UpTypes ==
    /\ cmds \in Seq(Command) /\ Len(cmds) <= CmdCap
    /\ writer \in Command \cup {"recv", "gone"}
    /\ up \in Seq(Command) /\ Len(up) <= StreamCap
    /\ server \in {"read", "answer", "held", "leaving", "gone"}

DownTypes ==
    /\ down \in 0..StreamCap /\ bidi \in {"read", "send", "gone"}
    /\ events \in Seq(Event) /\ Len(events) <= EventCap

PushTypes ==
    /\ pushes \in Seq(Event \ {"Disconnected"}) /\ uni \in Event \cup {"accept", "gone"}
    /\ conn \in {"none", "open", "closed"}
    /\ pushed \in 0..(MaxPush + 1)

LEMMA MainTypesStep == TypeOK /\ [Next]_vars => MainTypes'
  <1> SUFFICES ASSUME TypeOK, [Next]_vars PROVE MainTypes'
    OBVIOUS
  <1> USE DEF MainTypes, Handshake, Tui, Command, Go, term_vars, tui_vars
  <1>1. MainTypes /\ MaxCmd \in Nat
    BY SessionConstants DEF TypeOK
  <1>2. CASE KeyCommand
    <2>1. typed' \in 0..MaxCmd
      <3>1. typed \in 0..MaxCmd /\ typed < MaxCmd /\ typed' = typed + 1
        BY <1>1, <1>2 DEF KeyCommand
      <3>2. MaxCmd \in Nat
        BY SessionConstants
      <3>3. QED
        BY <3>1, <3>2
    <2>2. QED
      BY <1>1, <1>2, <2>1 DEF KeyCommand, Running
  <1>3. CASE KeyQuit
    BY <1>1, <1>3 DEF KeyQuit, Running
  <1>4. CASE SendCommand
    BY <1>1, <1>4 DEF SendCommand
  <1>5. CASE TakeEvent
    <2>1. UNCHANGED <<pc, raw, alt, io_failed, held, typed>>
      BY <1>5 DEF TakeEvent
    <2>2. should_quit' \in BOOLEAN
      <3> DEFINE ends == Head(events) \in {"Kicked", "Disconnected"}
      <3>1. should_quit' = ends
        BY <1>5 DEF TakeEvent
      <3>2. CASE ends
        <4>1. ends = TRUE
          BY <3>2
        <4>2. QED
          BY <3>1, <4>1
      <3>3. CASE ~ends
        <4>1. ends = FALSE
          BY <3>3
        <4>2. QED
          BY <3>1, <4>1
      <3>4. QED
        BY <3>2, <3>3
    <2>3. QED
      BY <1>1, <2>1, <2>2
  <1>6. CASE FailToConnect \/ Connect \/ Handshaken \/ HandshakeFails \/ Quit \/ Cleanup
    BY <1>1, <1>6 DEF FailToConnect, Connect, Handshaken, HandshakeFails, Quit, Cleanup
  <1>7. CASE SetupTerminal \/ SetupFails
    BY <1>1, <1>7 DEF SetupTerminal, SetupFails
  <1>8. CASE RestoreTerminal \/ RestoreFails
    BY <1>1, <1>8 DEF RestoreTerminal, RestoreFails
  <1>9. CASE UNCHANGED <<pc, term_vars, tui_vars>>
    BY <1>1, <1>9
  <1>10. WriterRecv \/ WriterWrite \/ WriterFails \/ BidiRead \/ BidiSend \/ BidiEnds
         \/ UniAccept \/ UniLost \/ UniSend => UNCHANGED <<pc, term_vars, tui_vars>>
    BY DEF WriterRecv, WriterWrite, WriterFails, BidiRead, BidiSend, BidiEnds,
       UniAccept, UniLost, UniSend
  <1>11. ServerRead \/ ServerGoesOn \/ ServerAnswer \/ ServerLost \/ ServerCleanup \/ Push
         \/ Close \/ Kick => UNCHANGED <<pc, term_vars, tui_vars>>
    BY DEF ServerRead, ServerGoesOn, ServerAnswer, ServerLost, ServerCleanup, Push, Close, Kick
  <1>12. QED
    BY <1>2, <1>3, <1>4, <1>5, <1>6, <1>7, <1>8, <1>9, <1>10, <1>11 DEF Next, Main, vars

LEMMA UpTypesStep == TypeOK /\ [Next]_vars => UpTypes'
  <1> SUFFICES ASSUME TypeOK, [Next]_vars PROVE UpTypes'
    OBVIOUS
  <1> USE DEF up_vars
  <1>1. UpTypes /\ CmdCap \in Nat \ {0} /\ StreamCap \in Nat \ {0}
        /\ held \in Command \cup {""} /\ (held # "" <=> pc = "send")
    BY SessionConstants DEF TypeOK, UpTypes
  <1>2. /\ <<>> \in Seq(Command) /\ Len(<<>>) <= CmdCap
        /\ cmds # <<>> => Head(cmds) \in Command /\ Tail(cmds) \in Seq(Command)
                          /\ Len(Tail(cmds)) <= CmdCap
        /\ \A m \in Command : Len(cmds) < CmdCap =>
              Append(cmds, m) \in Seq(Command) /\ Len(Append(cmds, m)) <= CmdCap
    BY <1>1, BoundedQueues DEF UpTypes
  <1>3. /\ up # <<>> => Tail(up) \in Seq(Command) /\ Len(Tail(up)) <= StreamCap
        /\ \A m \in Command : Len(up) < StreamCap =>
              Append(up, m) \in Seq(Command) /\ Len(Append(up, m)) <= StreamCap
        /\ \A k \in 0..Len(up) : SubSeq(up, 1, k) \in Seq(Command)
                                /\ Len(SubSeq(up, 1, k)) <= StreamCap
    BY <1>1, BoundedQueues DEF UpTypes
  <1>4. CASE SendCommand
    <2>1. held \in Command /\ UNCHANGED <<writer, up, server>>
      BY <1>1, <1>4 DEF SendCommand
    <2>2. cmds' \in Seq(Command) /\ Len(cmds') <= CmdCap
      <3>1. CASE writer = "gone"
        BY <1>1, <1>4, <3>1 DEF SendCommand, UpTypes
      <3>2. CASE writer # "gone"
        <4>1. Len(cmds) < CmdCap /\ cmds' = Append(cmds, held)
          BY <1>4, <3>2 DEF SendCommand
        <4>2. QED
          BY <1>1, <1>2, <2>1, <4>1
      <3>3. QED
        BY <3>1, <3>2
    <2>3. QED
      BY <1>1, <2>1, <2>2 DEF UpTypes
  <1>5. CASE ServerGoesOn \/ ServerCleanup
    BY <1>1, <1>5 DEF ServerGoesOn, ServerCleanup, UpTypes
  <1>6. CASE SetupFails \/ RestoreFails \/ Cleanup
    <2>1. Dropped /\ UNCHANGED <<up, server>>
      BY <1>6 DEF SetupFails, RestoreFails, Cleanup
    <2>2. QED
      BY <1>1, <1>2, <2>1 DEF Dropped, UpTypes
  <1>7. CASE WriterRecv
    <2>1. cmds # <<>> /\ writer' = Head(cmds) /\ cmds' = Tail(cmds) /\ UNCHANGED <<up, server>>
      BY <1>7 DEF WriterRecv
    <2>2. QED
      BY <1>1, <1>2, <2>1 DEF UpTypes
  <1>8. CASE WriterWrite
    <2>1. writer \in Command /\ Len(up) < StreamCap /\ up' = Append(up, writer) /\ writer' = "recv"
          /\ UNCHANGED <<cmds, server>>
      BY <1>8 DEF WriterWrite
    <2>2. QED
      BY <1>1, <1>3, <2>1 DEF UpTypes
  <1>9. CASE WriterFails
    BY <1>1, <1>2, <1>9 DEF WriterFails, UpTypes
  <1>10. CASE ServerRead
    <2>1. up # <<>> /\ up' = Tail(up) /\ UNCHANGED <<cmds, writer>>
          /\ server' \in {"read", "answer", "held", "leaving"}
      BY <1>10 DEF ServerRead
    <2>2. QED
      BY <1>1, <1>3, <2>1 DEF UpTypes
  <1>11. CASE ServerAnswer \/ ServerLost
    BY <1>1, <1>11 DEF ServerAnswer, ServerLost, UpTypes
  <1>12. CASE Close
    <2>1. PICK k \in 0..Len(up) : up' = SubSeq(up, 1, k)
      BY <1>12 DEF Close
    <2>2. UNCHANGED <<cmds, writer, server>>
      BY <1>12 DEF Close
    <2>3. QED
      BY <1>1, <1>3, <2>1, <2>2 DEF UpTypes
  <1>13. CASE UNCHANGED <<up_vars, server>>
    BY <1>1, <1>13 DEF UpTypes
  <1>14. FailToConnect \/ Connect \/ HandshakeFails \/ KeyCommand \/ KeyQuit \/ Handshaken
         \/ SetupTerminal \/ Quit \/ RestoreTerminal \/ TakeEvent => UNCHANGED <<up_vars, server>>
    BY DEF FailToConnect, Connect, HandshakeFails, KeyCommand, KeyQuit, Handshaken, SetupTerminal,
       Quit, RestoreTerminal, TakeEvent
  <1>15. BidiRead \/ BidiSend \/ BidiEnds \/ UniAccept \/ UniLost \/ UniSend \/ Push \/ Kick
         => UNCHANGED <<up_vars, server>>
    BY DEF BidiRead, BidiSend, BidiEnds, UniAccept, UniLost, UniSend, Push, Kick
  <1>16. QED
    BY <1>4, <1>5, <1>6, <1>7, <1>8, <1>9, <1>10, <1>11, <1>12, <1>13, <1>14, <1>15
       DEF Next, Main, vars

LEMMA DownTypesStep == TypeOK /\ [Next]_vars => DownTypes'
  <1> SUFFICES ASSUME TypeOK, [Next]_vars PROVE DownTypes'
    OBVIOUS
  <1> USE DEF down_vars
  <1>1. DownTypes /\ EventCap \in Nat \ {0} /\ StreamCap \in Nat \ {0}
        /\ uni \in Event \cup {"accept", "gone"}
    BY SessionConstants DEF TypeOK, DownTypes
  <1>2. /\ <<>> \in Seq(Event) /\ Len(<<>>) <= EventCap
        /\ events # <<>> => Tail(events) \in Seq(Event) /\ Len(Tail(events)) <= EventCap
        /\ \A m \in Event : Len(events) < EventCap =>
              Append(events, m) \in Seq(Event) /\ Len(Append(events, m)) <= EventCap
    BY <1>1, BoundedQueues DEF DownTypes
  <1>3. "signal" \in Event
    BY DEF Event
  <1>4. CASE SetupFails \/ RestoreFails \/ Cleanup
    <2>1. Dropped /\ UNCHANGED down
      BY <1>4 DEF SetupFails, RestoreFails, Cleanup
    <2>2. QED
      BY <1>1, <1>2, <2>1 DEF Dropped, DownTypes
  <1>5. CASE TakeEvent
    <2>1. events # <<>> /\ events' = Tail(events) /\ UNCHANGED <<down, bidi>>
      BY <1>5 DEF TakeEvent
    <2>2. QED
      BY <1>1, <1>2, <2>1 DEF DownTypes
  <1>6. CASE BidiRead
    <2>1. down' \in 0..StreamCap
      BY <1>1, <1>6 DEF BidiRead, DownTypes
    <2>2. QED
      BY <1>1, <1>6, <2>1 DEF BidiRead, DownTypes
  <1>7. ASSUME NEW m \in Event, Len(events) < EventCap, events' = Append(events, m)
        PROVE  events' \in Seq(Event) /\ Len(events') <= EventCap
    BY <1>2, <1>7
  <1>8. CASE BidiSend
    <2>1. events' \in Seq(Event) /\ Len(events') <= EventCap
      BY <1>3, <1>7, <1>8 DEF BidiSend
    <2>2. QED
      BY <1>1, <1>8, <2>1 DEF BidiSend, DownTypes
  <1>9. CASE BidiEnds
    BY <1>1, <1>9 DEF BidiEnds, DownTypes
  <1>10. CASE UniSend
    <2>1. events' \in Seq(Event) /\ Len(events') <= EventCap
      BY <1>7, <1>10 DEF UniSend
    <2>2. QED
      BY <1>1, <1>10, <2>1 DEF UniSend, DownTypes
  <1>11. CASE ServerAnswer
    <2>1. down' \in 0..StreamCap
      <3>1. down \in 0..StreamCap
        BY <1>1 DEF DownTypes
      <3>2. QED
        BY <1>1, <1>11, <3>1 DEF ServerAnswer
    <2>2. QED
      BY <1>1, <1>11, <2>1 DEF ServerAnswer, DownTypes
  <1>12. CASE Close
    <2>1. down' \in 0..StreamCap
      <3>1. down \in 0..StreamCap /\ down' \in 0..down
        BY <1>1, <1>12 DEF Close, DownTypes
      <3>2. QED
        BY <1>1, <3>1
    <2>2. QED
      BY <1>1, <1>12, <2>1 DEF Close, DownTypes
  <1>13. CASE UNCHANGED down_vars
    BY <1>1, <1>13 DEF DownTypes
  <1>14. FailToConnect \/ Connect \/ KeyCommand \/ KeyQuit \/ Handshaken \/ HandshakeFails
         \/ SetupTerminal \/ Quit \/ RestoreTerminal \/ SendCommand => UNCHANGED down_vars
    BY DEF FailToConnect, Connect, KeyCommand, KeyQuit, Handshaken, HandshakeFails, SetupTerminal,
       Quit, RestoreTerminal, SendCommand
  <1>15. WriterRecv \/ WriterWrite \/ WriterFails \/ UniAccept \/ UniLost \/ ServerRead
         \/ ServerGoesOn \/ ServerCleanup
         \/ ServerLost \/ Push \/ Kick => UNCHANGED down_vars
    BY DEF WriterRecv, WriterWrite, WriterFails, UniAccept, UniLost, ServerRead, ServerGoesOn,
       ServerCleanup, ServerLost, Push, Kick
  <1>16. QED
    BY <1>4, <1>5, <1>6, <1>8, <1>9, <1>10, <1>11, <1>12, <1>13, <1>14, <1>15
       DEF Next, Main, vars

LEMMA PushTypesStep == TypeOK /\ [Next]_vars => PushTypes'
  <1> SUFFICES ASSUME TypeOK, [Next]_vars PROVE PushTypes'
    OBVIOUS
  <1> DEFINE Pushed == Event \ {"Disconnected"}
  <1> USE DEF push_vars
  <1>1. PushTypes /\ MaxPush \in Nat
    BY SessionConstants DEF TypeOK, PushTypes
  <1>2. "signal" \in Pushed /\ "Kicked" \in Pushed /\ "Disconnected" \in Event
    BY DEF Event
  <1>3. /\ pushes \in Seq(Pushed)
        /\ pushes # <<>> => Head(pushes) \in Pushed /\ Tail(pushes) \in Seq(Pushed)
        /\ \A m \in Pushed : Append(pushes, m) \in Seq(Pushed)
        /\ \A k \in 0..Len(pushes) : SubSeq(pushes, 1, k) \in Seq(Pushed)
    <2>1. pushes \in Seq(Pushed)
      BY <1>1 DEF PushTypes
    <2> HIDE DEF Pushed
    <2>2. QED
      BY <2>1, Queues
  <1>4. CASE Connect \/ HandshakeFails
    BY <1>1, <1>4 DEF Connect, HandshakeFails, PushTypes
  <1>5. CASE SetupFails \/ RestoreFails \/ Cleanup
    <2>1. Dropped /\ UNCHANGED <<pushes, pushed>>
      BY <1>5 DEF SetupFails, RestoreFails, Cleanup
    <2>2. QED
      BY <1>1, <2>1 DEF Dropped, PushTypes
  <1>6. CASE UniAccept
    BY <1>1, <1>3, <1>6 DEF UniAccept, PushTypes
  <1>7. CASE UniLost \/ UniSend
    BY <1>1, <1>2, <1>7 DEF UniLost, UniSend, PushTypes
  <1>8. CASE Push \/ Kick
    <2>1. pushed' \in 0..(MaxPush + 1)
      BY <1>1, <1>8 DEF Push, Kick, PushTypes
    <2>2. pushes' \in Seq(Pushed) /\ UNCHANGED <<uni, conn>>
      BY <1>2, <1>3, <1>8 DEF Push, Kick
    <2>3. QED
      BY <1>1, <2>1, <2>2 DEF PushTypes
  <1>9. CASE Close
    <2>1. pushes' \in Seq(Pushed) /\ conn' = "closed" /\ UNCHANGED <<uni, pushed>>
      BY <1>3, <1>9 DEF Close
    <2>2. QED
      BY <1>1, <2>1 DEF PushTypes
  <1>10. CASE UNCHANGED <<push_vars, conn>>
    BY <1>1, <1>10 DEF PushTypes
  <1>11. FailToConnect \/ KeyCommand \/ KeyQuit \/ Handshaken \/ SetupTerminal \/ Quit
         \/ RestoreTerminal \/ SendCommand \/ TakeEvent => UNCHANGED <<push_vars, conn>>
    BY DEF FailToConnect, KeyCommand, KeyQuit, Handshaken, SetupTerminal, Quit,
       RestoreTerminal, SendCommand, TakeEvent
  <1>12. WriterRecv \/ WriterWrite \/ WriterFails \/ BidiRead \/ BidiSend \/ BidiEnds
         \/ ServerRead \/ ServerGoesOn \/ ServerAnswer \/ ServerLost \/ ServerCleanup
         => UNCHANGED <<push_vars, conn>>
    BY DEF WriterRecv, WriterWrite, WriterFails, BidiRead, BidiSend, BidiEnds, ServerRead, ServerGoesOn,
       ServerAnswer, ServerLost, ServerCleanup
  <1>13. QED
    BY <1>4, <1>5, <1>6, <1>7, <1>8, <1>9, <1>10, <1>11, <1>12 DEF Next, Main, vars

\* No queue of the session is over its capacity, and the TUI holds a command
\* exactly while it waits for a place: for queues of any length.
THEOREM SessionTypeCorrect == FairSpec => []TypeOK
  <1>1. Init => TypeOK
    <2> SUFFICES ASSUME Init PROVE TypeOK
      OBVIOUS
    <2>1. /\ CmdCap \in Nat /\ EventCap \in Nat /\ StreamCap \in Nat
          /\ MaxCmd \in Nat /\ MaxPush \in Nat
      BY SessionConstants
    <2>2. cmds = <<>> /\ up = <<>> /\ events = <<>> /\ pushes = <<>>
      BY DEF Init
    <2>3. /\ Len(cmds) <= CmdCap /\ Len(up) <= StreamCap /\ Len(events) <= EventCap
          /\ cmds \in Seq(Command) /\ up \in Seq(Command) /\ events \in Seq(Event)
          /\ pushes \in Seq(Event \ {"Disconnected"})
      BY <2>1, <2>2
    <2>4. 0 \in 0..StreamCap /\ 0 \in 0..MaxCmd /\ 0 \in 0..(MaxPush + 1)
      BY <2>1
    <2>5. MainTypes
      BY <2>4 DEF Init, MainTypes, Handshake
    <2>6. UpTypes /\ DownTypes /\ PushTypes
      BY <2>3, <2>4 DEF Init, UpTypes, DownTypes, PushTypes
    <2>7. QED
      BY <2>5, <2>6 DEF MainTypes, UpTypes, DownTypes, PushTypes, TypeOK
  <1>2. TypeOK /\ [Next]_vars => TypeOK'
    <2>1. MainTypes' /\ UpTypes' /\ DownTypes' /\ PushTypes' => TypeOK'
      BY DEF MainTypes, UpTypes, DownTypes, PushTypes, TypeOK
    <2>2. QED
      BY <2>1, MainTypesStep, UpTypesStep, DownTypesStep, PushTypesStep
  <1>3. QED
    BY <1>1, <1>2, PTL DEF FairSpec, Spec
==============================================================================
