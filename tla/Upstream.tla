------------------------------ MODULE Upstream ------------------------------
(***************************************************************************)
(* The audio of one client on its way up: capture_encode_loop sends one    *)
(* frame per tick, recv_datagrams puts it in the client's channel, and     *)
(* room_mix_loop drains the channel into the jitter buffer and takes one   *)
(* frame per tick for the mix. The rest of the room only matters as        *)
(* "multi": whether the mix task knows two clients or more.                *)
(*                                                                         *)
(* Frames are their wire sequence numbers, so that the stream is endless.  *)
(***************************************************************************)
EXTENDS JitterBuffer, SequencesExt, FiniteSets, FiniteSetsExt

CONSTANTS
    ChanCap,      \* capacity of the audio channel (256)
    ResetStreak,  \* PLC_RESET_STREAK (50)
    MaxFlight,    \* bound: frames the sender's clock may be ahead of the mix task's
    MaxLoss,      \* bound: frames the network loses or the full channel drops
    MaxReorder    \* bound: times a frame overtakes the one before it

ASSUME UpstreamConstants ==
    /\ {ChanCap, ResetStreak, MaxFlight} \subseteq Nat \ {0}
    /\ {MaxLoss, MaxReorder} \subseteq Nat

VARIABLES
    sequence,   \* the sender's next sequence number
    flight,     \* frames on the network, the next to arrive first
    channel,    \* the client's audio channel
    jb,         \* its jitter buffer in the mix task
    plc_streak,
    multi,      \* mix_clients.len() >= 2
    outcome,    \* what the last tick did for the client
    lost, reordered,
    late        \* history: frames refused as late, counted up to MaxReorder + 1

vars == <<sequence, flight, channel, jb, plc_streak, multi, outcome, lost, reordered,
          late>>

Outcomes == {"none", "solo", "heard", "unprimed", "reset", "wait", "concealed"}

TypeOK ==
    /\ sequence \in Seq32
    /\ flight \in BoundedSeq(Seq32, MaxFlight)
    /\ channel \in BoundedSeq(Seq32, ChanCap)
    /\ jb \in Buffers
    /\ plc_streak \in 0..(ResetStreak - 1)
    /\ multi \in BOOLEAN
    /\ outcome \in Outcomes
    /\ lost \in 0..MaxLoss /\ reordered \in 0..MaxReorder
    /\ late \in 0..(MaxReorder + 1)

Init ==
    /\ sequence = 0
    /\ flight = <<>> /\ channel = <<>>
    /\ jb = EmptyBuffer
    /\ plc_streak = 0
    /\ multi \in BOOLEAN
    /\ outcome = "none"
    /\ lost = 0 /\ reordered = 0 /\ late = 0

-----------------------------------------------------------------------------
(* The sender and the network. *)

Send ==
    /\ Len(flight) + Len(channel) < MaxFlight
    /\ flight' = Append(flight, sequence)
    /\ sequence' = WrappingAdd(sequence, 1)
    /\ UNCHANGED <<channel, jb, plc_streak, multi, outcome, lost, reordered, late>>

Lose ==
    /\ lost < MaxLoss /\ flight # <<>>
    /\ lost' = lost + 1
    /\ flight' = Tail(flight)
    /\ UNCHANGED <<sequence, channel, jb, plc_streak, multi, outcome, reordered, late>>

Overtake ==
    /\ reordered < MaxReorder /\ Len(flight) >= 2
    /\ reordered' = reordered + 1
    /\ flight' = <<flight[2], flight[1]>> \o SubSeq(flight, 3, Len(flight))
    /\ UNCHANGED <<sequence, channel, jb, plc_streak, multi, outcome, lost, late>>

\* recv_datagrams: try_send, which drops the frame when the channel is full.
RecvDatagram ==
    /\ flight # <<>>
    /\ flight' = Tail(flight)
    /\ \/ /\ Len(channel) < ChanCap
          /\ channel' = Append(channel, Head(flight))
          /\ UNCHANGED lost
       \/ /\ Len(channel) = ChanCap /\ lost < MaxLoss
          /\ lost' = lost + 1
          /\ UNCHANGED channel
    /\ UNCHANGED <<sequence, jb, plc_streak, multi, outcome, reordered, late>>

-----------------------------------------------------------------------------
(* One tick of the mix task. *)

\* while let Ok(packet) = audio_rx.try_recv(): a frame that does not decode is
\* inserted as silence, so every one is inserted. DrainedTo[k] is the buffer
\* when k of the frames have been.
DrainedTo[k \in 0..Len(channel)] ==
    IF k = 0 THEN jb ELSE Insert(DrainedTo[k - 1], channel[k])

Drained == DrainedTo[Len(channel)]

\* The frames of the channel that insert refuses.
LateInDrain == {k \in 1..Len(channel) : Late(DrainedTo[k - 1], channel[k])}

\* while pop().is_some() {}: it finds at most Depth frames.
PopOne(b) == IF CanPop(b) THEN Popped(b) ELSE b
PopAll(b) ==
    LET popped[k \in 0..Depth] == IF k = 0 THEN b ELSE PopOne(popped[k - 1])
    IN  popped[Depth]

\* Fewer than two clients: what can be read is thrown away, nothing is skipped.
TickSolo(b) ==
    /\ ~multi
    /\ jb' = PopAll(b)
    /\ outcome' = "solo"
    /\ UNCHANGED plc_streak

TickHeard(b) ==
    /\ multi /\ CanPop(b)
    /\ jb' = Popped(b)
    /\ plc_streak' = 0
    /\ outcome' = "heard"

TickUnprimed(b) ==
    /\ multi /\ ~b.initialized
    /\ jb' = b
    /\ outcome' = "unprimed"
    /\ UNCHANGED plc_streak

Underrun(b) == multi /\ b.initialized /\ ~CanPop(b)

\* Mutant of TickReset: the streak is counted and nothing is done about it.
TickNoReset(b) ==
    /\ Underrun(b) /\ plc_streak + 1 >= ResetStreak
    /\ jb' = AdvanceExpected(b)
    /\ outcome' = "concealed"
    /\ UNCHANGED plc_streak

TickReset(b) ==
    /\ Underrun(b) /\ plc_streak + 1 >= ResetStreak
    /\ jb' = EmptyBuffer
    /\ plc_streak' = 0
    /\ outcome' = "reset"

\* Mutant of TickWait: the buffer advances whether or not a frame came.
TickConcealAlways(b) ==
    /\ Underrun(b) /\ plc_streak + 1 < ResetStreak
    /\ channel = <<>>
    /\ jb' = AdvanceExpected(b)
    /\ plc_streak' = plc_streak + 1
    /\ outcome' = "concealed"

\* had_rx_this_tick is false: wait for the network.
TickWait(b) ==
    /\ Underrun(b) /\ plc_streak + 1 < ResetStreak
    /\ channel = <<>>
    /\ jb' = b
    /\ plc_streak' = plc_streak + 1
    /\ outcome' = "wait"

TickConceal(b) ==
    /\ Underrun(b) /\ plc_streak + 1 < ResetStreak
    /\ channel # <<>>
    /\ jb' = AdvanceExpected(b)
    /\ plc_streak' = plc_streak + 1
    /\ outcome' = "concealed"

Tick ==
    /\ \E b \in {Drained} :
          \/ TickSolo(b) \/ TickHeard(b) \/ TickUnprimed(b)
          \/ TickReset(b) \/ TickWait(b) \/ TickConceal(b)
    /\ late' = Min({late + Cardinality(LateInDrain), MaxReorder + 1})
    /\ channel' = <<>>
    /\ UNCHANGED <<sequence, flight, multi, lost, reordered>>

\* Another client enters or leaves the mix.
OthersChange ==
    /\ multi' = ~multi
    /\ UNCHANGED <<sequence, flight, channel, jb, plc_streak, outcome, lost,
                   reordered, late>>

Next == Send \/ Lose \/ Overtake \/ RecvDatagram \/ Tick \/ OthersChange

Spec == Init /\ [][Next]_vars

\* The sender's and the mix task's intervals tick for ever, and the receive
\* task runs when a datagram is there. Others may come and go, or not.
FairSpec == Spec /\ WF_vars(Send) /\ WF_vars(RecvDatagram) /\ WF_vars(Tick)

-----------------------------------------------------------------------------
(* Properties. *)

\* A stream whose frames arrive in order, some of them lost, is never refused
\* as late: however the ticks of the mix task and of the sender drift, and
\* whoever joins, reading never overtakes the network.
InOrderNeverLate == reordered = 0 => late = 0

\* A client that keeps sending to a room of two or more is heard again and
\* again, whatever was lost or overtaken before.
TalkerHeardAgain == (<>[]multi) => []<>(outcome = "heard")

\* server/src/main.rs:825: waiting for a datagram "avoids late-insert death
\* spiral". A frame that is overtaken costs that frame, not the ones after it.
NoDeathSpiral == late <= reordered
=============================================================================
