----------------------------- MODULE Downstream -----------------------------
(***************************************************************************)
(* The mix on its way down to one listener: the sending end of             *)
(* room_mix_loop, which numbers the frames it sends and sends none when    *)
(* nobody else is audible, and recv_decode_loop of the client, which plays *)
(* one frame per tick from its jitter buffer.                              *)
(*                                                                         *)
(* Both ends tick every 20 ms. They take turns here: the clocks have one   *)
(* rate, and unless the route is delayed a frame arrives between the tick  *)
(* that sends it and the listener's next. Frames are wire sequence numbers.*)
(***************************************************************************)
EXTENDS JitterBuffer, Sequences

CONSTANTS
    ResetThreshold,  \* CODEC_RESET_THRESHOLD (3)
    StreakMax,       \* u8::MAX, where decode_fail_streak saturates
    MaxPause,        \* bound: ticks without an audible source
    MaxLoss,         \* bound: frames lost
    MaxCorrupt,      \* bound: frames that arrive and do not decode
    MaxDelay         \* bound: how often the delay of the route rises by a tick

ASSUME DownstreamConstants ==
    /\ ResetThreshold \in Nat \ {0} /\ StreakMax \in Nat
    /\ {MaxPause, MaxLoss, MaxCorrupt, MaxDelay} \subseteq Nat

VARIABLES
    turn,                \* which end ticks next
    out_sequence,        \* the listener's in the mix task
    flight,              \* frames on the network, in order
    jb,                  \* the listener's jitter buffer
    decode_fail_streak,
    outcome,             \* what the listener's last tick played
    faults,              \* how much of each bound is used up
    late                 \* history: a frame has been refused as late

vars == <<turn, out_sequence, flight, jb, decode_fail_streak, outcome, faults, late>>

Fault == {"pause", "loss", "corrupt", "delay"}

Budget == [pause |-> MaxPause, loss |-> MaxLoss, corrupt |-> MaxCorrupt, delay |-> MaxDelay]

TypeOK ==
    /\ turn \in {"server", "client"}
    /\ out_sequence \in Seq32
    /\ flight \in Seq(Seq32) /\ Len(flight) <= MaxDelay + 1
    /\ jb \in Buffers
    /\ decode_fail_streak \in 0..StreakMax
    /\ outcome \in {"none", "unprimed", "heard", "concealed"}
    /\ \A f \in Fault : faults[f] \in 0..Budget[f]
    /\ late \in BOOLEAN

Init ==
    /\ turn = "server"
    /\ out_sequence = 0
    /\ flight = <<>>
    /\ jb = EmptyBuffer
    /\ decode_fail_streak = 0
    /\ outcome = "none"
    /\ faults = [f \in Fault |-> 0]
    /\ late = FALSE

Happens(f) ==
    /\ faults[f] < Budget[f]
    /\ faults' = [faults EXCEPT ![f] = @ + 1]

-----------------------------------------------------------------------------
(* The server's tick. *)

\* Mutant of MixAndSend: the number of a frame is used again for the next.
MixAndSendSameNumber ==
    /\ turn = "server" /\ turn' = "client"
    /\ flight' = Append(flight, out_sequence)
    /\ UNCHANGED <<out_sequence, jb, decode_fail_streak, outcome, faults, late>>

\* There is a source to mix: encode, number, send.
MixAndSend ==
    /\ turn = "server" /\ turn' = "client"
    /\ flight' = Append(flight, out_sequence)
    /\ out_sequence' = WrappingAdd(out_sequence, 1)
    /\ UNCHANGED <<jb, decode_fail_streak, outcome, faults, late>>

\* No source (everybody else silent, muted or blocked), or the encoder fails:
\* no frame, and no number is used up.
MixNothing ==
    /\ turn = "server" /\ turn' = "client"
    /\ Happens("pause")
    /\ UNCHANGED <<out_sequence, flight, jb, decode_fail_streak, outcome, late>>

Lose ==
    /\ flight # <<>>
    /\ Happens("loss")
    /\ flight' = Tail(flight)
    /\ UNCHANGED <<turn, out_sequence, jb, decode_fail_streak, outcome, late>>

-----------------------------------------------------------------------------
(* The listener. *)

RecvDecoded ==
    /\ flight # <<>>
    /\ flight' = Tail(flight)
    /\ decode_fail_streak' = 0
    /\ jb' = Insert(jb, Head(flight))
    /\ late' = (late \/ Late(jb, Head(flight)))
    /\ UNCHANGED <<turn, out_sequence, outcome, faults>>

Saturating(n) == IF n < StreakMax THEN n ELSE StreakMax

\* Mutant of RecvCorrupt: a plain addition, that does not saturate.
RecvCorruptPlainAdd ==
    /\ flight # <<>>
    /\ Happens("corrupt")
    /\ flight' = Tail(flight)
    /\ \/ /\ decode_fail_streak + 1 >= ResetThreshold
          /\ jb' = EmptyBuffer /\ decode_fail_streak' = 0
       \/ decode_fail_streak' = decode_fail_streak + 1 /\ UNCHANGED jb
    /\ UNCHANGED <<turn, out_sequence, outcome, late>>

\* Mutant of RecvCorrupt: a frame that does not decode is skipped on arrival,
\* and concealed at its tick as well.
RecvCorruptSkips ==
    /\ flight # <<>>
    /\ Happens("corrupt")
    /\ flight' = Tail(flight)
    /\ jb' = AdvanceExpected(jb)
    /\ UNCHANGED <<turn, out_sequence, decode_fail_streak, outcome, late>>

\* A frame that does not decode. From ResetThreshold failures in a row on, each
\* brings a new decoder and a new buffer; where no decoder can be made, both the
\* buffer and the streak stay, and the next failure tries again.
RecvCorrupt ==
    LET streak == Saturating(decode_fail_streak + 1)
    IN  /\ flight # <<>>
        /\ Happens("corrupt")
        /\ flight' = Tail(flight)
        /\ \/ streak >= ResetThreshold /\ jb' = EmptyBuffer /\ decode_fail_streak' = 0
           \/ decode_fail_streak' = streak /\ UNCHANGED jb
        /\ UNCHANGED <<turn, out_sequence, outcome, late>>

\* A tick finds everything that was sent, but for the frames that the delay of
\* the route keeps on the way; a frame more than that, and the delay has risen.
AtTick ==
    /\ turn = "client" /\ turn' = "server"
    /\ IF Len(flight) <= faults["delay"] THEN UNCHANGED faults ELSE Happens("delay")

PlayNothing ==
    /\ AtTick /\ ~jb.initialized
    /\ outcome' = "unprimed"
    /\ UNCHANGED <<out_sequence, flight, jb, decode_fail_streak, late>>

PlayFrame ==
    /\ AtTick /\ CanPop(jb)
    /\ jb' = Popped(jb)
    /\ outcome' = "heard"
    /\ UNCHANGED <<out_sequence, flight, decode_fail_streak, late>>

\* Underrun: PLC, and the buffer advances whether or not a frame has come.
PlayConcealed ==
    /\ AtTick /\ jb.initialized /\ ~CanPop(jb)
    /\ jb' = AdvanceExpected(jb)
    /\ outcome' = "concealed"
    /\ UNCHANGED <<out_sequence, flight, decode_fail_streak, late>>

ServerTick == MixAndSend \/ MixNothing
ClientTick == PlayNothing \/ PlayFrame \/ PlayConcealed

Next == ServerTick \/ Lose \/ RecvDecoded \/ RecvCorrupt \/ ClientTick

Spec == Init /\ [][Next]_vars

\* Two intervals that tick for ever, and a network that delivers. The bounds
\* make the talker speak, and the network behave, for good in the end.
FairSpec ==
    /\ Spec
    /\ WF_vars(ServerTick) /\ WF_vars(RecvDecoded) /\ WF_vars(ClientTick)

-----------------------------------------------------------------------------
(* Properties. *)

Steady == faults["pause"] = 0 /\ faults["delay"] = 0

\* While somebody speaks without a pause over a route of one delay, the playout
\* keeps step with the mix: whatever is lost or does not decode, no frame that
\* arrives is refused as late.
InStepNeverLate == Steady => ~late

\* A talker who never pauses, over a route of one delay, is heard again and
\* again once the losses are over: lost and corrupt frames leave nothing behind
\* in the listener's buffer that would keep the next ones out.
SteadyListenerHears == []Steady => []<>(outcome = "heard")

-----------------------------------------------------------------------------
(* What the documentation and the comments say, and the code does not do.  *)

\* README.md:349: the listener's buffer "reorders out-of-sequence packets and
\* triggers Opus PLC on missing frames"; common/src/jitter.rs:3: "8 slots =
\* 160 ms of jitter tolerance". Once the talker speaks for good, the listener
\* hears frames again and again, though the talker paused before, or the route
\* grew longer.
ListenerHearsAgain == []<>(outcome = "heard")
=============================================================================
