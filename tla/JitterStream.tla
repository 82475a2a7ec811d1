---------------------------- MODULE JitterStream ----------------------------
(***************************************************************************)
(* A stream of frames through a jitter buffer. The network delivers each   *)
(* frame at most once, in any order, or never (QUIC datagrams). The reader *)
(* is any of those in the code: it pops, it conceals a missing frame and   *)
(* advances, or it resets; when it does which is left open, so that what   *)
(* holds here holds of the mix task and of the client alike.               *)
(***************************************************************************)
EXTENDS JitterBuffer

CONSTANTS First, Last  \* the numbers of the frames sent

Frame == First..Last

\* A stream of at most half the sequence numbers, so that no frame is taken
\* for one of another turn: 2^31 frames of 20 ms are 497 days.
ASSUME StreamConstants ==
    /\ First \in Nat /\ Last \in Nat
    /\ First <= Last
    /\ 2 * (Last - First + 1) <= SeqSpace

VARIABLES
    jb,        \* the buffer
    flight,    \* frames the network has neither delivered nor lost for good
    expected   \* history: the true number that jb.read_seq stands for

stream_vars == <<jb, flight, expected>>

TypeOK ==
    /\ jb \in Buffers
    /\ flight \subseteq Frame
    /\ expected \in Nat

Init ==
    /\ jb = EmptyBuffer
    /\ flight = Frame
    /\ expected = 0

Arrive(n) ==
    /\ n \in flight
    /\ flight' = flight \ {n}
    /\ jb' = Insert(jb, n)
    /\ expected' = IF ~jb.initialized THEN n
                   ELSE IF Overrun(jb, n) THEN n - Depth + 1 ELSE expected

Play ==
    /\ CanPop(jb)
    /\ jb' = Popped(jb)
    /\ expected' = expected + 1
    /\ UNCHANGED flight

\* The caller has been told None and plays a substitute. Bound: reading does
\* not run ahead of the whole stream.
Conceal ==
    /\ jb.initialized /\ ~CanPop(jb)
    /\ expected <= Last
    /\ jb' = AdvanceExpected(jb)
    /\ expected' = expected + 1
    /\ UNCHANGED flight

\* JitterBuffer::reset, or a new buffer in place of the old one.
ResetBuffer ==
    /\ jb' = EmptyBuffer
    /\ expected' = 0
    /\ UNCHANGED flight

Next == (\E n \in Frame : Arrive(n)) \/ Play \/ Conceal \/ ResetBuffer

Spec == Init /\ [][Next]_stream_vars

-----------------------------------------------------------------------------
(* Properties. *)

Stored == {jb.slots[i] : i \in Slot} \ {NoFrame}

\* A slot holds only frames of its own index, each frame is in one place at
\* most, and the sequence number to read is that of the frame to read.
SlotsConsistent ==
    /\ \A i \in Slot : jb.slots[i] # NoFrame =>
          Index(Wire(jb.slots[i])) = i /\ jb.slots[i] \notin flight
    /\ \A i, j \in Slot : jb.slots[i] = jb.slots[j] /\ jb.slots[i] # NoFrame => i = j
    /\ jb.initialized => jb.read_seq = Wire(expected)

\* What is in the slots at or ahead of the reading position is what a sliding
\* window would hold: frames of before it are as good as gone.
Window == INSTANCE JitterWindow WITH
    primed <- jb.initialized,
    held <- {n \in Stored : n >= expected}

\* Through the ring, the wrap of the sequence numbers and the resync, frames
\* are kept as long as the window promises and read in order, each once.
ImplementsWindow == Window!WindowSpec
=============================================================================
