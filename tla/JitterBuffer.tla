---------------------------- MODULE JitterBuffer ----------------------------
(***************************************************************************)
(* common/src/jitter.rs: the ring of slots both ends of an audio stream    *)
(* read frames from. A buffer is a value, the methods are operators on it. *)
(*                                                                         *)
(* A frame is known by its true number n, which never wraps; what goes     *)
(* over the wire is Wire(n), a sequence number of SeqSpace values (2^32).  *)
(* Samples, and a frame of silence standing in for one that could not be   *)
(* decoded, are not told apart: both sit in the slot of their number.      *)
(***************************************************************************)
EXTENDS Integers

CONSTANTS
    Depth,     \* slots: config.jitter_depth, DEFAULT_JITTER_DEPTH in the client
    SeqSpace   \* the number of sequence numbers

ASSUME JitterConstants ==
    /\ Depth \in Nat \ {0}
    /\ SeqSpace \in Nat \ {0}
    /\ 2 * Depth <= SeqSpace

NoFrame == -1

Slot == 0..(Depth - 1)
Seq32 == 0..(SeqSpace - 1)

Buffers == [slots : [Slot -> Int], read_seq : Seq32, initialized : BOOLEAN]

Wire(n) == n % SeqSpace

\* Mutant of WrappingAdd: an addition that does not wrap.
PlainAdd(a, b) == a + b

\* u32::wrapping_sub and u32::wrapping_add.
WrappingSub(a, b) == (a - b) % SeqSpace
WrappingAdd(a, b) == (a + b) % SeqSpace

Index(seq) == seq % Depth

\* JitterBuffer::new, and what reset leaves.
EmptyBuffer ==
    [slots |-> [i \in Slot |-> NoFrame], read_seq |-> 0, initialized |-> FALSE]

\* The first insert fixes where reading starts.
Primed(jb, n) ==
    IF jb.initialized THEN jb
    ELSE [jb EXCEPT !.read_seq = Wire(n), !.initialized = TRUE]

Ahead(jb, n) == WrappingSub(Wire(n), Primed(jb, n).read_seq)

\* Mutant of Late: no frame is behind.
NeverLate(jb, n) == FALSE

\* More than half the range ahead of read_seq is behind it.
Late(jb, n) == Ahead(jb, n) > (SeqSpace - 1) \div 2

\* Beyond the window: reading moves up until the frame takes the last slot.
Overrun(jb, n) == ~Late(jb, n) /\ Ahead(jb, n) >= Depth

\* Mutant of Insert: an overrun wipes nothing and moves nothing.
InsertNoResync(jb, n) ==
    IF Late(jb, n) THEN Primed(jb, n)
    ELSE [Primed(jb, n) EXCEPT !.slots[Index(Wire(n))] = n]

\* insert; it returns ~Late(jb, n).
Insert(jb, n) ==
    IF Late(jb, n) THEN Primed(jb, n)
    ELSE [Primed(jb, n) EXCEPT
            !.read_seq = IF Overrun(jb, n) THEN WrappingSub(Wire(n), Depth - 1) ELSE @,
            !.slots[Index(Wire(n))] = n]

NextSlot(jb) == jb.slots[Index(jb.read_seq)]

\* Mutant of CanPop: the frame in the slot is not compared with read_seq.
CanPopStale(jb) == jb.initialized /\ NextSlot(jb) # NoFrame

\* pop returns Some(NextSlot(jb)).
CanPop(jb) == jb.initialized /\ NextSlot(jb) # NoFrame /\ Wire(NextSlot(jb)) = jb.read_seq

Popped(jb) ==
    [jb EXCEPT !.slots[Index(jb.read_seq)] = NoFrame,
               !.read_seq = WrappingAdd(@, 1)]

AdvanceExpected(jb) ==
    IF jb.initialized THEN [jb EXCEPT !.read_seq = WrappingAdd(@, 1)] ELSE jb
=============================================================================
