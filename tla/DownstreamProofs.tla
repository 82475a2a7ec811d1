--------------------------- MODULE DownstreamProofs ---------------------------
(***************************************************************************)
(* The playout keeps step with the mix, as long as the talker makes no     *)
(* pause and the delay of the route does not rise: for every depth, range  *)
(* of sequence numbers, threshold and number of faults.                    *)
(***************************************************************************)
EXTENDS Downstream, TLAPS

\* The slots and the sequence number of a buffer, whatever is done to it.
LEMMA BufferTypes ==
  ASSUME NEW b \in Buffers, NEW n \in Seq32
  PROVE  Insert(b, n) \in Buffers /\ Popped(b) \in Buffers /\ AdvanceExpected(b) \in Buffers
         /\ EmptyBuffer \in Buffers
  <1>1. SeqSpace \in Nat \ {0} /\ Depth \in Nat \ {0} /\ b.read_seq \in Int /\ n \in Int
        /\ b.slots \in [Slot -> Int]
    BY JitterConstants DEF Buffers, Seq32
  <1>2. \A k \in Int : k % SeqSpace \in Seq32 /\ k % Depth \in Slot
    BY <1>1 DEF Seq32, Slot
  <1>3. n - (Depth - 1) \in Int /\ b.read_seq + 1 \in Int
    BY <1>1
  <1> HIDE DEF Seq32, Slot
  <1>4. /\ Index(b.read_seq) \in Slot /\ WrappingAdd(b.read_seq, 1) \in Seq32
        /\ Wire(n) \in Seq32
    BY <1>1, <1>2, <1>3 DEF Index, WrappingAdd, Wire
  <1>5. Wire(n) \in Int /\ Index(Wire(n)) \in Slot /\ WrappingSub(Wire(n), Depth - 1) \in Seq32
    <2>1. Wire(n) \in Int
      BY <1>4 DEF Seq32
    <2>2. Wire(n) - (Depth - 1) \in Int
      BY <1>1, <2>1
    <2>3. QED
      BY <1>2, <2>1, <2>2 DEF Index, WrappingSub
  <1>6. Primed(b, n) \in Buffers
    BY <1>4 DEF Primed, Buffers
  <1>7. Insert(b, n) \in Buffers
    BY <1>1, <1>5, <1>6 DEF Insert, Buffers
  <1>8. Popped(b) \in Buffers /\ AdvanceExpected(b) \in Buffers
    <2>1. [b.slots EXCEPT ![Index(b.read_seq)] = NoFrame] \in [Slot -> Int]
      BY <1>1, <1>4 DEF NoFrame
    <2>2. b \in Buffers
      OBVIOUS
    <2>3. Popped(b) \in Buffers
      BY <1>4, <2>1, <2>2 DEF Buffers, Popped
    <2>4. AdvanceExpected(b) \in Buffers
      BY <1>4, <2>2 DEF AdvanceExpected, Buffers
    <2>5. QED
      BY <2>3, <2>4
  <1>9. 0 \in Seq32
    BY <1>1 DEF Seq32
  <1>10. EmptyBuffer \in Buffers
    BY <1>9 DEF EmptyBuffer, Buffers, NoFrame
  <1>11. QED
    BY <1>7, <1>8, <1>10

\* A frame that is not delayed meets the next tick: one frame more than the
\* delay of the route is on the way, and only after a tick of the server.
DownInv ==
    /\ TypeOK /\ DOMAIN faults = Fault
    /\ Len(flight) <= faults["delay"] + (IF turn = "client" THEN 1 ELSE 0)

\* A tick without a pause, over a route without a delay: what is read next is
\* what has just been sent, or will be.
StepInv ==
    Steady =>
        /\ ~late
        /\ turn = "server" => flight = <<>> /\ (jb.initialized => jb.read_seq = out_sequence)
        /\ turn = "client" =>
              \E n \in Seq32 :
                 /\ out_sequence = WrappingAdd(n, 1)
                 /\ flight \in {<<>>, <<n>>}
                 /\ jb.initialized => jb.read_seq = n

\* A fault is counted, and none is taken back.
LEMMA FaultCounted ==
  ASSUME DownInv, NEW f \in Fault, Happens(f)
  PROVE  /\ DOMAIN faults' = Fault /\ \A g \in Fault : faults'[g] \in 0..Budget[g]
         /\ faults'[f] = faults[f] + 1 /\ \A g \in Fault \ {f} : faults'[g] = faults[g]
         /\ \A g \in Fault : faults[g] <= faults'[g] /\ faults[g] \in Nat
  <1>1. \A g \in Fault : faults[g] \in 0..Budget[g] /\ Budget[g] \in Nat
    BY DownstreamConstants DEF DownInv, TypeOK, Fault, Budget
  <1>2. faults[f] < Budget[f] /\ faults' = [faults EXCEPT ![f] = @ + 1] /\ DOMAIN faults = Fault
    BY DEF Happens, DownInv
  <1> HIDE DEF Fault, Budget
  <1>3. /\ DOMAIN faults' = Fault /\ faults'[f] = faults[f] + 1
        /\ \A g \in Fault \ {f} : faults'[g] = faults[g]
    BY <1>2
  <1>4. \A g \in Fault : faults'[g] \in 0..Budget[g] /\ faults[g] <= faults'[g] /\ faults[g] \in Nat
    <2>1. ASSUME NEW g \in Fault
          PROVE  faults'[g] \in 0..Budget[g] /\ faults[g] <= faults'[g] /\ faults[g] \in Nat
      <3>1. PICK x \in Nat, y \in Nat : x = faults[g] /\ y = Budget[g] /\ x <= y
        BY <1>1
      <3>2. CASE g = f
        <4>1. x + 1 \in 0..y /\ x <= x + 1
          BY <1>2, <3>1, <3>2
        <4>2. QED
          BY <1>3, <3>1, <3>2, <4>1
      <3>3. CASE g # f
        BY <1>3, <3>1, <3>3
      <3>4. QED
        BY <3>2, <3>3
    <2>2. QED
      BY <2>1
  <1>5. QED
    BY <1>3, <1>4

\* A frame that leaves the network.
LEMMA FlightTail ==
  ASSUME DownInv, flight # <<>>
  PROVE  /\ Head(flight) \in Seq32 /\ Tail(flight) \in Seq(Seq32)
         /\ Len(Tail(flight)) = Len(flight) - 1 /\ Len(flight) \in Nat
  BY DEF DownInv, TypeOK

LEMMA DownStep == DownInv /\ [Next]_vars => DownInv'
  <1> SUFFICES ASSUME DownInv, [Next]_vars PROVE DownInv'
    OBVIOUS
  <1> DEFINE room(t, fl, fa) == Len(fl) <= fa["delay"] + (IF t = "client" THEN 1 ELSE 0)
  <1>0. /\ MaxDelay \in Nat /\ StreakMax \in Nat /\ Len(flight) \in Nat
        /\ "delay" \in Fault /\ Budget["delay"] = MaxDelay
        /\ faults["delay"] \in 0..MaxDelay
    BY DownstreamConstants DEF DownInv, TypeOK, Fault, Budget
  <1>1. CASE UNCHANGED vars
    BY <1>1 DEF vars, DownInv, TypeOK
  <1>2. CASE MixAndSend
    <2>1. /\ flight' \in Seq(Seq32) /\ Len(flight') = Len(flight) + 1
          /\ turn = "server" /\ turn' = "client"
      BY <1>2 DEF MixAndSend, DownInv, TypeOK
    <2>2. out_sequence' \in Seq32
      <3>1. out_sequence \in Int /\ SeqSpace \in Nat \ {0}
        BY JitterConstants DEF DownInv, TypeOK, Seq32
      <3>2. (out_sequence + 1) % SeqSpace \in Seq32
        BY <3>1 DEF Seq32
      <3>3. QED
        BY <1>2, <3>2 DEF MixAndSend, WrappingAdd
    <2>3. UNCHANGED <<jb, decode_fail_streak, outcome, faults, late>>
      BY <1>2 DEF MixAndSend
    <2>4. Len(flight') <= faults["delay"] + 1 /\ Len(flight') <= MaxDelay + 1
      <3>1. Len(flight) <= faults["delay"] + 0
        BY <2>1 DEF DownInv
      <3>2. QED
        BY <1>0, <2>1, <3>1
    <2>5. QED
      BY <2>1, <2>2, <2>3, <2>4 DEF DownInv, TypeOK
  <1>3. CASE MixNothing
    <2>1. /\ DOMAIN faults' = Fault /\ \A g \in Fault : faults'[g] \in 0..Budget[g]
          /\ faults'["delay"] = faults["delay"]
      BY <1>3, FaultCounted DEF MixNothing, Fault
    <2>2. turn = "server" /\ turn' = "client"
          /\ UNCHANGED <<out_sequence, flight, jb, decode_fail_streak, outcome, late>>
      BY <1>3 DEF MixNothing
    <2>3. Len(flight') <= faults'["delay"] + 1
      BY <1>0, <2>1, <2>2 DEF DownInv
    <2>4. QED
      BY <2>1, <2>2, <2>3 DEF DownInv, TypeOK
  <1>4. ASSUME flight # <<>>, flight' = Tail(flight), turn' = turn,
               DOMAIN faults' = Fault, \A g \in Fault : faults'[g] \in 0..Budget[g],
               faults'["delay"] = faults["delay"]
        PROVE  /\ flight' \in Seq(Seq32) /\ Len(flight') <= MaxDelay + 1
               /\ Len(flight') <= faults'["delay"] + (IF turn' = "client" THEN 1 ELSE 0)
    <2>1. flight' \in Seq(Seq32) /\ Len(flight') = Len(flight) - 1
      BY <1>4, FlightTail
    <2>2. Len(flight) <= MaxDelay + 1
      BY DEF DownInv, TypeOK
    <2>3. CASE turn = "client"
      <3>1. Len(flight) <= faults["delay"] + 1
        BY <2>3 DEF DownInv
      <3>2. Len(flight') <= faults["delay"] + 1 /\ Len(flight') <= MaxDelay + 1
        BY <1>0, <2>1, <2>2, <3>1
      <3>3. QED
        BY <1>4, <2>1, <2>3, <3>2
    <2>4. CASE turn # "client"
      <3>1. Len(flight) <= faults["delay"] + 0
        BY <2>4 DEF DownInv
      <3>2. Len(flight') <= faults["delay"] + 0 /\ Len(flight') <= MaxDelay + 1
        BY <1>0, <2>1, <2>2, <3>1
      <3>3. QED
        BY <1>4, <2>1, <2>4, <3>2
    <2>5. QED
      BY <2>3, <2>4
  <1>5. CASE Lose
    <2>1. /\ DOMAIN faults' = Fault /\ \A g \in Fault : faults'[g] \in 0..Budget[g]
          /\ faults'["delay"] = faults["delay"]
      BY <1>5, FaultCounted DEF Lose, Fault
    <2>2. flight # <<>> /\ flight' = Tail(flight)
          /\ UNCHANGED <<turn, out_sequence, jb, decode_fail_streak, outcome, late>>
      BY <1>5 DEF Lose
    <2>3. QED
      BY <1>4, <2>1, <2>2 DEF DownInv, TypeOK
  <1>6. CASE RecvDecoded
    <2>1. flight # <<>> /\ flight' = Tail(flight) /\ decode_fail_streak' = 0
          /\ jb' = Insert(jb, Head(flight)) /\ late' = (late \/ Late(jb, Head(flight)))
          /\ UNCHANGED <<turn, out_sequence, outcome, faults>>
      BY <1>6, Zenon DEF RecvDecoded
    <2>2. jb' \in Buffers
      BY <2>1, FlightTail, BufferTypes DEF DownInv, TypeOK
    <2>3. late' \in BOOLEAN
      BY <2>1 DEF Late
    <2>4. 0 \in 0..StreakMax
      BY <1>0
    <2>5. QED
      BY <1>4, <2>1, <2>2, <2>3, <2>4 DEF DownInv, TypeOK
  <1>7. CASE RecvCorrupt
    <2>1. /\ DOMAIN faults' = Fault /\ \A g \in Fault : faults'[g] \in 0..Budget[g]
          /\ faults'["delay"] = faults["delay"]
      BY <1>7, FaultCounted DEF RecvCorrupt, Fault
    <2>2. flight # <<>> /\ flight' = Tail(flight)
          /\ UNCHANGED <<turn, out_sequence, outcome, late>>
      BY <1>7 DEF RecvCorrupt
    <2>3. decode_fail_streak \in 0..StreakMax /\ jb \in Buffers
      BY DEF DownInv, TypeOK
    <2>4. EmptyBuffer \in Buffers
      BY <2>2, <2>3, FlightTail, BufferTypes
    <2>5. decode_fail_streak' \in 0..StreakMax /\ jb' \in Buffers
      BY <1>0, <1>7, <2>3, <2>4 DEF RecvCorrupt, Saturating
    <2>6. QED
      BY <1>4, <2>1, <2>2, <2>5 DEF DownInv, TypeOK
  <1>8. CASE ClientTick
    <2>1. AtTick /\ UNCHANGED <<out_sequence, flight, decode_fail_streak, late>>
      BY <1>8 DEF ClientTick, PlayNothing, PlayFrame, PlayConcealed
    <2>2. jb' \in Buffers
      <3>1. jb \in Buffers /\ out_sequence \in Seq32
        BY DEF DownInv, TypeOK
      <3>2. Popped(jb) \in Buffers /\ AdvanceExpected(jb) \in Buffers
        BY <3>1, BufferTypes
      <3>3. QED
        BY <1>8, <3>1, <3>2 DEF ClientTick, PlayNothing, PlayFrame, PlayConcealed
    <2>3. outcome' \in {"none", "unprimed", "heard", "concealed"}
      BY <1>8 DEF ClientTick, PlayNothing, PlayFrame, PlayConcealed
    <2>4. /\ DOMAIN faults' = Fault /\ \A g \in Fault : faults'[g] \in 0..Budget[g]
          /\ Len(flight') <= faults'["delay"] + 0
      <3>1. CASE Len(flight) <= faults["delay"]
        <4>1. faults' = faults
          BY <2>1, <3>1 DEF AtTick
        <4>2. QED
          BY <1>0, <2>1, <3>1, <4>1 DEF DownInv, TypeOK
      <3>2. CASE ~(Len(flight) <= faults["delay"])
        <4>1. Happens("delay")
          BY <2>1, <3>2 DEF AtTick
        <4>2. /\ DOMAIN faults' = Fault /\ \A g \in Fault : faults'[g] \in 0..Budget[g]
              /\ faults'["delay"] = faults["delay"] + 1
          BY <1>0, <4>1, FaultCounted
        <4>3. Len(flight) <= faults["delay"] + 1
          BY <2>1 DEF DownInv, AtTick
        <4>4. QED
          BY <1>0, <2>1, <4>2, <4>3
      <3>3. QED
        BY <3>1, <3>2
    <2>5. turn' = "server"
      BY <2>1 DEF AtTick
    <2>6. QED
      BY <2>1, <2>2, <2>3, <2>4, <2>5 DEF DownInv, TypeOK
  <1>9. QED
    BY <1>1, <1>2, <1>3, <1>5, <1>6, <1>7, <1>8 DEF Next, ServerTick

LEMMA DownStart == Init => DownInv /\ StepInv
  <1> SUFFICES ASSUME Init PROVE DownInv /\ StepInv
    OBVIOUS
  <1>1. /\ SeqSpace \in Nat \ {0} /\ StreakMax \in Nat /\ MaxDelay \in Nat
        /\ \A f \in Fault : Budget[f] \in Nat
    BY JitterConstants, DownstreamConstants DEF Fault, Budget
  <1>2. 0 \in Seq32 /\ 0 \in 0..StreakMax
    BY <1>1 DEF Seq32
  <1>3. jb \in Buffers
    BY <1>2 DEF Init, EmptyBuffer, Buffers, NoFrame
  <1>4. DOMAIN faults = Fault /\ \A f \in Fault : faults[f] = 0 /\ faults[f] \in 0..Budget[f]
    BY <1>1 DEF Init
  <1>5. flight \in Seq(Seq32) /\ Len(flight) = 0 /\ faults["delay"] = 0
    BY <1>4 DEF Init, Fault
  <1>6. DownInv
    <2>1. 0 <= MaxDelay + 1 /\ turn = "server" /\ turn # "client" /\ 0 <= 0 + 0
      BY <1>1 DEF Init
    <2>2. TypeOK
      BY <1>2, <1>3, <1>4, <1>5, <2>1 DEF Init, TypeOK
    <2>3. QED
      BY <1>4, <1>5, <2>1, <2>2 DEF DownInv
  <1>7. QED
    BY <1>6 DEF Init, StepInv, EmptyBuffer

\* Every variable has its type, and no more is on the way than a frame above the
\* delay of the route: the bounds of the faults are kept.
THEOREM DownTypeCorrect == FairSpec => []TypeOK
  <1>1. DownInv => TypeOK
    BY DEF DownInv
  <1>2. QED
    BY <1>1, DownStart, DownStep, PTL DEF FairSpec, Spec

\* The frame that is to be read next, on its arrival, is in time.
LEMMA OnTime ==
  ASSUME NEW b \in Buffers, NEW n \in Seq32, b.initialized => b.read_seq = n
  PROVE  ~Late(b, n) /\ Insert(b, n).initialized /\ Insert(b, n).read_seq = n
  <1>1. SeqSpace \in Nat \ {0} /\ Depth \in Nat \ {0} /\ n \in Int /\ n >= 0 /\ n <= SeqSpace - 1
    BY JitterConstants DEF Seq32
  <1>2. Wire(n) = n
    BY <1>1 DEF Wire
  <1>3. Primed(b, n).read_seq = n /\ Primed(b, n).initialized /\ Primed(b, n) \in Buffers
    BY <1>2 DEF Primed, Buffers
  <1>4. Ahead(b, n) = 0
    <2>1. n - n = 0 /\ 0 % SeqSpace = 0
      BY <1>1
    <2>2. QED
      BY <1>2, <1>3, <2>1 DEF Ahead, WrappingSub
  <1>5. ~Late(b, n) /\ ~Overrun(b, n)
    <2>1. (SeqSpace - 1) \div 2 \in Nat
      BY <1>1
    <2>2. ~(0 > (SeqSpace - 1) \div 2) /\ ~(0 >= Depth)
      BY <1>1, <2>1
    <2>3. QED
      BY <1>4, <2>2 DEF Late, Overrun
  <1>6. Insert(b, n) = [Primed(b, n) EXCEPT !.read_seq = @, !.slots[Index(Wire(n))] = n]
    BY <1>5 DEF Insert
  <1>7. QED
    BY <1>3, <1>5, <1>6 DEF Buffers

LEMMA KeepsStep == DownInv /\ DownInv' /\ StepInv /\ [Next]_vars => StepInv'
  <1> SUFFICES ASSUME DownInv, StepInv, [Next]_vars, Steady' PROVE StepInv'
    BY DEF StepInv
  <1> DEFINE Sent(n) == /\ out_sequence = WrappingAdd(n, 1)
                        /\ flight \in {<<>>, <<n>>}
                        /\ jb.initialized => jb.read_seq = n
  <1>1. /\ "pause" \in Fault /\ "delay" \in Fault /\ jb \in Buffers /\ out_sequence \in Seq32
        /\ turn \in {"server", "client"}
        /\ faults["pause"] \in Nat /\ faults["delay"] \in Nat
    BY DownstreamConstants DEF DownInv, TypeOK, Fault, Budget
  <1>2. Steady
    <2>1. CASE faults' = faults
      BY <2>1 DEF Steady
    <2>2. ASSUME NEW f \in Fault, Happens(f) PROVE Steady
      <3>1. \A g \in Fault : faults[g] <= faults'[g] /\ faults[g] \in Nat
        BY <2>2, FaultCounted
      <3>2. QED
        BY <1>1, <3>1 DEF Steady
    <2>3. faults' = faults \/ \E f \in Fault : Happens(f)
      BY DEF Fault, Next, ServerTick, ClientTick, MixAndSend, MixNothing, Lose, RecvDecoded,
             RecvCorrupt, PlayNothing, PlayFrame, PlayConcealed, AtTick, vars
    <2>4. QED
      BY <2>1, <2>2, <2>3
  <1>3. ~late /\ (turn = "server" => flight = <<>> /\ (jb.initialized => jb.read_seq = out_sequence))
        /\ (turn = "client" => \E n \in Seq32 : Sent(n))
    BY <1>2 DEF StepInv
  <1>4. CASE UNCHANGED vars
    BY <1>4 DEF vars, StepInv, Steady
  <1>5. CASE MixAndSend
    <2>1. turn = "server" /\ turn' = "client" /\ flight' = Append(flight, out_sequence)
          /\ out_sequence' = WrappingAdd(out_sequence, 1) /\ UNCHANGED <<jb, late>>
      BY <1>5 DEF MixAndSend
    <2>2. flight' = <<out_sequence>>
      BY <1>3, <2>1
    <2>3. QED
      BY <1>1, <1>3, <2>1, <2>2 DEF StepInv
  <1>6. CASE MixNothing
    <2>1. faults'["pause"] = faults["pause"] + 1
      BY <1>1, <1>6, FaultCounted DEF MixNothing
    <2>2. FALSE
      BY <1>1, <2>1 DEF Steady
    <2>3. QED
      BY <2>2
  <1>7. ASSUME flight # <<>>
        PROVE  turn = "client" /\ \E n \in Seq32 : Sent(n) /\ flight = <<n>> /\ Head(flight) = n
                                                    /\ Tail(flight) = <<>>
    <2>1. turn = "client"
      BY <1>1, <1>3, <1>7
    <2>2. PICK n \in Seq32 : Sent(n)
      BY <1>3, <2>1
    <2>3. flight = <<n>>
      BY <1>7, <2>2
    <2>4. Head(flight) = n /\ Tail(flight) = <<>>
      BY <2>3
    <2>5. QED
      BY <2>1, <2>2, <2>3, <2>4
  <1>8. ASSUME flight # <<>>, flight' = Tail(flight), UNCHANGED <<turn, out_sequence, late>>,
               jb' \in {jb, EmptyBuffer}
        PROVE  StepInv'
    <2>1. PICK n \in Seq32 : Sent(n) /\ Tail(flight) = <<>>
      BY <1>7, <1>8
    <2>2. turn' = "client" /\ flight' = <<>>
      BY <1>7, <1>8, <2>1
    <2>3. jb'.initialized => jb'.read_seq = n
      BY <1>8, <2>1 DEF EmptyBuffer
    <2>4. QED
      BY <1>3, <1>8, <2>1, <2>2, <2>3 DEF StepInv
  <1>9. CASE Lose
    BY <1>8, <1>9 DEF Lose
  <1>10. CASE RecvCorrupt
    BY <1>8, <1>10 DEF RecvCorrupt
  <1>11. CASE RecvDecoded
    <2>1. flight # <<>> /\ flight' = Tail(flight) /\ jb' = Insert(jb, Head(flight))
          /\ late' = (late \/ Late(jb, Head(flight))) /\ UNCHANGED <<turn, out_sequence>>
      BY <1>11, Zenon DEF RecvDecoded
    <2>2. PICK n \in Seq32 : Sent(n) /\ Head(flight) = n /\ Tail(flight) = <<>>
      BY <1>7, <2>1
    <2>3. ~Late(jb, n) /\ jb'.read_seq = n
      BY <1>1, <2>1, <2>2, OnTime
    <2>4. turn' = "client" /\ flight' = <<>> /\ late' = FALSE
      BY <1>3, <1>7, <2>1, <2>2, <2>3
    <2>5. QED
      BY <2>1, <2>2, <2>3, <2>4 DEF StepInv
  <1>12. CASE ClientTick
    <2>1. AtTick /\ UNCHANGED <<out_sequence, flight, late>>
      BY <1>12 DEF ClientTick, PlayNothing, PlayFrame, PlayConcealed
    <2>2. turn = "client" /\ turn' = "server"
      BY <2>1 DEF AtTick
    <2>3. PICK n \in Seq32 : Sent(n)
      BY <1>3, <2>2
    <2>4. flight = <<>>
      <3>1. Len(flight) <= faults["delay"]
        <4>1. CASE Len(flight) <= faults["delay"]
          BY <4>1
        <4>2. CASE ~(Len(flight) <= faults["delay"])
          <5>1. faults'["delay"] = faults["delay"] + 1
            BY <1>1, <2>1, <4>2, FaultCounted DEF AtTick
          <5>2. FALSE
            BY <1>1, <5>1 DEF Steady
          <5>3. QED
            BY <5>2
        <4>3. QED
          BY <4>1, <4>2
      <3>2. Len(flight) <= 0
        BY <1>2, <3>1 DEF Steady
      <3>3. QED
        BY <2>3, <3>2
    <2>5. jb'.initialized => jb'.read_seq = out_sequence
      <3>1. CASE PlayNothing
        BY <3>1 DEF PlayNothing
      <3>2. CASE PlayFrame
        BY <1>1, <2>3, <3>2 DEF PlayFrame, CanPop, Popped, Buffers
      <3>3. CASE PlayConcealed
        BY <1>1, <2>3, <3>3 DEF PlayConcealed, AdvanceExpected, Buffers
      <3>4. QED
        BY <1>12, <3>1, <3>2, <3>3 DEF ClientTick
    <2>6. QED
      BY <1>3, <2>1, <2>2, <2>4, <2>5 DEF StepInv
  <1>13. QED
    BY <1>4, <1>5, <1>6, <1>9, <1>10, <1>11, <1>12 DEF Next, ServerTick

\* While the talker makes no pause and the delay does not rise, the frame that
\* arrives is always the one to be read next: none is late, whatever is lost or
\* does not decode, for any number of frames and any depth of the buffer.
THEOREM NeverLateInStep == FairSpec => []InStepNeverLate
  <1>1. StepInv => InStepNeverLate
    BY DEF StepInv, InStepNeverLate
  <1>2. QED
    BY <1>1, DownStart, DownStep, KeepsStep, PTL DEF FairSpec, Spec
===============================================================================
