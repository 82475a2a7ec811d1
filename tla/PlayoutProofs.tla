---------------------------- MODULE PlayoutProofs ----------------------------
(***************************************************************************)
(* The jitter buffer keeps what its window promises, through the wrap of   *)
(* the sequence numbers. The resampler reads nothing outside of its chunk  *)
(* and makes enough of what the playback callback takes for it, at any     *)
(* ratio of rates, from any fraction of a sample. The encoder keeps its    *)
(* bit rate. What is heard is in order. For every depth, frame size, ring, *)
(* device and bit rate.                                                    *)
(***************************************************************************)
EXTENDS Playout, SequenceTheorems, TLAPS

-----------------------------------------------------------------------------
(* Whole numbers. *)

\* What \div is.
LEMMA Division ==
  ASSUME NEW a \in Nat, NEW b \in Nat \ {0}
  PROVE  /\ a \div b \in Nat
         /\ (a \div b) * b <= a
         /\ a < (a \div b) * b + b
  OBVIOUS

\* More times as much is no less.
LEMMA Times ==
  ASSUME NEW a \in Int, NEW b \in Int, NEW c \in Nat, a <= b
  PROVE  /\ a * c \in Int /\ b * c \in Int
         /\ a * c <= b * c
  OBVIOUS

\* A smaller product has a smaller factor.
LEMMA SmallerFactor ==
  ASSUME NEW a \in Int, NEW b \in Int, NEW c \in Nat \ {0}, a * c < b * c
  PROVE  a < b
  <1> SUFFICES ASSUME ~(a < b) PROVE FALSE
    OBVIOUS
  <1>1. b <= a
    OBVIOUS
  <1>2. b * c <= a * c
    BY <1>1, Times
  <1>3. a * c \in Int /\ b * c \in Int
    OBVIOUS
  <1>4. QED
    BY <1>2, <1>3

\* Dividing leaves a remainder, of negative numbers too.
LEMMA WithRemainder ==
  ASSUME NEW a \in Int, NEW s \in Nat \ {0}
  PROVE  \E q \in Int, v \in 0..(s - 1) : a = q * s + v /\ v = a % s /\ q = a \div s
  <1>1. a \div s \in Int /\ a % s \in 0..(s - 1)
    OBVIOUS
  <1>2. a % s = a - s * (a \div s)
    OBVIOUS
  <1>3. PICK q \in Int, v \in 0..(s - 1) : q = a \div s /\ v = a % s
    BY <1>1
  <1>4. v = a - s * q
    BY <1>2, <1>3
  <1>5. a = q * s + v
    BY <1>4
  <1>6. QED
    BY <1>3, <1>5

\* And no other one.
LEMMA RemainderUnique ==
  ASSUME NEW a \in Int, NEW s \in Nat \ {0}, NEW q \in Int, NEW u \in 0..(s - 1),
         a = q * s + u
  PROVE  a % s = u
  <1>1. PICK p \in Int, v \in 0..(s - 1) : a = p * s + v /\ v = a % s
    BY WithRemainder
  <1>2. (q + 1) * s = q * s + s /\ (p + 1) * s = p * s + s
    OBVIOUS
  <1>3. p * s < (q + 1) * s /\ q * s < (p + 1) * s
    BY <1>1, <1>2
  <1>4. p < q + 1 /\ q < p + 1
    BY <1>3, SmallerFactor
  <1>5. p = q
    BY <1>4
  <1>6. QED
    BY <1>1, <1>5

\* Numbers that are a multiple of s apart have the same remainder.
LEMMA Congruent ==
  ASSUME NEW a \in Int, NEW b \in Int, NEW s \in Nat \ {0}, NEW k \in Int, a = k * s + b
  PROVE  a % s = b % s
  <1>1. PICK w \in Int, v \in 0..(s - 1) : b = w * s + v /\ v = b % s
    BY WithRemainder
  <1>2. (k + w) * s = k * s + w * s /\ k + w \in Int
    OBVIOUS
  <1>3. a = (k + w) * s + v
    BY <1>1, <1>2
  <1>4. a % s = v
    BY <1>2, <1>3, RemainderUnique, ZenonT(60)
  <1>5. QED
    BY <1>1, <1>4

\* Those less than s apart that have the same remainder are the same.
LEMMA NearRemainders ==
  ASSUME NEW a \in Int, NEW b \in Int, NEW s \in Nat \ {0}, a % s = b % s,
         a - b < s, b - a < s
  PROVE  a = b
  <1>1. PICK q \in Int, v \in 0..(s - 1) : a = q * s + v /\ v = a % s
    BY WithRemainder
  <1>2. PICK p \in Int, u \in 0..(s - 1) : b = p * s + u /\ u = b % s
    BY WithRemainder
  <1>3. u = v
    BY <1>1, <1>2
  <1>4. (q + 1) * s = q * s + s /\ (p + 1) * s = p * s + s
    OBVIOUS
  <1>5. p * s < (q + 1) * s /\ q * s < (p + 1) * s
    BY <1>1, <1>2, <1>3, <1>4
  <1>6. p < q + 1 /\ q < p + 1
    BY <1>5, SmallerFactor
  <1>7. p = q
    BY <1>6
  <1>8. QED
    BY <1>1, <1>2, <1>3, <1>7

-----------------------------------------------------------------------------
(* The resampler. *)

\* After any chunk the position is ahead of it, by less than one step: never
\* negative, so that no sample of the chunk before is needed.
LEMMA PosStaysAhead ==
  ASSUME NEW r \in Rate, NEW p \in 0..(r.src - 1), NEW n \in Nat
  PROVE  /\ OutputCount(r, p, n) \in Nat
         /\ PosAfter(r, p, n) \in 0..(r.src - 1)
         /\ OutputCount(r, p, n) * r.src \in Nat
  <1> DEFINE s == r.src
             d == n * r.dst
             q == (d - p - 1) \div s
  <1>1. s \in Nat \ {0} /\ r.dst \in Nat \ {0} /\ d \in Nat /\ p \in Nat /\ p <= s - 1
    BY DEF Rate
  <1>2. CASE p < d
    <2>1. d - p - 1 \in Nat
      BY <1>1, <1>2
    <2>2. q \in Nat /\ q * s <= d - p - 1 /\ d - p - 1 < q * s + s
      BY <1>1, <2>1, Division
    <2>3. OutputCount(r, p, n) = q + 1
      BY <1>2 DEF OutputCount
    <2>4. (q + 1) * s = q * s + s /\ q * s \in Nat
      BY <1>1, <2>2
    <2>5. PosAfter(r, p, n) = p + (q * s + s) - d
      BY <2>3, <2>4 DEF PosAfter
    <2> HIDE DEF s, d, q
    <2>6. p + (q * s + s) - d \in 0..(s - 1)
      BY <1>1, <2>2, <2>4
    <2>7. QED
      BY <1>1, <2>2, <2>3, <2>4, <2>5, <2>6 DEF s
  <1>3. CASE ~(p < d)
    <2>1. OutputCount(r, p, n) = 0
      BY <1>3 DEF OutputCount
    <2>2. PosAfter(r, p, n) = p - d
      BY <1>1, <2>1 DEF PosAfter
    <2> HIDE DEF s, d, q
    <2>3. p - d \in 0..(s - 1)
      BY <1>1, <1>3
    <2>4. QED
      BY <1>1, <2>1, <2>2, <2>3 DEF s
  <1>4. QED
    BY <1>2, <1>3

\* Every position of process lies in the chunk.
LEMMA PositionInChunk ==
  ASSUME NEW r \in Rate, NEW p \in 0..(r.src - 1), NEW n \in Nat,
         NEW k \in 1..OutputCount(r, p, n)
  PROVE  /\ p + (k - 1) * r.src \in Nat
         /\ (p + (k - 1) * r.src) \div r.dst + 1 \in 1..n
  <1> DEFINE s == r.src
             d == n * r.dst
             q == (d - p - 1) \div s
             at == p + (k - 1) * s
             idx == at \div r.dst
  <1>1. s \in Nat \ {0} /\ r.dst \in Nat \ {0} /\ d \in Nat /\ p \in Nat
    BY DEF Rate
  <1>2. p < d /\ OutputCount(r, p, n) = q + 1
    BY DEF OutputCount
  <1>3. q \in Nat /\ q * s <= d - p - 1 /\ q * s \in Nat
    <2>1. d - p - 1 \in Nat
      BY <1>1, <1>2
    <2>2. q \in Nat /\ q * s <= d - p - 1
      BY <1>1, <2>1, Division
    <2> HIDE DEF s, d, q
    <2>3. QED
      BY <1>1, <2>2
  <1>4. k - 1 \in Nat /\ k - 1 <= q
    BY <1>2, <1>3
  <1>5. (k - 1) * s <= q * s /\ (k - 1) * s \in Nat
    BY <1>1, <1>3, <1>4, Times
  <1>6. at \in Nat /\ at < d
    <2> HIDE DEF s, d, q
    <2>1. QED
      BY <1>1, <1>3, <1>5
  <1>7. idx \in Nat /\ idx * r.dst <= at /\ idx * r.dst \in Nat
    <2> HIDE DEF at
    <2>1. QED
      BY <1>1, <1>6, Division
  <1>8. idx * r.dst < n * r.dst
    <2> HIDE DEF at, idx
    <2>1. QED
      BY <1>1, <1>6, <1>7
  <1> HIDE DEF idx
  <1>9. idx < n
    BY <1>1, <1>7, <1>8, SmallerFactor
  <1>10. QED
    BY <1>6, <1>7, <1>9 DEF idx

\* What process makes of a chunk of numbers.
LEMMA ProcessedType ==
  ASSUME NEW r \in Rate, NEW p \in 0..(r.src - 1), NEW input \in Seq(Int)
  PROVE  /\ Processed(r, p, input) \in Seq(Int)
         /\ Len(Processed(r, p, input)) = OutputCount(r, p, Len(input))
  <1> DEFINE count == OutputCount(r, p, Len(input))
  <1>1. Len(input) \in Nat /\ count \in Nat /\ r.dst \in Nat \ {0}
    BY PosStaysAhead DEF Rate
  <1>2. ASSUME NEW k \in 1..count
        PROVE  Interpolated(r, input, p + (k - 1) * r.src) \in Int
    <2> DEFINE at == p + (k - 1) * r.src
               idx == at \div r.dst + 1
               a == input[idx]
               b == IF idx < Len(input) THEN input[idx + 1] ELSE a
    <2>1. at \in Nat /\ idx \in 1..Len(input)
      BY <1>1, <1>2, PositionInChunk
    <2> HIDE DEF at, idx
    <2>2. a \in Int /\ b \in Int /\ at % r.dst \in Int
      BY <1>1, <2>1, SMTT(30)
    <2>3. Interpolated(r, input, at) = a * r.dst + (b - a) * (at % r.dst)
      BY DEF Interpolated, idx
    <2> HIDE DEF a, b
    <2>4. a * r.dst + (b - a) * (at % r.dst) \in Int
      BY <1>1, <2>2
    <2>5. QED
      BY <2>3, <2>4 DEF at
  <1>3. Processed(r, p, input) =
          [k \in 1..count |-> Interpolated(r, input, p + (k - 1) * r.src)]
    BY DEF Processed
  <1> HIDE DEF count
  <1>4. Processed(r, p, input) \in [1..count -> Int]
    BY <1>2, <1>3
  <1>5. QED
    BY <1>1, <1>4 DEF count

\* The samples taken for a buffer of f frames make at least f.
LEMMA NeededCovers ==
  ASSUME NEW r \in Rate, ~IsIdentity(r), NEW p \in 0..(r.src - 1), NEW f \in Nat \ {0}
  PROVE  /\ Needed(r, f) \in Nat
         /\ OutputCount(r, p, Needed(r, f)) >= f
  <1> DEFINE s == r.src
             t == r.dst
             w == (f * s + t - 1) \div t
             count == OutputCount(r, p, w + 2)
  <1>1. s \in Nat \ {0} /\ t \in Nat \ {0} /\ p \in Nat /\ p <= s - 1 /\ f * s \in Nat
    BY DEF Rate
  <1>2. w \in Nat /\ w * t \in Nat /\ f * s + t - 1 < w * t + t
    <2>1. f * s + t - 1 \in Nat
      BY <1>1
    <2>2. w \in Nat /\ f * s + t - 1 < w * t + t
      BY <1>1, <2>1, Division
    <2> HIDE DEF s, t, w
    <2>3. QED
      BY <1>1, <2>2
  <1>3. Needed(r, f) = w + 2
    BY DEF Needed
  <1>4. count \in Nat /\ count * s \in Nat /\ p + count * s - (w + 2) * t \in 0..(s - 1)
    <2>1. w + 2 \in Nat
      BY <1>2
    <2> HIDE DEF w
    <2>2. QED
      BY <2>1, PosStaysAhead DEF PosAfter
  <1>5. (w + 2) * t = w * t + 2 * t /\ (f - 1) * s = f * s - s
    BY <1>1, <1>2
  <1> HIDE DEF s, t, w, count
  <1>6. (f - 1) * s < count * s
    BY <1>1, <1>2, <1>4, <1>5
  <1>7. f - 1 < count
    BY <1>1, <1>4, <1>6, SmallerFactor
  <1>8. QED
    BY <1>2, <1>3, <1>4, <1>7 DEF count

-----------------------------------------------------------------------------
(* Sequence numbers. *)

\* What goes over the wire is the number less some turns.
LEMMA WireTurns ==
  ASSUME NEW n \in Int
  PROVE  \E q \in Int, v \in Seq32 : n = q * SeqSpace + v /\ v = Wire(n) /\ v \in Int
  <1>1. SeqSpace \in Nat \ {0}
    BY JitterConstants
  <1>2. PICK q \in Int, v \in 0..(SeqSpace - 1) : n = q * SeqSpace + v /\ v = n % SeqSpace
    BY <1>1, WithRemainder
  <1>3. v = Wire(n)
    BY <1>2 DEF Wire
  <1>4. QED
    BY <1>2, <1>3 DEF Seq32

\* A number some turns away goes as the same one over the wire.
LEMMA WireCongruent ==
  ASSUME NEW a \in Int, NEW b \in Int, NEW k \in Int, a = k * SeqSpace + b
  PROVE  Wire(a) = Wire(b)
  BY Congruent, JitterConstants, ZenonT(60) DEF Wire

\* Sequence numbers are added and subtracted as the numbers they stand for.
LEMMA WireArithmetic ==
  ASSUME NEW n \in Int, NEW m \in Int
  PROVE  /\ WrappingSub(Wire(n), m) = Wire(n - m)
         /\ WrappingSub(Wire(n), Wire(m)) = Wire(n - m)
         /\ WrappingAdd(Wire(n), m) = Wire(n + m)
  <1>1. SeqSpace \in Nat \ {0}
    BY JitterConstants
  <1>2. PICK q \in Int, v \in Seq32 : n = q * SeqSpace + v /\ v = Wire(n) /\ v \in Int
    BY WireTurns
  <1>3. PICK p \in Int, u \in Seq32 : m = p * SeqSpace + u /\ u = Wire(m) /\ u \in Int
    BY WireTurns
  <1>4. (q - p) * SeqSpace = q * SeqSpace - p * SeqSpace /\ q - p \in Int
    BY <1>1
  <1>5. Wire(n - m) = Wire(v - m)
    <2>1. n - m \in Int /\ v - m \in Int /\ n - m = q * SeqSpace + (v - m)
      BY <1>1, <1>2
    <2>2. QED
      BY <2>1, WireCongruent
  <1>6. Wire(n + m) = Wire(v + m)
    <2>1. n + m \in Int /\ v + m \in Int /\ n + m = q * SeqSpace + (v + m)
      BY <1>1, <1>2
    <2>2. QED
      BY <2>1, WireCongruent
  <1>7. Wire(n - m) = Wire(v - u)
    <2>1. n - m \in Int /\ v - u \in Int /\ n - m = (q - p) * SeqSpace + (v - u)
      BY <1>1, <1>2, <1>3, <1>4
    <2>2. QED
      BY <1>4, <2>1, WireCongruent
  <1>8. /\ WrappingSub(v, m) = Wire(v - m) /\ WrappingSub(v, u) = Wire(v - u)
        /\ WrappingAdd(v, m) = Wire(v + m)
    BY DEF WrappingSub, WrappingAdd, Wire
  <1>9. QED
    BY <1>2, <1>3, <1>5, <1>6, <1>7, <1>8

\* Near zero a sequence number is the number, or that from above.
LEMMA WireNear ==
  ASSUME NEW n \in Int
  PROVE  /\ n \in 0..(SeqSpace - 1) => Wire(n) = n
         /\ 0 - SeqSpace <= n /\ n < 0 => Wire(n) = n + SeqSpace
  <1>1. SeqSpace \in Nat \ {0} /\ 0 * SeqSpace = 0 /\ (0 - 1) * SeqSpace = 0 - SeqSpace
    BY JitterConstants
  <1>2. ASSUME n \in 0..(SeqSpace - 1) PROVE Wire(n) = n
    BY <1>1, <1>2, RemainderUnique DEF Wire
  <1>3. ASSUME 0 - SeqSpace <= n, n < 0 PROVE Wire(n) = n + SeqSpace
    <2>1. n + SeqSpace \in 0..(SeqSpace - 1) /\ n = (0 - 1) * SeqSpace + (n + SeqSpace)
      BY <1>1, <1>3
    <2>2. QED
      BY <1>1, <2>1, RemainderUnique DEF Wire
  <1>4. QED
    BY <1>2, <1>3

\* Near sequence numbers tell the numbers apart.
LEMMA WireExact ==
  ASSUME NEW n \in Int, NEW m \in Int, Wire(n) = Wire(m), n - m < SeqSpace, m - n < SeqSpace
  PROVE  n = m
  <1>1. n % SeqSpace = m % SeqSpace
    BY DEF Wire
  <1>2. QED
    BY <1>1, NearRemainders, JitterConstants
-----------------------------------------------------------------------------
(* The jitter buffer: the invariant. *)

\* What sits in a slot has arrived, belongs there and is inside the window or
\* behind it; the reader is at a frame of the stream, or at its end.
StreamInv ==
    /\ jb \in Buffers /\ flight \subseteq Frame /\ expected \in Nat
    /\ \A i \in Slot : jb.slots[i] # NoFrame =>
          /\ jb.slots[i] \in Frame \ flight /\ Index(Wire(jb.slots[i])) = i
          /\ jb.initialized /\ jb.slots[i] < expected + Depth
    /\ IF jb.initialized THEN jb.read_seq = Wire(expected) /\ expected \in First..(Last + 1)
                         ELSE expected = 0

\* A frame's slot.
Home(n) == Index(Wire(n))

LEMMA HomeType ==
  ASSUME NEW n \in Int
  PROVE  Home(n) \in Slot
  <1>1. PICK v \in Seq32 : v = Wire(n) /\ v \in Int
    BY WireTurns
  <1>2. PICK u \in 0..(Depth - 1) : u = v % Depth
    BY <1>1, WithRemainder, JitterConstants
  <1>3. Home(n) = u
    BY <1>1, <1>2 DEF Home, Index
  <1>4. QED
    BY <1>2, <1>3 DEF Slot

\* Where reading stands for the frame n: at the first frame, its own number.
At(n) == IF jb.initialized THEN expected ELSE n

\* What insert does, by the true numbers.
LEMMA Inserting ==
  ASSUME StreamInv, NEW n \in Frame, Arrive(n)
  PROVE  /\ n < At(n) => jb' = jb /\ expected' = expected
         /\ n >= At(n) =>
               /\ expected' = IF n >= At(n) + Depth THEN n - Depth + 1 ELSE At(n)
               /\ jb' = [slots |-> [jb.slots EXCEPT ![Home(n)] = n],
                         read_seq |-> Wire(expected'), initialized |-> TRUE]
  <1> DEFINE e == At(n)
             half == (SeqSpace - 1) \div 2
  <1>1. /\ n \in Int /\ First \in Int /\ Last \in Int /\ n >= First /\ n <= Last
        /\ SeqSpace \in Nat \ {0} /\ Depth \in Nat \ {0} /\ 2 * (Last - First + 1) <= SeqSpace
    BY StreamConstants, JitterConstants DEF Frame
  <1>2. e \in Int /\ e >= First /\ e <= Last + 1
    <2>1. CASE jb.initialized
      <3>1. e = expected /\ expected \in Nat /\ expected \in First..(Last + 1)
        BY <2>1 DEF StreamInv, At
      <3>2. QED
        BY <1>1, <3>1
    <2>2. CASE ~jb.initialized
      <3>1. e = n
        BY <2>2 DEF At
      <3>2. QED
        BY <1>1, <3>1
    <2>3. QED
      BY <2>1, <2>2
  <1>3. half \in Int /\ 2 * half <= SeqSpace - 1 /\ SeqSpace - 1 <= 2 * half + 1
    BY <1>1
  <1>4. Primed(jb, n) = [slots |-> jb.slots, read_seq |-> Wire(e), initialized |-> TRUE]
    BY DEF StreamInv, Buffers, Primed, At
  <1>5. Ahead(jb, n) = Wire(n - e)
    BY <1>1, <1>2, <1>4, WireArithmetic DEF Ahead
  <1>6. ASSUME n < e
        PROVE  jb' = jb /\ expected' = expected
    <2>1. n - e \in Int /\ 0 - SeqSpace <= n - e /\ n - e < 0
      BY <1>1, <1>2, <1>6
    <2>2. Ahead(jb, n) = n - e + SeqSpace
      BY <1>5, <2>1, WireNear
    <2>3. n - e + SeqSpace > half
      BY <1>1, <1>2, <1>3
    <2>4. Late(jb, n) /\ ~Overrun(jb, n)
      BY <2>2, <2>3 DEF Late, Overrun
    <2>5. jb.initialized /\ Primed(jb, n) = jb
      BY <1>6, <1>1 DEF At, Primed
    <2>6. jb' = jb /\ expected' = expected
      BY <2>4, <2>5 DEF Arrive, Insert
    <2>7. QED
      BY <2>6
  <1>7. ASSUME n >= e
        PROVE  /\ expected' = IF n >= e + Depth THEN n - Depth + 1 ELSE e
               /\ jb' = [slots |-> [jb.slots EXCEPT ![Home(n)] = n],
                         read_seq |-> Wire(expected'), initialized |-> TRUE]
    <2>1. n - e \in 0..(SeqSpace - 1)
      BY <1>1, <1>2, <1>7
    <2>2. Ahead(jb, n) = n - e
      BY <1>5, <2>1, WireNear
    <2>3. ~(n - e > half)
      BY <1>1, <1>2, <1>3
    <2>4. ~Late(jb, n) /\ (Overrun(jb, n) <=> n >= e + Depth)
      <3>1. ~Late(jb, n)
        BY <2>2, <2>3 DEF Late
      <3>2. n - e >= Depth <=> n >= e + Depth
        BY <1>1, <1>2
      <3>3. QED
        BY <2>2, <3>1, <3>2 DEF Overrun
    <2>5. expected' = IF n >= e + Depth THEN n - Depth + 1 ELSE e
      <3>1. CASE jb.initialized
        BY <2>4, <3>1 DEF Arrive, At
      <3>2. CASE ~jb.initialized
        <4>1. e = n /\ expected' = n
          BY <3>2 DEF Arrive, At
        <4>2. QED
          BY <1>1, <4>1
      <3>3. QED
        BY <3>1, <3>2
    <2>6. WrappingSub(Wire(n), Depth - 1) = Wire(n - Depth + 1)
      <3>1. Depth - 1 \in Int /\ n - (Depth - 1) = n - Depth + 1
        BY <1>1
      <3>2. QED
        BY <1>1, <3>1, WireArithmetic
    <2>7. Insert(jb, n) =
            [slots |-> [jb.slots EXCEPT ![Home(n)] = n],
             read_seq |-> IF n >= e + Depth THEN Wire(n - Depth + 1) ELSE Wire(e),
             initialized |-> TRUE]
      <3> DEFINE P == Primed(jb, n)
                 R == Insert(jb, n)
                 c == n >= e + Depth
                 x == Wire(n - Depth + 1)
                 h == Home(n)
      <3>1. R = [P EXCEPT !.read_seq = IF c THEN x ELSE @, !.slots[h] = n]
        BY <2>4, <2>6 DEF Insert, Home
      <3>2. n - Depth + 1 \in Int /\ c \in BOOLEAN /\ n \in Int
        BY <1>1
      <3>3. Wire(e) \in Seq32 /\ x \in Seq32 /\ h \in Slot
        BY <1>2, <3>2, WireTurns, HomeType
      <3>4. P \in Buffers /\ P.slots = jb.slots /\ P.read_seq = Wire(e) /\ P.initialized
        BY <1>4, <3>3 DEF StreamInv, Buffers
      <3> HIDE DEF P, R, c, x, h
      <3>5. R = [slots |-> [P.slots EXCEPT ![h] = n],
                 read_seq |-> IF c THEN x ELSE P.read_seq, initialized |-> P.initialized]
        <4>1. /\ R.slots = [P.slots EXCEPT ![h] = n] /\ R.initialized = P.initialized
              /\ R.read_seq = IF c THEN x ELSE P.read_seq
          BY <3>1, <3>4 DEF Buffers
        <4>2. R \in Buffers
          BY <3>1, <3>2, <3>3, <3>4 DEF Buffers
        <4>3. QED
          BY <4>1, <4>2 DEF Buffers
      <3>6. P.initialized = TRUE
        BY <1>4 DEF P
      <3>7. QED
        BY <3>4, <3>5, <3>6 DEF R, c, x, h
    <2>8. jb' = [slots |-> [jb.slots EXCEPT ![Home(n)] = n],
                 read_seq |-> Wire(expected'), initialized |-> TRUE]
      <3>1. Wire(expected') = IF n >= e + Depth THEN Wire(n - Depth + 1) ELSE Wire(e)
        BY <2>5
      <3>2. jb' = Insert(jb, n)
        BY DEF Arrive
      <3>3. QED
        BY <2>7, <3>1, <3>2
    <2>9. QED
      BY <2>5, <2>8
  <1> HIDE DEF e
  <1>8. QED
    BY <1>6, <1>7 DEF e

\* A frame that arrives keeps the invariant.
LEMMA ArriveKeeps ==
  ASSUME StreamInv, NEW n \in Frame, Arrive(n)
  PROVE  StreamInv'
  <1>1. /\ n \in Nat /\ First \in Nat /\ Last \in Nat /\ n >= First /\ n <= Last
        /\ Depth \in Nat \ {0} /\ n # NoFrame
    BY StreamConstants, JitterConstants DEF Frame, NoFrame
  <1>2. At(n) \in Int /\ At(n) >= First /\ At(n) <= Last + 1
    BY <1>1 DEF StreamInv, At
  <1>3. flight' = flight \ {n} /\ n \in flight
    BY DEF Arrive
  <1>4. CASE n < At(n)
    <2>1. jb' = jb /\ expected' = expected
      BY <1>4, Inserting
    <2>2. QED
      BY <1>3, <2>1 DEF StreamInv
  <1>5. CASE n >= At(n)
    <2>1. /\ expected' = IF n >= At(n) + Depth THEN n - Depth + 1 ELSE At(n)
          /\ jb'.slots = [jb.slots EXCEPT ![Home(n)] = n]
          /\ jb'.read_seq = Wire(expected') /\ jb'.initialized
          /\ jb' = [slots |-> jb'.slots, read_seq |-> Wire(expected'), initialized |-> TRUE]
      BY <1>5, Inserting
    <2>2. expected' \in Nat /\ expected' \in First..(Last + 1) /\ n < expected' + Depth
      BY <1>1, <1>2, <1>5, <2>1
    <2>3. jb' \in Buffers
      <3>1. jb'.slots \in [Slot -> Int]
        <4>1. jb.slots \in [Slot -> Int] /\ n \in Int
          BY <1>1 DEF StreamInv, Buffers
        <4>2. [jb.slots EXCEPT ![Home(n)] = n] \in [Slot -> Int]
          BY <4>1
        <4>3. QED
          BY <2>1, <4>2
      <3>2. Wire(expected') \in Seq32
        BY <2>2, WireTurns
      <3>3. QED
        BY <2>1, <3>1, <3>2 DEF Buffers
    <2>4. ASSUME NEW i \in Slot, jb'.slots[i] # NoFrame
          PROVE  /\ jb'.slots[i] \in Frame \ flight' /\ Index(Wire(jb'.slots[i])) = i
                 /\ jb'.slots[i] < expected' + Depth
      <3>1. CASE i = Home(n)
        <4>1. jb'.slots[i] = n
          BY <2>1, <3>1 DEF StreamInv, Buffers
        <4>2. QED
          BY <1>3, <2>2, <3>1, <4>1 DEF Home
      <3>2. CASE i # Home(n)
        <4>1. jb'.slots[i] = jb.slots[i]
          BY <2>1, <3>2 DEF StreamInv, Buffers
        <4>2. jb.initialized /\ jb.slots[i] < expected + Depth /\ jb.slots[i] \in Frame \ flight
          BY <2>4, <4>1 DEF StreamInv
        <4>3. expected <= expected' /\ expected \in Nat /\ jb.slots[i] \in Int
          BY <1>1, <1>5, <2>1, <4>2 DEF StreamInv, At, Frame
        <4>4. jb.slots[i] < expected' + Depth
          BY <1>1, <2>2, <4>2, <4>3
        <4>5. QED
          BY <1>3, <2>4, <4>1, <4>2, <4>4 DEF StreamInv
      <3>3. QED
        BY <3>1, <3>2
    <2>5. QED
      BY <1>3, <2>1, <2>2, <2>3, <2>4 DEF StreamInv
  <1>6. QED
    BY <1>1, <1>2, <1>4, <1>5

\* What pop finds is the frame to read; it is there exactly if it is in a slot.
LEMMA Popping ==
  ASSUME StreamInv, jb.initialized
  PROVE  /\ CanPop(jb) => NextSlot(jb) = expected /\ expected \in Frame
         /\ ~CanPop(jb) => \A i \in Slot : jb.slots[i] # expected
         /\ Index(jb.read_seq) = Home(expected) /\ Home(expected) \in Slot
  <1>1. /\ First \in Nat /\ Last \in Nat /\ expected \in Nat /\ expected \in First..(Last + 1)
        /\ SeqSpace \in Nat \ {0} /\ 2 * (Last - First + 1) <= SeqSpace
        /\ expected # NoFrame
    BY StreamConstants, JitterConstants DEF StreamInv, NoFrame
  <1>2. jb.read_seq = Wire(expected) /\ Index(jb.read_seq) = Home(expected) /\ Home(expected) \in Slot
    BY <1>1, HomeType DEF StreamInv, Home
  <1>3. ASSUME CanPop(jb) PROVE NextSlot(jb) = expected /\ expected \in Frame
    <2>1. NextSlot(jb) \in Frame /\ Wire(NextSlot(jb)) = Wire(expected)
      BY <1>2, <1>3 DEF CanPop, NextSlot, StreamInv
    <2>2. NextSlot(jb) \in Int /\ NextSlot(jb) >= First /\ NextSlot(jb) <= Last
      BY <1>1, <2>1 DEF Frame
    <2>3. NextSlot(jb) - expected < SeqSpace /\ expected - NextSlot(jb) < SeqSpace
      BY <1>1, <2>2
    <2>4. NextSlot(jb) = expected
      BY <1>1, <2>1, <2>2, <2>3, WireExact
    <2>5. QED
      BY <2>1, <2>4
  <1>4. ASSUME NEW i \in Slot, jb.slots[i] = expected PROVE CanPop(jb)
    <2>1. i = Home(expected)
      BY <1>1, <1>4 DEF StreamInv, Home
    <2>2. NextSlot(jb) = expected
      BY <1>2, <1>4, <2>1 DEF NextSlot
    <2>3. QED
      BY <1>1, <1>2, <2>2 DEF CanPop
  <1>5. QED
    BY <1>2, <1>3, <1>4

\* Reading on keeps the invariant.
LEMMA ReadKeepsStream ==
  ASSUME StreamInv, jb.initialized, expected <= Last,
         expected' = expected + 1, flight' = flight,
         NEW left, left = jb.slots \/ left = [jb.slots EXCEPT ![Home(expected)] = NoFrame],
         jb' = [slots |-> left, read_seq |-> WrappingAdd(jb.read_seq, 1), initialized |-> TRUE]
  PROVE  StreamInv'
  <1>1. /\ First \in Nat /\ Last \in Nat /\ expected \in Nat /\ expected \in First..(Last + 1)
        /\ Depth \in Nat \ {0}
    BY StreamConstants, JitterConstants DEF StreamInv
  <1>2. expected + 1 \in Nat /\ expected + 1 \in First..(Last + 1)
    BY <1>1
  <1>3. jb'.read_seq = Wire(expected + 1) /\ Wire(expected + 1) \in Seq32
    <2>1. Wire(expected + 1) = WrappingAdd(Wire(expected), 1)
      BY <1>1, WireArithmetic
    <2>2. jb'.read_seq = WrappingAdd(jb.read_seq, 1)
      OBVIOUS
    <2>3. jb.read_seq = Wire(expected)
      BY DEF StreamInv
    <2>4. Wire(expected + 1) \in Seq32
      BY <1>2, WireTurns
    <2>5. QED
      BY <2>1, <2>2, <2>3, <2>4
  <1>4. jb'.slots \in [Slot -> Int] /\ jb'.initialized
        /\ \A i \in Slot : jb'.slots[i] = jb.slots[i] \/ jb'.slots[i] = NoFrame
    BY DEF StreamInv, Buffers, NoFrame
  <1>5. jb' \in Buffers
    BY <1>3, <1>4 DEF Buffers
  <1>6. ASSUME NEW i \in Slot, jb'.slots[i] # NoFrame
        PROVE  /\ jb'.slots[i] \in Frame \ flight' /\ Index(Wire(jb'.slots[i])) = i
               /\ jb'.slots[i] < expected' + Depth
    <2>1. jb'.slots[i] = jb.slots[i] /\ jb.slots[i] # NoFrame
      BY <1>4, <1>6
    <2>2. jb.slots[i] < expected + Depth /\ jb.slots[i] \in Int
      BY <2>1 DEF StreamInv, Buffers
    <2>3. jb.slots[i] < expected + 1 + Depth
      BY <1>1, <2>2
    <2>4. QED
      BY <2>1, <2>3 DEF StreamInv
  <1>7. QED
    BY <1>2, <1>3, <1>4, <1>5, <1>6 DEF StreamInv

\* Every step of the stream.
LEMMA StreamStep == StreamInv /\ [Next]_stream_vars => StreamInv'
  <1> SUFFICES ASSUME StreamInv, [Next]_stream_vars PROVE StreamInv'
    OBVIOUS
  <1>1. CASE Play
    <2>1. jb.initialized /\ CanPop(jb)
      BY <1>1 DEF Play, CanPop
    <2>2. expected \in Frame /\ Index(jb.read_seq) = Home(expected)
      BY <2>1, Popping
    <2>3. expected <= Last
      BY <2>2, StreamConstants DEF Frame
    <2>4. jb' = [slots |-> [jb.slots EXCEPT ![Home(expected)] = NoFrame],
                 read_seq |-> WrappingAdd(jb.read_seq, 1), initialized |-> TRUE]
      BY <1>1, <2>1, <2>2 DEF Play, Popped, StreamInv, Buffers
    <2>5. QED
      BY <1>1, <2>1, <2>3, <2>4, ReadKeepsStream DEF Play
  <1>2. CASE Conceal
    <2>1. jb' = [slots |-> jb.slots,
                 read_seq |-> WrappingAdd(jb.read_seq, 1), initialized |-> TRUE]
      BY <1>2 DEF Conceal, AdvanceExpected, StreamInv, Buffers
    <2>2. QED
      BY <1>2, <2>1, ReadKeepsStream DEF Conceal
  <1>3. CASE ResetBuffer
    <2>1. EmptyBuffer \in Buffers
      BY JitterConstants DEF EmptyBuffer, Buffers, NoFrame, Seq32
    <2>2. QED
      BY <1>3, <2>1 DEF ResetBuffer, EmptyBuffer, StreamInv
  <1>4. CASE UNCHANGED stream_vars
    BY <1>4 DEF stream_vars, StreamInv
  <1>5. QED
    BY <1>1, <1>2, <1>3, <1>4, ArriveKeeps DEF Next

LEMMA StreamStart == Init => StreamInv
  <1>1. EmptyBuffer \in Buffers
    BY JitterConstants DEF EmptyBuffer, Buffers, NoFrame, Seq32
  <1>2. QED
    BY <1>1 DEF Init, EmptyBuffer, StreamInv
-----------------------------------------------------------------------------
(* The jitter buffer keeps what the window promises. *)

\* Either every turn of the sequence numbers begins at slot 0, as for a depth
\* that is a power of two (the client's 8), or the stream does not reach a
\* second turn.
SlotsFit == SeqSpace % Depth = 0 \/ Last < SeqSpace

\* Numbers some rounds of the slots apart have the same slot.
LEMMA IndexCongruent ==
  ASSUME NEW a \in Int, NEW b \in Int, NEW k \in Int, a = k * Depth + b
  PROVE  Index(a) = Index(b)
  BY Congruent, JitterConstants, ZenonT(60) DEF Index

\* Frames of one window have different slots.
LEMMA HomesApart ==
  ASSUME SlotsFit, NEW n \in Frame, NEW m \in Frame, Home(n) = Home(m),
         n - m < Depth, m - n < Depth
  PROVE  n = m
  <1>1. /\ n \in Nat /\ m \in Nat /\ n <= Last /\ m <= Last /\ Last \in Nat
        /\ n \in Int /\ m \in Int /\ SeqSpace \in Int
        /\ SeqSpace \in Nat \ {0} /\ Depth \in Nat \ {0}
    BY StreamConstants, JitterConstants DEF Frame
  <1>2. Wire(n) % Depth = Wire(m) % Depth
    BY DEF Home, Index
  <1>3. CASE Last < SeqSpace
    <2>1. n \in 0..(SeqSpace - 1) /\ m \in 0..(SeqSpace - 1)
      BY <1>1, <1>3
    <2>2. Wire(n) = n /\ Wire(m) = m
      BY <1>1, <2>1, WireNear
    <2>3. n % Depth = m % Depth
      BY <1>2, <2>2
    <2>4. QED
      BY <1>1, <2>3, NearRemainders
  <1>4. CASE SeqSpace % Depth = 0
    <2>1. PICK k \in Int, z \in 0..(Depth - 1) : SeqSpace = k * Depth + z /\ z = SeqSpace % Depth
      BY <1>1, WithRemainder
    <2>2. SeqSpace = k * Depth
      BY <1>1, <1>4, <2>1
    <2>3. ASSUME NEW x \in Int
          PROVE  Index(x) = Index(Wire(x))
      <3>1. PICK q \in Int, v \in Seq32 : x = q * SeqSpace + v /\ v = Wire(x) /\ v \in Int
        BY WireTurns
      <3>2. PICK j \in Int : j = q * k
        OBVIOUS
      <3>3. x = j * Depth + v
        <4>1. q * (k * Depth) = (q * k) * Depth
          BY <1>1
        <4>2. QED
          BY <2>2, <3>1, <3>2, <4>1
      <3>4. Index(x) = Index(v)
        <4>1. v \in Int
          BY <3>1
        <4>2. QED
          BY <3>3, <4>1, IndexCongruent
      <3>5. QED
        BY <3>1, <3>4
    <2>4. n % Depth = m % Depth
      <3>1. Index(n) = Index(m)
        BY <1>1, <2>3 DEF Home
      <3>2. QED
        BY <3>1 DEF Index
    <2>5. QED
      BY <1>1, <2>4, NearRemainders
  <1>5. QED
    BY <1>3, <1>4 DEF SlotsFit

\* The frames kept, as in ImplementsWindow.
Held == {n \in Stored : n >= expected}

\* A frame that arrives in time is kept, with all that the window still spans.
LEMMA KeepStep ==
  ASSUME SlotsFit, StreamInv, NEW n \in Frame, Arrive(n), n >= At(n)
  PROVE  /\ jb'.initialized
         /\ expected' = IF n >= At(n) + Depth THEN n - Depth + 1 ELSE At(n)
         /\ Held' = {m \in Held \cup {n} : m >= expected'}
  <1>1. /\ n \in Nat /\ First \in Nat /\ Last \in Nat /\ n >= First /\ n <= Last
        /\ Depth \in Nat \ {0} /\ n # NoFrame /\ Home(n) \in Slot
    BY StreamConstants, JitterConstants, HomeType DEF Frame, NoFrame
  <1>2. /\ expected' = IF n >= At(n) + Depth THEN n - Depth + 1 ELSE At(n)
        /\ jb'.slots = [jb.slots EXCEPT ![Home(n)] = n] /\ jb'.initialized
    BY Inserting
  <1>3. At(n) \in Int /\ expected' \in Int /\ n >= expected' /\ n < expected' + Depth
    BY <1>1, <1>2 DEF StreamInv, At
  <1>4. expected' >= expected \/ ~jb.initialized
    BY <1>1, <1>2, <1>3 DEF StreamInv, At
  <1>5. \A i \in Slot : jb'.slots[i] = IF i = Home(n) THEN n ELSE jb.slots[i]
    BY <1>2 DEF StreamInv, Buffers
  <1>6. ASSUME NEW m \in Held' PROVE m \in Held \cup {n} /\ m >= expected'
    <2>1. PICK i \in Slot : m = jb'.slots[i] /\ m # NoFrame /\ m >= expected'
      BY DEF Held, Stored
    <2>2. CASE i = Home(n)
      BY <1>5, <2>1, <2>2
    <2>3. CASE i # Home(n)
      <3>1. m = jb.slots[i] /\ jb.initialized /\ m \in Frame
        BY <1>5, <2>1, <2>3 DEF StreamInv
      <3>2. m \in Int /\ expected \in Int
        BY <3>1 DEF StreamInv, Frame
      <3>3. m >= expected
        BY <1>3, <1>4, <2>1, <3>1, <3>2
      <3>4. QED
        BY <2>1, <3>1, <3>3 DEF Held, Stored
    <2>4. QED
      BY <2>2, <2>3
  <1>7. ASSUME NEW m \in Held \cup {n}, m >= expected' PROVE m \in Held'
    <2>1. CASE m = n
      <3>1. n = jb'.slots[Home(n)]
        BY <1>1, <1>5
      <3>2. QED
        BY <1>1, <1>3, <2>1, <3>1 DEF Held, Stored
    <2>2. CASE m # n /\ m \in Held
      <3>1. PICK i \in Slot : m = jb.slots[i] /\ m # NoFrame
        BY <2>2 DEF Held, Stored
      <3>2. m \in Frame /\ jb.initialized /\ m < expected + Depth /\ i = Home(m)
        BY <3>1 DEF StreamInv, Home
      <3>3. m \in Int /\ expected \in Int
        BY <3>2 DEF StreamInv, Frame
      <3>4. m - n < Depth /\ n - m < Depth
        <4>1. n - m < Depth
          <5>1. PICK e \in Int : e = expected'
            BY <1>3
          <5>2. m >= e
            BY <1>7, <5>1
          <5>3. n < e + Depth
            BY <1>3, <5>1
          <5>4. m \in Int /\ n \in Int /\ Depth \in Int
            BY <1>1, <3>3
          <5>5. QED
            BY <5>2, <5>3, <5>4
        <4>2. At(n) = expected
          BY <3>2 DEF At
        <4>3. m - n < Depth
          BY <1>1, <3>2, <3>3, <4>2
        <4>4. QED
          BY <4>1, <4>3
      <3>5. i # Home(n)
        BY <2>2, <3>2, <3>4, HomesApart
      <3>6. m = jb'.slots[i]
        BY <1>5, <3>1, <3>5
      <3>7. QED
        BY <1>7, <3>1, <3>6 DEF Held, Stored
    <2>3. QED
      BY <2>1, <2>2
  <1>8. Held' = {m \in Held \cup {n} : m >= expected'}
    BY <1>6, <1>7
  <1>9. QED
    BY <1>2, <1>8

\* Reading takes the next frame out of the window.
LEMMA TakeStep ==
  ASSUME StreamInv, Play
  PROVE  expected \in Held /\ Held' = Held \ {expected}
  <1>1. jb.initialized /\ CanPop(jb) /\ expected' = expected + 1 /\ expected \in Nat
    BY DEF Play, CanPop, StreamInv
  <1>2. /\ NextSlot(jb) = expected /\ expected \in Frame /\ expected # NoFrame
        /\ Index(jb.read_seq) = Home(expected) /\ Home(expected) \in Slot
    BY <1>1, Popping DEF NoFrame
  <1>3. jb.slots[Home(expected)] = expected
    BY <1>2 DEF NextSlot
  <1>4. expected \in Held
    BY <1>1, <1>2, <1>3 DEF Held, Stored
  <1>5. jb'.slots = [jb.slots EXCEPT ![Home(expected)] = NoFrame]
    BY <1>2 DEF Play, Popped, StreamInv, Buffers
  <1>6. \A i \in Slot : jb'.slots[i] = IF i = Home(expected) THEN NoFrame ELSE jb.slots[i]
    BY <1>5 DEF StreamInv, Buffers
  <1>7. \A i \in Slot : jb.slots[i] \in Int /\ (jb.slots[i] = expected => i = Home(expected))
    BY <1>2 DEF StreamInv, Buffers, Home
  <1>8. ASSUME NEW m \in Held' PROVE m \in Held /\ m # expected
    <2>1. PICK i \in Slot : m = jb'.slots[i] /\ m # NoFrame /\ m >= expected + 1
      BY <1>1 DEF Held, Stored
    <2>2. m = jb.slots[i] /\ m \in Int
      BY <1>6, <1>7, <2>1
    <2>3. m >= expected /\ m # expected
      BY <1>1, <2>1, <2>2
    <2>4. QED
      BY <2>1, <2>2, <2>3 DEF Held, Stored
  <1>9. ASSUME NEW m \in Held, m # expected PROVE m \in Held'
    <2>1. PICK i \in Slot : m = jb.slots[i] /\ m # NoFrame /\ m >= expected
      BY DEF Held, Stored
    <2>2. m \in Int /\ i # Home(expected)
      BY <1>3, <1>7, <1>9, <2>1
    <2>3. m = jb'.slots[i] /\ m >= expected + 1
      BY <1>1, <1>6, <1>9, <2>1, <2>2
    <2>4. QED
      BY <1>1, <2>1, <2>3 DEF Held, Stored
  <1>10. QED
    BY <1>4, <1>8, <1>9

\* Concealing passes over a frame that is not there.
LEMMA SkipStep ==
  ASSUME StreamInv, Conceal
  PROVE  expected \notin Held /\ Held' = Held
  <1>1. jb.initialized /\ ~CanPop(jb) /\ expected' = expected + 1 /\ expected \in Nat
    BY DEF Conceal, StreamInv
  <1>2. \A i \in Slot : jb.slots[i] # expected /\ jb.slots[i] \in Int
    BY <1>1, Popping DEF StreamInv, Buffers
  <1>3. jb'.slots = jb.slots
    BY <1>1 DEF Conceal, AdvanceExpected, StreamInv, Buffers
  <1>4. Stored' = Stored /\ expected \notin Stored /\ Stored \subseteq Int
    BY <1>2, <1>3 DEF Stored
  <1>5. \A m \in Stored : m >= expected + 1 <=> m >= expected
    BY <1>1, <1>4
  <1>6. QED
    BY <1>1, <1>4, <1>5 DEF Held

\* Each step is one of the window's, or none.
LEMMA WindowStep ==
  ASSUME SlotsFit, StreamInv, [Next]_stream_vars
  PROVE  [Window!WindowNext]_(Window!window_vars)
  <1> USE DEF Held
  <1>0. Window!window_vars = <<jb.initialized, expected, Held>>
    BY DEF Window!window_vars
  <1>1. ASSUME NEW n \in Frame, Arrive(n)
        PROVE  Window!Keep(n) \/ UNCHANGED Window!window_vars
    <2>1. /\ n \in Int /\ At(n) \in Int
      BY StreamConstants DEF Frame, StreamInv, At
    <2>2. CASE n < At(n)
      <3>1. jb' = jb /\ expected' = expected
        BY <1>1, <2>2, Inserting
      <3>2. QED
        BY <1>0, <3>1 DEF Window!window_vars, Stored
    <2>3. CASE n >= At(n)
      <3>1. Window!From(n) = At(n)
        BY DEF Window!From, At
      <3>2. QED
        BY <1>1, <2>3, <3>1, KeepStep DEF Window!Keep
    <2>4. QED
      BY <2>1, <2>2, <2>3
  <1>2. CASE Play
    <2>1. jb.initialized /\ jb'.initialized = jb.initialized /\ expected' = expected + 1
      BY <1>2 DEF Play, CanPop, Popped, StreamInv, Buffers
    <2>2. Window!Read
      BY <1>2, <2>1, TakeStep DEF Window!Read
    <2>3. QED
      BY <2>2 DEF Window!WindowNext
  <1>3. CASE Conceal
    <2>1. jb.initialized /\ jb'.initialized = jb.initialized /\ expected' = expected + 1
      BY <1>3 DEF Conceal, AdvanceExpected, StreamInv, Buffers
    <2>2. Window!Skip
      BY <1>3, <2>1, SkipStep DEF Window!Skip
    <2>3. QED
      BY <2>2 DEF Window!WindowNext
  <1>4. CASE ResetBuffer
    <2>1. jb'.initialized = FALSE /\ expected' = 0 /\ Stored' = {}
      BY <1>4 DEF ResetBuffer, EmptyBuffer, Stored
    <2>2. Window!Reset
      BY <2>1 DEF Window!Reset
    <2>3. QED
      BY <2>2 DEF Window!WindowNext
  <1>5. CASE UNCHANGED stream_vars
    BY <1>5 DEF stream_vars, Window!window_vars, Stored
  <1>6. QED
    BY <1>1, <1>2, <1>3, <1>4, <1>5 DEF Next, Window!WindowNext

\* A stream of frames through the ring of slots is a window that slides: frames
\* in it are kept and read in order, each once, for every depth and any loss and
\* reordering, through resyncs and resets, and across the wrap of the sequence
\* numbers if the slots fit it.
THEOREM StreamIsWindow ==
  ASSUME SlotsFit
  PROVE  Spec => ImplementsWindow
  <1>1. Init => Window!WindowInit
    BY DEF Init, EmptyBuffer, Window!WindowInit, Stored
  <1>2. StreamInv /\ [Next]_stream_vars => [Window!WindowNext]_(Window!window_vars)
    BY WindowStep
  <1>3. QED
    BY <1>1, <1>2, StreamStart, StreamStep, PTL DEF Spec, ImplementsWindow, Window!WindowSpec

\* The client's sound takes the steps of the stream.
LEMMA SoundStreams == SoundSpec => Spec
  <1>1. SoundInit => Init
    BY DEF SoundInit
  <1>2. [SoundNext]_vars => [Next]_stream_vars
    BY DEF SoundNext, Receive, PlayIntoRing, ConcealIntoRing, ReplaceBuffer, CaptureTick, ToneTick,
           FillBuffer, TakeBuffer, Next, vars
  <1>3. QED
    BY <1>1, <1>2, PTL DEF SoundSpec, Spec

\* So what the client plays and conceals, beside devices, rings and encoders,
\* follows the window too.
THEOREM PlayoutIsWindow ==
  ASSUME SlotsFit
  PROVE  SoundSpec => ImplementsWindow
  BY StreamIsWindow, SoundStreams, PTL

\* Whatever the depth, and even where it does not fit: each slot holds only
\* frames of its own index that have arrived, no frame is in two, and the number
\* to read is that of the frame to read.
THEOREM SlotsAreConsistent == SoundSpec => []SlotsConsistent
  <1>1. StreamInv => SlotsConsistent
    BY DEF StreamInv, SlotsConsistent
  <1>2. QED
    BY <1>1, StreamStart, StreamStep, SoundStreams, PTL DEF Spec

-----------------------------------------------------------------------------
(* Jitter buffer and ring keep their types. *)

SoundInv ==
    /\ jb \in Buffers /\ expected \in Int
    /\ rate \in Rates /\ pos \in 0..(rate.src - 1)
    /\ ring \in Seq(Int)
    /\ resets \in Nat /\ mic \in Nat

\* Sequence numbers and indices are remainders.
LEMMA Remainders ==
  ASSUME NEW a \in Int
  PROVE  a % SeqSpace \in Seq32 /\ a % Depth \in Slot
  BY JitterConstants DEF Seq32, Slot

\* insert leaves a buffer, and an integer to read.
LEMMA ArriveType ==
  ASSUME SoundInv, NEW n \in Frame, Arrive(n)
  PROVE  jb' \in Buffers /\ expected' \in Int
  <1>1. n \in Int /\ Depth \in Int
    BY StreamConstants, JitterConstants DEF Frame
  <1>2. Primed(jb, n) \in Buffers
    BY <1>1, Remainders DEF SoundInv, Buffers, Primed, Wire
  <1>3. WrappingSub(Wire(n), Depth - 1) \in Seq32
    <2>1. Wire(n) - (Depth - 1) \in Int
      BY <1>1, Remainders DEF Wire, Seq32
    <2>2. QED
      BY <2>1, Remainders DEF WrappingSub
  <1>4. Insert(jb, n) \in Buffers
    BY <1>1, <1>2, <1>3 DEF Insert, Buffers
  <1>5. QED
    BY <1>1, <1>4 DEF Arrive, SoundInv

\* pop and advance_expected leave a buffer.
LEMMA ReadType ==
  ASSUME SoundInv
  PROVE  /\ Popped(jb) \in Buffers /\ AdvanceExpected(jb) \in Buffers
         /\ NextSlot(jb) \in Int
  <1>1. jb.read_seq \in Int /\ jb.slots \in [Slot -> Int]
    BY JitterConstants DEF SoundInv, Buffers, Seq32
  <1>2. WrappingAdd(jb.read_seq, 1) \in Seq32 /\ Index(jb.read_seq) \in Slot
    BY <1>1, Remainders DEF WrappingAdd, Index
  <1>3. jb \in Buffers /\ NoFrame \in Int
    BY DEF SoundInv, NoFrame
  <1>4. [jb EXCEPT !.read_seq = WrappingAdd(@, 1)] \in Buffers
    BY <1>2, <1>3 DEF Buffers
  <1>5. Popped(jb) \in Buffers
    <2>1. [jb.slots EXCEPT ![Index(jb.read_seq)] = NoFrame] \in [Slot -> Int]
      BY <1>1, <1>3
    <2>2. QED
      BY <1>2, <1>3, <2>1 DEF Buffers, Popped
  <1>6. QED
    BY <1>1, <1>2, <1>3, <1>4, <1>5 DEF AdvanceExpected, NextSlot

\* A new buffer.
LEMMA EmptyType == EmptyBuffer \in Buffers
  BY JitterConstants DEF EmptyBuffer, Buffers, NoFrame, Seq32

\* A ring that is pushed to.
LEMMA PushedType ==
  ASSUME ring \in Seq(Int), NEW samples \in Seq(Int)
  PROVE  Pushed(samples) \in Seq(Int)
  <1> DEFINE n == AtMost(Len(samples), RingSize - Len(ring))
  <1>1. n \in Int /\ n <= Len(samples)
    BY PlayoutConstants DEF AtMost
  <1>2. \A i \in 1..n : samples[i] \in Int
    BY <1>1
  <1> HIDE DEF n
  <1>3. SubSeq(samples, 1, n) \in Seq(Int)
    BY <1>1, <1>2, SubSeqProperties
  <1>4. ring \o SubSeq(samples, 1, n) \in Seq(Int)
    BY <1>3, ConcatProperties
  <1>5. QED
    BY <1>4 DEF Pushed, n

\* What a frame's samples are.
LEMMA SamplesType ==
  ASSUME SoundInv, NEW n \in Int
  PROVE  SamplesOf(n) \in Seq(Int)
  <1> DEFINE base == (resets * (Last + 2) + n) * FrameSize
  <1>1. base \in Int /\ FrameSize \in Nat
    <2>1. resets * (Last + 2) \in Int
      BY StreamConstants DEF SoundInv
    <2>2. resets * (Last + 2) + n \in Int /\ FrameSize \in Nat
      BY <2>1, PlayoutConstants
    <2>3. QED
      BY <2>2
  <1> HIDE DEF base
  <1>2. [i \in 1..FrameSize |-> base + i] \in [1..FrameSize -> Int]
    BY <1>1
  <1>3. [i \in 1..FrameSize |-> base + i] \in Seq(Int)
    BY <1>1, <1>2
  <1>4. QED
    BY <1>3 DEF SamplesOf, base

\* The first samples of the ring, and what is left of it.
LEMMA FrontType ==
  ASSUME ring \in Seq(Int), NEW wanted \in Nat
  PROVE  /\ Got(wanted) \in Nat
         /\ Front(Got(wanted)) \in Seq(Int) /\ Len(Front(Got(wanted))) = Got(wanted)
         /\ SubSeq(ring, Got(wanted) + 1, Len(ring)) \in Seq(Int)
  <1>1. Len(ring) \in Nat
    OBVIOUS
  <1>2. Got(wanted) \in Nat /\ Got(wanted) <= Len(ring)
    BY <1>1 DEF Got, AtMost
  <1>3. \A i \in 1..Len(ring) : ring[i] \in Int
    OBVIOUS
  <1>4. \A i \in 1..Got(wanted) : ring[i] \in Int
    BY <1>1, <1>2, <1>3
  <1>5. Front(Got(wanted)) \in Seq(Int) /\ Len(Front(Got(wanted))) = Got(wanted)
    BY <1>2, <1>4, SubSeqProperties DEF Front
  <1>6. \A i \in (Got(wanted) + 1)..Len(ring) : ring[i] \in Int
    BY <1>1, <1>2, <1>3
  <1>7. Got(wanted) + 1 \in Int
    BY <1>2
  <1>8. SubSeq(ring, Got(wanted) + 1, Len(ring)) \in Seq(Int)
    BY <1>1, <1>6, <1>7, SubSeqProperties
  <1>9. QED
    BY <1>2, <1>5, <1>8

\* A chunk through the resampler, or around it.
LEMMA ResampledType ==
  ASSUME SoundInv, NEW input \in Seq(Int)
  PROVE  /\ Resampled(input) \in Seq(Int)
         /\ Len(Resampled(input)) = IF IsIdentity(rate) THEN Len(input)
                                    ELSE OutputCount(rate, pos, Len(input))
         /\ Advance(Len(input)) => pos' \in 0..(rate.src - 1)
  <1>1. rate \in Rate /\ pos \in 0..(rate.src - 1) /\ Len(input) \in Nat
    BY PlayoutConstants DEF SoundInv
  <1>2. QED
    BY <1>1, ProcessedType, PosStaysAhead DEF Resampled, Advance

\* How many samples a callback asks for.
LEMMA NeededType ==
  ASSUME SoundInv, NEW frames \in 1..MaxFrames
  PROVE  Needed(rate, frames) \in Nat
  <1>1. rate \in Rate /\ pos \in 0..(rate.src - 1) /\ frames \in Nat \ {0}
    BY PlayoutConstants DEF SoundInv
  <1>2. QED
    BY <1>1, NeededCovers DEF Needed

-----------------------------------------------------------------------------
(* Every step. *)

\* Every action keeps the types.
LEMMA SoundStep == SoundInv /\ [SoundNext]_vars => SoundInv'
  <1> SUFFICES ASSUME SoundInv, [SoundNext]_vars PROVE SoundInv'
    OBVIOUS
  <1>1. CASE Receive
    <2>1. UNCHANGED <<rate, pos, ring, resets, mic>>
      BY <1>1 DEF Receive, sound_vars
    <2>2. QED
      BY <1>1, <2>1, ArriveType DEF Receive, SoundInv
  <1>2. CASE PlayIntoRing
    <2>1. jb' \in Buffers /\ expected' \in Int
      BY <1>2, ReadType DEF PlayIntoRing, Play, SoundInv
    <2>2. ring' \in Seq(Int)
      BY <1>2, ReadType, SamplesType, PushedType DEF PlayIntoRing, PushFrame, SoundInv
    <2>3. QED
      BY <1>2, <2>1, <2>2 DEF PlayIntoRing, PushFrame, SoundInv
  <1>3. CASE ConcealIntoRing
    <2>1. jb' \in Buffers /\ expected' \in Int
      BY <1>3, ReadType DEF ConcealIntoRing, Conceal, SoundInv
    <2>2. ring' \in Seq(Int)
      BY <1>3, SamplesType, PushedType DEF ConcealIntoRing, PushFrame, SoundInv
    <2>3. QED
      BY <1>3, <2>1, <2>2 DEF ConcealIntoRing, PushFrame, SoundInv
  <1>4. CASE ReplaceBuffer
    BY <1>4, EmptyType DEF ReplaceBuffer, ResetBuffer, SoundInv
  <1>5. CASE CaptureTick
    <2>1. FrameSize \in Nat
      BY PlayoutConstants
    <2>2. ring' \in Seq(Int)
      BY <1>5, <2>1, FrontType DEF CaptureTick, Take, SoundInv
    <2>3. QED
      BY <1>5, <2>2 DEF CaptureTick, stream_vars, SoundInv
  <1>6. CASE ToneTick
    BY <1>6 DEF ToneTick, stream_vars, SoundInv
  <1>7. ASSUME NEW frames \in 1..MaxFrames, FillBuffer(frames)
        PROVE  SoundInv'
    <2> DEFINE wanted == Needed(rate, frames)
    <2>1. wanted \in Nat
      BY NeededType
    <2> HIDE DEF wanted
    <2>2. /\ Take(wanted, Resampled(Front(Got(wanted))), frames)
          /\ Advance(Got(wanted))
          /\ UNCHANGED <<stream_vars, rate, resets, mic>>
      BY <1>7 DEF FillBuffer, wanted
    <2>3. ring' \in Seq(Int)
      BY <2>1, <2>2, FrontType DEF Take, SoundInv
    <2>4. pos' \in 0..(rate.src - 1)
      BY <2>1, <2>2, FrontType, ResampledType DEF SoundInv
    <2>5. QED
      BY <2>2, <2>3, <2>4 DEF stream_vars, SoundInv
  <1>8. ASSUME NEW frames \in 1..MaxFrames, TakeBuffer(frames)
        PROVE  SoundInv'
    <2> DEFINE chunk == [k \in 1..frames |-> mic + k]
    <2>1. frames \in Nat /\ mic' \in Nat
      BY <1>8, PlayoutConstants DEF TakeBuffer, SoundInv
    <2>2. chunk \in Seq(Int) /\ Len(chunk) = frames
      <3>1. chunk \in [1..frames -> Int]
        BY <2>1 DEF SoundInv
      <3>2. QED
        BY <2>1, <3>1
    <2>3. ring' = Pushed(Resampled(chunk)) /\ Advance(frames)
      BY <1>8 DEF TakeBuffer
    <2> HIDE DEF chunk
    <2>4. ring' \in Seq(Int) /\ pos' \in 0..(rate.src - 1)
      BY <2>2, <2>3, ResampledType, PushedType DEF SoundInv
    <2>5. QED
      BY <1>8, <2>1, <2>4 DEF TakeBuffer, stream_vars, SoundInv
  <1>9. CASE UNCHANGED vars
    BY <1>9 DEF vars, stream_vars, sound_vars, SoundInv
  <1>10. QED
    BY <1>1, <1>2, <1>3, <1>4, <1>5, <1>6, <1>7, <1>8, <1>9 DEF SoundNext

\* The types hold from the start.
LEMMA SoundStart == SoundInit => SoundInv
  <1> SUFFICES ASSUME SoundInit PROVE SoundInv
    OBVIOUS
  <1>1. rate \in Rate
    BY PlayoutConstants DEF SoundInit
  <1>2. pos \in 0..(rate.src - 1)
    BY <1>1 DEF SoundInit, Rate
  <1>3. ring \in Seq(Int)
    BY EmptySeq DEF SoundInit
  <1>4. QED
    BY <1>2, <1>3, EmptyType DEF SoundInit, Init, SoundInv

\* The position is always ahead of the chunk that was resampled last, by less
\* than a step: process reads each chunk within its bounds, and never needs the
\* sample of the chunk before.
PosAhead == pos \in 0..(rate.src - 1)

THEOREM PositionBounded == SoundSpec => []PosAhead
  <1>1. SoundInv => PosAhead
    BY DEF SoundInv, PosAhead
  <1>2. QED
    BY <1>1, SoundStart, SoundStep, PTL DEF SoundSpec

-----------------------------------------------------------------------------
\* A taker that finds what it wants, and whose values are enough, is not silent.
LEMMA TakeEnough ==
  ASSUME NEW wanted, NEW values \in Seq(Int), NEW frames \in Nat,
         Take(wanted, values, frames), Len(values) >= frames
  PROVE  silent' = 0
  <1> DEFINE taken == SubSeq(values, 1, AtMost(Len(values), frames))
  <1>1. Len(values) \in Nat /\ AtMost(Len(values), frames) = frames
    BY DEF AtMost
  <1>2. \A i \in 1..frames : values[i] \in Int
    BY <1>1
  <1>3. Len(taken) = frames
    BY <1>1, <1>2, SubSeqProperties
  <1>4. silent' = frames - Len(taken)
    BY Zenon DEF Take
  <1> HIDE DEF taken
  <1>5. QED
    BY <1>3, <1>4

\* A taker that is not starved has got what it wanted.
LEMMA TakeAll ==
  ASSUME NEW wanted \in Nat, NEW values, NEW frames, ring \in Seq(Int),
         Take(wanted, values, frames), ~starved'
  PROVE  Got(wanted) = wanted
  <1>1. starved' = (Got(wanted) < wanted)
    BY Zenon DEF Take
  <1>2. ~(Got(wanted) < wanted)
    BY <1>1, Zenon
  <1>3. Len(ring) \in Nat
    OBVIOUS
  <1>4. QED
    BY <1>2, <1>3 DEF Got, AtMost

\* Whoever found all the samples it asked for left no silence: for every ratio
\* of rates, size of the device's buffer and fraction of a sample left over.
THEOREM NoGap == SoundSpec => []NoGapWhenFed
  <1>1. SoundInit => NoGapWhenFed
    BY DEF SoundInit, NoGapWhenFed
  <1>2. SoundInv /\ NoGapWhenFed /\ [SoundNext]_vars => NoGapWhenFed'
    <2> SUFFICES ASSUME SoundInv, NoGapWhenFed, [SoundNext]_vars PROVE NoGapWhenFed'
      OBVIOUS
    <2>1. CASE UNCHANGED <<starved, silent>>
      BY <2>1 DEF NoGapWhenFed
    <2>2. ASSUME NEW frames \in 1..MaxFrames, FillBuffer(frames), ~starved'
          PROVE  silent' = 0
      <3> DEFINE wanted == Needed(rate, frames)
      <3>1. /\ wanted \in Nat /\ frames \in Nat \ {0}
            /\ rate \in Rate /\ pos \in 0..(rate.src - 1)
        BY NeededType, PlayoutConstants DEF SoundInv
      <3>2. IF IsIdentity(rate) THEN wanted = frames
            ELSE OutputCount(rate, pos, wanted) >= frames
        BY <3>1, NeededCovers DEF Needed
      <3> HIDE DEF wanted
      <3>3. Take(wanted, Resampled(Front(Got(wanted))), frames)
        BY <2>2 DEF FillBuffer, wanted
      <3>4. Got(wanted) = wanted
        BY <2>2, <3>1, <3>3, TakeAll DEF SoundInv
      <3>5. /\ Resampled(Front(Got(wanted))) \in Seq(Int)
            /\ Len(Resampled(Front(Got(wanted)))) >= frames
        <4>1. /\ Front(Got(wanted)) \in Seq(Int)
              /\ Len(Front(Got(wanted))) = wanted
          BY <3>1, <3>4, FrontType DEF SoundInv
        <4>2. /\ Resampled(Front(Got(wanted))) \in Seq(Int)
              /\ Len(Resampled(Front(Got(wanted)))) =
                   IF IsIdentity(rate) THEN wanted ELSE OutputCount(rate, pos, wanted)
          BY <4>1, ResampledType
        <4>3. QED
          BY <3>1, <3>2, <4>2
      <3>6. QED
        BY <3>1, <3>3, <3>5, TakeEnough
    <2>3. ASSUME CaptureTick, ~starved' PROVE silent' = 0
      <3>1. FrameSize \in Nat
        BY PlayoutConstants
      <3>2. Take(FrameSize, Front(Got(FrameSize)), FrameSize)
        BY <2>3 DEF CaptureTick
      <3>3. Got(FrameSize) = FrameSize
        BY <2>3, <3>1, <3>2, TakeAll DEF SoundInv
      <3>4. Front(Got(FrameSize)) \in Seq(Int) /\ Len(Front(Got(FrameSize))) >= FrameSize
        BY <3>1, <3>3, FrontType DEF SoundInv
      <3>5. QED
        BY <3>1, <3>2, <3>4, TakeEnough
    <2>4. QED
      BY <2>1, <2>2, <2>3 DEF SoundNext, Receive, PlayIntoRing, ConcealIntoRing, PushFrame,
         ReplaceBuffer, ToneTick, TakeBuffer, NoGapWhenFed, vars, sound_vars
  <1>3. QED
    BY <1>1, <1>2, SoundStart, SoundStep, PTL DEF SoundSpec

-----------------------------------------------------------------------------
(* The encoder. *)

EncoderInv == encoder \in [bps : Nat, refused : BOOLEAN] /\ RateKept

\* encode leaves the rate it found, or a rate was refused.
LEMMA EncodingKeeps ==
  ASSUME NEW saved \in Nat, NEW e \in Encodings(saved)
  PROVE  /\ e.encoder \in [bps : Nat, refused : BOOLEAN]
         /\ e.encoder.bps = saved \/ e.encoder.refused
  <1>1. \A k \in Attempts : RateOfAttempt(saved, k) \in Nat
    BY DEF RateOfAttempt, Attempts
  <1>2. CASE \E ok \in BOOLEAN, k \in Attempts :
               \E x \in SetBack(ok, saved, k) : e = [ok |-> ok, encoder |-> x]
    <2>1. PICK ok \in BOOLEAN, k \in Attempts :
             \E x \in SetBack(ok, saved, k) : e = [ok |-> ok, encoder |-> x]
      BY <1>2
    <2>2. PICK x \in SetBack(ok, saved, k) : e = [ok |-> ok, encoder |-> x]
      BY <2>1
    <2>3. \/ x = [bps |-> saved, refused |-> FALSE]
          \/ x = [bps |-> RateOfAttempt(saved, k), refused |-> TRUE]
      BY <2>2 DEF SetBack
    <2>4. e.encoder = x
      BY <2>2
    <2>5. RateOfAttempt(saved, k) \in Nat
      BY <1>1
    <2> HIDE DEF RateOfAttempt
    <2>6. CASE x = [bps |-> saved, refused |-> FALSE]
      BY <2>4, <2>6
    <2>7. CASE x = [bps |-> RateOfAttempt(saved, k), refused |-> TRUE]
      BY <2>4, <2>5, <2>7
    <2>8. QED
      BY <2>3, <2>6, <2>7
  <1>3. CASE \E k \in {0, 1} :
               e = [ok |-> FALSE,
                    encoder |-> [bps |-> RateOfAttempt(saved, k), refused |-> TRUE]]
    BY <1>1, <1>3 DEF Attempts
  <1>4. \/ \E k \in {0, 1} :
              e = [ok |-> FALSE,
                   encoder |-> [bps |-> RateOfAttempt(saved, k), refused |-> TRUE]]
        \/ \E ok \in BOOLEAN, k \in Attempts :
              \E x \in SetBack(ok, saved, k) : e = [ok |-> ok, encoder |-> x]
    BY SMT DEF Encodings
  <1>5. QED
    BY <1>2, <1>3, <1>4

\* So does a tick, with or without a new encoder.
LEMMA EncodeFrameKeeps ==
  ASSUME EncoderInv, EncodeFrame
  PROVE  EncoderInv'
  <1>1. PICK e \in Encodings(encoder.bps) :
           \/ encoder' = [e.encoder EXCEPT !.refused = @ \/ encoder.refused]
           \/ encoder' = NewEncoder
    BY DEF EncodeFrame
  <1>2. encoder.bps \in Nat /\ encoder.refused \in BOOLEAN
    BY DEF EncoderInv
  <1>3. /\ e.encoder \in [bps : Nat, refused : BOOLEAN]
        /\ e.encoder.bps = encoder.bps \/ e.encoder.refused
    BY <1>2, EncodingKeeps
  <1>4. CASE encoder' = NewEncoder
    BY <1>4, PlayoutConstants DEF NewEncoder, EncoderInv, RateKept
  <1>5. CASE encoder' = [e.encoder EXCEPT !.refused = @ \/ encoder.refused]
    <2>1. /\ encoder'.bps = e.encoder.bps
          /\ encoder'.refused = (e.encoder.refused \/ encoder.refused)
          /\ encoder' \in [bps : Nat, refused : BOOLEAN]
      BY <1>2, <1>3, <1>5
    <2>2. QED
      BY <1>3, <2>1 DEF EncoderInv, RateKept
  <1>6. QED
    BY <1>1, <1>4, <1>5

\* Between two frames the encoder has the configured rate, unless Opus refused
\* one: through any number of retries, failures and replacements.
THEOREM RateIsKept == SoundSpec => []RateKept
  <1>1. SoundInit => EncoderInv
    BY PlayoutConstants DEF SoundInit, NewEncoder, EncoderInv, RateKept
  <1>2. EncoderInv /\ [SoundNext]_vars => EncoderInv'
    <2> SUFFICES ASSUME EncoderInv, [SoundNext]_vars PROVE EncoderInv'
      OBVIOUS
    <2>1. CASE CaptureTick \/ ToneTick
      BY <2>1, EncodeFrameKeeps DEF CaptureTick, ToneTick
    <2>2. CASE UNCHANGED encoder
      BY <2>2 DEF EncoderInv, RateKept
    <2>3. QED
      BY <2>1, <2>2 DEF SoundNext, Receive, PlayIntoRing, ConcealIntoRing, PushFrame,
         ReplaceBuffer, FillBuffer, TakeBuffer, vars, sound_vars, encoder_vars
  <1>3. EncoderInv => RateKept
    BY DEF EncoderInv
  <1>4. QED
    BY <1>1, <1>2, <1>3, PTL DEF SoundSpec
-----------------------------------------------------------------------------
(* The order of what is heard. *)

Sorted(values) == \A i, j \in 1..Len(values) : i <= j => values[i] <= values[j]

\* What each value is of its input: between two of its samples.
Spanned(values, input, u) ==
    \A k \in 1..Len(values) : \E i, j \in 1..Len(input) :
        input[i] * u <= values[k] /\ values[k] <= input[j] * u

\* An interpolated value, by the sample it starts from and how far it goes.
LEMMA InterpolatedAt ==
  ASSUME NEW r \in Rate, NEW input \in Seq(Int), NEW at \in Nat,
         at \div r.dst + 1 \in 1..Len(input)
  PROVE  \E q \in Nat, f \in 0..(r.dst - 1), a \in Int, b \in Int :
            /\ at = q * r.dst + f /\ q + 1 \in 1..Len(input)
            /\ a = input[q + 1]
            /\ b = IF q + 1 < Len(input) THEN input[q + 2] ELSE a
            /\ Interpolated(r, input, at) = a * r.dst + (b - a) * f
  <1>1. PICK d \in Nat \ {0} : d = r.dst
    BY DEF Rate
  <1>2. at \in Int /\ Len(input) \in Nat
    OBVIOUS
  <1>3. PICK z \in Int, f \in 0..(d - 1) : at = z * d + f /\ f = at % d /\ z = at \div d
    BY <1>2, WithRemainder
  <1>4. PICK q \in Nat : q = z
    <2>1. (0 - 1) * d = 0 - d /\ z * d \in Int
      OBVIOUS
    <2>2. (0 - 1) * d < z * d
      BY <1>3, <2>1, SMTT(30)
    <2>3. 0 - 1 < z
      BY <2>2, SmallerFactor
    <2>4. QED
      BY <2>3
  <1>5. q = at \div r.dst /\ f = at % r.dst
    BY <1>1, <1>3, <1>4
  <1>6. at = q * r.dst + f /\ f \in 0..(r.dst - 1)
    BY <1>1, <1>3, <1>4
  <1>7. q + 1 \in 1..Len(input)
    BY <1>5
  <1>8. PICK a \in Int, b \in Int : a = input[q + 1] /\ b = IF q + 1 < Len(input) THEN input[q + 2] ELSE a
    <2>1. input[q + 1] \in Int /\ (q + 1 < Len(input) => input[q + 2] \in Int)
      BY <1>2, <1>7
    <2>2. QED
      BY <2>1
  <1>9. Interpolated(r, input, at) = a * r.dst + (b - a) * f
    <2>1. q + 1 + 1 = q + 2
      OBVIOUS
    <2>2. QED
      BY <1>5, <1>8, <2>1 DEF Interpolated
  <1>10. QED
    BY <1>6, <1>7, <1>8, <1>9

\* It lies between its two samples.
LEMMA Between ==
  ASSUME NEW d \in Nat \ {0}, NEW a \in Int, NEW b \in Int, a <= b, NEW f \in 0..(d - 1)
  PROVE  a * d <= a * d + (b - a) * f /\ a * d + (b - a) * f <= b * d
  <1>1. PICK c \in Nat : c = b - a
    OBVIOUS
  <1>2. c * f \in Int /\ c * d \in Int /\ 0 <= c * f
    BY <1>1
  <1>3. f * c <= d * c
    BY Times
  <1>4. c * f <= c * d
    BY <1>3
  <1>5. (b - a) * d = b * d - a * d
    OBVIOUS
  <1>6. c * d = b * d - a * d
    BY <1>1, <1>5
  <1>7. PICK x \in Int, y \in Int, z \in Int, w \in Int :
           x = a * d /\ y = b * d /\ z = c * f /\ w = c * d
    BY <1>2
  <1>8. 0 <= z /\ z <= w /\ w = y - x
    BY <1>2, <1>4, <1>6, <1>7
  <1>9. x <= x + z /\ x + z <= y
    BY <1>8
  <1>10. QED
    BY <1>1, <1>7, <1>9

\* A sample of a chunk in order is not after the next.
LEMMA NextSample ==
  ASSUME NEW input \in Seq(Int), Sorted(input), NEW q \in Nat, q + 1 \in 1..Len(input),
         NEW a \in Int, NEW b \in Int, a = input[q + 1],
         b = IF q + 1 < Len(input) THEN input[q + 2] ELSE a
  PROVE  a <= b
  <1>1. Len(input) \in Nat
    OBVIOUS
  <1>2. CASE q + 1 < Len(input)
    <2>1. q + 2 \in 1..Len(input) /\ q + 1 <= q + 2
      BY <1>1, <1>2
    <2>2. input[q + 1] <= input[q + 2]
      BY <2>1 DEF Sorted
    <2>3. QED
      BY <1>2, <2>2
  <1>3. CASE ~(q + 1 < Len(input))
    BY <1>3
  <1>4. QED
    BY <1>2, <1>3

\* Interpolation keeps the order, in a chunk that is in order.
LEMMA ProcessedOrder ==
  ASSUME NEW r \in Rate, NEW p \in 0..(r.src - 1), NEW input \in Seq(Int), Sorted(input)
  PROVE  /\ Sorted(Processed(r, p, input))
         /\ Spanned(Processed(r, p, input), input, r.dst)
  <1> DEFINE count == OutputCount(r, p, Len(input))
             At0(k) == p + (k - 1) * r.src
             value(k) == Interpolated(r, input, At0(k))
  <1>1. /\ Len(input) \in Nat /\ count \in Nat /\ r.dst \in Nat \ {0} /\ r.src \in Nat \ {0}
        /\ p \in Int
    BY PosStaysAhead DEF Rate
  <1>2. /\ Processed(r, p, input) \in Seq(Int) /\ Len(Processed(r, p, input)) = count
        /\ \A k \in 1..count : Processed(r, p, input)[k] = value(k)
    BY ProcessedType DEF Processed
  <1>3. \A k \in 1..count : At0(k) \in Nat /\ At0(k) \div r.dst + 1 \in 1..Len(input)
    BY <1>1, PositionInChunk
  <1>4. ASSUME NEW i \in 1..count, NEW j \in 1..count, i <= j
        PROVE  At0(i) <= At0(j)
    <2>1. (i - 1) * r.src <= (j - 1) * r.src /\ (i - 1) * r.src \in Int /\ (j - 1) * r.src \in Int
      <3>1. i - 1 \in Int /\ j - 1 \in Int /\ i - 1 <= j - 1 /\ r.src \in Nat
        BY <1>1, <1>4
      <3>2. QED
        BY <3>1, Times
    <2>2. QED
      BY <1>1, <2>1
  <1> HIDE DEF count, At0
  <1>5. ASSUME NEW k \in 1..count
        PROVE  \E q \in Nat, f \in 0..(r.dst - 1), a \in Int, b \in Int :
                  /\ At0(k) = q * r.dst + f /\ q + 1 \in 1..Len(input)
                  /\ a = input[q + 1]
                  /\ b = IF q + 1 < Len(input) THEN input[q + 2] ELSE a
                  /\ value(k) = a * r.dst + (b - a) * f
    BY <1>3, InterpolatedAt
  <1> HIDE DEF value
  <1>6. ASSUME NEW i \in 1..count, NEW j \in 1..count, i <= j
        PROVE  value(i) <= value(j)
    <2> DEFINE d == r.dst
    <2>1. PICK q \in Nat, f \in 0..(d - 1), a \in Int, b \in Int :
             /\ At0(i) = q * d + f /\ q + 1 \in 1..Len(input)
             /\ a = input[q + 1]
             /\ b = IF q + 1 < Len(input) THEN input[q + 2] ELSE a
             /\ value(i) = a * d + (b - a) * f
      BY <1>5
    <2>2. PICK s \in Nat, g \in 0..(d - 1), x \in Int, y \in Int :
             /\ At0(j) = s * d + g /\ s + 1 \in 1..Len(input)
             /\ x = input[s + 1]
             /\ y = IF s + 1 < Len(input) THEN input[s + 2] ELSE x
             /\ value(j) = x * d + (y - x) * g
      BY <1>5
    <2>3. d \in Nat \ {0} /\ q * d \in Int /\ s * d \in Int
      BY <1>1
    <2>4. At0(i) <= At0(j)
      BY <1>4, <1>6
    <2>5. a <= b /\ x <= y
      <3>1. a <= b
        BY <2>1, NextSample
      <3>2. x <= y
        BY <2>2, NextSample
      <3>3. QED
        BY <3>1, <3>2
    <2> HIDE DEF d
    <2>6. value(i) <= b * d /\ x * d <= value(j)
      <3>1. value(i) <= b * d
        BY <2>1, <2>3, <2>5, Between, ZenonT(60)
      <3>2. x * d <= value(j)
        BY <2>2, <2>3, <2>5, Between, ZenonT(60)
      <3>3. QED
        BY <3>1, <3>2
    <2>7. q <= s
      <3>1. q * d < (s + 1) * d
        <4>1. (s + 1) * d = s * d + d
          BY <2>3
        <4>2. PICK u \in Int, v \in Int : u = q * d /\ v = s * d
          BY <2>3
        <4>3. u + f <= v + g
          BY <2>1, <2>2, <2>4, <4>2
        <4>4. u < v + d
          BY <2>3, <4>3
        <4>5. QED
          BY <4>1, <4>2, <4>4
      <3>2. q < s + 1
        BY <2>3, <3>1, SmallerFactor
      <3>3. QED
        BY <3>2
    <2>8. CASE q = s
      <3>1. a = x /\ b = y
        BY <2>1, <2>2, <2>8
      <3>2. f <= g
        BY <2>1, <2>2, <2>3, <2>4, <2>8
      <3>3. PICK c \in Nat : c = b - a
        BY <2>5
      <3>4. f * c <= g * c
        BY <3>2, Times
      <3>5. PICK u \in Int, v \in Int : u = f * c /\ v = g * c
        OBVIOUS
      <3>6. c * f = u /\ c * g = v
        BY <3>5
      <3>7. PICK w \in Int : w = a * d
        BY <2>3
      <3>8. value(i) = w + u /\ value(j) = w + v
        BY <2>1, <2>2, <3>1, <3>3, <3>6, <3>7
      <3>9. QED
        BY <3>4, <3>5, <3>8
    <2>9. CASE q # s
      <3>1. q < s /\ q + 1 < Len(input) /\ q + 2 \in 1..Len(input) /\ q + 2 <= s + 1
        BY <1>1, <2>1, <2>2, <2>7, <2>9
      <3>2. b <= x
        BY <2>1, <2>2, <3>1 DEF Sorted
      <3>3. b * d <= x * d /\ b * d \in Int /\ x * d \in Int
        BY <2>3, <3>2, Times
      <3>4. value(i) \in Int /\ value(j) \in Int
        <4>1. a * d \in Int /\ (b - a) * f \in Int
          BY <2>3
        <4>2. (y - x) * g \in Int
          BY <2>3
        <4>3. PICK u \in Int, v \in Int, w \in Int, z \in Int :
                 u = a * d /\ v = (b - a) * f /\ w = x * d /\ z = (y - x) * g
          BY <3>3, <4>1, <4>2
        <4>4. value(i) = u + v /\ value(j) = w + z
          BY <2>1, <2>2, <4>3
        <4>5. QED
          BY <4>4
      <3>5. QED
        BY <2>6, <3>3, <3>4
    <2>10. QED
      BY <2>8, <2>9
  <1>7. ASSUME NEW k \in 1..count
        PROVE  \E i, j \in 1..Len(input) :
                  input[i] * r.dst <= value(k) /\ value(k) <= input[j] * r.dst
    <2>1. PICK q \in Nat, f \in 0..(r.dst - 1), a \in Int, b \in Int :
             /\ At0(k) = q * r.dst + f /\ q + 1 \in 1..Len(input)
             /\ a = input[q + 1]
             /\ b = IF q + 1 < Len(input) THEN input[q + 2] ELSE a
             /\ value(k) = a * r.dst + (b - a) * f
      BY <1>5
    <2>2. a <= b
      BY <2>1, NextSample
    <2>3. a * r.dst <= value(k) /\ value(k) <= b * r.dst
      <3>1. PICK d \in Nat \ {0} : d = r.dst
        BY <1>1
      <3>2. a * d <= a * d + (b - a) * f /\ a * d + (b - a) * f <= b * d
        BY <2>2, <3>1, Between
      <3>3. QED
        BY <2>1, <3>1, <3>2
    <2>4. PICK j \in 1..Len(input) : b = input[j]
      <3>1. CASE q + 1 < Len(input)
        <4>1. q + 2 \in 1..Len(input) /\ b = input[q + 2]
          BY <1>1, <2>1, <3>1
        <4>2. QED
          BY <4>1
      <3>2. CASE ~(q + 1 < Len(input))
        BY <2>1, <3>2
      <3>3. QED
        BY <3>1, <3>2
    <2>5. QED
      BY <2>1, <2>3, <2>4
  <1>8. QED
    BY <1>2, <1>6, <1>7 DEF Sorted, Spanned

\* What a ring holds that is pushed to, and that it is not overfull.
LEMMA PushedElements ==
  ASSUME ring \in Seq(Int), Len(ring) <= RingSize, NEW samples \in Seq(Int)
  PROVE  /\ Pushed(samples) \in Seq(Int) /\ Len(Pushed(samples)) <= RingSize
         /\ Len(ring) <= Len(Pushed(samples))
         /\ Len(Pushed(samples)) <= Len(ring) + Len(samples)
         /\ \A k \in 1..Len(Pushed(samples)) :
               Pushed(samples)[k] = IF k <= Len(ring) THEN ring[k] ELSE samples[k - Len(ring)]
  <1> DEFINE n == AtMost(Len(samples), RingSize - Len(ring))
             cut == SubSeq(samples, 1, n)
  <1>1. /\ Len(ring) \in Nat /\ Len(samples) \in Nat /\ RingSize \in Nat
        /\ n \in Nat /\ n <= Len(samples) /\ n <= RingSize - Len(ring)
    BY PlayoutConstants DEF AtMost
  <1>2. \A i \in 1..n : samples[i] \in Int
    BY <1>1
  <1> HIDE DEF n
  <1>3. cut \in Seq(Int) /\ Len(cut) = n /\ \A i \in 1..n : cut[i] = samples[i]
    <2>1. /\ cut \in Seq(Int) /\ Len(cut) = (IF 1 <= n THEN n - 1 + 1 ELSE 0)
          /\ \A i \in 1..(n - 1 + 1) : cut[i] = samples[1 + i - 1]
      BY <1>1, <1>2, SubSeqProperties
    <2>2. n - 1 + 1 = n /\ (~(1 <= n) => n = 0) /\ \A i \in 1..n : 1 + i - 1 = i
      BY <1>1
    <2>3. QED
      BY <2>1, <2>2
  <1> HIDE DEF cut
  <1>4. /\ ring \o cut \in Seq(Int) /\ Len(ring \o cut) = Len(ring) + n
        /\ \A k \in 1..(Len(ring) + n) :
              (ring \o cut)[k] = IF k <= Len(ring) THEN ring[k] ELSE cut[k - Len(ring)]
    BY <1>3, ConcatProperties
  <1>5. \A k \in 1..(Len(ring) + n) : k > Len(ring) => k - Len(ring) \in 1..n
    BY <1>1
  <1>6. Pushed(samples) = ring \o cut
    BY DEF Pushed, cut, n
  <1>7. Pushed(samples) \in Seq(Int) /\ Len(Pushed(samples)) = Len(ring) + n
    BY <1>4, <1>6
  <1>8. /\ Len(Pushed(samples)) <= RingSize /\ Len(ring) <= Len(Pushed(samples))
        /\ Len(Pushed(samples)) <= Len(ring) + Len(samples)
    BY <1>1, <1>7
  <1>9. ASSUME NEW k \in 1..Len(Pushed(samples))
        PROVE  Pushed(samples)[k] = IF k <= Len(ring) THEN ring[k] ELSE samples[k - Len(ring)]
    <2>1. k \in 1..(Len(ring) + n)
      BY <1>7
    <2>2. Pushed(samples)[k] = IF k <= Len(ring) THEN ring[k] ELSE cut[k - Len(ring)]
      BY <1>4, <1>6, <2>1
    <2>3. k > Len(ring) => cut[k - Len(ring)] = samples[k - Len(ring)]
      BY <1>3, <1>5, <2>1
    <2>4. k <= Len(ring) \/ k > Len(ring)
      BY <1>1, <2>1
    <2>5. QED
      BY <2>2, <2>3, <2>4
  <1>10. QED
    BY <1>7, <1>8, <1>9

\* What a taker does: to the ring, to its buffer, and to what was heard.
LEMMA TakeElements ==
  ASSUME ring \in Seq(Int), heard \in Int, NEW wanted \in Nat, NEW values \in Seq(Int),
         NEW frames \in Nat, Take(wanted, values, frames)
  PROVE  /\ ring' \in Seq(Int) /\ Len(ring') = Len(ring) - Got(wanted)
         /\ Got(wanted) \in 0..Len(ring)
         /\ \A k \in 1..Len(ring') : ring'[k] = ring[k + Got(wanted)]
         /\ starved' \in BOOLEAN /\ silent' \in 0..frames
         /\ heard' = heard \/ \E k \in 1..Len(values) : heard' = values[k]
         /\ forward = TRUE /\ Sorted(values)
                /\ (\A k \in 1..Len(values) : heard <= values[k]) => forward' = TRUE
  <1> DEFINE g == Got(wanted)
             m == AtMost(Len(values), frames)
             taken == SubSeq(values, 1, m)
             all == <<heard>> \o taken
  <1>1. Len(ring) \in Nat /\ Len(values) \in Nat /\ g \in 0..Len(ring)
        /\ m \in Nat /\ m <= Len(values) /\ m <= frames
    BY DEF Got, AtMost
  <1>2. /\ ring' = SubSeq(ring, g + 1, Len(ring))
        /\ starved' = (g < wanted)
        /\ silent' = frames - Len(taken)
        /\ heard' = IF taken = <<>> THEN heard ELSE taken[Len(taken)]
        /\ forward' = (forward /\ Ascending(all))
    BY Zenon DEF Take
  <1> HIDE DEF g, m
  <1>3. /\ ring' \in Seq(Int) /\ Len(ring') = Len(ring) - g
        /\ \A k \in 1..Len(ring') : ring'[k] = ring[k + g]
    <2>1. \A i \in (g + 1)..Len(ring) : ring[i] \in Int
      BY <1>1
    <2>2. g + 1 \in Int /\ g \in Int
      BY <1>1
    <2>3. /\ ring' \in Seq(Int)
          /\ Len(ring') = (IF g + 1 <= Len(ring) THEN Len(ring) - (g + 1) + 1 ELSE 0)
          /\ \A i \in 1..(Len(ring) - (g + 1) + 1) : ring'[i] = ring[g + 1 + i - 1]
      BY <1>1, <1>2, <2>1, <2>2, SubSeqProperties
    <2>4. Len(ring') = Len(ring) - g
      BY <1>1, <2>3
    <2>5. \A i \in 1..Len(ring') : i \in 1..(Len(ring) - (g + 1) + 1) /\ g + 1 + i - 1 = i + g
      BY <1>1, <2>4
    <2>6. QED
      BY <2>3, <2>4, <2>5
  <1>4. taken \in Seq(Int) /\ Len(taken) = m /\ \A i \in 1..m : taken[i] = values[i]
    <2>1. \A i \in 1..m : values[i] \in Int
      BY <1>1
    <2>2. /\ taken \in Seq(Int) /\ Len(taken) = (IF 1 <= m THEN m - 1 + 1 ELSE 0)
          /\ \A i \in 1..(m - 1 + 1) : taken[i] = values[1 + i - 1]
      BY <1>1, <2>1, SubSeqProperties
    <2>3. m - 1 + 1 = m /\ (~(1 <= m) => m = 0) /\ \A i \in 1..m : 1 + i - 1 = i
      BY <1>1
    <2>4. QED
      BY <2>2, <2>3
  <1> HIDE DEF taken, all
  <1>5. starved' \in BOOLEAN
    BY <1>2
  <1>6. silent' \in 0..frames
    BY <1>1, <1>2, <1>4
  <1>7. heard' = heard \/ \E k \in 1..Len(values) : heard' = values[k]
    <2>1. CASE taken = <<>>
      BY <1>2, <2>1
    <2>2. CASE taken # <<>>
      <3>1. m \in 1..Len(values) /\ heard' = values[m]
        BY <1>1, <1>2, <1>4, <2>2
      <3>2. QED
        BY <3>1
    <2>3. QED
      BY <2>1, <2>2
  <1>8. ASSUME forward = TRUE, Sorted(values), \A k \in 1..Len(values) : heard <= values[k]
        PROVE  forward' = TRUE
    <2>1. <<heard>> \in Seq(Int) /\ Len(<<heard>>) = 1 /\ <<heard>>[1] = heard
      OBVIOUS
    <2>2. /\ Len(all) = 1 + m
          /\ \A k \in 1..(1 + m) : all[k] = IF k <= 1 THEN <<heard>>[k] ELSE taken[k - 1]
      BY <1>4, <2>1, ConcatProperties DEF all
    <2>3. ASSUME NEW k \in 2..(1 + m) PROVE all[k - 1] <= all[k]
      <3>1. k - 1 \in 1..m /\ k \in 1..(1 + m) /\ k - 1 \in 1..(1 + m) /\ ~(k <= 1)
            /\ k - 1 \in 1..Len(values)
        BY <1>1
      <3>2. all[k] = values[k - 1]
        BY <1>4, <2>2, <3>1
      <3>3. CASE k = 2
        <4>1. all[k - 1] = heard
          BY <2>1, <2>2, <3>1, <3>3
        <4>2. QED
          BY <1>8, <3>1, <3>2, <4>1
      <3>4. CASE k # 2
        <4>1. k - 2 \in 1..m /\ ~(k - 1 <= 1) /\ k - 1 - 1 = k - 2 /\ k - 2 \in 1..Len(values)
              /\ k - 2 <= k - 1
          BY <1>1, <3>4
        <4>2. all[k - 1] = values[k - 2]
          BY <1>4, <2>2, <3>1, <4>1
        <4>3. QED
          BY <1>8, <3>1, <3>2, <4>1, <4>2 DEF Sorted
      <3>5. QED
        BY <3>3, <3>4
    <2>4. Ascending(all)
      BY <2>2, <2>3 DEF Ascending
    <2>5. QED
      BY <1>2, <1>8, <2>4
  <1>9. QED
    BY <1>1, <1>3, <1>5, <1>6, <1>7, <1>8 DEF g

-----------------------------------------------------------------------------
(* Types and bounds. *)

EncoderTypes ==
    /\ encoder \in [bps : {Bitrate, 16, 12}, refused : BOOLEAN]
    /\ streak \in 0..CodecReset

SoundBounds ==
    /\ side \in {"playback", "capture", "tone"}
    /\ Len(ring) <= RingSize
    /\ resets \in 0..MaxReset /\ mic \in 0..MaxMic
    /\ starved \in BOOLEAN /\ silent \in 0..(MaxFrames + FrameSize)
    /\ heard \in Int /\ forward \in BOOLEAN

\* The retries and the failures of an encoder.
LEMMA EncodeFrameTypes ==
  ASSUME EncoderTypes, EncodeFrame
  PROVE  EncoderTypes'
  <1> DEFINE Bps == {Bitrate, 16, 12}
  <1>1. encoder.bps \in Bps /\ encoder.refused \in BOOLEAN /\ streak \in Nat
        /\ CodecReset \in Nat \ {0}
    BY PlayoutConstants DEF EncoderTypes
  <1>2. PICK e \in Encodings(encoder.bps) :
           \/ /\ encoder' = [e.encoder EXCEPT !.refused = @ \/ encoder.refused]
              /\ streak' = 0 \/ streak' = AtMost(streak + 1, CodecReset)
           \/ encoder' = NewEncoder /\ streak' = 0
    BY DEF EncodeFrame
  <1>3. streak' \in 0..CodecReset
    BY <1>1, <1>2 DEF AtMost
  <1>4. \A k \in Attempts : RateOfAttempt(encoder.bps, k) \in Bps
    BY <1>1 DEF RateOfAttempt, Attempts
  <1>5. e.encoder \in [bps : Bps, refused : BOOLEAN]
    <2>1. \/ \E k \in {0, 1} :
                e = [ok |-> FALSE,
                     encoder |-> [bps |-> RateOfAttempt(encoder.bps, k), refused |-> TRUE]]
          \/ \E ok \in BOOLEAN, k \in Attempts :
                \E x \in SetBack(ok, encoder.bps, k) : e = [ok |-> ok, encoder |-> x]
      BY <1>2, SMT DEF Encodings
    <2>2. ASSUME NEW k \in {0, 1},
                 e = [ok |-> FALSE,
                      encoder |-> [bps |-> RateOfAttempt(encoder.bps, k), refused |-> TRUE]]
          PROVE  e.encoder \in [bps : Bps, refused : BOOLEAN]
      BY <1>4, <2>2 DEF Attempts
    <2>3. ASSUME NEW ok \in BOOLEAN, NEW k \in Attempts, NEW x \in SetBack(ok, encoder.bps, k),
                 e = [ok |-> ok, encoder |-> x]
          PROVE  e.encoder \in [bps : Bps, refused : BOOLEAN]
      <3>1. \/ x = [bps |-> encoder.bps, refused |-> FALSE]
            \/ x = [bps |-> RateOfAttempt(encoder.bps, k), refused |-> TRUE]
        BY <2>3 DEF SetBack
      <3>2. RateOfAttempt(encoder.bps, k) \in Bps
        BY <1>4
      <3> HIDE DEF Bps
      <3>3. x \in [bps : Bps, refused : BOOLEAN]
        <4>1. CASE x = [bps |-> encoder.bps, refused |-> FALSE]
          BY <1>1, <4>1
        <4>2. CASE x = [bps |-> RateOfAttempt(encoder.bps, k), refused |-> TRUE]
          BY <3>2, <4>2
        <4>3. QED
          BY <3>1, <4>1, <4>2
      <3>4. QED
        BY <2>3, <3>3
    <2>4. QED
      BY <2>1, <2>2, <2>3
  <1>6. encoder' \in [bps : Bps, refused : BOOLEAN]
    <2>1. CASE encoder' = NewEncoder
      BY <2>1 DEF NewEncoder
    <2>2. CASE encoder' = [e.encoder EXCEPT !.refused = @ \/ encoder.refused]
      <3> HIDE DEF Bps
      <3>1. (e.encoder.refused \/ encoder.refused) \in BOOLEAN
        BY <1>1, <1>5
      <3>2. QED
        BY <1>5, <2>2, <3>1
    <2>3. QED
      BY <1>2, <2>1, <2>2
  <1>7. QED
    BY <1>3, <1>6 DEF EncoderTypes

\* Every action keeps them.
LEMMA BoundsStep ==
  ASSUME SoundInv, SoundInv', SoundBounds, EncoderTypes, [SoundNext]_vars
  PROVE  SoundBounds' /\ EncoderTypes'
  <1>0. /\ ring \in Seq(Int) /\ expected \in Int
        /\ MaxFrames \in Nat /\ FrameSize \in Nat /\ RingSize \in Nat
    BY PlayoutConstants DEF SoundInv
  <1>1. CASE UNCHANGED sound_vars
    <2>1. UNCHANGED <<side, ring, resets, mic, starved, silent, encoder, streak, heard, forward>>
      BY <1>1 DEF sound_vars, encoder_vars
    <2>2. QED
      BY <2>1 DEF SoundBounds, EncoderTypes
  <1>2. ASSUME NEW n \in Int, PushFrame(n) PROVE SoundBounds' /\ EncoderTypes'
    <2>1. Len(ring') <= RingSize
      <3>1. SamplesOf(n) \in Seq(Int)
        BY SamplesType
      <3>2. QED
        BY <1>0, <1>2, <3>1, PushedElements DEF PushFrame, SoundBounds
    <2>2. UNCHANGED <<side, resets, mic, starved, silent, encoder, streak, heard, forward>>
      BY <1>2 DEF PushFrame, encoder_vars
    <2>3. QED
      BY <2>1, <2>2 DEF SoundBounds, EncoderTypes
  <1>3. CASE ReplaceBuffer
    <2>1. resets' = resets + 1 /\ resets < MaxReset /\ MaxReset \in Nat
      BY <1>3, PlayoutConstants DEF ReplaceBuffer
    <2>2. UNCHANGED <<side, ring, mic, starved, silent, encoder, streak, heard, forward>>
      BY <1>3 DEF ReplaceBuffer, encoder_vars
    <2>3. QED
      BY <2>1, <2>2 DEF SoundBounds, EncoderTypes
  <1>4. ASSUME NEW wanted \in Nat, NEW values \in Seq(Int), NEW frames \in Nat,
               frames <= MaxFrames \/ frames = FrameSize,
               Take(wanted, values, frames), UNCHANGED <<side, resets, mic>>
        PROVE  SoundBounds'
    <2>1. /\ Len(ring') = Len(ring) - Got(wanted) /\ Got(wanted) \in 0..Len(ring)
          /\ starved' \in BOOLEAN /\ silent' \in 0..frames
          /\ heard' = heard \/ \E k \in 1..Len(values) : heard' = values[k]
      BY <1>0, <1>4, TakeElements DEF SoundBounds
    <2>2. Len(ring') <= RingSize
      <3>1. Len(ring) \in Nat /\ Len(ring) <= RingSize
        BY <1>0 DEF SoundBounds
      <3>2. QED
        BY <1>0, <2>1, <3>1
    <2>3. silent' \in 0..(MaxFrames + FrameSize)
      BY <1>0, <1>4, <2>1
    <2>4. heard' \in Int
      BY <2>1, SMTT(30) DEF SoundBounds
    <2>5. forward' \in BOOLEAN
      <3>1. forward' = (forward /\ Ascending(<<heard>> \o SubSeq(values, 1, AtMost(Len(values), frames))))
        BY <1>4, Zenon DEF Take
      <3>2. QED
        BY <3>1 DEF SoundBounds
    <2>6. QED
      BY <1>4, <2>1, <2>2, <2>3, <2>4, <2>5 DEF SoundBounds
  <1>5. CASE CaptureTick
    <2>1. Front(Got(FrameSize)) \in Seq(Int)
      BY <1>0, FrontType
    <2>2. SoundBounds'
      BY <1>0, <1>4, <1>5, <2>1 DEF CaptureTick
    <2>3. EncoderTypes'
      BY <1>5, EncodeFrameTypes DEF CaptureTick
    <2>4. QED
      BY <2>2, <2>3
  <1>6. CASE ToneTick
    <2>1. EncoderTypes'
      BY <1>6, EncodeFrameTypes DEF ToneTick
    <2>2. UNCHANGED <<side, ring, resets, mic, starved, silent, heard, forward>>
      BY <1>6 DEF ToneTick
    <2>3. QED
      BY <2>1, <2>2 DEF SoundBounds
  <1>7. ASSUME NEW frames \in 1..MaxFrames, FillBuffer(frames)
        PROVE  SoundBounds' /\ EncoderTypes'
    <2> DEFINE wanted == Needed(rate, frames)
               values == Resampled(Front(Got(wanted)))
    <2>1. wanted \in Nat /\ frames \in Nat /\ frames <= MaxFrames
      BY <1>0, NeededType
    <2>2. values \in Seq(Int)
      BY <1>0, <2>1, FrontType, ResampledType
    <2>3. Take(wanted, values, frames) /\ UNCHANGED <<side, resets, mic>> /\ UNCHANGED encoder_vars
      BY <1>7 DEF FillBuffer
    <2> HIDE DEF wanted, values
    <2>4. SoundBounds'
      BY <1>4, <2>1, <2>2, <2>3
    <2>5. QED
      BY <2>3, <2>4 DEF EncoderTypes, encoder_vars
  <1>8. ASSUME NEW frames \in 1..MaxFrames, TakeBuffer(frames)
        PROVE  SoundBounds' /\ EncoderTypes'
    <2> DEFINE chunk == [k \in 1..frames |-> mic + k]
    <2>1. frames \in Nat /\ MaxMic \in Nat /\ mic \in Nat
      BY <1>0, PlayoutConstants DEF SoundInv
    <2>2. mic' \in 0..MaxMic
      BY <1>8, <2>1 DEF TakeBuffer
    <2>3. Len(ring') <= RingSize
      <3>1. chunk \in Seq(Int)
        <4>1. chunk \in [1..frames -> Int]
          BY <2>1
        <4>2. QED
          BY <2>1, <4>1
      <3>2. ring' = Pushed(Resampled(chunk))
        BY <1>8 DEF TakeBuffer
      <3> HIDE DEF chunk
      <3>3. QED
        BY <1>0, <3>1, <3>2, ResampledType, PushedElements DEF SoundBounds
    <2>4. UNCHANGED <<side, resets, starved, silent, encoder, streak, heard, forward>>
      BY <1>8 DEF TakeBuffer, encoder_vars
    <2>5. QED
      BY <2>2, <2>3, <2>4 DEF SoundBounds, EncoderTypes
  <1>9. CASE PlayIntoRing \/ ConcealIntoRing
    <2>1. NextSlot(jb) \in Int
      BY ReadType
    <2>2. QED
      BY <1>0, <1>2, <1>9, <2>1 DEF PlayIntoRing, ConcealIntoRing
  <1>10. QED
    BY <1>1, <1>3, <1>5, <1>6, <1>7, <1>8, <1>9 DEF SoundNext, Receive, vars

LEMMA BoundsStart == SoundInit => SoundBounds /\ EncoderTypes
  <1> SUFFICES ASSUME SoundInit PROVE SoundBounds /\ EncoderTypes
    OBVIOUS
  <1>1. /\ RingSize \in Nat /\ MaxReset \in Nat /\ MaxMic \in Nat /\ MaxFrames \in Nat
        /\ FrameSize \in Nat /\ CodecReset \in Nat
    BY PlayoutConstants
  <1>2. Len(ring) = 0
    BY DEF SoundInit
  <1>3. SoundBounds
    <2>1. 0 \in 0..MaxReset /\ 0 \in 0..MaxMic /\ 0 \in 0..(MaxFrames + FrameSize)
      BY <1>1
    <2>2. Len(ring) <= RingSize
      BY <1>1, <1>2
    <2>3. /\ resets \in 0..MaxReset /\ mic \in 0..MaxMic /\ silent \in 0..(MaxFrames + FrameSize)
      <3>1. resets = 0 /\ mic = 0 /\ silent = 0
        BY DEF SoundInit
      <3>2. QED
        BY <2>1, <3>1
    <2>4. heard \in Int /\ side \in {"playback", "capture", "tone"}
      BY DEF SoundInit
    <2>5. starved \in BOOLEAN /\ forward \in BOOLEAN
      BY Zenon DEF SoundInit
    <2>6. QED
      BY <2>2, <2>3, <2>4, <2>5 DEF SoundBounds
  <1>4. QED
    BY <1>1, <1>3 DEF SoundInit, NewEncoder, EncoderTypes

\* All that is known of the client's sound at any time.
LEMMA SoundInvariant == SoundSpec => [](SoundInv /\ StreamInv /\ SoundBounds /\ EncoderTypes)
  <1>1. SoundSpec => []StreamInv
    BY StreamStart, StreamStep, SoundStreams, PTL DEF Spec
  <1>2. SoundInv /\ SoundBounds /\ EncoderTypes /\ [SoundNext]_vars
          => SoundInv' /\ SoundBounds' /\ EncoderTypes'
    BY SoundStep, BoundsStep
  <1>3. QED
    BY <1>1, <1>2, SoundStart, BoundsStart, PTL DEF SoundSpec

\* Every variable has its type: the ring never holds more than it has room for,
\* no callback counts more silence than its buffer has frames, the encoder has
\* one of the three bit rates, and the failures counted stay within the limit.
THEOREM SoundTypeCorrect == SoundSpec => []SoundTypeOK
  <1>1. SoundInv /\ StreamInv /\ SoundBounds /\ EncoderTypes => SoundTypeOK
    BY DEF SoundInv, StreamInv, SoundBounds, EncoderTypes, SoundTypeOK, TypeOK
  <1>2. QED
    BY <1>1, SoundInvariant, PTL

-----------------------------------------------------------------------------
(* What is heard is in order: the invariant. *)

Scale == IF IsIdentity(rate) THEN 1 ELSE rate.dst

\* What a sample of the ring is counted in when it is heard.
Unit == IF side = "playback" THEN Scale ELSE 1

\* Nothing later than this has been pushed.
Top == IF side = "playback" THEN (resets * (Last + 2) + expected) * FrameSize ELSE mic * Scale

\* The ring is in order, after what was heard and before what is to come.
OrderInv ==
    /\ forward = TRUE /\ Sorted(ring)
    /\ heard <= Top * Unit
    /\ \A i \in 1..Len(ring) : heard <= ring[i] * Unit /\ ring[i] <= Top

\* What is known of every variable.
Known == SoundInv /\ StreamInv /\ SoundBounds

LEMMA UnitTypes ==
  ASSUME Known
  PROVE  /\ Scale \in Nat \ {0} /\ Unit \in Nat \ {0} /\ Top \in Int
         /\ ring \in Seq(Int) /\ Len(ring) \in Nat /\ heard \in Int /\ Len(ring) <= RingSize
         /\ \A i \in 1..Len(ring) : ring[i] \in Int
         /\ FrameSize \in Nat \ {0} /\ Last + 2 \in Nat /\ resets * (Last + 2) \in Nat
  <1>1. rate \in Rate /\ ring \in Seq(Int) /\ resets \in Nat /\ mic \in Nat /\ expected \in Nat
        /\ FrameSize \in Nat \ {0} /\ Last + 2 \in Nat
    BY PlayoutConstants, StreamConstants, SMTT(30) DEF Known, SoundInv, StreamInv
  <1>2. Scale \in Nat \ {0}
    BY <1>1 DEF Scale, Rate
  <1>3. Unit \in Nat \ {0}
    BY <1>2 DEF Unit
  <1>4. resets * (Last + 2) \in Nat
    BY <1>1
  <1>5. Top \in Int
    <2>1. PICK r \in Nat : r = resets * (Last + 2)
      BY <1>4
    <2>2. (r + expected) * FrameSize \in Int /\ mic * Scale \in Int
      BY <1>1, <1>2
    <2>3. QED
      BY <2>1, <2>2 DEF Top
  <1>6. QED
    BY <1>1, <1>2, <1>3, <1>4, <1>5 DEF Known, SoundBounds

\* A chunk through the resampler, or around it, keeps its order and its span.
LEMMA ResampledOrder ==
  ASSUME Known, NEW input \in Seq(Int), Sorted(input)
  PROVE  /\ Resampled(input) \in Seq(Int) /\ Sorted(Resampled(input))
         /\ Spanned(Resampled(input), input, Scale)
  <1>1. rate \in Rate /\ pos \in 0..(rate.src - 1)
    BY PlayoutConstants DEF Known, SoundInv
  <1>2. Resampled(input) \in Seq(Int)
    BY ResampledType DEF Known
  <1>3. CASE IsIdentity(rate)
    <2>1. Resampled(input) = input /\ Scale = 1
      BY <1>3 DEF Resampled, Scale
    <2>2. \A k \in 1..Len(input) : input[k] * 1 = input[k] /\ input[k] <= input[k]
      OBVIOUS
    <2>3. Spanned(input, input, 1)
      BY <2>2 DEF Spanned
    <2>4. QED
      BY <1>2, <2>1, <2>3
  <1>4. CASE ~IsIdentity(rate)
    <2>1. Resampled(input) = Processed(rate, pos, input) /\ Scale = rate.dst
      BY <1>4 DEF Resampled, Scale
    <2>2. QED
      BY <1>1, <1>2, <2>1, ProcessedOrder
  <1>5. QED
    BY <1>3, <1>4

\* A push of later samples, that nothing comes before any more.
LEMMA PushOrders ==
  ASSUME Known, OrderInv, NEW samples \in Seq(Int), Sorted(samples), NEW t \in Int, Top <= t,
         \A k \in 1..Len(samples) : Top <= samples[k] /\ samples[k] <= t,
         ring' = Pushed(samples)
  PROVE  /\ Sorted(ring')
         /\ heard <= t * Unit
         /\ \A i \in 1..Len(ring') : heard <= ring'[i] * Unit /\ ring'[i] <= t
  <1>1. /\ Unit \in Nat /\ Top \in Int /\ ring \in Seq(Int) /\ Len(ring) \in Nat /\ heard \in Int
        /\ Len(ring) <= RingSize /\ \A i \in 1..Len(ring) : ring[i] \in Int
    BY UnitTypes
  <1>2. /\ Len(ring') \in Nat /\ Len(ring') <= Len(ring) + Len(samples)
        /\ \A k \in 1..Len(ring') :
              ring'[k] = IF k <= Len(ring) THEN ring[k] ELSE samples[k - Len(ring)]
    BY <1>1, PushedElements
  <1>3. Len(samples) \in Nat /\ \A k \in 1..Len(samples) : samples[k] \in Int
    OBVIOUS
  <1>4. \A k \in 1..Len(ring') : \/ k \in 1..Len(ring) /\ ring'[k] = ring[k]
                                 \/ /\ k > Len(ring) /\ k - Len(ring) \in 1..Len(samples)
                                    /\ ring'[k] = samples[k - Len(ring)]
    BY <1>1, <1>2, <1>3
  <1>5. heard <= Top * Unit /\ Top * Unit \in Int /\ t * Unit \in Int /\ Top * Unit <= t * Unit
    BY <1>1, Times DEF OrderInv
  <1>6. ASSUME NEW k \in 1..Len(samples) PROVE heard <= samples[k] * Unit
    <2>1. Top * Unit <= samples[k] * Unit /\ samples[k] * Unit \in Int
      BY <1>1, <1>3, Times
    <2>2. QED
      BY <1>1, <1>5, <2>1
  <1>7. ASSUME NEW i \in 1..Len(ring') PROVE heard <= ring'[i] * Unit /\ ring'[i] <= t
    <2>1. CASE i \in 1..Len(ring) /\ ring'[i] = ring[i]
      BY <1>1, <2>1 DEF OrderInv
    <2>2. CASE i - Len(ring) \in 1..Len(samples) /\ ring'[i] = samples[i - Len(ring)]
      BY <1>6, <2>2
    <2>3. QED
      BY <1>4, <2>1, <2>2
  <1>8. ASSUME NEW i \in 1..Len(ring'), NEW j \in 1..Len(ring'), i <= j
        PROVE  ring'[i] <= ring'[j]
    <2>1. CASE j \in 1..Len(ring) /\ ring'[j] = ring[j]
      <3>1. i \in 1..Len(ring) /\ ring'[i] = ring[i]
        BY <1>1, <1>2, <1>8, <2>1
      <3>2. QED
        BY <1>8, <2>1, <3>1 DEF OrderInv, Sorted
    <2>2. CASE j - Len(ring) \in 1..Len(samples) /\ ring'[j] = samples[j - Len(ring)]
      <3>1. CASE i \in 1..Len(ring) /\ ring'[i] = ring[i]
        <4>1. ring[i] <= Top /\ Top <= samples[j - Len(ring)]
          BY <2>2, <3>1 DEF OrderInv
        <4>2. QED
          BY <1>1, <1>3, <2>2, <3>1, <4>1, SMTT(30)
      <3>2. CASE i - Len(ring) \in 1..Len(samples) /\ ring'[i] = samples[i - Len(ring)]
        <4>1. i - Len(ring) <= j - Len(ring)
          BY <1>1, <1>8
        <4>2. QED
          BY <2>2, <3>2, <4>1 DEF Sorted
      <3>3. QED
        BY <1>4, <3>1, <3>2
    <2>3. QED
      BY <1>4, <2>1, <2>2
  <1>9. heard <= t * Unit
    <2>1. PICK x \in Int, y \in Int : x = Top * Unit /\ y = t * Unit
      BY <1>5
    <2>2. heard <= y
      BY <1>1, <1>5, <2>1
    <2>3. QED
      BY <2>1, <2>2
  <1>10. Sorted(ring')
    BY <1>8 DEF Sorted
  <1>11. QED
    BY <1>7, <1>9, <1>10

\* A taker that hears the front of the ring, or what was made of it.
LEMMA TakeOrders ==
  ASSUME Known, OrderInv, NEW wanted \in Nat, NEW frames \in Nat, NEW values \in Seq(Int),
         Sorted(values), Spanned(values, Front(Got(wanted)), Unit),
         Take(wanted, values, frames)
  PROVE  /\ forward' = TRUE /\ Sorted(ring')
         /\ heard' <= Top * Unit
         /\ \A i \in 1..Len(ring') : heard' <= ring'[i] * Unit /\ ring'[i] <= Top
  <1> DEFINE g == Got(wanted)
             front == Front(g)
  <1>1. /\ Unit \in Nat /\ Top \in Int /\ ring \in Seq(Int) /\ Len(ring) \in Nat /\ heard \in Int
        /\ \A i \in 1..Len(ring) : ring[i] \in Int
    BY UnitTypes
  <1>2. g \in 0..Len(ring) /\ g \in Nat
    BY <1>1 DEF Got, AtMost
  <1>3. Len(front) = g /\ \A i \in 1..g : front[i] = ring[i]
    <2>1. \A i \in 1..g : ring[i] \in Int
      BY <1>1, <1>2
    <2> HIDE DEF g
    <2>2. /\ Len(SubSeq(ring, 1, g)) = (IF 1 <= g THEN g - 1 + 1 ELSE 0)
          /\ \A i \in 1..(g - 1 + 1) : SubSeq(ring, 1, g)[i] = ring[1 + i - 1]
      BY <1>2, <2>1, SubSeqProperties
    <2>3. g - 1 + 1 = g /\ (~(1 <= g) => g = 0) /\ \A i \in 1..g : 1 + i - 1 = i
      BY <1>2
    <2>4. QED
      BY <2>2, <2>3 DEF Front
  <1>4. /\ ring' \in Seq(Int) /\ Len(ring') = Len(ring) - g
        /\ \A k \in 1..Len(ring') : ring'[k] = ring[k + g]
        /\ heard' = heard \/ \E k \in 1..Len(values) : heard' = values[k]
        /\ (\A k \in 1..Len(values) : heard <= values[k]) => forward' = TRUE
    BY <1>1, TakeElements DEF OrderInv
  <1> HIDE DEF g, front
  <1>5. \A k \in 1..Len(values) : values[k] \in Int
    OBVIOUS
  <1>6. ASSUME NEW k \in 1..Len(values)
        PROVE  \E i, j \in 1..g : ring[i] * Unit <= values[k] /\ values[k] <= ring[j] * Unit
    <2>1. PICK i \in 1..Len(front), j \in 1..Len(front) :
             front[i] * Unit <= values[k] /\ values[k] <= front[j] * Unit
      BY DEF Spanned, front, g
    <2>2. QED
      BY <1>3, <2>1
  <1>7. ASSUME NEW k \in 1..Len(values)
        PROVE  heard <= values[k]
    <2>1. PICK i \in 1..g : ring[i] * Unit <= values[k]
      BY <1>6
    <2>2. i \in 1..Len(ring) /\ ring[i] \in Int
      BY <1>1, <1>2
    <2>3. heard <= ring[i] * Unit /\ ring[i] * Unit \in Int /\ values[k] \in Int
      BY <1>1, <1>5, <2>2, SMTT(30) DEF OrderInv
    <2>4. QED
      BY <1>1, <2>1, <2>3
  <1>8. forward' = TRUE
    BY <1>4, <1>7
  <1>9. \A k \in 1..Len(ring') : k + g \in 1..Len(ring)
    BY <1>1, <1>2, <1>4
  <1>10. Sorted(ring')
    <2>1. ASSUME NEW i \in 1..Len(ring'), NEW j \in 1..Len(ring'), i <= j
          PROVE  ring'[i] <= ring'[j]
      <3>1. i + g <= j + g /\ i + g \in 1..Len(ring) /\ j + g \in 1..Len(ring)
        BY <1>2, <1>9, <2>1
      <3>2. QED
        BY <1>4, <3>1 DEF OrderInv, Sorted
    <2>2. QED
      BY <2>1 DEF Sorted
  <1>11. \A i \in 1..Len(ring') : ring'[i] = ring[i + g] /\ ring'[i] <= Top /\ ring'[i] \in Int
    BY <1>1, <1>4, <1>9 DEF OrderInv
  <1>12. CASE heard' = heard
    <2>1. \A i \in 1..Len(ring') : heard <= ring[i + g] * Unit
      BY <1>9 DEF OrderInv
    <2>2. QED
      BY <1>8, <1>10, <1>11, <1>12, <2>1 DEF OrderInv
  <1>13. ASSUME NEW k \in 1..Len(values), heard' = values[k]
         PROVE  /\ heard' <= Top * Unit
                /\ \A i \in 1..Len(ring') : heard' <= ring'[i] * Unit
    <2>1. PICK j \in 1..g : values[k] <= ring[j] * Unit
      BY <1>6
    <2>2. j \in 1..Len(ring) /\ ring[j] \in Int /\ values[k] \in Int /\ ring[j] * Unit \in Int
      BY <1>1, <1>2, <1>5, SMTT(30)
    <2>3. ring[j] <= Top
      BY <2>2 DEF OrderInv
    <2>4. ring[j] * Unit <= Top * Unit /\ Top * Unit \in Int
      BY <1>1, <2>2, <2>3, Times
    <2>5. heard' <= Top * Unit
      BY <1>13, <2>1, <2>2, <2>4
    <2>6. ASSUME NEW i \in 1..Len(ring') PROVE heard' <= ring'[i] * Unit
      <3>1. j <= i + g /\ i + g \in 1..Len(ring)
        BY <1>2, <1>9
      <3>2. ring[j] <= ring'[i] /\ ring'[i] \in Int
        BY <1>11, <2>2, <3>1 DEF OrderInv, Sorted
      <3>3. ring[j] * Unit <= ring'[i] * Unit /\ ring'[i] * Unit \in Int
        BY <1>1, <2>2, <3>2, Times
      <3>4. QED
        BY <1>13, <2>1, <2>2, <3>3
    <2>7. QED
      BY <2>5, <2>6
  <1>14. QED
    BY <1>4, <1>8, <1>10, <1>11, <1>12, <1>13

\* A change that brings in nothing earlier than what is there.
LEMMA RaiseTop ==
  ASSUME Known, OrderInv, UNCHANGED <<ring, heard, forward>>, Unit' = Unit,
         Top' \in Int, Top <= Top'
  PROVE  OrderInv'
  <1>1. /\ Unit \in Nat /\ Top \in Int /\ ring \in Seq(Int) /\ Len(ring) \in Nat /\ heard \in Int
        /\ \A i \in 1..Len(ring) : ring[i] \in Int
    BY UnitTypes
  <1>2. PICK x \in Int, y \in Int : x = Top * Unit /\ y = Top' * Unit /\ x <= y
    BY <1>1, Times
  <1>3. heard' <= Top' * Unit
    <2>1. heard <= x /\ heard' = heard
      BY <1>2 DEF OrderInv
    <2>2. heard \in Int /\ x <= y
      BY <1>1, <1>2
    <2>3. heard <= y
      BY <2>1, <2>2
    <2>4. QED
      BY <1>2, <2>1, <2>3
  <1>4. \A i \in 1..Len(ring) : ring[i] <= Top'
    BY <1>1 DEF OrderInv
  <1>5. QED
    BY <1>3, <1>4 DEF OrderInv, Sorted

\* The same step, of a push.
LEMMA PushKeepsOrder ==
  ASSUME Known, OrderInv, NEW samples \in Seq(Int), Sorted(samples), Unit' = Unit,
         Top' \in Int, Top <= Top',
         \A k \in 1..Len(samples) : Top <= samples[k] /\ samples[k] <= Top',
         ring' = Pushed(samples), UNCHANGED <<heard, forward>>
  PROVE  OrderInv'
  <1>1. /\ Sorted(ring')
        /\ heard <= Top' * Unit
        /\ \A i \in 1..Len(ring') : heard <= ring'[i] * Unit /\ ring'[i] <= Top'
    BY PushOrders
  <1>2. Sorted(ring)'
    BY <1>1 DEF Sorted
  <1>3. QED
    BY <1>1, <1>2 DEF OrderInv

\* The same step, of a taker.
LEMMA TakeKeepsOrder ==
  ASSUME Known, OrderInv, NEW wanted \in Nat, NEW frames \in Nat, NEW values \in Seq(Int),
         Sorted(values), Spanned(values, Front(Got(wanted)), Unit),
         Take(wanted, values, frames), Unit' = Unit, Top' = Top
  PROVE  OrderInv'
  <1>1. /\ forward' = TRUE /\ Sorted(ring')
        /\ heard' <= Top * Unit
        /\ \A i \in 1..Len(ring') : heard' <= ring'[i] * Unit /\ ring'[i] <= Top
    BY TakeOrders
  <1>2. Sorted(ring)'
    BY <1>1 DEF Sorted
  <1>3. QED
    BY <1>1, <1>2 DEF OrderInv

\* What a ring in order is popped of is in order.
LEMMA FrontOrder ==
  ASSUME Known, OrderInv, NEW wanted \in Nat
  PROVE  Front(Got(wanted)) \in Seq(Int) /\ Sorted(Front(Got(wanted)))
  <1> DEFINE g == Got(wanted)
             front == Front(g)
  <1>1. ring \in Seq(Int) /\ Len(ring) \in Nat /\ \A i \in 1..Len(ring) : ring[i] \in Int
    BY UnitTypes
  <1>2. g \in 0..Len(ring)
    BY <1>1 DEF Got, AtMost
  <1>3. front \in Seq(Int) /\ Len(front) = g
    BY <1>1, FrontType
  <1> HIDE DEF g
  <1>4. \A i \in 1..g : front[i] = ring[i]
    <2>1. \A i \in 1..g : ring[i] \in Int
      BY <1>1, <1>2
    <2>2. \A i \in 1..(g - 1 + 1) : SubSeq(ring, 1, g)[i] = ring[1 + i - 1]
      BY <1>2, <2>1, SubSeqProperties
    <2>3. g - 1 + 1 = g /\ \A i \in 1..g : 1 + i - 1 = i
      BY <1>2
    <2>4. QED
      BY <2>2, <2>3 DEF Front
  <1>5. \A i \in 1..g : i \in 1..Len(ring)
    BY <1>1, <1>2
  <1>6. Sorted(front)
    <2> HIDE DEF front
    <2>1. ASSUME NEW i \in 1..g, NEW j \in 1..g, i <= j PROVE front[i] <= front[j]
      BY <1>4, <1>5, <2>1 DEF OrderInv, Sorted
    <2>2. QED
      BY <1>3, <2>1 DEF Sorted
  <1>7. QED
    BY <1>3, <1>6 DEF g

\* A sequence is between its own samples.
LEMMA SpansItself ==
  ASSUME NEW values \in Seq(Int)
  PROVE  Spanned(values, values, 1)
  <1>1. \A k \in 1..Len(values) : values[k] \in Int
    OBVIOUS
  <1>2. \A k \in 1..Len(values) : values[k] * 1 = values[k] /\ values[k] <= values[k]
    BY <1>1
  <1>3. QED
    BY <1>2 DEF Spanned

\* A frame goes into the ring behind everything before it.
LEMMA FrameOrder ==
  ASSUME Known, OrderInv, PushFrame(expected), expected' = expected + 1
  PROVE  OrderInv'
  <1> DEFINE samples == SamplesOf(expected)
  <1>1. PICK f \in Nat \ {0}, r \in Nat : f = FrameSize /\ r = resets * (Last + 2)
    BY UnitTypes
  <1>2. PICK e \in Nat : e = expected
    BY DEF Known, StreamInv
  <1>3. PICK u \in Int : u = (r + e) * f
    OBVIOUS
  <1>4. side = "playback" /\ side' = side /\ rate' = rate /\ resets' = resets
    BY DEF PushFrame
  <1>5. Top = u
    BY <1>1, <1>2, <1>3, <1>4 DEF Top
  <1>6. Top' = u + f
    <2>1. Top' = (r + (e + 1)) * f
      BY <1>1, <1>2, <1>4 DEF Top
    <2>2. (r + (e + 1)) * f = (r + e) * f + f
      BY <1>1, <1>2
    <2>3. QED
      BY <1>3, <2>1, <2>2
  <1>7. Unit' = Unit
    BY <1>4 DEF Unit, Scale
  <1>8. samples \in Seq(Int)
    BY <1>2, SamplesType DEF Known
  <1>9. samples = [i \in 1..f |-> u + i]
    BY <1>1, <1>2, <1>3 DEF SamplesOf
  <1>10. ring' = Pushed(samples) /\ UNCHANGED <<heard, forward>>
    BY DEF PushFrame
  <1> HIDE DEF samples
  <1>11. Len(samples) = f /\ \A i \in 1..f : samples[i] = u + i
    BY <1>1, <1>9
  <1>12. Sorted(samples)
    BY <1>1, <1>3, <1>11 DEF Sorted
  <1>13. \A k \in 1..Len(samples) : Top <= samples[k] /\ samples[k] <= Top'
    <2>1. \A k \in 1..f : u <= u + k /\ u + k <= u + f
      BY <1>1, <1>3
    <2>2. QED
      BY <1>5, <1>6, <1>11, <2>1
  <1>14. Top' \in Int /\ Top <= Top'
    BY <1>1, <1>3, <1>5, <1>6
  <1>15. QED
    BY <1>7, <1>8, <1>10, <1>12, <1>13, <1>14, PushKeepsOrder

\* An arriving frame only moves reading ahead; a new buffer is numbered behind
\* all of the old one.
LEMMA ArriveOrder ==
  ASSUME Known, OrderInv, Receive
  PROVE  OrderInv'
  <1>1. PICK n \in Frame : Arrive(n)
    BY DEF Receive
  <1>2. expected \in Nat /\ expected' \in Nat /\ expected <= expected'
    <2>1. n \in Nat /\ Depth \in Nat \ {0} /\ expected \in Nat
      BY StreamConstants, JitterConstants DEF Frame, Known, StreamInv
    <2>2. At(n) \in Nat /\ expected <= At(n)
      BY <2>1 DEF At, Known, StreamInv
    <2>3. \/ n < At(n) /\ expected' = expected
          \/ n >= At(n) /\ expected' = IF n >= At(n) + Depth THEN n - Depth + 1 ELSE At(n)
      <3>1. n < At(n) \/ n >= At(n)
        BY <2>1, <2>2
      <3>2. QED
        BY <1>1, <3>1, Inserting DEF Known
    <2>4. QED
      BY <2>1, <2>2, <2>3
  <1>3. UNCHANGED <<side, rate, ring, resets, mic, heard, forward>> /\ side = "playback"
    BY DEF Receive, sound_vars
  <1>4. Unit' = Unit
    BY <1>3 DEF Unit, Scale
  <1>5. Top' \in Int /\ Top <= Top'
    <2>1. PICK f \in Nat, r \in Nat : f = FrameSize /\ r = resets * (Last + 2)
      BY UnitTypes
    <2>2. r + expected \in Int /\ r + expected' \in Int /\ r + expected <= r + expected'
      <3>1. PICK a \in Nat, b \in Nat : a = expected /\ b = expected' /\ a <= b
        BY <1>2
      <3>2. r \in Int /\ r + a \in Int /\ r + b \in Int /\ r + a <= r + b
        BY <2>1, <3>1
      <3>3. QED
        BY <3>1, <3>2
    <2>3. (r + expected') * f \in Int /\ (r + expected) * f <= (r + expected') * f
      BY <2>2, Times
    <2>4. Top = (r + expected) * f /\ Top' = (r + expected') * f
      BY <1>3, <2>1 DEF Top
    <2>5. QED
      BY <2>3, <2>4
  <1>6. QED
    BY <1>3, <1>4, <1>5, RaiseTop

LEMMA ReplaceOrder ==
  ASSUME Known, OrderInv, ReplaceBuffer
  PROVE  OrderInv'
  <1>1. /\ UNCHANGED <<side, rate, ring, mic, heard, forward>> /\ side = "playback"
        /\ resets' = resets + 1 /\ expected' = 0
    BY DEF ReplaceBuffer, ResetBuffer
  <1>2. Unit' = Unit
    BY <1>1 DEF Unit, Scale
  <1>3. PICK f \in Nat, r \in Nat, e \in Nat, l \in Nat :
           f = FrameSize /\ r = resets * (Last + 2) /\ e = expected /\ l = Last + 2 /\ e <= l
    <2>1. expected \in Nat /\ Last \in Nat /\ First \in Nat
      BY StreamConstants DEF Known, StreamInv
    <2>2. expected <= Last + 2
      <3>1. expected \in First..(Last + 1) \/ expected = 0
        BY DEF Known, StreamInv
      <3>2. QED
        BY <2>1, <3>1
    <2>3. QED
      BY <2>1, <2>2, UnitTypes
  <1>4. (resets + 1) * (Last + 2) = r + l
    <2>1. resets \in Int /\ l \in Int
      BY DEF Known, SoundInv
    <2>2. (resets + 1) * l = resets * l + l
      BY <2>1
    <2>3. QED
      BY <1>3, <2>2
  <1>5. Top = (r + e) * f /\ Top' = (r + l + 0) * f
    BY <1>1, <1>3, <1>4 DEF Top
  <1>6. (r + l + 0) * f \in Int /\ (r + e) * f <= (r + l + 0) * f
    <2>1. r + e \in Int /\ r + l + 0 \in Int /\ r + e <= r + l + 0
      BY <1>3
    <2>2. QED
      BY <2>1, Times
  <1>7. QED
    BY <1>1, <1>2, <1>5, <1>6, RaiseTop

\* The two takers.
LEMMA FillOrder ==
  ASSUME Known, OrderInv, NEW frames \in 1..MaxFrames, FillBuffer(frames)
  PROVE  OrderInv'
  <1> DEFINE wanted == Needed(rate, frames)
             front == Front(Got(wanted))
             values == Resampled(front)
  <1>1. wanted \in Nat /\ frames \in Nat
    BY NeededType DEF Known
  <1>2. Take(wanted, values, frames) /\ side = "playback"
        /\ UNCHANGED <<side, rate, resets, mic, expected>>
    BY DEF FillBuffer, stream_vars
  <1> HIDE DEF wanted
  <1>3. front \in Seq(Int) /\ Sorted(front)
    BY <1>1, FrontOrder
  <1>4. values \in Seq(Int) /\ Sorted(values) /\ Spanned(values, front, Scale)
    <2> HIDE DEF front
    <2>1. QED
      BY <1>3, ResampledOrder
  <1>5. Unit = Scale /\ Unit' = Unit /\ Top' = Top
    BY <1>2 DEF Unit, Scale, Top
  <1> HIDE DEF values
  <1>6. QED
    BY <1>1, <1>2, <1>4, <1>5, TakeKeepsOrder

LEMMA TickOrder ==
  ASSUME Known, OrderInv, CaptureTick
  PROVE  OrderInv'
  <1> DEFINE front == Front(Got(FrameSize))
  <1>1. FrameSize \in Nat
    BY UnitTypes
  <1>2. Take(FrameSize, front, FrameSize) /\ side = "capture"
        /\ UNCHANGED <<side, rate, resets, mic, expected>>
    BY DEF CaptureTick, stream_vars
  <1>3. front \in Seq(Int) /\ Sorted(front)
    BY <1>1, FrontOrder
  <1>4. Unit = 1 /\ Unit' = Unit /\ Top' = Top
    BY <1>2 DEF Unit, Scale, Top
  <1>5. Spanned(front, front, Unit)
    BY <1>3, <1>4, SpansItself
  <1>6. QED
    BY <1>1, <1>2, <1>3, <1>4, <1>5, TakeKeepsOrder

\* What the input device gives comes after what it gave.
LEMMA GiveOrder ==
  ASSUME Known, OrderInv, NEW frames \in 1..MaxFrames, TakeBuffer(frames)
  PROVE  OrderInv'
  <1> DEFINE chunk == [k \in 1..frames |-> mic + k]
             samples == Resampled(chunk)
  <1>1. PICK f \in Nat, m \in Nat, u \in Nat \ {0} : f = frames /\ m = mic /\ u = Scale
    <2>1. frames \in Nat /\ mic \in Nat
      BY PlayoutConstants DEF Known, SoundInv
    <2>2. QED
      BY <2>1, UnitTypes
  <1>2. chunk \in Seq(Int) /\ Len(chunk) = f /\ \A k \in 1..f : chunk[k] = m + k
    <2>1. chunk \in [1..f -> Int]
      BY <1>1
    <2>2. QED
      BY <1>1, <2>1
  <1>3. ring' = Pushed(samples) /\ mic' = m + f /\ side = "capture"
        /\ UNCHANGED <<side, rate, heard, forward>>
    BY <1>1 DEF TakeBuffer
  <1> HIDE DEF chunk
  <1>4. Sorted(chunk)
    BY <1>1, <1>2 DEF Sorted
  <1>5. samples \in Seq(Int) /\ Sorted(samples) /\ Spanned(samples, chunk, u)
    BY <1>1, <1>2, <1>4, ResampledOrder
  <1> HIDE DEF samples
  <1>6. Unit' = Unit /\ Top = m * u /\ Top' = (m + f) * u
    BY <1>1, <1>3 DEF Unit, Scale, Top
  <1>7. ASSUME NEW k \in 1..Len(samples) PROVE Top <= samples[k] /\ samples[k] <= Top'
    <2>1. PICK i \in 1..f, j \in 1..f :
             (m + i) * u <= samples[k] /\ samples[k] <= (m + j) * u
      BY <1>2, <1>5 DEF Spanned
    <2>2. m * u <= (m + i) * u /\ (m + j) * u <= (m + f) * u
      <3>1. m <= m + i /\ m + j <= m + f /\ m \in Int /\ m + i \in Int /\ m + j \in Int
            /\ m + f \in Int
        OBVIOUS
      <3>2. QED
        BY <3>1, Times
    <2>3. PICK a \in Int, b \in Int, c \in Int, d \in Int :
             a = m * u /\ b = (m + i) * u /\ c = (m + j) * u /\ d = (m + f) * u
      OBVIOUS
    <2>4. samples[k] \in Int
      BY <1>5
    <2>5. a <= samples[k] /\ samples[k] <= d
      BY <2>1, <2>2, <2>3, <2>4
    <2>6. QED
      BY <1>6, <2>3, <2>5
  <1>8. Top' \in Int /\ Top <= Top'
    <2>1. (m + f) * u \in Int /\ m * u <= (m + f) * u
      <3>1. m <= m + f /\ m \in Int /\ m + f \in Int
        OBVIOUS
      <3>2. QED
        BY <3>1, Times
    <2>2. QED
      BY <1>6, <2>1
  <1>9. QED
    BY <1>3, <1>5, <1>6, <1>7, <1>8, PushKeepsOrder

\* Every action keeps the order.
LEMMA OrderStep == Known /\ OrderInv /\ [SoundNext]_vars => OrderInv'
  <1> SUFFICES ASSUME Known, OrderInv, [SoundNext]_vars PROVE OrderInv'
    OBVIOUS
  <1>1. CASE UNCHANGED vars \/ ToneTick
    <2>1. UNCHANGED <<side, rate, ring, resets, mic, expected, heard, forward>>
      BY <1>1 DEF vars, stream_vars, sound_vars, ToneTick
    <2>2. QED
      BY <2>1 DEF OrderInv, Unit, Scale, Top, Sorted
  <1>2. CASE PlayIntoRing
    <2>1. Play /\ PushFrame(NextSlot(jb)) /\ CanPop(jb) /\ jb.initialized
      BY <1>2 DEF PlayIntoRing, Play, CanPop
    <2>2. NextSlot(jb) = expected
      BY <2>1, Popping DEF Known
    <2>3. QED
      BY <2>1, <2>2, FrameOrder DEF Play
  <1>3. CASE ConcealIntoRing
    BY <1>3, FrameOrder DEF ConcealIntoRing, Conceal
  <1>4. QED
    BY <1>1, <1>2, <1>3, ArriveOrder, ReplaceOrder, FillOrder, TickOrder, GiveOrder DEF SoundNext

LEMMA OrderStart == SoundInit => OrderInv
  <1> SUFFICES ASSUME SoundInit PROVE OrderInv
    OBVIOUS
  <1>1. /\ Len(ring) = 0 /\ resets = 0 /\ mic = 0 /\ expected = 0 /\ heard = 0
        /\ rate \in Rate /\ FrameSize \in Nat /\ Last \in Nat
    BY PlayoutConstants, StreamConstants DEF SoundInit, Init
  <1>2. Scale \in Nat
    BY <1>1 DEF Scale, Rate
  <1>3. Unit \in Nat
    BY <1>2 DEF Unit
  <1>4. Top = 0
    <2>1. 0 * (Last + 2) = 0 /\ (0 + 0) * FrameSize = 0 /\ 0 * Scale = 0
      BY <1>1, <1>2
    <2>2. QED
      BY <1>1, <2>1 DEF Top
  <1>5. heard <= Top * Unit
    <2>1. 0 * Unit = 0
      BY <1>3
    <2>2. QED
      BY <1>1, <1>4, <2>1
  <1>6. \A i \in 1..Len(ring) : FALSE
    BY <1>1
  <1>7. forward = TRUE
    BY DEF SoundInit
  <1>8. QED
    BY <1>5, <1>6, <1>7 DEF OrderInv, Sorted

\* At every ratio of the rates and every size of ring, frame and device buffer,
\* through reordered, lost and late frames and a ring that overflows or runs dry:
\* what is encoded is in the order it was spoken in, and what is heard steps back
\* only where one jitter buffer replaces another. Nothing in the ring is earlier
\* than what was heard, or later than what is still to be pushed.
THEOREM SoundKeepsOrder == SoundSpec => []BackOnlyAtReplacement
  <1>1. SoundSpec => []Known
    BY SoundInvariant, PTL DEF Known
  <1>2. OrderInv => BackOnlyAtReplacement
    BY DEF OrderInv, BackOnlyAtReplacement
  <1>3. SoundSpec => []OrderInv
    BY <1>1, OrderStart, OrderStep, PTL DEF SoundSpec
  <1>4. QED
    BY <1>2, <1>3, PTL
=============================================================================
