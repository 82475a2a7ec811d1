---------------------------- MODULE UpstreamProofs ----------------------------
(***************************************************************************)
(* The frames of a client that arrive in order are never refused as late:  *)
(* for every depth of the jitter buffer, channel, drift of the clocks and  *)
(* number of frames lost for which the sequence numbers suffice.           *)
(***************************************************************************)
EXTENDS Upstream, FiniteSetTheorems, TLAPS

-----------------------------------------------------------------------------
(* The invariant. All is said in ages: how many frames ago a number was    *)
(* sent, the next one having the age 0.                                    *)

\* That many numbers in a row come by every slot, across the wrap too.
Turn == 2 * Depth - 1
Spare(n) == Turn * n

\* There are numbers enough for what is on the way and what is lost: of the 2^32,
\* at a depth of 32, for the loss of some 68 million frames of one stream.
Ample ==
    /\ Turn * (MaxLoss + MaxFlight + 1) < SeqSpace
    /\ Depth + MaxFlight + MaxLoss <= (SeqSpace - 1) \div 2

Age(q, x) == IF x <= q THEN q - x ELSE q - x + SeqSpace
Back(q, a) == IF a <= q THEN q - a ELSE q - a + SeqSpace

\* The frames sent and not yet inserted, the oldest first.
Pending == channel \o flight

\* The age of the frame at place j of p, or of the one to be sent after all.
Gap(q, p, j) == IF j \in 1..Len(p) THEN Age(q, p[j]) ELSE 0

\* The frames after place k of p that go to slot i.
Waiting(p, k, i) == {p[j] : j \in {m \in (k + 1)..Len(p) : Index(p[m]) = i}}

\* Since v was sent, its slot has been sent nothing but n frames, a turn each,
\* that do not count.
Fresh(q, v, n) ==
    \A a \in 1..(Age(q, v) - Spare(n) - 1) : Index(Back(q, a)) # Index(v)

\* The frames on the way are in order, with no more missing than l.
InOrder(q, p, l) ==
    \A i, j \in 1..(Len(p) + 1) : i < j =>
        /\ Gap(q, p, i) > Gap(q, p, j)
        /\ Gap(q, p, i) - Gap(q, p, j) <= (j - i) + l

AllFresh(q, p, l) ==
    \A j \in 1..Len(p) : Fresh(q, p[j], l + Cardinality(Waiting(p, j, Index(p[j]))))

\* When k frames have been inserted, reading is behind all the others, and not
\* by more than the window and what is lost.
ReaderBehind(q, p, l, b, k) ==
    b.initialized =>
        \A j \in (k + 1)..(Len(p) + 1) :
            /\ Age(q, b.read_seq) >= Gap(q, p, j)
            /\ Age(q, b.read_seq) - Gap(q, p, j) <= Depth + (j - k - 1) + l

\* What sits in the slot is older than these, and not old enough to look new.
SlotBehind(q, p, l, b, k, i) ==
    b.slots[i] # NoFrame =>
        /\ b.slots[i] \in Seq32 /\ Index(b.slots[i]) = i
        /\ Age(q, b.slots[i]) > Gap(q, p, k + 1)
        /\ Fresh(q, b.slots[i], l + Cardinality(Waiting(p, k, i)))

Behind(q, p, l, b, k) ==
    /\ ~b.initialized => b = EmptyBuffer
    /\ ReaderBehind(q, p, l, b, k)
    /\ \A i \in Slot : SlotBehind(q, p, l, b, k, i)

UpInv ==
    reordered = 0 =>
        /\ late = 0
        /\ InOrder(sequence, Pending, lost)
        /\ AllFresh(sequence, Pending, lost)
        /\ Behind(sequence, Pending, lost, jb, 0)

-----------------------------------------------------------------------------
(* Arithmetic. *)

\* The constants, as numbers.
LEMMA Numbers ==
  /\ SeqSpace \in Nat /\ SeqSpace >= 2 /\ Depth \in Nat /\ Depth >= 1
  /\ 2 * Depth <= SeqSpace /\ Turn \in Nat /\ Turn >= 1 /\ Turn = 2 * Depth - 1
  /\ Turn < SeqSpace
  /\ MaxLoss \in Nat /\ MaxFlight \in Nat \ {0} /\ ChanCap \in Nat \ {0}
  /\ ResetStreak \in Nat \ {0} /\ MaxReorder \in Nat
  BY JitterConstants, UpstreamConstants DEF Turn

\* A product is ordered as its first factor.
LEMMA SmallerFactor ==
  ASSUME NEW a \in Int, NEW b \in Int, NEW s \in Nat \ {0}, a * s < b * s
  PROVE  a < b
  <1>1. SUFFICES ASSUME b <= a PROVE FALSE
    OBVIOUS
  <1>2. PICK d \in Nat : a = b + d
    <2>1. a - b \in Nat /\ a = b + (a - b)
      BY <1>1
    <2>2. QED
      BY <2>1
  <1>3. a * s = b * s + d * s /\ d * s \in Nat /\ b * s \in Int
    BY <1>2
  <1>4. QED
    BY <1>3

\* There is one remainder.
LEMMA RemainderUnique ==
  ASSUME NEW a \in Int, NEW s \in Nat \ {0}, NEW q \in Int, NEW u \in 0..(s - 1),
         a = q * s + u
  PROVE  a % s = u
  <1>1. PICK p \in Int, v \in 0..(s - 1) : a = p * s + v /\ v = a % s
    <2>1. a \div s \in Int /\ a % s \in 0..(s - 1)
      OBVIOUS
    <2>2. a % s = a - s * (a \div s)
      OBVIOUS
    <2>3. PICK p \in Int, v \in 0..(s - 1) : p = a \div s /\ v = a % s
      BY <2>1
    <2>4. v = a - s * p
      BY <2>2, <2>3
    <2>5. a = p * s + v
      BY <2>4
    <2>6. QED
      BY <2>3, <2>5
  <1>2. (q + 1) * s = q * s + s /\ (p + 1) * s = p * s + s
    OBVIOUS
  <1>3. p * s < (q + 1) * s /\ q * s < (p + 1) * s
    BY <1>1, <1>2
  <1>4. p < q + 1 /\ q < p + 1
    BY <1>3, SmallerFactor
  <1>5. p = q
    BY <1>4
  <1>6. QED
    BY <1>1, <1>5

\* The arithmetic of sequence numbers, around the wrap.
LEMMA Wrapping ==
  ASSUME NEW n \in Int
  PROVE  /\ n \in Seq32 => n % SeqSpace = n
         /\ SeqSpace <= n /\ n < 2 * SeqSpace => n % SeqSpace = n - SeqSpace
         /\ 0 - SeqSpace <= n /\ n < 0 => n % SeqSpace = n + SeqSpace
  <1>1. PICK s \in Nat \ {0} : s = SeqSpace
    BY Numbers
  <1>2. 0 * s = 0 /\ 1 * s = s /\ (0 - 1) * s = 0 - s
    OBVIOUS
  <1>3. ASSUME n \in 0..(s - 1) PROVE n % s = n
    <2>1. n = 0 * s + n
      BY <1>2
    <2>2. QED
      BY <1>3, <2>1, RemainderUnique
  <1>4. ASSUME s <= n, n < 2 * s PROVE n % s = n - s
    <2>1. n = 1 * s + (n - s) /\ n - s \in 0..(s - 1)
      BY <1>2, <1>4
    <2>2. QED
      BY <2>1, RemainderUnique
  <1>5. ASSUME 0 - s <= n, n < 0 PROVE n % s = n + s
    <2>1. n = (0 - 1) * s + (n + s) /\ n + s \in 0..(s - 1)
      BY <1>2, <1>5
    <2>2. QED
      BY <2>1, RemainderUnique
  <1>6. QED
    BY <1>1, <1>3, <1>4, <1>5 DEF Seq32

\* Ages and numbers are one to one.
LEMMA Ages ==
  ASSUME NEW q \in Seq32, NEW x \in Seq32
  PROVE  /\ Age(q, x) \in Seq32 /\ Back(q, Age(q, x)) = x
         /\ Back(q, x) \in Seq32 /\ Age(q, Back(q, x)) = x
         /\ x \in Nat /\ Age(q, x) \in Nat /\ Age(q, x) < SeqSpace
  BY Numbers DEF Age, Back, Seq32

\* When one more is sent, everything is one older.
LEMMA Older ==
  ASSUME NEW q \in Seq32, NEW n, n = WrappingAdd(q, 1)
  PROVE  /\ n \in Seq32 /\ Age(n, q) = 1
         /\ \A x \in Seq32 : Age(q, x) + 1 < SeqSpace => Age(n, x) = Age(q, x) + 1
         /\ \A a \in 1..(SeqSpace - 1) : Back(n, a) = Back(q, a - 1)
  <1>1. q \in Int /\ q >= 0 /\ q < SeqSpace
    BY Numbers DEF Seq32
  <1>2. n = IF q + 1 = SeqSpace THEN 0 ELSE q + 1
    <2>1. n = (q + 1) % SeqSpace /\ q + 1 \in Int
      BY <1>1 DEF WrappingAdd
    <2>2. CASE q + 1 = SeqSpace
      BY <1>1, <2>1, <2>2, Wrapping, Numbers
    <2>3. CASE q + 1 # SeqSpace
      <3>1. q + 1 \in Seq32
        BY <1>1, <2>3, Numbers DEF Seq32
      <3>2. QED
        BY <2>1, <2>3, <3>1, Wrapping
    <2>4. QED
      BY <2>2, <2>3
  <1>3. n \in Seq32 /\ Age(n, q) = 1
    BY <1>1, <1>2, Numbers DEF Seq32, Age
  <1>4. ASSUME NEW x \in Seq32, Age(q, x) + 1 < SeqSpace
        PROVE  Age(n, x) = Age(q, x) + 1
    BY <1>1, <1>2, <1>4, Numbers DEF Seq32, Age
  <1>5. ASSUME NEW a \in 1..(SeqSpace - 1)
        PROVE  Back(n, a) = Back(q, a - 1)
    BY <1>1, <1>2, Numbers DEF Back
  <1>6. QED
    BY <1>3, <1>4, <1>5

\* Differences of numbers are differences of ages.
LEMMA Differences ==
  ASSUME NEW q \in Seq32, NEW x \in Seq32, NEW y \in Seq32
  PROVE  /\ Age(q, y) >= Age(q, x) => WrappingSub(x, y) = Age(q, y) - Age(q, x)
         /\ Age(q, x) >= 1 =>
               WrappingAdd(x, 1) \in Seq32 /\ Age(q, WrappingAdd(x, 1)) = Age(q, x) - 1
         /\ Age(q, x) + (Depth - 1) < SeqSpace =>
               /\ WrappingSub(x, Depth - 1) \in Seq32
               /\ Age(q, WrappingSub(x, Depth - 1)) = Age(q, x) + (Depth - 1)
  <1>1. /\ q \in Int /\ q >= 0 /\ q < SeqSpace /\ x \in Int /\ x >= 0 /\ x < SeqSpace
        /\ y \in Int /\ y >= 0 /\ y < SeqSpace
    BY Numbers DEF Seq32
  <1>2. /\ x - y \in Int
        /\ WrappingSub(x, y) = IF y <= x THEN x - y ELSE x - y + SeqSpace
    <2>1. x - y \in Int /\ (y <= x => x - y \in Seq32) /\ (y > x => 0 - SeqSpace <= x - y)
      BY <1>1, Numbers DEF Seq32
    <2>2. CASE y <= x
      BY <2>1, <2>2, Wrapping DEF WrappingSub
    <2>3. CASE y > x
      <3>1. x - y < 0 /\ ~(y <= x)
        BY <1>1, <2>3
      <3>2. QED
        BY <2>1, <2>3, <3>1, Wrapping DEF WrappingSub
    <2>4. QED
      BY <1>1, <2>1, <2>2, <2>3
  <1>3. ASSUME Age(q, y) >= Age(q, x)
        PROVE  WrappingSub(x, y) = Age(q, y) - Age(q, x)
    BY <1>1, <1>2, <1>3, Numbers DEF Age
  <1>4. ASSUME Age(q, x) >= 1
        PROVE  WrappingAdd(x, 1) \in Seq32 /\ Age(q, WrappingAdd(x, 1)) = Age(q, x) - 1
    <2>1. WrappingAdd(x, 1) = IF x + 1 = SeqSpace THEN 0 ELSE x + 1
      <3>1. x + 1 \in Int /\ WrappingAdd(x, 1) = (x + 1) % SeqSpace
        BY <1>1 DEF WrappingAdd
      <3>2. CASE x + 1 = SeqSpace
        BY <3>1, <3>2, Wrapping, Numbers
      <3>3. CASE x + 1 # SeqSpace
        <4>1. x + 1 \in Seq32
          BY <1>1, <3>3, Numbers DEF Seq32
        <4>2. QED
          BY <3>1, <3>3, <4>1, Wrapping
      <3>4. QED
        BY <3>2, <3>3
    <2>2. QED
      BY <1>1, <1>4, <2>1, Numbers DEF Age, Seq32
  <1>5. ASSUME Age(q, x) + (Depth - 1) < SeqSpace
        PROVE  /\ WrappingSub(x, Depth - 1) \in Seq32
               /\ Age(q, WrappingSub(x, Depth - 1)) = Age(q, x) + (Depth - 1)
    <2>1. PICK d \in Nat : d = Depth - 1 /\ d < SeqSpace
      BY Numbers
    <2>2. WrappingSub(x, d) = IF d <= x THEN x - d ELSE x - d + SeqSpace
      <3>1. x - d \in Int /\ (d <= x => x - d \in Seq32) /\ (d > x => 0 - SeqSpace <= x - d)
        BY <1>1, <2>1, Numbers DEF Seq32
      <3>2. CASE d <= x
        BY <3>1, <3>2, Wrapping DEF WrappingSub
      <3>3. CASE d > x
        <4>1. x - d < 0 /\ ~(d <= x)
          BY <1>1, <2>1, <3>3
        <4>2. QED
          BY <3>1, <3>3, <4>1, Wrapping DEF WrappingSub
      <3>4. QED
        BY <1>1, <2>1, <3>2, <3>3
    <2>3. QED
      BY <1>1, <1>5, <2>1, <2>2, Numbers DEF Age, Seq32
  <1>6. QED
    BY <1>3, <1>4, <1>5

-----------------------------------------------------------------------------
(* A turn. *)

\* As many numbers in a row as there are slots come by every slot.
LEMMA Residues ==
  ASSUME NEW x \in Nat, NEW i \in Slot
  PROVE  \E y \in x..(x + Depth - 1) : Index(y) = i
  <1>1. PICK d \in Nat \ {0} : d = Depth
    BY Numbers
  <1>2. i \in 0..(d - 1) /\ i \in Int
    BY <1>1 DEF Slot
  <1>3. PICK k \in Int, r \in 0..(d - 1) : i - x = k * d + r
    <2>1. i - x \in Int
      BY <1>2
    <2>2. PICK e \in Int : e = i - x
      BY <2>1
    <2>3. e \div d \in Int /\ e % d \in 0..(d - 1) /\ e % d = e - d * (e \div d)
      OBVIOUS
    <2>4. PICK k \in Int, r \in 0..(d - 1) : k = e \div d /\ r = e % d
      BY <2>3
    <2>5. r = e - d * k
      BY <2>3, <2>4
    <2>6. e = k * d + r
      BY <2>5
    <2>7. QED
      BY <2>2, <2>6
  <1>4. (0 - k) * d = 0 - k * d /\ k * d \in Int
    OBVIOUS
  <1>5. x + r = (0 - k) * d + i /\ x + r \in Int /\ 0 - k \in Int
    BY <1>2, <1>3, <1>4
  <1>6. (x + r) % d = i
    BY <1>2, <1>5, RemainderUnique
  <1>7. x + r \in x..(x + Depth - 1)
    BY <1>1
  <1>8. Index(x + r) = i
    BY <1>1, <1>6 DEF Index
  <1>9. QED
    BY <1>7, <1>8

\* So do the numbers of a turn that were last sent, wherever they wrap.
LEMMA TurnComesBy ==
  ASSUME NEW q \in Seq32, NEW i \in Slot
  PROVE  \E a \in 1..Turn : Index(Back(q, a)) = i
  <1>1. PICK d \in Nat : d = Depth /\ d >= 1 /\ 2 * d <= SeqSpace /\ Turn = 2 * d - 1
    BY Numbers
  <1>2. q \in Nat /\ q < SeqSpace /\ SeqSpace \in Nat
    BY Numbers DEF Seq32
  <1>3. CASE d <= q
    <2>1. q - d \in Nat
      BY <1>2, <1>3
    <2>2. PICK y \in (q - d)..(q - d + d - 1) : Index(y) = i
      BY <1>1, <2>1, Residues
    <2>3. q - y \in 1..Turn /\ Back(q, q - y) = y
      BY <1>1, <1>2, <2>1, <2>2 DEF Back
    <2>4. QED
      BY <2>2, <2>3
  <1>4. CASE d > q
    <2>1. q + SeqSpace - (2 * d - 1) \in Nat
      BY <1>1, <1>2
    <2>2. PICK y \in (q + SeqSpace - (2 * d - 1))..(q + SeqSpace - (2 * d - 1) + d - 1) :
             Index(y) = i
      BY <1>1, <2>1, Residues
    <2>3. q - y + SeqSpace \in 1..Turn /\ Back(q, q - y + SeqSpace) = y
      BY <1>1, <1>2, <1>4, <2>1, <2>2 DEF Back
    <2>4. QED
      BY <2>2, <2>3
  <1>5. QED
    BY <1>2, <1>1, <1>3, <1>4

\* More frames that do not count are more turns.
LEMMA Spares ==
  ASSUME NEW n \in Nat
  PROVE  /\ Spare(n) \in Nat /\ Spare(n + 1) = Spare(n) + Turn
         /\ \A m \in Nat : m <= n => Spare(m) <= Spare(n)
  <1>1. PICK t \in Nat : t = Turn
    BY Numbers
  <1>2. t * n \in Nat /\ t * (n + 1) = t * n + t
    OBVIOUS
  <1>3. ASSUME NEW m \in Nat, m <= n
        PROVE  t * m <= t * n
    <2>1. PICK e \in Nat : n = m + e
      <3>1. n - m \in Nat /\ n = m + (n - m)
        BY <1>3
      <3>2. QED
        BY <3>1
    <2>2. t * n = t * m + t * e /\ t * e \in Nat /\ t * m \in Nat
      BY <2>1
    <2>3. QED
      BY <2>2
  <1>4. QED
    BY <1>1, <1>2, <1>3 DEF Spare

\* A number that is fresh but for n frames is at most so many turns old.
LEMMA FreshBound ==
  ASSUME NEW q \in Seq32, NEW v \in Seq32, NEW n \in Nat, Fresh(q, v, n)
  PROVE  Age(q, v) <= Spare(n) + Turn
  <1>1. PICK g \in Nat : g = Age(q, v)
    BY Ages, Numbers DEF Seq32
  <1>2. PICK z \in Nat : z = Spare(n)
    BY Spares
  <1>3. PICK t \in Nat : t = Turn
    BY Numbers
  <1>4. Index(v) \in Slot
    <2>1. v \in Int /\ Depth \in Nat \ {0}
      BY Ages, Numbers
    <2>2. QED
      BY <2>1 DEF Index, Slot
  <1>5. PICK a \in 1..Turn : Index(Back(q, a)) = Index(v)
    BY <1>4, TurnComesBy
  <1>6. a \notin 1..(Age(q, v) - Spare(n) - 1)
    BY <1>5 DEF Fresh
  <1>7. a \in Int /\ 1 <= a /\ a <= t /\ ~(a <= g - z - 1)
    BY <1>1, <1>2, <1>3, <1>5, <1>6
  <1>8. g <= z + t
    BY <1>7
  <1>9. QED
    BY <1>1, <1>2, <1>3, <1>8

\* If n frames do not count, m more do not matter.
LEMMA FreshWeaker ==
  ASSUME NEW q \in Seq32, NEW v \in Seq32, NEW m \in Nat, NEW n \in Nat, m <= n,
         Fresh(q, v, m)
  PROVE  Fresh(q, v, n)
  <1>1. PICK g \in Nat : g = Age(q, v)
    BY Ages, Numbers DEF Seq32
  <1>2. PICK y \in Nat, z \in Nat : y = Spare(m) /\ z = Spare(n) /\ y <= z
    BY Spares
  <1>3. ASSUME NEW a \in 1..(g - z - 1)
        PROVE  a \in 1..(g - y - 1)
    BY <1>2
  <1>4. QED
    BY <1>1, <1>2, <1>3 DEF Fresh

\* A frame is sent: it counts for its own slot, and no other number is as old
\* as to look new.
LEMMA FreshOlder ==
  ASSUME NEW q \in Seq32, NEW v \in Seq32, NEW n \in Nat, NEW m \in Nat,
         Fresh(q, v, n), Spare(n) + Turn + 1 < SeqSpace,
         n <= m, Index(q) = Index(v) => n + 1 <= m
  PROVE  /\ Age(WrappingAdd(q, 1), v) = Age(q, v) + 1
         /\ Fresh(WrappingAdd(q, 1), v, m)
  <1>1. PICK g \in Nat : g = Age(q, v)
    BY Ages, Numbers DEF Seq32
  <1>2. PICK z \in Nat, t \in Nat : z = Spare(n) /\ t = Turn /\ t >= 1
    BY Spares, Numbers
  <1>3. g <= z + t /\ SeqSpace \in Nat /\ g + 1 < SeqSpace
    BY <1>1, <1>2, FreshBound, Numbers
  <1>4. PICK r \in Seq32 : r = WrappingAdd(q, 1)
    BY Older
  <1>5. Age(r, v) = g + 1
    BY <1>1, <1>3, <1>4, Older
  <1>6. Fresh(r, v, m)
    <2>1. CASE Index(q) = Index(v)
      <3>1. Spare(n + 1) = z + t /\ n + 1 \in Nat
        BY <1>2, Spares
      <3>2. 1..(g + 1 - (z + t) - 1) = {}
        BY <1>2, <1>3
      <3>3. Fresh(r, v, n + 1)
        BY <1>5, <3>1, <3>2 DEF Fresh
      <3>4. QED
        BY <2>1, <3>1, <3>3, FreshWeaker
    <2>2. CASE Index(q) # Index(v)
      <3>1. ASSUME NEW a \in 1..(g + 1 - z - 1)
            PROVE  Index(Back(r, a)) # Index(v)
        <4>1. a \in 1..(SeqSpace - 1) /\ a - 1 < SeqSpace /\ a \in Int
          BY <1>2, <1>3
        <4>2. Back(r, a) = Back(q, a - 1)
          BY <1>4, <4>1, Older
        <4>3. CASE a = 1
          <5>1. Back(q, 0) = q
            BY Numbers DEF Back, Seq32
          <5>2. QED
            BY <2>2, <4>2, <4>3, <5>1
        <4>4. CASE a # 1
          <5>1. a - 1 \in 1..(g - z - 1)
            BY <1>2, <4>1, <4>4
          <5>2. QED
            BY <1>1, <1>2, <4>2, <5>1 DEF Fresh
        <4>5. QED
          BY <4>3, <4>4
      <3>2. Fresh(r, v, n)
        BY <1>2, <1>5, <3>1 DEF Fresh
      <3>3. QED
        BY <3>2, FreshWeaker
    <2>3. QED
      BY <2>1, <2>2
  <1>7. QED
    BY <1>1, <1>4, <1>5, <1>6

-----------------------------------------------------------------------------
(* The frames on the way. *)

\* Those that go to a slot are a few numbers.
LEMMA WaitingCount ==
  ASSUME NEW p \in Seq(Seq32), NEW k \in Nat, NEW i
  PROVE  /\ IsFiniteSet(Waiting(p, k, i))
         /\ Cardinality(Waiting(p, k, i)) \in Nat
         /\ Cardinality(Waiting(p, k, i)) <= Len(p)
  <1> DEFINE D == {m \in (k + 1)..Len(p) : Index(p[m]) = i}
             T == Waiting(p, k, i)
             f == [m \in D |-> p[m]]
  <1>1. PICK n \in Nat : n = Len(p)
    OBVIOUS
  <1>2. D \in SUBSET (1..n) /\ IsFiniteSet(1..n) /\ Cardinality(1..n) = n
    <2>1. IsFiniteSet(1..n) /\ Cardinality(1..n) = IF 1 > n THEN 0 ELSE n - 1 + 1
      BY FS_Interval
    <2>2. D \in SUBSET (1..n)
      BY <1>1
    <2>3. Cardinality(1..n) = n
      BY <2>1
    <2>4. QED
      BY <2>1, <2>2, <2>3
  <1>3. IsFiniteSet(D) /\ Cardinality(D) <= n /\ Cardinality(D) \in Nat
    BY <1>2, FS_Subset, FS_CardinalityType
  <1>4. f \in Surjection(D, T)
    <2>1. T = {p[m] : m \in D}
      BY DEF Waiting
    <2>2. f \in [D -> T] /\ \A t \in T : \E m \in D : f[m] = t
      BY <2>1
    <2>3. QED
      BY <2>2 DEF Surjection
  <1>5. IsFiniteSet(T) /\ Cardinality(T) <= Cardinality(D)
    BY <1>3, <1>4, FS_Surjection
  <1>6. Cardinality(T) \in Nat
    BY <1>5, FS_CardinalityType
  <1>7. QED
    BY <1>1, <1>3, <1>5, <1>6

\* Fewer frames count less; leaving one out, one less at most.
LEMMA WaitingLess ==
  ASSUME NEW p \in Seq(Seq32), NEW k \in Nat, NEW r \in Seq(Seq32), NEW m \in Nat,
         NEW i, NEW x, Waiting(p, k, i) \subseteq Waiting(r, m, i) \cup {x}
  PROVE  /\ Cardinality(Waiting(p, k, i)) <= Cardinality(Waiting(r, m, i)) + 1
         /\ x \in Waiting(r, m, i) =>
               Cardinality(Waiting(p, k, i)) <= Cardinality(Waiting(r, m, i))
         /\ x \in Waiting(r, m, i) \ Waiting(p, k, i) =>
               Cardinality(Waiting(p, k, i)) + 1 <= Cardinality(Waiting(r, m, i))
  <1> DEFINE T == Waiting(p, k, i)
             U == Waiting(r, m, i)
  <1>1. IsFiniteSet(T) /\ IsFiniteSet(U) /\ Cardinality(T) \in Nat /\ Cardinality(U) \in Nat
    BY WaitingCount
  <1> HIDE DEF T, U
  <1>2. /\ IsFiniteSet(U \cup {x})
        /\ Cardinality(U \cup {x}) = IF x \in U THEN Cardinality(U) ELSE Cardinality(U) + 1
    BY <1>1, FS_AddElement
  <1>3. T \in SUBSET (U \cup {x})
    BY DEF T, U
  <1>4. Cardinality(T) <= Cardinality(U \cup {x})
    BY <1>2, <1>3, FS_Subset
  <1>5. ASSUME x \in U, x \notin T
        PROVE  Cardinality(T) + 1 <= Cardinality(U)
    <2>1. /\ IsFiniteSet(T \cup {x}) /\ Cardinality(T \cup {x}) = Cardinality(T) + 1
      BY <1>1, <1>5, FS_AddElement
    <2>2. T \cup {x} \in SUBSET U
      BY <1>3, <1>5
    <2>3. QED
      BY <1>1, <2>1, <2>2, FS_Subset
  <1>6. Cardinality(T) <= Cardinality(U) + 1
    BY <1>1, <1>2, <1>4
  <1>7. x \in U => Cardinality(T) <= Cardinality(U)
    BY <1>1, <1>2, <1>4
  <1>8. QED
    BY <1>5, <1>6, <1>7 DEF T, U

\* The same frames count the same.
LEMMA WaitingSame ==
  ASSUME NEW p \in Seq(Seq32), NEW k \in Nat, NEW r \in Seq(Seq32), NEW m \in Nat,
         NEW i, Waiting(p, k, i) \subseteq Waiting(r, m, i)
  PROVE  Cardinality(Waiting(p, k, i)) <= Cardinality(Waiting(r, m, i))
  <1>1. IsFiniteSet(Waiting(r, m, i)) /\ Waiting(p, k, i) \in SUBSET Waiting(r, m, i)
    BY WaitingCount
  <1>2. QED
    BY <1>1, FS_Subset

\* Places and ages.
LEMMA Gaps ==
  ASSUME NEW q \in Seq32, NEW p \in Seq(Seq32), NEW j \in Nat
  PROVE  /\ Gap(q, p, j) \in Nat /\ Gap(q, p, j) < SeqSpace /\ Gap(q, p, Len(p) + 1) = 0
         /\ j \in 1..Len(p) => p[j] \in Seq32 /\ Gap(q, p, j) = Age(q, p[j])
  <1>1. j \in 1..Len(p) => p[j] \in Seq32
    OBVIOUS
  <1>2. j \in 1..Len(p) => Age(q, p[j]) \in Nat /\ Age(q, p[j]) < SeqSpace
    BY <1>1, Ages
  <1>3. Len(p) + 1 \notin 1..Len(p)
    OBVIOUS
  <1>4. SeqSpace > 0
    BY Numbers
  <1>5. QED
    BY <1>1, <1>2, <1>3, <1>4 DEF Gap

\* Frames in order are few turns old.
LEMMA InOrderGaps ==
  ASSUME NEW q \in Seq32, NEW p \in Seq(Seq32), NEW l \in Nat, InOrder(q, p, l),
         NEW i \in 1..(Len(p) + 1), NEW j \in 1..(Len(p) + 1), i <= j
  PROVE  /\ Gap(q, p, i) >= Gap(q, p, j)
         /\ Gap(q, p, i) - Gap(q, p, j) <= (j - i) + l
         /\ Gap(q, p, i) <= Len(p) + l
         /\ i < j => Gap(q, p, i) > Gap(q, p, j)
  <1>1. PICK n \in Nat : n = Len(p)
    OBVIOUS
  <1>2. i \in Nat /\ j \in Nat /\ 1 <= i /\ i <= n + 1 /\ j <= n + 1 /\ n + 1 \in 1..(n + 1)
    BY <1>1
  <1>3. PICK x \in Nat, y \in Nat : x = Gap(q, p, i) /\ y = Gap(q, p, j)
    BY <1>2, Gaps
  <1>4. i < j => x > y /\ x - y <= (j - i) + l
    BY <1>1, <1>3 DEF InOrder
  <1>5. i = j => x = y
    BY <1>3
  <1>6. x <= n + l
    <2>1. CASE i = n + 1
      <3>1. x = 0
        BY <1>1, <1>3, <2>1, Gaps
      <3>2. QED
        BY <3>1
    <2>2. CASE i # n + 1
      <3>1. x - Gap(q, p, n + 1) <= ((n + 1) - i) + l
        BY <1>1, <1>2, <1>3, <2>2 DEF InOrder
      <3>2. Gap(q, p, n + 1) = 0
        BY <1>1, Gaps
      <3>3. QED
        BY <1>2, <3>1, <3>2
    <2>3. QED
      BY <2>1, <2>2
  <1>7. QED
    BY <1>1, <1>2, <1>3, <1>4, <1>5, <1>6

\* There are numbers enough.
LEMMA EnoughSpares ==
  ASSUME Ample, NEW n \in Nat, n < MaxLoss + MaxFlight
  PROVE  Spare(n) + Turn + 1 < SeqSpace
  <1>1. PICK u \in Nat, t \in Nat, s \in Nat :
           u = MaxLoss + MaxFlight /\ t = Turn /\ t >= 1 /\ s = SeqSpace
    BY Numbers
  <1>2. Spare(u + 1) < s /\ Spare(u + 1) = Spare(u) + t
    BY <1>1, Spares DEF Ample, Spare
  <1>3. n + 1 \in Nat /\ n + 1 <= u
    BY <1>1
  <1>4. Spare(n + 1) <= Spare(u) /\ Spare(n + 1) = Spare(n) + t
    BY <1>1, <1>3, Spares
  <1>5. Spare(n) \in Nat /\ Spare(u) \in Nat
    BY <1>1, Spares
  <1>6. QED
    BY <1>1, <1>2, <1>4, <1>5

\* A frame is sent.
Sent(q, p, n, r) ==
    /\ n = WrappingAdd(q, 1)
    /\ r \in Seq(Seq32) /\ Len(r) = Len(p) + 1
    /\ \A j \in 1..Len(p) : r[j] = p[j]
    /\ r[Len(p) + 1] = q

LEMMA SentGaps ==
  ASSUME Ample, NEW q \in Seq32, NEW p \in Seq(Seq32), NEW l \in Nat,
         Len(p) < MaxFlight, l <= MaxLoss, InOrder(q, p, l),
         NEW n, NEW r, Sent(q, p, n, r)
  PROVE  /\ n \in Seq32 /\ r \in Seq(Seq32) /\ Len(r) = Len(p) + 1
         /\ \A j \in 1..Len(p) : r[j] = p[j]
         /\ r[Len(p) + 1] = q
         /\ \A j \in 1..(Len(p) + 1) : Gap(n, r, j) = Gap(q, p, j) + 1
         /\ Gap(n, r, Len(p) + 2) = 0
  <1>1. PICK s \in Nat : s = Len(p) /\ s + l + 1 < SeqSpace
    <2>1. PICK h \in Int : h = (SeqSpace - 1) \div 2 /\ 2 * h <= SeqSpace - 1
      BY Numbers
    <2>2. PICK f \in Nat, m \in Nat, d \in Nat :
             f = MaxFlight /\ m = MaxLoss /\ d = Depth /\ d >= 1 /\ d + f + m <= h
      BY <2>1, Numbers DEF Ample
    <2>3. Len(p) \in Nat /\ Len(p) + l + 1 < SeqSpace
      BY <2>1, <2>2, Numbers
    <2>4. QED
      BY <2>3
  <1>2. n \in Seq32 /\ Age(n, q) = 1
    BY Older DEF Sent
  <1>3. r \in Seq(Seq32) /\ Len(r) = s + 1 /\ (\A j \in 1..s : r[j] = p[j]) /\ r[s + 1] = q
    BY <1>1 DEF Sent
  <1>4. ASSUME NEW j \in 1..(s + 1)
        PROVE  Gap(n, r, j) = Gap(q, p, j) + 1
    <2>1. j \in 1..(Len(r)) /\ j \in Nat
      BY <1>3
    <2>2. Gap(n, r, j) = Age(n, r[j])
      BY <2>1 DEF Gap
    <2>3. CASE j = s + 1
      <3>1. Gap(q, p, j) = 0
        BY <1>1, <2>3, Gaps
      <3>2. QED
        BY <1>2, <1>3, <2>2, <2>3, <3>1
    <2>4. CASE j # s + 1
      <3>1. j \in 1..s
        BY <2>4
      <3>2. p[j] \in Seq32 /\ Gap(q, p, j) = Age(q, p[j]) /\ r[j] = p[j]
        BY <1>1, <1>3, <2>1, <3>1, Gaps
      <3>3. Gap(q, p, j) <= s + l
        BY <1>1, <2>1, InOrderGaps
      <3>4. PICK g \in Nat : g = Age(q, p[j]) /\ g + 1 < SeqSpace
        BY <1>1, <3>2, <3>3, Ages, Numbers
      <3>5. Age(n, p[j]) = g + 1
        BY <3>2, <3>4, Older DEF Sent
      <3>6. QED
        BY <2>2, <3>2, <3>4, <3>5
    <2>5. QED
      BY <2>3, <2>4
  <1>5. Gap(n, r, s + 2) = 0
    BY <1>3 DEF Gap
  <1>6. QED
    BY <1>1, <1>2, <1>3, <1>4, <1>5

LEMMA SentWaiting ==
  ASSUME NEW q \in Seq32, NEW p \in Seq(Seq32), NEW l \in Nat, InOrder(q, p, l),
         NEW k \in Nat, k <= Len(p), NEW i, NEW n, NEW r, Sent(q, p, n, r)
  PROVE  /\ Cardinality(Waiting(p, k, i)) <= Cardinality(Waiting(r, k, i))
         /\ Index(q) = i => Cardinality(Waiting(p, k, i)) + 1 <= Cardinality(Waiting(r, k, i))
  <1>1. PICK s \in Nat : s = Len(p)
    OBVIOUS
  <1>2. r \in Seq(Seq32) /\ Len(r) = s + 1 /\ (\A j \in 1..s : r[j] = p[j]) /\ r[s + 1] = q
    BY <1>1 DEF Sent
  <1>3. Waiting(p, k, i) \subseteq Waiting(r, k, i)
    <2>1. ASSUME NEW j \in (k + 1)..s
          PROVE  j \in (k + 1)..(s + 1) /\ r[j] = p[j]
      BY <1>2
    <2>2. QED
      BY <1>1, <1>2, <2>1 DEF Waiting
  <1>4. ASSUME Index(q) = i
        PROVE  q \in Waiting(r, k, i) \ Waiting(p, k, i)
    <2>1. s + 1 \in (k + 1)..(s + 1)
      BY <1>1
    <2>2. q \in Waiting(r, k, i)
      BY <1>2, <1>4, <2>1 DEF Waiting
    <2>3. ASSUME NEW j \in (k + 1)..s, p[j] = q
          PROVE  FALSE
      <3>1. j \in 1..s /\ j \in 1..(s + 1) /\ s + 1 \in 1..(s + 1) /\ j < s + 1 /\ j \in Nat
        OBVIOUS
      <3>2. Gap(q, p, j) > Gap(q, p, s + 1) /\ Gap(q, p, s + 1) = 0
        BY <1>1, <3>1, InOrderGaps, Gaps
      <3>3. Gap(q, p, j) = Age(q, q)
        BY <1>1, <2>3, <3>1, Gaps
      <3>4. Age(q, q) = 0
        BY Ages DEF Age
      <3>5. QED
        BY <3>2, <3>3, <3>4
    <2>4. QED
      BY <1>1, <2>2, <2>3 DEF Waiting
  <1>5. QED
    BY <1>2, <1>3, <1>4, WaitingSame, WaitingLess

LEMMA SentFresh ==
  ASSUME Ample, NEW q \in Seq32, NEW p \in Seq(Seq32), NEW l \in Nat,
         Len(p) < MaxFlight, l <= MaxLoss, InOrder(q, p, l),
         NEW n, NEW r, Sent(q, p, n, r),
         NEW v \in Seq32, NEW k \in Nat, k <= Len(p),
         Fresh(q, v, l + Cardinality(Waiting(p, k, Index(v))))
  PROVE  /\ Age(n, v) = Age(q, v) + 1
         /\ Fresh(n, v, l + Cardinality(Waiting(r, k, Index(v))))
  <1>1. r \in Seq(Seq32) /\ n = WrappingAdd(q, 1)
    BY DEF Sent
  <1>2. PICK x \in Nat, y \in Nat :
           /\ x = l + Cardinality(Waiting(p, k, Index(v))) /\ x <= l + Len(p)
           /\ y = l + Cardinality(Waiting(r, k, Index(v)))
    <2>1. PICK x \in Nat, y \in Nat :
             /\ x = Cardinality(Waiting(p, k, Index(v))) /\ x <= Len(p)
             /\ y = Cardinality(Waiting(r, k, Index(v)))
      BY <1>1, WaitingCount
    <2>2. l + x \in Nat /\ l + y \in Nat /\ l + x <= l + Len(p)
      BY <2>1
    <2>3. QED
      BY <2>1, <2>2
  <1>3. x <= y /\ (Index(q) = Index(v) => x + 1 <= y)
    <2>1. PICK z \in Nat, w \in Nat :
             z = Cardinality(Waiting(p, k, Index(v))) /\ w = Cardinality(Waiting(r, k, Index(v)))
      BY <1>1, WaitingCount
    <2>2. z <= w /\ (Index(q) = Index(v) => z + 1 <= w)
      BY <2>1, SentWaiting
    <2>3. x = l + z /\ y = l + w
      BY <1>2, <2>1
    <2>4. QED
      BY <2>2, <2>3
  <1>4. x < MaxLoss + MaxFlight
    BY <1>2, Numbers
  <1>5. Spare(x) + Turn + 1 < SeqSpace
    BY <1>4, EnoughSpares
  <1>6. Fresh(q, v, x)
    BY <1>2
  <1>7. Age(n, v) = Age(q, v) + 1 /\ Fresh(n, v, y)
    BY <1>1, <1>3, <1>5, <1>6, FreshOlder
  <1>8. QED
    BY <1>2, <1>7

LEMMA SentKeeps ==
  ASSUME Ample, NEW q \in Seq32, NEW p \in Seq(Seq32), NEW l \in Nat, NEW b \in Buffers,
         Len(p) < MaxFlight, l <= MaxLoss,
         InOrder(q, p, l), AllFresh(q, p, l), Behind(q, p, l, b, 0),
         NEW n, NEW r, Sent(q, p, n, r)
  PROVE  InOrder(n, r, l) /\ AllFresh(n, r, l) /\ Behind(n, r, l, b, 0)
  <1>1. PICK s \in Nat : s = Len(p)
    OBVIOUS
  <1>2. /\ n \in Seq32 /\ r \in Seq(Seq32) /\ Len(r) = s + 1
        /\ \A j \in 1..s : r[j] = p[j]
        /\ r[s + 1] = q /\ n = WrappingAdd(q, 1)
        /\ \A j \in 1..(s + 1) : Gap(n, r, j) = Gap(q, p, j) + 1
        /\ Gap(n, r, s + 2) = 0
    BY <1>1, SentGaps DEF Sent
  <1>3. Gap(q, p, s + 1) = 0 /\ \A j \in 1..(s + 1) : Gap(q, p, j) \in Nat
    BY <1>1, Gaps
  <1>4. InOrder(n, r, l)
    <2>1. ASSUME NEW i \in 1..(s + 2), NEW j \in 1..(s + 2), i < j
          PROVE  /\ Gap(n, r, i) > Gap(n, r, j)
                 /\ Gap(n, r, i) - Gap(n, r, j) <= (j - i) + l
      <3>1. i \in 1..(s + 1) /\ i \in Nat /\ j \in Nat
        BY <2>1
      <3>2. PICK x \in Nat : x = Gap(q, p, i) /\ Gap(n, r, i) = x + 1
        BY <1>2, <1>3, <3>1
      <3>3. CASE j = s + 2
        <4>1. x - Gap(q, p, s + 1) <= ((s + 1) - i) + l
          <5>1. /\ i \in 1..(Len(p) + 1) /\ Len(p) + 1 \in 1..(Len(p) + 1)
                /\ i <= Len(p) + 1
            BY <1>1, <3>1
          <5>2. Gap(q, p, i) - Gap(q, p, Len(p) + 1) <= ((Len(p) + 1) - i) + l
            BY <5>1, InOrderGaps
          <5>3. QED
            BY <1>1, <3>2, <5>2
        <4>2. x + 1 > 0 /\ x + 1 <= (j - i) + l
          BY <1>3, <3>1, <3>2, <3>3, <4>1
        <4>3. QED
          BY <1>2, <3>2, <3>3, <4>2
      <3>4. CASE j # s + 2
        <4>1. j \in 1..(s + 1)
          BY <3>4
        <4>2. PICK y \in Nat : y = Gap(q, p, j) /\ Gap(n, r, j) = y + 1
          BY <1>2, <1>3, <4>1
        <4>3. x > y /\ x - y <= (j - i) + l
          BY <1>1, <2>1, <3>1, <3>2, <4>1, <4>2 DEF InOrder
        <4>4. x + 1 > y + 1 /\ (x + 1) - (y + 1) = x - y
          BY <4>3
        <4>5. Gap(n, r, i) > Gap(n, r, j) /\ Gap(n, r, i) - Gap(n, r, j) = x - y
          BY <3>2, <4>2, <4>4
        <4>6. QED
          BY <4>3, <4>5
      <3>5. QED
        BY <3>3, <3>4
    <2>2. Len(r) + 1 = s + 2
      BY <1>2
    <2>3. QED
      BY <2>1, <2>2 DEF InOrder
  <1>5. AllFresh(n, r, l)
    <2>1. ASSUME NEW j \in 1..(s + 1)
          PROVE  Fresh(n, r[j], l + Cardinality(Waiting(r, j, Index(r[j]))))
      <3>1. CASE j = s + 1
        <4>1. Age(n, r[j]) = 1
          BY <1>2, <3>1, Older
        <4>2. PICK c \in Nat : c = l + Cardinality(Waiting(r, j, Index(r[j])))
          <5>1. PICK d \in Nat : d = Cardinality(Waiting(r, j, Index(r[j])))
            BY <1>2, WaitingCount
          <5>2. l + d \in Nat
            OBVIOUS
          <5>3. QED
            BY <5>1, <5>2
        <4>3. PICK z \in Nat : z = Spare(c)
          BY Spares
        <4>4. 1..(1 - z - 1) = {}
          OBVIOUS
        <4>5. QED
          BY <4>1, <4>2, <4>3, <4>4 DEF Fresh
      <3>2. CASE j # s + 1
        <4>1. j \in 1..s /\ j \in Nat /\ j <= s
          BY <3>2
        <4>2. r[j] = p[j] /\ p[j] \in Seq32
          BY <1>1, <1>2, <4>1, Gaps
        <4>3. Fresh(q, p[j], l + Cardinality(Waiting(p, j, Index(p[j]))))
          BY <1>1, <4>1 DEF AllFresh
        <4>4. QED
          BY <1>1, <4>1, <4>2, <4>3, SentFresh
      <3>3. QED
        BY <3>1, <3>2
    <2>2. QED
      BY <1>2, <2>1 DEF AllFresh
  <1>6. ReaderBehind(n, r, l, b, 0)
    <2>1. SUFFICES ASSUME b.initialized
                   PROVE  \A j \in (0 + 1)..(s + 2) :
                             /\ Age(n, b.read_seq) >= Gap(n, r, j)
                             /\ Age(n, b.read_seq) - Gap(n, r, j) <= Depth + (j - 0 - 1) + l
      BY <1>2 DEF ReaderBehind
    <2>2. PICK e \in Seq32 : e = b.read_seq
      BY DEF Buffers
    <2>3. PICK a \in Nat : a = Age(q, e)
      BY Ages
    <2>4. ASSUME NEW j \in 1..(s + 1)
          PROVE  a >= Gap(q, p, j) /\ a - Gap(q, p, j) <= Depth + (j - 0 - 1) + l
      BY <1>1, <2>1, <2>2, <2>3 DEF Behind, ReaderBehind
    <2>5. a <= Depth + s + l
      <3>1. s + 1 \in 1..(s + 1)
        OBVIOUS
      <3>2. a - 0 <= Depth + ((s + 1) - 0 - 1) + l
        BY <1>3, <2>4, <3>1
      <3>3. QED
        BY <3>2, Numbers
    <2>6. Age(n, e) = a + 1
      <3>1. PICK h \in Int : h = (SeqSpace - 1) \div 2 /\ 2 * h <= SeqSpace - 1
        BY Numbers
      <3>2. Depth + MaxFlight + MaxLoss <= h
        BY <3>1 DEF Ample
      <3>3. a + 1 < SeqSpace
        BY <1>1, <2>5, <3>1, <3>2, Numbers
      <3>4. QED
        BY <1>2, <2>3, <3>3, Older
    <2>7. ASSUME NEW j \in (0 + 1)..(s + 2)
          PROVE  /\ Age(n, e) >= Gap(n, r, j)
                 /\ Age(n, e) - Gap(n, r, j) <= Depth + (j - 0 - 1) + l
      <3>1. CASE j = s + 2
        BY <1>2, <2>5, <2>6, <3>1, Numbers
      <3>2. CASE j # s + 2
        <4>1. j \in 1..(s + 1)
          BY <3>2
        <4>2. PICK y \in Nat : y = Gap(q, p, j) /\ Gap(n, r, j) = y + 1
          BY <1>2, <1>3, <4>1
        <4>3. a >= y /\ a - y <= Depth + (j - 0 - 1) + l
          BY <2>4, <4>1, <4>2
        <4>4. QED
          BY <2>6, <4>2, <4>3, Numbers
      <3>3. QED
        BY <3>1, <3>2
    <2>8. QED
      BY <2>2, <2>7
  <1>7. ASSUME NEW i \in Slot, b.slots[i] # NoFrame
        PROVE  /\ b.slots[i] \in Seq32 /\ Index(b.slots[i]) = i
               /\ Age(n, b.slots[i]) > Gap(n, r, 0 + 1)
               /\ Fresh(n, b.slots[i], l + Cardinality(Waiting(r, 0, i)))
    <2>1. /\ b.slots[i] \in Seq32 /\ Index(b.slots[i]) = i
          /\ Age(q, b.slots[i]) > Gap(q, p, 1)
          /\ Fresh(q, b.slots[i], l + Cardinality(Waiting(p, 0, i)))
      BY <1>7 DEF Behind, SlotBehind
    <2>2. /\ Age(n, b.slots[i]) = Age(q, b.slots[i]) + 1
          /\ Fresh(n, b.slots[i], l + Cardinality(Waiting(r, 0, i)))
      <3>1. PICK v \in Seq32 : v = b.slots[i]
        BY <2>1
      <3>2. Index(v) = i /\ Fresh(q, v, l + Cardinality(Waiting(p, 0, Index(v))))
        BY <2>1, <3>1
      <3>3. 0 \in Nat /\ 0 <= Len(p)
        BY <1>1
      <3>4. /\ Age(n, v) = Age(q, v) + 1
            /\ Fresh(n, v, l + Cardinality(Waiting(r, 0, Index(v))))
        BY <3>2, <3>3, SentFresh
      <3>5. QED
        BY <3>1, <3>2, <3>4
    <2>3. PICK g \in Nat, y \in Nat : g = Age(q, b.slots[i]) /\ y = Gap(q, p, 1)
      BY <1>1, <2>1, Ages, Gaps
    <2>4. Gap(n, r, 1) = y + 1 /\ g + 1 > y + 1
      BY <1>2, <2>1, <2>3
    <2>5. QED
      BY <2>1, <2>2, <2>3, <2>4
  <1>8. QED
    BY <1>4, <1>5, <1>6, <1>7 DEF Behind, SlotBehind

\* One is lost.
Without(p, m, r) ==
    /\ m \in 1..Len(p)
    /\ r \in Seq(Seq32) /\ Len(r) = Len(p) - 1
    /\ \A j \in 1..Len(r) : r[j] = p[IF j < m THEN j ELSE j + 1]

\* Where a frame was before one was lost.
Before(m, j) == IF j < m THEN j ELSE j + 1

LEMMA LostGaps ==
  ASSUME NEW q \in Seq32, NEW p \in Seq(Seq32), NEW m, NEW r, Without(p, m, r),
         NEW j \in 1..Len(p)
  PROVE  /\ Gap(q, r, j) = Gap(q, p, Before(m, j))
         /\ Before(m, j) \in 1..(Len(p) + 1) /\ Before(m, j) \in {j, j + 1}
         /\ j \in 1..Len(r) => r[j] = p[Before(m, j)] /\ Before(m, j) \in 1..Len(p)
  <1>1. PICK s \in Nat : s = Len(p) /\ m \in 1..s /\ m \in Nat /\ Len(r) = s - 1
    BY DEF Without
  <1>2. j \in Nat /\ Before(m, j) \in 1..(s + 1) /\ Before(m, j) \in {j, j + 1}
    BY <1>1 DEF Before
  <1>3. CASE j = s
    <2>1. Before(m, j) = s + 1 /\ j \notin 1..Len(r)
      BY <1>1, <1>3 DEF Before
    <2>2. Gap(q, r, j) = 0 /\ Gap(q, p, s + 1) = 0
      BY <1>1, <2>1, Gaps DEF Gap
    <2>3. QED
      BY <1>1, <1>2, <2>1, <2>2
  <1>4. CASE j # s
    <2>1. j \in 1..Len(r) /\ Before(m, j) \in 1..Len(p)
      BY <1>1, <1>4 DEF Before
    <2>2. r[j] = p[Before(m, j)]
      BY <2>1 DEF Without, Before
    <2>3. QED
      BY <1>1, <1>2, <2>1, <2>2 DEF Gap
  <1>5. QED
    BY <1>3, <1>4

LEMMA LostFresh ==
  ASSUME NEW q \in Seq32, NEW p \in Seq(Seq32), NEW l \in Nat, NEW m, NEW r,
         Without(p, m, r), NEW v \in Seq32, NEW k \in 0..(Len(p) - 1),
         Fresh(q, v, l + Cardinality(Waiting(p, Before(m, k), Index(v))))
  PROVE  Fresh(q, v, (l + 1) + Cardinality(Waiting(r, k, Index(v))))
  <1>1. PICK s \in Nat : /\ s = Len(p) /\ m \in 1..s /\ m \in Nat /\ r \in Seq(Seq32)
                         /\ Len(r) = s - 1 /\ k \in Nat /\ k <= s - 1
    BY DEF Without
  <1>2. PICK e \in Nat : e = Before(m, k)
    BY <1>1 DEF Before
  <1>3. Waiting(p, e, Index(v)) \subseteq Waiting(r, k, Index(v)) \cup {p[m]}
    <2>1. ASSUME NEW h \in (e + 1)..s, Index(p[h]) = Index(v)
          PROVE  p[h] \in Waiting(r, k, Index(v)) \cup {p[m]}
      <3>1. CASE h = m
        BY <3>1
      <3>2. CASE h < m
        <4>1. h \in (k + 1)..(s - 1) /\ h \in 1..(s - 1)
          BY <1>1, <1>2, <3>2 DEF Before
        <4>2. r[h] = p[h]
          BY <1>1, <3>2, <4>1 DEF Without
        <4>3. QED
          BY <1>1, <2>1, <4>1, <4>2 DEF Waiting
      <3>3. CASE h > m
        <4>1. h - 1 \in (k + 1)..(s - 1) /\ h - 1 \in 1..(s - 1) /\ ~(h - 1 < m) /\ h - 1 + 1 = h
          BY <1>1, <1>2, <3>3 DEF Before
        <4>2. r[h - 1] = p[h]
          BY <1>1, <4>1 DEF Without
        <4>3. QED
          BY <1>1, <2>1, <4>1, <4>2 DEF Waiting
      <3>4. QED
        BY <1>1, <3>1, <3>2, <3>3
    <2>2. QED
      BY <1>1, <2>1 DEF Waiting
  <1>4. PICK x \in Nat, y \in Nat :
           x = Cardinality(Waiting(p, e, Index(v))) /\ y = Cardinality(Waiting(r, k, Index(v)))
    BY <1>1, WaitingCount
  <1>5. x <= y + 1
    BY <1>1, <1>3, <1>4, WaitingLess
  <1>6. l + x \in Nat /\ (l + 1) + y \in Nat /\ l + x <= (l + 1) + y
    BY <1>5
  <1>7. Fresh(q, v, (l + 1) + y)
    BY <1>2, <1>4, <1>6, FreshWeaker
  <1>8. QED
    BY <1>4, <1>7

LEMMA LostKeeps ==
  ASSUME NEW q \in Seq32, NEW p \in Seq(Seq32), NEW l \in Nat, NEW b \in Buffers,
         InOrder(q, p, l), AllFresh(q, p, l), Behind(q, p, l, b, 0),
         NEW m, NEW r, Without(p, m, r)
  PROVE  InOrder(q, r, l + 1) /\ AllFresh(q, r, l + 1) /\ Behind(q, r, l + 1, b, 0)
  <1>1. PICK s \in Nat : s = Len(p) /\ m \in 1..s /\ m \in Nat /\ s >= 1 /\ Len(r) = s - 1
    BY DEF Without
  <1>2. ASSUME NEW i \in 1..s, NEW j \in 1..s, i < j
        PROVE  /\ Gap(q, r, i) > Gap(q, r, j)
               /\ Gap(q, r, i) - Gap(q, r, j) <= (j - i) + (l + 1)
    <2>1. PICK x \in 1..(s + 1), y \in 1..(s + 1) :
             x = Before(m, i) /\ y = Before(m, j) /\ x \in Nat /\ y \in Nat
      BY <1>1, LostGaps
    <2>2. x < y /\ y - x <= (j - i) + 1
      BY <1>1, <1>2, <2>1 DEF Before
    <2>3. PICK g \in Nat, h \in Nat : g = Gap(q, p, x) /\ h = Gap(q, p, y)
      BY <2>1, Gaps
    <2>4. g > h /\ g - h <= (y - x) + l
      BY <1>1, <2>2, <2>3 DEF InOrder
    <2>5. Gap(q, r, i) = g /\ Gap(q, r, j) = h
      BY <1>1, <2>1, <2>3, LostGaps
    <2>6. QED
      BY <2>2, <2>4, <2>5
  <1>3. InOrder(q, r, l + 1)
    <2>1. Len(r) + 1 = s
      BY <1>1
    <2>2. QED
      BY <1>2, <2>1 DEF InOrder
  <1>4. AllFresh(q, r, l + 1)
    <2>1. ASSUME NEW j \in 1..Len(r)
          PROVE  Fresh(q, r[j], (l + 1) + Cardinality(Waiting(r, j, Index(r[j]))))
      <3>1. j \in 1..Len(p) /\ j \in 0..(Len(p) - 1)
        BY <1>1
      <3>2. r[j] = p[Before(m, j)] /\ Before(m, j) \in 1..Len(p)
        BY <3>1, LostGaps
      <3>3. PICK e \in 1..Len(p) : e = Before(m, j) /\ p[e] \in Seq32
        BY <3>2
      <3>4. Fresh(q, p[e], l + Cardinality(Waiting(p, e, Index(p[e]))))
        BY DEF AllFresh
      <3>5. Fresh(q, p[e], (l + 1) + Cardinality(Waiting(r, j, Index(p[e]))))
        BY <3>1, <3>3, <3>4, LostFresh
      <3>6. QED
        BY <3>2, <3>3, <3>5
    <2>2. QED
      BY <2>1 DEF AllFresh
  <1>5. ReaderBehind(q, r, l + 1, b, 0)
    <2>1. SUFFICES ASSUME b.initialized, NEW j \in (0 + 1)..s
                   PROVE  /\ Age(q, b.read_seq) >= Gap(q, r, j)
                          /\ Age(q, b.read_seq) - Gap(q, r, j) <= Depth + (j - 0 - 1) + (l + 1)
      BY <1>1 DEF ReaderBehind
    <2>2. PICK e \in Seq32 : e = b.read_seq
      BY DEF Buffers
    <2>3. PICK a \in Nat : a = Age(q, e)
      BY Ages
    <2>4. j \in 1..s /\ j \in Nat
      BY <2>1
    <2>5. PICK x \in 1..(s + 1) : x = Before(m, j) /\ x \in Nat /\ x <= j + 1
      BY <1>1, <2>4, LostGaps
    <2>6. PICK g \in Nat : g = Gap(q, p, x) /\ g = Gap(q, r, j)
      BY <1>1, <2>4, <2>5, LostGaps, Gaps
    <2>7. a >= g /\ a - g <= Depth + (x - 0 - 1) + l
      <3>1. x \in (0 + 1)..(Len(p) + 1)
        BY <1>1, <2>5
      <3>2. /\ Age(q, b.read_seq) >= Gap(q, p, x)
            /\ Age(q, b.read_seq) - Gap(q, p, x) <= Depth + (x - 0 - 1) + l
        BY <2>1, <3>1 DEF Behind, ReaderBehind
      <3>3. QED
        BY <2>2, <2>3, <2>6, <3>2
    <2>8. a - g <= Depth + (j - 0 - 1) + (l + 1)
      BY <2>4, <2>5, <2>7, Numbers
    <2>9. QED
      BY <2>2, <2>3, <2>6, <2>7, <2>8
  <1>6. ASSUME NEW i \in Slot, b.slots[i] # NoFrame
        PROVE  /\ b.slots[i] \in Seq32 /\ Index(b.slots[i]) = i
               /\ Age(q, b.slots[i]) > Gap(q, r, 0 + 1)
               /\ Fresh(q, b.slots[i], (l + 1) + Cardinality(Waiting(r, 0, i)))
    <2>1. /\ b.slots[i] \in Seq32 /\ Index(b.slots[i]) = i
          /\ Age(q, b.slots[i]) > Gap(q, p, 1)
          /\ Fresh(q, b.slots[i], l + Cardinality(Waiting(p, 0, i)))
      BY <1>6 DEF Behind, SlotBehind
    <2>2. PICK v \in Seq32 : v = b.slots[i]
      BY <2>1
    <2>3. Before(m, 0) = 0 /\ 0 \in 0..(Len(p) - 1)
      BY <1>1 DEF Before
    <2>4. Fresh(q, v, (l + 1) + Cardinality(Waiting(r, 0, Index(v))))
      BY <2>1, <2>2, <2>3, LostFresh
    <2>5. PICK x \in 1..(s + 1) : x = Before(m, 1) /\ Gap(q, r, 1) = Gap(q, p, x)
      BY <1>1, LostGaps
    <2>6. PICK a \in Nat, g \in Nat, h \in Nat :
             a = Age(q, v) /\ g = Gap(q, p, 1) /\ h = Gap(q, p, x)
      <3>1. x \in Nat /\ 1 \in Nat
        OBVIOUS
      <3>2. Age(q, v) \in Nat /\ Gap(q, p, 1) \in Nat /\ Gap(q, p, x) \in Nat
        BY <3>1, Ages, Gaps
      <3>3. QED
        BY <3>2
    <2>7. g >= h
      <3>1. 1 \in 1..(Len(p) + 1) /\ x \in 1..(Len(p) + 1) /\ 1 <= x
        BY <1>1
      <3>2. QED
        BY <2>6, <3>1, InOrderGaps
    <2>8. a > g
      BY <2>1, <2>2, <2>6
    <2>9. Age(q, b.slots[i]) > Gap(q, r, 0 + 1)
      BY <2>2, <2>5, <2>6, <2>7, <2>8
    <2>10. QED
      BY <2>1, <2>2, <2>4, <2>9
  <1>7. QED
    BY <1>3, <1>4, <1>5, <1>6 DEF Behind, SlotBehind

\* The first n have been inserted.
From(p, n, r) ==
    /\ n \in 0..Len(p)
    /\ r \in Seq(Seq32) /\ Len(r) = Len(p) - n
    /\ \A j \in 1..Len(r) : r[j] = p[j + n]

LEMMA TakenKeeps ==
  ASSUME NEW q \in Seq32, NEW p \in Seq(Seq32), NEW l \in Nat, NEW b \in Buffers,
         InOrder(q, p, l), AllFresh(q, p, l),
         NEW n, NEW r, From(p, n, r), Behind(q, p, l, b, n)
  PROVE  InOrder(q, r, l) /\ AllFresh(q, r, l) /\ Behind(q, r, l, b, 0)
  <1>1. PICK s \in Nat : s = Len(p) /\ n \in 0..s /\ n \in Nat /\ n <= s /\ Len(r) = s - n
                         /\ r \in Seq(Seq32)
    BY DEF From
  <1>2. ASSUME NEW j \in 1..(s - n + 1)
        PROVE  Gap(q, r, j) = Gap(q, p, j + n) /\ j + n \in 1..(s + 1)
    <2>1. j \in Nat /\ j + n \in 1..(s + 1)
      BY <1>1
    <2>2. CASE j = s - n + 1
      <3>1. Gap(q, r, j) = 0 /\ Gap(q, p, s + 1) = 0 /\ j + n = s + 1
        <4>1. Gap(q, r, Len(r) + 1) = 0 /\ Gap(q, p, Len(p) + 1) = 0
          BY <1>1, Gaps
        <4>2. j = Len(r) + 1
          BY <1>1, <2>2
        <4>3. QED
          BY <1>1, <4>1, <4>2
      <3>2. QED
        BY <2>1, <3>1
    <2>3. CASE j # s - n + 1
      <3>1. j \in 1..Len(r) /\ j + n \in 1..Len(p)
        BY <1>1, <2>3
      <3>2. r[j] = p[j + n]
        BY <3>1 DEF From
      <3>3. QED
        BY <2>1, <3>1, <3>2 DEF Gap
    <2>4. QED
      BY <2>2, <2>3
  <1>3. ASSUME NEW k \in 0..(s - n), NEW i
        PROVE  Cardinality(Waiting(p, k + n, i)) <= Cardinality(Waiting(r, k, i))
    <2>1. k \in Nat /\ k + n \in Nat
      BY <1>1
    <2>2. ASSUME NEW h \in (k + n + 1)..s, Index(p[h]) = i
          PROVE  p[h] \in Waiting(r, k, i)
      <3>1. h - n \in (k + 1)..Len(r) /\ h - n \in 1..Len(r) /\ h - n + n = h
        BY <1>1
      <3>2. r[h - n] = p[h]
        BY <3>1 DEF From
      <3>3. QED
        BY <2>2, <3>1, <3>2 DEF Waiting
    <2>3. Waiting(p, k + n, i) \subseteq Waiting(r, k, i)
      BY <1>1, <2>2 DEF Waiting
    <2>4. QED
      BY <1>1, <2>1, <2>3, WaitingSame
  <1>4. ASSUME NEW v \in Seq32, NEW k \in 0..(s - n),
               Fresh(q, v, l + Cardinality(Waiting(p, k + n, Index(v))))
        PROVE  Fresh(q, v, l + Cardinality(Waiting(r, k, Index(v))))
    <2>1. k \in Nat /\ k + n \in Nat
      BY <1>1
    <2>2. PICK x \in Nat, y \in Nat :
             /\ x = Cardinality(Waiting(p, k + n, Index(v)))
             /\ y = Cardinality(Waiting(r, k, Index(v)))
      BY <1>1, <2>1, WaitingCount
    <2>3. l + x \in Nat /\ l + y \in Nat /\ l + x <= l + y
      BY <1>3, <2>2
    <2>4. QED
      BY <1>4, <2>2, <2>3, FreshWeaker
  <1>5. InOrder(q, r, l)
    <2>1. ASSUME NEW i \in 1..(s - n + 1), NEW j \in 1..(s - n + 1), i < j
          PROVE  /\ Gap(q, r, i) > Gap(q, r, j)
                 /\ Gap(q, r, i) - Gap(q, r, j) <= (j - i) + l
      <3>1. i + n \in 1..(s + 1) /\ j + n \in 1..(s + 1) /\ i + n < j + n
            /\ (j + n) - (i + n) = j - i
        BY <1>1, <1>2, <2>1
      <3>2. /\ Gap(q, p, i + n) > Gap(q, p, j + n)
            /\ Gap(q, p, i + n) - Gap(q, p, j + n) <= ((j + n) - (i + n)) + l
        BY <1>1, <3>1 DEF InOrder
      <3>3. QED
        BY <1>2, <3>1, <3>2
    <2>2. Len(r) + 1 = s - n + 1
      BY <1>1
    <2>3. QED
      BY <2>1, <2>2 DEF InOrder
  <1>6. AllFresh(q, r, l)
    <2>1. ASSUME NEW j \in 1..Len(r)
          PROVE  Fresh(q, r[j], l + Cardinality(Waiting(r, j, Index(r[j]))))
      <3>1. j \in 0..(s - n) /\ j + n \in 1..Len(p)
        BY <1>1
      <3>2. r[j] = p[j + n]
        BY DEF From
      <3>3. PICK v \in Seq32 : v = r[j]
        BY <1>1
      <3>4. Fresh(q, v, l + Cardinality(Waiting(p, j + n, Index(v))))
        BY <3>1, <3>2, <3>3 DEF AllFresh
      <3>5. QED
        BY <1>4, <3>1, <3>3, <3>4
    <2>2. QED
      BY <2>1 DEF AllFresh
  <1>7. ReaderBehind(q, r, l, b, 0)
    <2>1. SUFFICES ASSUME b.initialized, NEW j \in (0 + 1)..(s - n + 1)
                   PROVE  /\ Age(q, b.read_seq) >= Gap(q, r, j)
                          /\ Age(q, b.read_seq) - Gap(q, r, j) <= Depth + (j - 0 - 1) + l
      BY <1>1 DEF ReaderBehind
    <2>2. j \in 1..(s - n + 1)
      BY <2>1
    <2>3. j + n \in (n + 1)..(Len(p) + 1) /\ (j + n) - n - 1 = j - 0 - 1
      BY <1>1, <2>2
    <2>4. /\ Age(q, b.read_seq) >= Gap(q, p, j + n)
          /\ Age(q, b.read_seq) - Gap(q, p, j + n) <= Depth + ((j + n) - n - 1) + l
      BY <2>1, <2>3 DEF Behind, ReaderBehind
    <2>5. QED
      BY <1>2, <2>2, <2>3, <2>4
  <1>8. ASSUME NEW i \in Slot, b.slots[i] # NoFrame
        PROVE  /\ b.slots[i] \in Seq32 /\ Index(b.slots[i]) = i
               /\ Age(q, b.slots[i]) > Gap(q, r, 0 + 1)
               /\ Fresh(q, b.slots[i], l + Cardinality(Waiting(r, 0, i)))
    <2>1. /\ b.slots[i] \in Seq32 /\ Index(b.slots[i]) = i
          /\ Age(q, b.slots[i]) > Gap(q, p, n + 1)
          /\ Fresh(q, b.slots[i], l + Cardinality(Waiting(p, n, i)))
      BY <1>8 DEF Behind, SlotBehind
    <2>2. PICK v \in Seq32 : v = b.slots[i]
      BY <2>1
    <2>3. 0 \in 0..(s - n) /\ 0 + n = n
      BY <1>1
    <2>4. Fresh(q, v, l + Cardinality(Waiting(r, 0, Index(v))))
      <3>1. Fresh(q, v, l + Cardinality(Waiting(p, 0 + n, Index(v))))
        BY <2>1, <2>2, <2>3
      <3>2. QED
        BY <1>4, <2>3, <3>1
    <2>5. Gap(q, r, 0 + 1) = Gap(q, p, n + 1)
      <3>1. 0 + 1 = 1 /\ 1 \in 1..(s - n + 1) /\ 1 + n = n + 1
        BY <1>1
      <3>2. Gap(q, r, 1) = Gap(q, p, 1 + n)
        BY <1>2, <3>1
      <3>3. QED
        BY <3>1, <3>2
    <2>6. QED
      BY <2>1, <2>2, <2>4, <2>5
  <1>9. QED
    BY <1>5, <1>6, <1>7, <1>8 DEF Behind, SlotBehind

-----------------------------------------------------------------------------
(* The jitter buffer. *)

\* What goes over the wire is the number itself.
LEMMA WireSame ==
  ASSUME NEW x \in Seq32
  PROVE  Wire(x) = x /\ Index(x) \in Slot
  <1>1. x \in Int /\ Depth \in Nat \ {0}
    BY Ages, Numbers
  <1>2. x % Depth \in 0..(Depth - 1)
    BY <1>1
  <1>3. QED
    BY <1>1, <1>2, Wrapping DEF Wire, Index, Slot

\* The buffer with x in its slot, and e the next to be read.
Put(b, x, e) ==
    [slots |-> [b.slots EXCEPT ![Index(x)] = x], read_seq |-> e, initialized |-> TRUE]

\* The next frame that has not been inserted is in time.
LEMMA PutInTime ==
  ASSUME Ample, NEW q \in Seq32, NEW p \in Seq(Seq32), NEW l \in Nat, NEW b \in Buffers,
         Len(p) <= MaxFlight, l <= MaxLoss, InOrder(q, p, l),
         NEW k \in 0..(Len(p) - 1), Behind(q, p, l, b, k), NEW x, x = p[k + 1]
  PROVE  /\ x \in Seq32 /\ ~Late(b, x) /\ Gap(q, p, k + 1) = Age(q, x)
         /\ \E e \in Seq32 :
               /\ Insert(b, x) = Put(b, x, e)
               /\ Age(q, e) >= Age(q, x) /\ Age(q, e) - Age(q, x) <= Depth - 1
  <1>1. PICK s \in Nat : s = Len(p) /\ k \in Nat /\ k + 1 \in 1..s
    OBVIOUS
  <1>2. x \in Seq32 /\ Gap(q, p, k + 1) = Age(q, x) /\ Wire(x) = x
    <2>1. k + 1 \in Nat /\ k + 1 \in 1..Len(p)
      BY <1>1
    <2>2. p[k + 1] \in Seq32 /\ Gap(q, p, k + 1) = Age(q, p[k + 1])
      BY <2>1, Gaps
    <2>3. QED
      BY <2>2, WireSame
  <1>3. PICK g \in Nat : g = Age(q, x)
    BY <1>2, Ages
  <1>4. b.slots \in [Slot -> Int] /\ b.read_seq \in Seq32 /\ b.initialized \in BOOLEAN
        /\ b = [slots |-> b.slots, read_seq |-> b.read_seq, initialized |-> b.initialized]
    BY DEF Buffers
  <1>5. PICK e \in Seq32 : e = IF b.initialized THEN b.read_seq ELSE x
    BY <1>2, <1>4
  <1>6. PICK c : c = Primed(b, x)
    OBVIOUS
  <1>7. c = [slots |-> b.slots, read_seq |-> e, initialized |-> TRUE]
    BY <1>2, <1>4, <1>5, <1>6 DEF Primed
  <1>8. PICK a \in Nat : a = Age(q, e) /\ a >= g /\ a - g <= Depth + l
    <2>1. PICK a \in Nat : a = Age(q, e)
      BY Ages
    <2>2. CASE b.initialized
      <3>1. k + 1 \in (k + 1)..(Len(p) + 1) /\ (k + 1) - k - 1 = 0
        BY <1>1
      <3>2. /\ Age(q, b.read_seq) >= Gap(q, p, k + 1)
            /\ Age(q, b.read_seq) - Gap(q, p, k + 1) <= Depth + ((k + 1) - k - 1) + l
        BY <2>2, <3>1 DEF Behind, ReaderBehind
      <3>3. QED
        BY <1>2, <1>3, <1>5, <2>1, <2>2, <3>1, <3>2, Numbers
    <2>3. CASE ~b.initialized
      <3>1. a = g
        BY <1>3, <1>5, <2>1, <2>3
      <3>2. QED
        BY <2>1, <3>1, Numbers
    <2>4. QED
      BY <2>2, <2>3
  <1>9. Ahead(b, x) = a - g
    <2>1. Ahead(b, x) = WrappingSub(x, e)
      BY <1>2, <1>6, <1>7 DEF Ahead
    <2>2. QED
      BY <1>2, <1>3, <1>8, <2>1, Differences
  <1>10. PICK h \in Int : h = (SeqSpace - 1) \div 2 /\ 2 * h <= SeqSpace - 1
    BY Numbers
  <1>11. Depth + MaxFlight + MaxLoss <= h
    BY <1>10 DEF Ample
  <1>12. ~Late(b, x)
    <2>1. a - g <= h
      BY <1>8, <1>10, <1>11, Numbers
    <2>2. QED
      BY <1>9, <1>10, <2>1 DEF Late
  <1>13. g + (Depth - 1) < SeqSpace
    <2>1. k + 1 \in 1..(Len(p) + 1) /\ k + 1 <= k + 1
      BY <1>1
    <2>2. Gap(q, p, k + 1) <= Len(p) + l
      BY <2>1, InOrderGaps
    <2>3. g <= s + l
      BY <1>1, <1>2, <1>3, <2>2
    <2>4. QED
      BY <1>1, <1>10, <1>11, <2>3, Numbers
  <1>14. PICK f \in Seq32 :
            /\ f = IF Overrun(b, x) THEN WrappingSub(x, Depth - 1) ELSE e
            /\ Age(q, f) >= g /\ Age(q, f) - g <= Depth - 1
    <2>1. CASE Overrun(b, x)
      <3>1. /\ WrappingSub(x, Depth - 1) \in Seq32
            /\ Age(q, WrappingSub(x, Depth - 1)) = g + (Depth - 1)
        BY <1>2, <1>3, <1>13, Differences
      <3>2. PICK d \in Nat : d = Depth - 1
        BY Numbers
      <3>3. PICK u \in Seq32 : u = WrappingSub(x, Depth - 1) /\ Age(q, u) = g + (Depth - 1)
        BY <3>1
      <3>4. Age(q, u) >= g /\ Age(q, u) - g <= Depth - 1
        <4>1. Age(q, u) = g + d
          BY <3>2, <3>3
        <4>2. g + d >= g /\ g + d - g <= d
          OBVIOUS
        <4>3. QED
          BY <3>2, <4>1, <4>2
      <3>5. QED
        BY <2>1, <3>3, <3>4
    <2>2. CASE ~Overrun(b, x)
      <3>1. ~(a - g >= Depth)
        BY <1>9, <1>12, <2>2 DEF Overrun
      <3>2. a - g <= Depth - 1
        BY <3>1, Numbers
      <3>3. QED
        BY <1>8, <2>2, <3>2
    <2>3. QED
      BY <2>1, <2>2
  <1>15. Insert(b, x) = Put(b, x, f)
    <2>1. Insert(b, x) = [c EXCEPT !.read_seq = IF Overrun(b, x)
                                                THEN WrappingSub(x, Depth - 1) ELSE @,
                                   !.slots[Index(x)] = x]
      BY <1>2, <1>6, <1>12 DEF Insert
    <2>2. QED
      BY <1>7, <1>14, <2>1 DEF Put
  <1>16. QED
    BY <1>2, <1>3, <1>12, <1>14, <1>15

\* A frame is inserted.
LEMMA PutKeeps ==
  ASSUME Ample, NEW q \in Seq32, NEW p \in Seq(Seq32), NEW l \in Nat, NEW b \in Buffers,
         Len(p) <= MaxFlight, l <= MaxLoss, InOrder(q, p, l), AllFresh(q, p, l),
         NEW k \in 0..(Len(p) - 1), Behind(q, p, l, b, k), NEW x, x = p[k + 1],
         NEW c, c = Insert(b, x)
  PROVE  /\ c \in Buffers /\ c.initialized /\ Behind(q, p, l, c, k + 1)
         /\ Age(q, c.read_seq) >= Gap(q, p, k + 1)
  <1>1. PICK s \in Nat : s = Len(p) /\ k \in Nat /\ k + 1 \in 1..s /\ k + 1 \in Nat
    OBVIOUS
  <1>2. x \in Seq32 /\ Gap(q, p, k + 1) = Age(q, x) /\ Index(x) \in Slot /\ x # NoFrame
    <2>1. x \in Seq32 /\ Gap(q, p, k + 1) = Age(q, x)
      BY PutInTime
    <2>2. QED
      BY <2>1, WireSame, Ages DEF NoFrame
  <1>3. PICK e \in Seq32 :
           c = Put(b, x, e) /\ Age(q, e) >= Age(q, x) /\ Age(q, e) - Age(q, x) <= Depth - 1
    BY PutInTime
  <1>4. b.slots \in [Slot -> Int]
    BY DEF Buffers
  <1>5. /\ c.slots = [b.slots EXCEPT ![Index(x)] = x] /\ c.read_seq = e /\ c.initialized
        /\ c.slots[Index(x)] = x
        /\ \A i \in Slot \ {Index(x)} : c.slots[i] = b.slots[i]
    BY <1>2, <1>3, <1>4 DEF Put
  <1>6. c \in Buffers
    <2>1. x \in Int /\ Index(x) \in Slot
      BY <1>2, Ages
    <2>2. [b.slots EXCEPT ![Index(x)] = x] \in [Slot -> Int]
      BY <1>4, <2>1
    <2>3. QED
      BY <1>3, <2>2 DEF Put, Buffers
  <1>7. PICK a \in Nat, g \in Nat : /\ a = Age(q, e) /\ g = Age(q, x) /\ g = Gap(q, p, k + 1)
                                    /\ a >= g /\ a - g <= Depth - 1
    BY <1>2, <1>3, Ages
  <1>8. ReaderBehind(q, p, l, c, k + 1)
    <2>1. ASSUME NEW j \in (k + 1 + 1)..(Len(p) + 1)
          PROVE  /\ Age(q, e) >= Gap(q, p, j)
                 /\ Age(q, e) - Gap(q, p, j) <= Depth + (j - (k + 1) - 1) + l
      <3>1. j \in 1..(Len(p) + 1) /\ k + 1 \in 1..(Len(p) + 1) /\ k + 1 <= j /\ j \in Nat
        BY <1>1
      <3>2. PICK y \in Nat : y = Gap(q, p, j)
        BY <3>1, Gaps
      <3>3. g >= y /\ g - y <= (j - (k + 1)) + l
        BY <1>7, <3>1, <3>2, InOrderGaps
      <3>4. a >= y /\ a - y <= Depth + (j - (k + 1) - 1) + l
        <4>1. PICK d \in Nat : d = Depth
          BY Numbers
        <4>2. a - g <= d - 1
          BY <1>7, <4>1
        <4>3. a >= y /\ a - y <= d + (j - (k + 1) - 1) + l
          <5>1. k \in Nat /\ j \in Nat /\ a >= g
            BY <1>1, <1>7, <3>1
          <5>2. QED
            BY <3>3, <4>2, <5>1
        <4>4. QED
          BY <4>1, <4>3
      <3>5. QED
        BY <1>7, <3>2, <3>4
    <2>2. QED
      BY <1>5, <2>1 DEF ReaderBehind
  <1>9. PICK z \in Nat : z = Gap(q, p, k + 1 + 1) /\ g > z
    <2>1. k + 1 \in 1..(Len(p) + 1) /\ k + 1 + 1 \in 1..(Len(p) + 1) /\ k + 1 < k + 1 + 1
          /\ k + 1 + 1 \in Nat
      BY <1>1
    <2>2. Gap(q, p, k + 1) > Gap(q, p, k + 1 + 1)
      BY <2>1 DEF InOrder
    <2>3. Gap(q, p, k + 1 + 1) \in Nat
      BY <2>1, Gaps
    <2>4. QED
      BY <1>7, <2>2, <2>3
  <1>10. ASSUME NEW i \in Slot, c.slots[i] # NoFrame
         PROVE  /\ c.slots[i] \in Seq32 /\ Index(c.slots[i]) = i
                /\ Age(q, c.slots[i]) > Gap(q, p, k + 1 + 1)
                /\ Fresh(q, c.slots[i], l + Cardinality(Waiting(p, k + 1, i)))
    <2>1. CASE i = Index(x)
      <3>1. k + 1 \in 1..Len(p)
        BY <1>1
      <3>2. Fresh(q, x, l + Cardinality(Waiting(p, k + 1, Index(x))))
        BY <3>1 DEF AllFresh
      <3>3. Age(q, x) > Gap(q, p, k + 1 + 1)
        BY <1>7, <1>9
      <3>4. QED
        BY <1>2, <1>5, <2>1, <3>2, <3>3
    <2>2. CASE i # Index(x)
      <3>1. c.slots[i] = b.slots[i]
        BY <1>5, <2>2
      <3>2. /\ b.slots[i] \in Seq32 /\ Index(b.slots[i]) = i
            /\ Age(q, b.slots[i]) > Gap(q, p, k + 1)
            /\ Fresh(q, b.slots[i], l + Cardinality(Waiting(p, k, i)))
        BY <1>10, <3>1 DEF Behind, SlotBehind
      <3>3. PICK v \in Seq32 : v = b.slots[i]
        BY <3>2
      <3>4. Waiting(p, k, i) \subseteq Waiting(p, k + 1, i)
        <4>1. ASSUME NEW h \in (k + 1)..Len(p), Index(p[h]) = i
              PROVE  h \in (k + 1 + 1)..Len(p)
          BY <1>1, <2>2, <4>1
        <4>2. QED
          BY <4>1 DEF Waiting
      <3>5. PICK m \in Nat, n \in Nat :
               m = Cardinality(Waiting(p, k, i)) /\ n = Cardinality(Waiting(p, k + 1, i))
        BY <1>1, WaitingCount
      <3>6. m <= n
        BY <1>1, <3>4, <3>5, WaitingSame
      <3>7. l + m \in Nat /\ l + n \in Nat /\ l + m <= l + n
        BY <3>6
      <3>8. Fresh(q, v, l + n)
        BY <3>2, <3>3, <3>5, <3>7, FreshWeaker
      <3>9. Age(q, v) > Gap(q, p, k + 1 + 1)
        <4>1. PICK w \in Nat : w = Age(q, v)
          BY Ages
        <4>2. w > g
          BY <1>7, <3>2, <3>3, <4>1
        <4>3. QED
          BY <1>9, <4>1, <4>2
      <3>10. QED
        BY <3>1, <3>2, <3>3, <3>5, <3>8, <3>9
    <2>3. QED
      BY <2>1, <2>2
  <1>11. Age(q, c.read_seq) >= Gap(q, p, k + 1)
    BY <1>5, <1>7
  <1>12. Behind(q, p, l, c, k + 1)
    BY <1>5, <1>8, <1>10 DEF Behind, SlotBehind
  <1>13. QED
    BY <1>5, <1>6, <1>11, <1>12

\* Reading goes on to the next number, which has been inserted or skipped.
LEMMA ReaderMoves ==
  ASSUME NEW q \in Seq32, NEW p \in Seq(Seq32), NEW l \in Nat, NEW b \in Buffers,
         InOrder(q, p, l), NEW k \in 0..Len(p), b.initialized,
         ReaderBehind(q, p, l, b, k), Age(q, b.read_seq) > Gap(q, p, k + 1),
         NEW c, c.initialized, c.read_seq = WrappingAdd(b.read_seq, 1)
  PROVE  ReaderBehind(q, p, l, c, k)
  <1>1. PICK s \in Nat : s = Len(p) /\ k \in Nat /\ k + 1 \in 1..(s + 1) /\ k + 1 \in Nat
    OBVIOUS
  <1>2. PICK e \in Seq32 : e = b.read_seq
    BY DEF Buffers
  <1>3. PICK a \in Nat, g \in Nat : a = Age(q, e) /\ g = Gap(q, p, k + 1) /\ a > g
    BY <1>1, <1>2, Ages, Gaps
  <1>4. PICK f \in Seq32 : f = c.read_seq /\ Age(q, f) = a - 1
    BY <1>2, <1>3, Differences
  <1>5. ASSUME NEW j \in (k + 1)..(Len(p) + 1)
        PROVE  /\ Age(q, f) >= Gap(q, p, j)
               /\ Age(q, f) - Gap(q, p, j) <= Depth + (j - k - 1) + l
    <2>1. j \in 1..(Len(p) + 1) /\ k + 1 \in 1..(Len(p) + 1) /\ k + 1 <= j /\ j \in Nat
      BY <1>1
    <2>2. PICK y \in Nat : y = Gap(q, p, j)
      BY <2>1, Gaps
    <2>3. g >= y
      BY <1>3, <2>1, <2>2, InOrderGaps
    <2>4. a - y <= Depth + (j - k - 1) + l
      BY <1>2, <1>3, <2>2 DEF ReaderBehind
    <2>5. a - 1 >= y /\ (a - 1) - y <= Depth + (j - k - 1) + l
      BY <1>1, <1>3, <2>1, <2>3, <2>4, Numbers
    <2>6. QED
      BY <1>4, <2>2, <2>5
  <1>6. QED
    BY <1>4, <1>5 DEF ReaderBehind

LEMMA PopKeeps ==
  ASSUME NEW q \in Seq32, NEW p \in Seq(Seq32), NEW l \in Nat, NEW b \in Buffers,
         InOrder(q, p, l), NEW k \in 0..Len(p), Behind(q, p, l, b, k), CanPop(b)
  PROVE  Popped(b) \in Buffers /\ Behind(q, p, l, Popped(b), k)
  <1>1. b.initialized
    BY DEF CanPop
  <1>2. /\ b.slots \in [Slot -> Int] /\ b.read_seq \in Seq32
        /\ b = [slots |-> b.slots, read_seq |-> b.read_seq, initialized |-> b.initialized]
    BY DEF Buffers
  <1>3. PICK e \in Seq32 : e = b.read_seq /\ Index(e) \in Slot
    BY <1>2, WireSame
  <1>4. PICK v : v = b.slots[Index(e)]
    OBVIOUS
  <1>5. v # NoFrame /\ Wire(v) = e
    BY <1>3, <1>4 DEF CanPop, NextSlot
  <1>6. v \in Seq32 /\ Age(q, v) > Gap(q, p, k + 1)
    BY <1>3, <1>4, <1>5 DEF Behind, SlotBehind
  <1>7. v = e
    BY <1>5, <1>6, WireSame
  <1>8. PICK c : c = Popped(b)
    OBVIOUS
  <1>9. c = [slots |-> [b.slots EXCEPT ![Index(e)] = NoFrame],
             read_seq |-> WrappingAdd(e, 1), initialized |-> TRUE]
    BY <1>1, <1>2, <1>3, <1>8 DEF Popped
  <1>10. /\ c.slots[Index(e)] = NoFrame /\ \A i \in Slot \ {Index(e)} : c.slots[i] = b.slots[i]
         /\ c.read_seq = WrappingAdd(b.read_seq, 1) /\ c.initialized
    BY <1>2, <1>3, <1>9
  <1>11. c \in Buffers
    <2>1. [b.slots EXCEPT ![Index(e)] = NoFrame] \in [Slot -> Int]
      BY <1>2, <1>3 DEF NoFrame
    <2>2. WrappingAdd(e, 1) \in Seq32
      BY Older
    <2>3. QED
      BY <1>9, <2>1, <2>2 DEF Buffers
  <1>12. ReaderBehind(q, p, l, c, k)
    BY <1>1, <1>3, <1>6, <1>7, <1>10, ReaderMoves DEF Behind
  <1>13. ASSUME NEW i \in Slot
         PROVE  SlotBehind(q, p, l, c, k, i)
    <2>1. SlotBehind(q, p, l, b, k, i)
      BY DEF Behind
    <2>2. c.slots[i] = NoFrame \/ c.slots[i] = b.slots[i]
      BY <1>10
    <2>3. QED
      BY <2>1, <2>2 DEF SlotBehind
  <1>14. QED
    BY <1>8, <1>10, <1>11, <1>12, <1>13 DEF Behind

LEMMA AdvanceKeeps ==
  ASSUME NEW q \in Seq32, NEW p \in Seq(Seq32), NEW l \in Nat, NEW b \in Buffers,
         InOrder(q, p, l), NEW k \in 0..Len(p), b.initialized, Behind(q, p, l, b, k),
         Age(q, b.read_seq) > Gap(q, p, k + 1)
  PROVE  AdvanceExpected(b) \in Buffers /\ Behind(q, p, l, AdvanceExpected(b), k)
  <1>1. PICK c : c = AdvanceExpected(b)
    OBVIOUS
  <1>2. PICK e \in Seq32 : e = b.read_seq
    BY DEF Buffers
  <1>3. b = [slots |-> b.slots, read_seq |-> b.read_seq, initialized |-> b.initialized]
    BY DEF Buffers
  <1>4. /\ c = [slots |-> b.slots, read_seq |-> WrappingAdd(b.read_seq, 1), initialized |-> TRUE]
    BY <1>1, <1>3 DEF AdvanceExpected
  <1>5. c.slots = b.slots /\ c.read_seq = WrappingAdd(b.read_seq, 1) /\ c.initialized
    BY <1>4
  <1>6. c \in Buffers
    <2>1. WrappingAdd(b.read_seq, 1) \in Seq32
      BY <1>2, Older
    <2>2. QED
      BY <1>4, <2>1 DEF Buffers
  <1>7. ReaderBehind(q, p, l, c, k)
    BY <1>5, ReaderMoves DEF Behind
  <1>8. \A i \in Slot : SlotBehind(q, p, l, c, k, i)
    BY <1>5 DEF Behind, SlotBehind
  <1>9. QED
    BY <1>1, <1>5, <1>6, <1>7, <1>8 DEF Behind

LEMMA EmptyKeeps ==
  ASSUME NEW q, NEW p, NEW l, NEW k
  PROVE  EmptyBuffer \in Buffers /\ Behind(q, p, l, EmptyBuffer, k)
  <1>1. 0 \in Seq32
    BY Numbers DEF Seq32
  <1>2. EmptyBuffer \in Buffers /\ ~EmptyBuffer.initialized
        /\ \A i \in Slot : EmptyBuffer.slots[i] = NoFrame
    BY <1>1 DEF EmptyBuffer, Buffers, NoFrame
  <1>3. QED
    BY <1>2 DEF Behind, ReaderBehind, SlotBehind

-----------------------------------------------------------------------------
(* A loop of the mix task. *)

\* A set of natural numbers has a least one.
LEMMA Least ==
  ASSUME NEW D, D \subseteq Nat, D # {}
  PROVE  \E x \in D : \A y \in D : x <= y
  <1> DEFINE Below(x) == {y \in D : y < x}
             Sets == {Below(x) : x \in D}
  <1>1. ASSUME NEW x \in D
        PROVE  Below(x) \in FiniteSubsetsOf(D)
    <2>1. x \in Nat /\ Below(x) \in SUBSET Nat /\ \A y \in Below(x) : y <= x
      <3>1. x \in Nat /\ Below(x) \in SUBSET Nat
        OBVIOUS
      <3>2. ASSUME NEW y \in D, y < x
            PROVE  y <= x
        BY <3>1, <3>2
      <3>3. QED
        BY <3>1, <3>2
    <2>2. IsFiniteSet(Below(x))
      BY <2>1, FS_BoundedSetOfNaturals
    <2>3. QED
      BY <2>2 DEF FiniteSubsetsOf
  <1>2. Sets \subseteq FiniteSubsetsOf(D) /\ Sets # {}
    BY <1>1
  <1>3. PICK T \in Sets : \A U \in Sets : ~(<<U, T>> \in StrictSubsetOrdering(D))
    BY <1>2, FS_StrictSubsetOrderingWellFounded, WFMin
  <1>4. PICK x \in D : T = Below(x)
    BY <1>3
  <1>5. ASSUME NEW y \in D, y < x
        PROVE  FALSE
    <2>1. x \in Nat /\ y \in Nat /\ ~(y < y)
      OBVIOUS
    <2>2. \A z \in Below(y) : z \in Below(x)
      <3>1. ASSUME NEW z \in D, z < y
            PROVE  z < x
        BY <1>5, <2>1, <3>1
      <3>2. QED
        BY <3>1
    <2>3. y \in Below(x) /\ y \notin Below(y)
      BY <1>5, <2>1
    <2>4. <<Below(y), Below(x)>> \in StrictSubsetOrdering(D)
      <3>1. Below(y) \in SUBSET D /\ Below(x) \in SUBSET D
        OBVIOUS
      <3>2. Below(y) \subseteq Below(x) /\ Below(y) # Below(x)
        BY <2>2, <2>3
      <3>3. QED
        BY <3>1, <3>2 DEF StrictSubsetOrdering
    <2>5. Below(y) \in Sets
      OBVIOUS
    <2>6. QED
      BY <1>3, <1>4, <2>4, <2>5
  <1>6. \A y \in D : x <= y
    <2>1. ASSUME NEW y \in D
          PROVE  x <= y
      <3>1. x \in Nat /\ y \in Nat /\ ~(y < x)
        BY <1>5
      <3>2. QED
        BY <3>1
    <2>2. QED
      BY <2>1
  <1>7. QED
    BY <1>6

\* What holds at first, and after a round if before, holds after every round.
LEMMA Rounds ==
  ASSUME NEW N \in Nat, NEW S, 0 \in S, \A k \in 1..N : k - 1 \in S => k \in S
  PROVE  \A k \in 0..N : k \in S
  <1> DEFINE D == {k \in 0..N : k \notin S}
  <1>1. SUFFICES ASSUME D # {} PROVE FALSE
    OBVIOUS
  <1>2. PICK x \in D : \A y \in D : x <= y
    <2>1. D \subseteq Nat
      OBVIOUS
    <2>2. QED
      BY <1>1, <2>1, Least
  <1>3. x \in 1..N /\ x \in Nat /\ x \notin S
    <2>1. x \in 0..N /\ x \notin S /\ x # 0
      OBVIOUS
    <2>2. QED
      BY <2>1
  <1>4. x - 1 \in 0..N /\ ~(x <= x - 1)
    BY <1>3
  <1>5. x - 1 \in S
    BY <1>2, <1>4
  <1>6. QED
    BY <1>3, <1>5

\* A loop of N rounds, each of which takes what it finds in S to S, ends.
Stays(S, N, F) == \A k \in 1..N : F[k] \in [S -> S]
Passes(S, b, N, F, g) ==
    g \in [0..N -> S] /\ g[0] = b /\ \A k \in 1..N : g[k] = F[k][g[k - 1]]

LEMMA Loop ==
  ASSUME NEW S, NEW b \in S, NEW N \in Nat, NEW F, Stays(S, N, F)
  PROVE  \E g : Passes(S, b, N, F, g)
  <1>0. \A k \in 1..N : F[k] \in [S -> S]
    BY DEF Stays
  <1> DEFINE Is(n, g) == /\ g \in [0..n -> S] /\ g[0] = b
                         /\ \A k \in 1..n : g[k] = F[k][g[k - 1]]
             T == {n \in 0..N : \E g : Is(n, g)}
  <1>1. 0 \in T
    <2>1. Is(0, [k \in 0..0 |-> b])
      OBVIOUS
    <2>2. 0 \in 0..N
      OBVIOUS
    <2> HIDE DEF Is
    <2>3. QED
      BY <2>1, <2>2
  <1>2. ASSUME NEW n \in 1..N, n - 1 \in T
        PROVE  n \in T
    <2>1. PICK g : Is(n - 1, g)
      BY <1>2
    <2>2. n - 1 \in 0..(n - 1) /\ n \in Nat
      OBVIOUS
    <2>3. g[n - 1] \in S /\ F[n] \in [S -> S]
      BY <1>0, <2>1, <2>2
    <2>4. F[n][g[n - 1]] \in S
      BY <2>3
    <2> DEFINE h == [k \in 0..n |-> IF k < n THEN g[k] ELSE F[n][g[n - 1]]]
    <2>5. h \in [0..n -> S]
      <3>1. ASSUME NEW k \in 0..n, k < n
            PROVE  g[k] \in S
        <4>1. k \in 0..(n - 1)
          BY <2>2, <3>1
        <4>2. QED
          BY <2>1, <4>1
      <3>2. QED
        BY <2>4, <3>1
    <2>6. h[0] = b
      <3>1. 0 \in 0..n /\ 0 < n
        BY <2>2
      <3>2. QED
        BY <2>1, <3>1
    <2>7. ASSUME NEW k \in 1..n
          PROVE  h[k] = F[k][h[k - 1]]
      <3>1. k \in 0..n /\ k - 1 \in 0..n /\ k - 1 < n /\ k \in Nat
        BY <2>2
      <3>2. h[k - 1] = g[k - 1]
        BY <3>1
      <3>3. CASE k = n
        BY <3>1, <3>2, <3>3
      <3>4. CASE k # n
        <4>1. k < n /\ k \in 1..(n - 1)
          BY <2>2, <3>1, <3>4
        <4>2. h[k] = g[k] /\ g[k] = F[k][g[k - 1]]
          BY <2>1, <3>1, <4>1
        <4>3. QED
          BY <3>2, <4>2
      <3>5. QED
        BY <3>3, <3>4
    <2>8. Is(n, h)
      BY <2>5, <2>6, <2>7
    <2>9. n \in 0..N
      OBVIOUS
    <2> HIDE DEF Is, h
    <2>10. QED
      BY <2>8, <2>9
  <1>3. N \in T
    <2>1. \A k \in 0..N : k \in T
      <3> HIDE DEF T
      <3>1. \A k \in 1..N : k - 1 \in T => k \in T
        BY <1>2
      <3>2. QED
        BY <1>1, <3>1, Rounds
    <2>2. N \in 0..N
      OBVIOUS
    <2>3. QED
      BY <2>1, <2>2
  <1>4. QED
    BY <1>3 DEF Passes

\* The buffer stays one, whatever is done to it.
LEMMA BufferTypes ==
  ASSUME NEW b \in Buffers, NEW n \in Seq32
  PROVE  /\ Insert(b, n) \in Buffers /\ Popped(b) \in Buffers
         /\ AdvanceExpected(b) \in Buffers /\ EmptyBuffer \in Buffers
  <1>1. /\ b.slots \in [Slot -> Int] /\ b.read_seq \in Seq32 /\ b.initialized \in BOOLEAN
        /\ b = [slots |-> b.slots, read_seq |-> b.read_seq, initialized |-> b.initialized]
    BY DEF Buffers
  <1>2. PICK e \in Seq32 : e = b.read_seq
    BY <1>1
  <1>3. Index(e) \in Slot /\ WrappingAdd(e, 1) \in Seq32
    BY WireSame, Older
  <1>4. Index(n) \in Slot /\ Wire(n) = n /\ n \in Nat
    BY WireSame, Ages
  <1>5. WrappingSub(n, Depth - 1) \in Seq32
    <2>1. PICK a \in Int : a = n - (Depth - 1)
      BY <1>4, Numbers
    <2>2. a % SeqSpace \in 0..(SeqSpace - 1)
      BY Numbers
    <2>3. QED
      BY <2>1, <2>2 DEF WrappingSub, Seq32
  <1>6. Primed(b, n) \in Buffers
    BY <1>1, <1>4 DEF Primed, Buffers
  <1>7. Insert(b, n) \in Buffers
    <2>1. PICK c \in Buffers : c = Primed(b, n)
      BY <1>6
    <2>2. n \in Int /\ c.slots \in [Slot -> Int] /\ c.read_seq \in Seq32
      BY <1>4 DEF Buffers
    <2>3. [c.slots EXCEPT ![Index(n)] = n] \in [Slot -> Int]
      BY <1>4, <2>2
    <2>4. Insert(b, n) \in {c, [c EXCEPT !.slots[Index(n)] = n],
                            [c EXCEPT !.read_seq = WrappingSub(n, Depth - 1),
                                      !.slots[Index(n)] = n]}
      BY <1>4, <2>1 DEF Insert, Buffers
    <2>5. QED
      BY <1>5, <2>2, <2>3, <2>4 DEF Buffers
  <1>8. Popped(b) \in Buffers
    <2>1. Index(b.read_seq) \in Slot /\ WrappingAdd(b.read_seq, 1) \in Seq32
      BY <1>2, <1>3
    <2>2. [b.slots EXCEPT ![Index(b.read_seq)] = NoFrame] \in [Slot -> Int]
      BY <1>1, <2>1 DEF NoFrame
    <2>3. b \in Buffers
      OBVIOUS
    <2>4. QED
      BY <2>1, <2>2, <2>3 DEF Buffers, Popped
  <1>9. AdvanceExpected(b) \in Buffers
    BY <1>1, <1>2, <1>3 DEF AdvanceExpected, Buffers
  <1>10. QED
    BY <1>7, <1>8, <1>9, EmptyKeeps

\* The drain, frame by frame.
LEMMA DrainSteps ==
  ASSUME channel \in Seq(Seq32), jb \in Buffers
  PROVE  /\ DrainedTo[0] = jb
         /\ \A k \in 1..Len(channel) : DrainedTo[k] = Insert(DrainedTo[k - 1], channel[k])
         /\ \A k \in 0..Len(channel) : DrainedTo[k] \in Buffers
  <1>1. PICK N \in Nat : N = Len(channel)
    OBVIOUS
  <1>2. \A k \in 1..N : channel[k] \in Seq32
    BY <1>1
  <1> DEFINE F == [k \in 1..N |-> [b \in Buffers |-> Insert(b, channel[k])]]
             D(f) == f = [k \in 0..N |-> IF k = 0 THEN jb ELSE Insert(f[k - 1], channel[k])]
  <1>3. \A k \in 1..N : F[k] \in [Buffers -> Buffers]
    BY <1>2, BufferTypes
  <1>4. PICK g \in [0..N -> Buffers] : g[0] = jb /\ \A k \in 1..N : g[k] = F[k][g[k - 1]]
    <2>1. Stays(Buffers, N, F)
      BY <1>3 DEF Stays
    <2> HIDE DEF F
    <2>2. PICK g : Passes(Buffers, jb, N, F, g)
      BY <2>1, Loop
    <2>3. QED
      BY <2>2 DEF Passes
  <1>5. D(g)
    <2>1. ASSUME NEW k \in 0..N
          PROVE  g[k] = IF k = 0 THEN jb ELSE Insert(g[k - 1], channel[k])
      <3>1. CASE k = 0
        BY <1>4, <3>1
      <3>2. CASE k # 0
        <4>1. k \in 1..N /\ k - 1 \in 0..N
          BY <3>2
        <4>2. g[k] = F[k][g[k - 1]] /\ g[k - 1] \in Buffers
          BY <1>4, <4>1
        <4>3. F[k][g[k - 1]] = Insert(g[k - 1], channel[k])
          BY <4>1, <4>2
        <4>4. QED
          BY <3>2, <4>2, <4>3
      <3>3. QED
        BY <3>1, <3>2
    <2> HIDE DEF F
    <2>2. QED
      BY <2>1
  <1>6. DrainedTo = CHOOSE f : D(f)
    BY <1>1 DEF DrainedTo
  <1>7. D(DrainedTo)
    <2> HIDE DEF D
    <2>1. QED
      BY <1>5, <1>6
  <1>8. /\ DrainedTo[0] = jb
        /\ \A k \in 1..N : DrainedTo[k] = Insert(DrainedTo[k - 1], channel[k])
    <2>1. PICK f : f = DrainedTo
      OBVIOUS
    <2>2. f = [k \in 0..N |-> IF k = 0 THEN jb ELSE Insert(f[k - 1], channel[k])]
      BY <1>7, <2>1
    <2>3. 0 \in 0..N /\ \A k \in 1..N : k \in 0..N /\ k # 0
      OBVIOUS
    <2>4. f[0] = jb /\ \A k \in 1..N : f[k] = Insert(f[k - 1], channel[k])
      BY <2>2, <2>3
    <2>5. QED
      BY <2>1, <2>4
  <1>9. \A k \in 0..N : DrainedTo[k] \in Buffers
    <2> DEFINE S == {k \in 0..N : DrainedTo[k] \in Buffers}
    <2>1. 0 \in S
      BY <1>8
    <2>2. ASSUME NEW k \in 1..N, k - 1 \in S
          PROVE  k \in S
      <3>1. DrainedTo[k - 1] \in Buffers /\ channel[k] \in Seq32 /\ k \in 0..N
        BY <1>2, <2>2
      <3>2. QED
        BY <1>8, <3>1, BufferTypes
    <2>3. \A k \in 0..N : k \in S
      <3> HIDE DEF S
      <3>1. QED
        BY <2>1, <2>2, Rounds
    <2>4. QED
      BY <2>3
  <1>10. QED
    BY <1>1, <1>8, <1>9

\* The loop of pops: what a pop keeps, it keeps.
LEMMA PopSteps ==
  ASSUME NEW S, S \subseteq Buffers, NEW b \in S, \A c \in S : CanPop(c) => Popped(c) \in S
  PROVE  PopAll(b) \in S
  <1>1. PICK N \in Nat : N = Depth
    BY Numbers
  <1>2. \A c \in S : PopOne(c) \in S
    BY DEF PopOne
  <1> DEFINE F == [k \in 1..N |-> [c \in S |-> PopOne(c)]]
             D(f) == f = [k \in 0..N |-> IF k = 0 THEN b ELSE PopOne(f[k - 1])]
  <1>3. \A k \in 1..N : F[k] \in [S -> S]
    BY <1>2
  <1>4. PICK g \in [0..N -> S] : g[0] = b /\ \A k \in 1..N : g[k] = F[k][g[k - 1]]
    <2>1. Stays(S, N, F)
      BY <1>3 DEF Stays
    <2> HIDE DEF F
    <2>2. PICK g : Passes(S, b, N, F, g)
      BY <2>1, Loop
    <2>3. QED
      BY <2>2 DEF Passes
  <1>5. D(g)
    <2>1. ASSUME NEW k \in 0..N
          PROVE  g[k] = IF k = 0 THEN b ELSE PopOne(g[k - 1])
      <3>1. CASE k = 0
        BY <1>4, <3>1
      <3>2. CASE k # 0
        <4>1. k \in 1..N /\ k - 1 \in 0..N
          BY <3>2
        <4>2. g[k] = F[k][g[k - 1]] /\ g[k - 1] \in S
          BY <1>4, <4>1
        <4>3. F[k][g[k - 1]] = PopOne(g[k - 1])
          BY <4>1, <4>2
        <4>4. QED
          BY <3>2, <4>2, <4>3
      <3>3. QED
        BY <3>1, <3>2
    <2> HIDE DEF F
    <2>2. QED
      BY <2>1
  <1>6. PICK f : f = CHOOSE h : D(h)
    OBVIOUS
  <1>7. PopAll(b) = f[N]
    BY <1>1, <1>6 DEF PopAll
  <1>8. D(f)
    <2> HIDE DEF D
    <2>1. QED
      BY <1>5, <1>6
  <1>9. f[0] = b /\ \A k \in 1..N : f[k] = PopOne(f[k - 1])
    <2>1. 0 \in 0..N /\ \A k \in 1..N : k \in 0..N /\ k # 0
      OBVIOUS
    <2>2. QED
      BY <1>8, <2>1
  <1>10. \A k \in 0..N : f[k] \in S
    <2> DEFINE T == {k \in 0..N : f[k] \in S}
    <2>1. 0 \in T
      BY <1>9
    <2>2. ASSUME NEW k \in 1..N, k - 1 \in T
          PROVE  k \in T
      <3>1. f[k - 1] \in S /\ k \in 0..N
        BY <2>2
      <3>2. QED
        BY <1>2, <1>9, <3>1
    <2>3. \A k \in 0..N : k \in T
      <3> HIDE DEF T
      <3>1. QED
        BY <2>1, <2>2, Rounds
    <2>4. QED
      BY <2>3
  <1>11. QED
    BY <1>7, <1>10

-----------------------------------------------------------------------------
(* Types. *)

UpTypes ==
    /\ sequence \in Seq32
    /\ flight \in Seq(Seq32) /\ channel \in Seq(Seq32)
    /\ Len(channel) <= ChanCap /\ Len(channel) + Len(flight) <= MaxFlight
    /\ jb \in Buffers
    /\ plc_streak \in 0..(ResetStreak - 1)
    /\ multi \in BOOLEAN /\ outcome \in Outcomes
    /\ lost \in 0..MaxLoss /\ reordered \in 0..MaxReorder /\ late \in 0..(MaxReorder + 1)

\* The frame at the head of the network.
LEMMA FlightHead ==
  ASSUME flight \in Seq(Seq32), flight # <<>>
  PROVE  /\ Head(flight) = flight[1] /\ Head(flight) \in Seq32
         /\ Tail(flight) \in Seq(Seq32) /\ Len(flight) \in Nat /\ Len(flight) >= 1
         /\ Len(Tail(flight)) = Len(flight) - 1
         /\ \A j \in 1..(Len(flight) - 1) : Tail(flight)[j] = flight[j + 1]
  <1>1. PICK n \in Nat : n = Len(flight) /\ n >= 1
    OBVIOUS
  <1>2. Len(Tail(flight)) = n - 1 /\ \A j \in 1..(n - 1) : Tail(flight)[j] = flight[j + 1]
    BY <1>1
  <1>3. Head(flight) = flight[1] /\ Head(flight) \in Seq32 /\ Tail(flight) \in Seq(Seq32)
    BY <1>1
  <1>4. QED
    BY <1>1, <1>2, <1>3

\* late counts no further than the bound.
LEMMA LateCount ==
  ASSUME NEW x \in Nat, NEW y \in Nat, NEW m, m = Min({x, y})
  PROVE  m \in {x, y} /\ m <= x /\ m <= y
  <1>1. \E z \in {x, y} : \A w \in {x, y} : z <= w
    <2>1. CASE x <= y
      BY <2>1
    <2>2. CASE ~(x <= y)
      BY <2>2
    <2>3. QED
      BY <2>1, <2>2
  <1>2. m \in {x, y} /\ \A w \in {x, y} : m <= w
    BY <1>1 DEF Min
  <1>3. QED
    BY <1>2

\* The buffer after the drain, and the frames that were refused.
LEMMA DrainTypes ==
  ASSUME UpTypes
  PROVE  /\ Drained \in Buffers
         /\ Cardinality(LateInDrain) \in Nat
  <1>1. PICK n \in Nat : n = Len(channel)
    BY DEF UpTypes
  <1>2. \A k \in 0..n : DrainedTo[k] \in Buffers
    BY <1>1, DrainSteps DEF UpTypes
  <1>3. Drained \in Buffers
    BY <1>1, <1>2 DEF Drained
  <1>4. IsFiniteSet(1..n) /\ LateInDrain \in SUBSET (1..n)
    BY <1>1, FS_Interval DEF LateInDrain
  <1>5. QED
    BY <1>3, <1>4, FS_Subset, FS_CardinalityType

LEMMA TickTypes ==
  ASSUME UpTypes, Tick
  PROVE  /\ jb' \in Buffers /\ plc_streak' \in 0..(ResetStreak - 1) /\ outcome' \in Outcomes
         /\ late' \in 0..(MaxReorder + 1)
  <1>1. PICK b : /\ b = Drained
                 /\ TickSolo(b) \/ TickHeard(b) \/ TickUnprimed(b)
                    \/ TickReset(b) \/ TickWait(b) \/ TickConceal(b)
    BY DEF Tick
  <1>2. b \in Buffers
    BY <1>1, DrainTypes
  <1>3. PICK s \in Nat \ {0} : s = ResetStreak
    BY Numbers
  <1>12. PICK c \in 0..(s - 1) : c = plc_streak
    BY <1>3 DEF UpTypes
  <1>4. Popped(b) \in Buffers /\ AdvanceExpected(b) \in Buffers /\ EmptyBuffer \in Buffers
    <2>1. 0 \in Seq32
      BY Numbers DEF Seq32
    <2>2. QED
      BY <1>2, <2>1, BufferTypes
  <1>5. PopAll(b) \in Buffers
    <2>1. \A d \in Buffers : CanPop(d) => Popped(d) \in Buffers
      <3>1. 0 \in Seq32
        BY Numbers DEF Seq32
      <3>2. QED
        BY <3>1, BufferTypes
    <2>2. QED
      BY <1>2, <2>1, PopSteps
  <1>6. jb' \in {b, PopAll(b), Popped(b), EmptyBuffer, AdvanceExpected(b)}
    BY <1>1 DEF TickSolo, TickHeard, TickUnprimed, TickReset, TickWait, TickConceal
  <1>7. outcome' \in Outcomes
    BY <1>1 DEF TickSolo, TickHeard, TickUnprimed, TickReset, TickWait, TickConceal, Outcomes
  <1>8. plc_streak' = plc_streak \/ plc_streak' = 0
        \/ (plc_streak' = plc_streak + 1 /\ plc_streak + 1 < ResetStreak)
    BY <1>1 DEF TickSolo, TickHeard, TickUnprimed, TickReset, TickWait, TickConceal
  <1>9. plc_streak' \in 0..(ResetStreak - 1)
    <2>1. 0 \in 0..(s - 1) /\ c \in Nat /\ (c + 1 < s => c + 1 \in 0..(s - 1))
      OBVIOUS
    <2>2. QED
      BY <1>3, <1>12, <1>8, <2>1
  <1>10. late' \in 0..(MaxReorder + 1)
    <2>1. PICK x \in Nat, y \in Nat : x = late + Cardinality(LateInDrain) /\ y = MaxReorder + 1
      <3>1. PICK w \in Nat : w = MaxReorder
        BY Numbers
      <3>4. PICK u \in Nat : u = late
        <4>1. late \in 0..(w + 1)
          BY <3>1 DEF UpTypes
        <4>2. QED
          BY <4>1
      <3>5. PICK v \in Nat : v = Cardinality(LateInDrain)
        BY DrainTypes
      <3>2. u + v \in Nat /\ w + 1 \in Nat
        OBVIOUS
      <3>3. QED
        BY <3>1, <3>2, <3>4, <3>5
    <2>2. late' = Min({x, y})
      BY <2>1 DEF Tick
    <2>3. late' \in {x, y} /\ late' <= y
      BY <2>2, LateCount
    <2>4. late' \in 0..y
      BY <2>3
    <2>5. QED
      BY <2>1, <2>4
  <1>11. QED
    BY <1>2, <1>4, <1>5, <1>6, <1>7, <1>9, <1>10

LEMMA UpTypesStart == Init => UpTypes
  <1> SUFFICES ASSUME Init PROVE UpTypes
    OBVIOUS
  <1>1. /\ 0 \in Seq32 /\ 0 \in 0..(ResetStreak - 1) /\ 0 \in 0..MaxLoss
        /\ 0 \in 0..MaxReorder /\ 0 \in 0..(MaxReorder + 1)
    BY Numbers DEF Seq32
  <1>2. EmptyBuffer \in Buffers
    BY EmptyKeeps
  <1>3. <<>> \in Seq(Seq32) /\ Len(<<>>) <= ChanCap /\ Len(<<>>) + Len(<<>>) <= MaxFlight
    BY Numbers
  <1>4. "none" \in Outcomes
    BY DEF Outcomes
  <1>5. QED
    BY <1>1, <1>2, <1>3, <1>4 DEF Init, UpTypes

LEMMA UpTypesStep == UpTypes /\ [Next]_vars => UpTypes'
  <1> SUFFICES ASSUME UpTypes, [Next]_vars PROVE UpTypes'
    OBVIOUS
  <1>1. PICK c \in Nat, f \in Nat : /\ c = Len(channel) /\ f = Len(flight)
                                    /\ c <= ChanCap /\ c + f <= MaxFlight
    BY DEF UpTypes
  <1>2. CASE Send
    <2>1. sequence' \in Seq32
      BY <1>2, Older DEF Send, UpTypes
    <2>2. flight' \in Seq(Seq32) /\ Len(flight') = f + 1
      BY <1>1, <1>2 DEF Send, UpTypes
    <2>3. c + (f + 1) <= MaxFlight
      <3>1. f + c < MaxFlight
        BY <1>1, <1>2 DEF Send
      <3>2. QED
        BY <3>1, Numbers
    <2>4. UNCHANGED <<channel, jb, plc_streak, multi, outcome, lost, reordered, late>>
      BY <1>2 DEF Send
    <2>5. QED
      BY <1>1, <2>1, <2>2, <2>3, <2>4 DEF UpTypes
  <1>3. CASE Lose
    <2>1. flight' \in Seq(Seq32) /\ Len(flight') = f - 1
      BY <1>1, <1>3, FlightHead DEF Lose, UpTypes
    <2>2. lost' \in 0..MaxLoss
      <3>1. PICK l \in Nat, m \in Nat : l = lost /\ m = MaxLoss /\ l < m
        BY <1>3, Numbers DEF Lose, UpTypes
      <3>2. l + 1 \in 0..m
        BY <3>1
      <3>3. QED
        BY <1>3, <3>1, <3>2 DEF Lose
    <2>3. c + (f - 1) <= MaxFlight
      BY <1>1, Numbers
    <2>4. UNCHANGED <<sequence, channel, jb, plc_streak, multi, outcome, reordered, late>>
      BY <1>3 DEF Lose
    <2>5. QED
      BY <1>1, <2>1, <2>2, <2>3, <2>4 DEF UpTypes
  <1>4. CASE Overtake
    <2>1. flight' \in Seq(Seq32) /\ Len(flight') = f
      <3>1. f >= 2 /\ flight \in Seq(Seq32)
        BY <1>1, <1>4 DEF Overtake, UpTypes
      <3>2. flight[1] \in Seq32 /\ flight[2] \in Seq32
        BY <1>1, <3>1
      <3>3. PICK s : s = SubSeq(flight, 3, f)
        OBVIOUS
      <3>4. s \in Seq(Seq32) /\ Len(s) = f - 2
        BY <1>1, <3>1, <3>3
      <3>5. PICK t \in Seq(Seq32) : t = <<flight[2], flight[1]>> /\ Len(t) = 2
        <4>1. PICK x \in Seq32, y \in Seq32 : x = flight[2] /\ y = flight[1]
          BY <3>2
        <4>2. <<x, y>> \in Seq(Seq32) /\ Len(<<x, y>>) = 2
          OBVIOUS
        <4>3. QED
          BY <4>1, <4>2
      <3>6. t \o s \in Seq(Seq32) /\ Len(t \o s) = 2 + (f - 2)
        BY <3>4, <3>5
      <3>7. flight' = t \o s
        BY <1>1, <1>4, <3>3, <3>5 DEF Overtake
      <3>8. QED
        BY <3>1, <3>6, <3>7
    <2>2. reordered' \in 0..MaxReorder
      <3>1. PICK l \in Nat, m \in Nat : l = reordered /\ m = MaxReorder /\ l < m
        BY <1>4, Numbers DEF Overtake, UpTypes
      <3>2. l + 1 \in 0..m
        BY <3>1
      <3>3. QED
        BY <1>4, <3>1, <3>2 DEF Overtake
    <2>3. UNCHANGED <<sequence, channel, jb, plc_streak, multi, outcome, lost, late>>
      BY <1>4 DEF Overtake
    <2>4. QED
      BY <1>1, <2>1, <2>2, <2>3 DEF UpTypes
  <1>5. CASE RecvDatagram
    <2>1. /\ flight' \in Seq(Seq32) /\ Len(flight') = f - 1 /\ Head(flight) \in Seq32
      BY <1>1, <1>5, FlightHead DEF RecvDatagram, UpTypes
    <2>2. UNCHANGED <<sequence, jb, plc_streak, multi, outcome, reordered, late>>
      BY <1>5 DEF RecvDatagram
    <2>3. CASE c < ChanCap /\ channel' = Append(channel, Head(flight)) /\ UNCHANGED lost
      <3>1. channel' \in Seq(Seq32) /\ Len(channel') = c + 1
        BY <1>1, <2>1, <2>3 DEF UpTypes
      <3>2. c + 1 <= ChanCap /\ (c + 1) + (f - 1) <= MaxFlight
        BY <1>1, <2>3, Numbers
      <3>3. QED
        BY <2>1, <2>2, <2>3, <3>1, <3>2 DEF UpTypes
    <2>4. CASE lost < MaxLoss /\ lost' = lost + 1 /\ UNCHANGED channel
      <3>1. lost' \in 0..MaxLoss
        <4>1. PICK l \in Nat, m \in Nat : l = lost /\ m = MaxLoss /\ l < m
          BY <2>4, Numbers DEF UpTypes
        <4>2. l + 1 \in 0..m
          BY <4>1
        <4>3. QED
          BY <2>4, <4>1, <4>2
      <3>2. c + (f - 1) <= MaxFlight
        BY <1>1, Numbers
      <3>3. QED
        BY <1>1, <2>1, <2>2, <2>4, <3>1, <3>2 DEF UpTypes
    <2>5. QED
      BY <1>1, <1>5, <2>3, <2>4 DEF RecvDatagram
  <1>6. CASE Tick
    <2>1. /\ jb' \in Buffers /\ plc_streak' \in 0..(ResetStreak - 1) /\ outcome' \in Outcomes
          /\ late' \in 0..(MaxReorder + 1)
      BY <1>6, TickTypes
    <2>2. channel' = <<>> /\ UNCHANGED <<sequence, flight, multi, lost, reordered>>
      BY <1>6 DEF Tick
    <2>3. channel' \in Seq(Seq32) /\ Len(channel') = 0
      BY <2>2
    <2>4. 0 <= ChanCap /\ 0 + f <= MaxFlight
      BY <1>1, Numbers
    <2>5. QED
      BY <1>1, <2>1, <2>2, <2>3, <2>4 DEF UpTypes
  <1>7. CASE OthersChange
    <2>1. multi' \in BOOLEAN
      BY <1>7 DEF OthersChange, UpTypes
    <2>2. UNCHANGED <<sequence, flight, channel, jb, plc_streak, outcome, lost, reordered, late>>
      BY <1>7 DEF OthersChange
    <2>3. QED
      BY <2>1, <2>2 DEF UpTypes
  <1>8. CASE UNCHANGED vars
    BY <1>8 DEF vars, UpTypes
  <1>9. QED
    BY <1>2, <1>3, <1>4, <1>5, <1>6, <1>7, <1>8 DEF Next

LEMMA UpTyped == FairSpec => []UpTypes
  BY UpTypesStart, UpTypesStep, PTL DEF FairSpec, Spec

\* Sequence numbers, the jitter buffer and the streak of concealed frames stay
\* in range, and so do the channel and what is on the network.
THEOREM UpTypeCorrect == FairSpec => []TypeOK
  <1>1. UpTypes => TypeOK
    <2> SUFFICES ASSUME UpTypes PROVE TypeOK
      OBVIOUS
    <2>1. ASSUME NEW s \in Seq(Seq32), NEW n \in Nat, Len(s) <= n
          PROVE  s \in BoundedSeq(Seq32, n)
      <3>1. PICK m \in Nat : m = Len(s)
        OBVIOUS
      <3>2. m \in 0..n /\ s \in [1..m -> Seq32]
        BY <2>1, <3>1
      <3>3. QED
        BY <3>2 DEF BoundedSeq, SeqOf
    <2>2. Len(flight) <= MaxFlight
      <3>1. PICK c \in Nat, f \in Nat : /\ c = Len(channel) /\ f = Len(flight)
                                        /\ c + f <= MaxFlight
        BY DEF UpTypes
      <3>2. QED
        BY <3>1, Numbers
    <2>3. flight \in BoundedSeq(Seq32, MaxFlight) /\ channel \in BoundedSeq(Seq32, ChanCap)
      BY <2>1, <2>2, Numbers DEF UpTypes
    <2>4. QED
      BY <2>3 DEF UpTypes, TypeOK
  <1>2. QED
    BY <1>1, UpTyped, PTL

-----------------------------------------------------------------------------
(* What each step does to the frames on the way. *)

\* One sequence after another.
LEMMA Joined ==
  ASSUME NEW c \in Seq(Seq32), NEW f \in Seq(Seq32), NEW p, p = c \o f
  PROVE  /\ p \in Seq(Seq32) /\ Len(p) = Len(c) + Len(f)
         /\ Len(c) \in Nat /\ Len(f) \in Nat
         /\ \A j \in 1..Len(c) : p[j] = c[j]
         /\ \A j \in 1..Len(f) : p[Len(c) + j] = f[j]
  <1>1. PICK m \in Nat, n \in Nat : m = Len(c) /\ n = Len(f)
    OBVIOUS
  <1>2. p \in Seq(Seq32) /\ Len(p) = m + n
    BY <1>1
  <1>3. ASSUME NEW j \in 1..m
        PROVE  p[j] = c[j]
    BY <1>1
  <1>4. ASSUME NEW j \in 1..n
        PROVE  p[m + j] = f[j]
    BY <1>1
  <1>5. QED
    BY <1>1, <1>2, <1>3, <1>4

LEMMA Appended ==
  ASSUME NEW s \in Seq(Seq32), NEW x \in Seq32, NEW n \in Nat, n = Len(s),
         NEW t, t = Append(s, x)
  PROVE  /\ t \in Seq(Seq32) /\ Len(t) = n + 1 /\ t[n + 1] = x
         /\ \A j \in 1..n : t[j] = s[j]
  <1>1. t \in Seq(Seq32) /\ Len(t) = n + 1
    OBVIOUS
  <1>2. t[n + 1] = x
    OBVIOUS
  <1>3. ASSUME NEW j \in 1..n
        PROVE  t[j] = s[j]
    OBVIOUS
  <1>4. QED
    BY <1>1, <1>2, <1>3

LEMMA SendPending ==
  ASSUME UpTypes, Send
  PROVE  Sent(sequence, Pending, sequence', Pending') /\ Len(Pending) < MaxFlight
  <1>1. /\ sequence \in Seq32 /\ channel \in Seq(Seq32) /\ flight \in Seq(Seq32)
        /\ flight' = Append(flight, sequence) /\ channel' = channel
        /\ sequence' = WrappingAdd(sequence, 1) /\ Len(flight) + Len(channel) < MaxFlight
    BY DEF UpTypes, Send
  <1>2. PICK c \in Nat, f \in Nat : c = Len(channel) /\ f = Len(flight)
    BY <1>1
  <1>3. PICK g \in Seq(Seq32) : /\ g = flight' /\ Len(g) = f + 1 /\ g[f + 1] = sequence
                                /\ \A j \in 1..f : g[j] = flight[j]
    BY <1>1, <1>2, Appended
  <1>4. PICK p, r : p = Pending /\ r = Pending' /\ p = channel \o flight /\ r = channel \o g
    BY <1>1, <1>3 DEF Pending
  <1>5. /\ p \in Seq(Seq32) /\ Len(p) = c + f
        /\ \A j \in 1..c : p[j] = channel[j]
        /\ \A j \in 1..f : p[c + j] = flight[j]
    BY <1>1, <1>2, <1>4, Joined
  <1>6. /\ r \in Seq(Seq32) /\ Len(r) = c + (f + 1)
        /\ \A j \in 1..c : r[j] = channel[j]
        /\ \A j \in 1..(f + 1) : r[c + j] = g[j]
    BY <1>1, <1>2, <1>3, <1>4, Joined
  <1>7. ASSUME NEW j \in 1..(c + f)
        PROVE  r[j] = p[j]
    <2>1. CASE j <= c
      <3>1. j \in 1..c
        BY <2>1
      <3>2. QED
        BY <1>5, <1>6, <3>1
    <2>2. CASE j > c
      <3>1. PICK i \in 1..f : j = c + i /\ i \in 1..(f + 1)
        <4>1. j - c \in 1..f /\ j = c + (j - c) /\ j - c \in 1..(f + 1)
          BY <2>2
        <4>2. QED
          BY <4>1
      <3>2. QED
        BY <1>3, <1>5, <1>6, <3>1
    <2>3. QED
      BY <2>1, <2>2
  <1>8. r[c + f + 1] = sequence
    <2>1. f + 1 \in 1..(f + 1) /\ c + (f + 1) = c + f + 1
      OBVIOUS
    <2>2. QED
      BY <1>3, <1>6, <2>1
  <1>9. Len(r) = (c + f) + 1 /\ c + f < MaxFlight
    BY <1>1, <1>2, <1>6, Numbers
  <1>10. QED
    BY <1>1, <1>4, <1>5, <1>6, <1>7, <1>8, <1>9 DEF Sent

\* The network loses the next frame, or the full channel drops it.
LEMMA LosePending ==
  ASSUME UpTypes, flight # <<>>, flight' = Tail(flight), channel' = channel
  PROVE  Without(Pending, Len(channel) + 1, Pending')
  <1>1. channel \in Seq(Seq32) /\ flight \in Seq(Seq32)
    BY DEF UpTypes
  <1>2. PICK c \in Nat, f \in Nat : c = Len(channel) /\ f = Len(flight) /\ f >= 1
    <2>1. Len(channel) \in Nat /\ Len(flight) \in Nat /\ Len(flight) >= 1
      BY <1>1, FlightHead
    <2>2. QED
      BY <2>1
  <1>3. PICK g \in Seq(Seq32) : /\ g = flight' /\ Len(g) = f - 1
                                /\ \A j \in 1..(f - 1) : g[j] = flight[j + 1]
    BY <1>1, <1>2, FlightHead
  <1>4. PICK p, r : p = Pending /\ r = Pending' /\ p = channel \o flight /\ r = channel \o g
    BY <1>3 DEF Pending
  <1>5. /\ p \in Seq(Seq32) /\ Len(p) = c + f
        /\ \A j \in 1..c : p[j] = channel[j]
        /\ \A j \in 1..f : p[c + j] = flight[j]
    BY <1>1, <1>2, <1>4, Joined
  <1>6. /\ r \in Seq(Seq32) /\ Len(r) = c + (f - 1)
        /\ \A j \in 1..c : r[j] = channel[j]
        /\ \A j \in 1..(f - 1) : r[c + j] = g[j]
    BY <1>1, <1>2, <1>3, <1>4, Joined
  <1>7. ASSUME NEW j \in 1..(c + (f - 1))
        PROVE  r[j] = p[IF j < c + 1 THEN j ELSE j + 1]
    <2>1. CASE j < c + 1
      <3>1. j \in 1..c
        BY <2>1
      <3>2. QED
        BY <1>5, <1>6, <2>1, <3>1
    <2>2. CASE ~(j < c + 1)
      <3>1. PICK i \in 1..(f - 1) : j = c + i /\ i + 1 \in 1..f /\ j + 1 = c + (i + 1)
        <4>1. j - c \in 1..(f - 1) /\ j = c + (j - c) /\ (j - c) + 1 \in 1..f
              /\ j + 1 = c + ((j - c) + 1)
          BY <1>2, <2>2
        <4>2. QED
          BY <4>1
      <3>2. r[j] = g[i] /\ g[i] = flight[i + 1] /\ p[j + 1] = flight[i + 1]
        BY <1>3, <1>5, <1>6, <3>1
      <3>3. QED
        BY <2>2, <3>2
    <2>3. QED
      BY <2>1, <2>2
  <1>8. Len(r) = (c + f) - 1 /\ c + 1 \in 1..(c + f)
    BY <1>2, <1>6
  <1>9. QED
    BY <1>2, <1>4, <1>5, <1>6, <1>7, <1>8 DEF Without

\* From the network to the channel, nothing changes.
LEMMA ReceivePending ==
  ASSUME UpTypes, flight # <<>>, flight' = Tail(flight),
         channel' = Append(channel, Head(flight))
  PROVE  Pending' = Pending
  <1>1. channel \in Seq(Seq32) /\ flight \in Seq(Seq32)
    BY DEF UpTypes
  <1>2. PICK c \in Nat, f \in Nat : c = Len(channel) /\ f = Len(flight) /\ f >= 1
    <2>1. Len(channel) \in Nat /\ Len(flight) \in Nat /\ Len(flight) >= 1
      BY <1>1, FlightHead
    <2>2. QED
      BY <2>1
  <1>3. PICK g \in Seq(Seq32) : /\ g = flight' /\ Len(g) = f - 1
                                /\ \A j \in 1..(f - 1) : g[j] = flight[j + 1]
    BY <1>1, <1>2, FlightHead
  <1>4. PICK d \in Seq(Seq32) : /\ d = channel' /\ Len(d) = c + 1 /\ d[c + 1] = flight[1]
                                /\ \A j \in 1..c : d[j] = channel[j]
    <2>1. PICK x \in Seq32 : x = Head(flight) /\ x = flight[1]
      BY <1>1, FlightHead
    <2>2. channel' = Append(channel, x)
      BY <2>1
    <2>3. PICK d : d = channel'
      OBVIOUS
    <2>4. /\ d \in Seq(Seq32) /\ Len(d) = c + 1 /\ d[c + 1] = x
          /\ \A j \in 1..c : d[j] = channel[j]
      BY <1>1, <1>2, <2>2, <2>3, Appended
    <2>5. QED
      BY <2>1, <2>3, <2>4
  <1>5. PICK p, r : p = Pending /\ r = Pending' /\ p = channel \o flight /\ r = d \o g
    BY <1>3, <1>4 DEF Pending
  <1>6. /\ p \in Seq(Seq32) /\ Len(p) = c + f
        /\ \A j \in 1..c : p[j] = channel[j]
        /\ \A j \in 1..f : p[c + j] = flight[j]
    BY <1>1, <1>2, <1>5, Joined
  <1>7. /\ r \in Seq(Seq32) /\ Len(r) = (c + 1) + (f - 1)
        /\ \A j \in 1..(c + 1) : r[j] = d[j]
        /\ \A j \in 1..(f - 1) : r[(c + 1) + j] = g[j]
    <2>1. PICK u \in Nat, v \in Nat : u = c + 1 /\ v = f - 1
      <3>1. c + 1 \in Nat /\ f - 1 \in Nat
        BY <1>2
      <3>2. QED
        BY <3>1
    <2>2. Len(d) = u /\ Len(g) = v /\ r = d \o g
      BY <1>3, <1>4, <1>5, <2>1
    <2>3. /\ r \in Seq(Seq32) /\ Len(r) = u + v
          /\ \A j \in 1..u : r[j] = d[j]
          /\ \A j \in 1..v : r[u + j] = g[j]
      <3>1. \A h \in Seq(Seq32), k \in Seq(Seq32) :
               /\ h \o k \in Seq(Seq32) /\ Len(h \o k) = Len(h) + Len(k)
               /\ \A j \in 1..Len(h) : (h \o k)[j] = h[j]
               /\ \A j \in 1..Len(k) : (h \o k)[Len(h) + j] = k[j]
        BY Joined
      <3>2. d \in Seq(Seq32) /\ g \in Seq(Seq32)
        OBVIOUS
      <3>3. PICK t : t = d \o g
        OBVIOUS
      <3>4. t \in Seq(Seq32) /\ Len(t) = Len(d) + Len(g)
        BY <3>1, <3>2, <3>3
      <3>5. \A j \in 1..Len(d) : t[j] = d[j]
        BY <3>1, <3>2, <3>3
      <3>6. \A j \in 1..Len(g) : t[Len(d) + j] = g[j]
        BY <3>1, <3>2, <3>3
      <3>7. QED
        BY <2>2, <3>3, <3>4, <3>5, <3>6
    <2>4. QED
      BY <2>1, <2>3
  <1>8. ASSUME NEW j \in 1..(c + f)
        PROVE  r[j] = p[j]
    <2>1. CASE j < c + 1
      <3>1. j \in 1..c /\ j \in 1..(c + 1)
        BY <2>1
      <3>2. QED
        BY <1>4, <1>6, <1>7, <3>1
    <2>2. CASE j = c + 1
      <3>1. j \in 1..(c + 1) /\ 1 \in 1..f
        BY <1>2, <2>2
      <3>2. QED
        BY <1>4, <1>6, <1>7, <2>2, <3>1
    <2>3. CASE j > c + 1
      <3>1. PICK i \in 1..(f - 1) : j = (c + 1) + i /\ i + 1 \in 1..f /\ j = c + (i + 1)
        <4>1. /\ j - (c + 1) \in 1..(f - 1) /\ j = (c + 1) + (j - (c + 1))
              /\ (j - (c + 1)) + 1 \in 1..f /\ j = c + ((j - (c + 1)) + 1)
          BY <1>2, <2>3
        <4>2. QED
          BY <4>1
      <3>2. r[j] = g[i] /\ g[i] = flight[i + 1]
        BY <1>3, <1>7, <3>1
      <3>3. p[j] = flight[i + 1]
        BY <1>6, <3>1
      <3>4. QED
        BY <3>2, <3>3
    <2>4. QED
      BY <2>1, <2>2, <2>3
  <1>9. Len(r) = c + f
    BY <1>2, <1>7
  <1>10. r = p
    <2>1. r \in [1..(c + f) -> Seq32] /\ p \in [1..(c + f) -> Seq32]
      BY <1>2, <1>6, <1>7, <1>9
    <2>2. QED
      BY <1>8, <2>1
  <1>11. QED
    BY <1>5, <1>10

\* The drain takes the channel.
LEMMA TickPending ==
  ASSUME UpTypes, channel' = <<>>, flight' = flight
  PROVE  From(Pending, Len(channel), Pending')
  <1>1. channel \in Seq(Seq32) /\ flight \in Seq(Seq32)
    BY DEF UpTypes
  <1>2. PICK c \in Nat, f \in Nat : c = Len(channel) /\ f = Len(flight)
    BY <1>1
  <1>3. PICK p, r : p = Pending /\ r = Pending' /\ p = channel \o flight /\ r = flight
    <2>1. <<>> \o flight = flight
      BY <1>1
    <2>2. QED
      BY <2>1 DEF Pending
  <1>4. /\ p \in Seq(Seq32) /\ Len(p) = c + f
        /\ \A j \in 1..f : p[c + j] = flight[j]
    BY <1>1, <1>2, <1>3, Joined
  <1>5. c \in 0..(c + f) /\ f = (c + f) - c
    OBVIOUS
  <1>6. ASSUME NEW j \in 1..f
        PROVE  r[j] = p[j + c]
    <2>1. j + c = c + j
      OBVIOUS
    <2>2. QED
      BY <1>3, <1>4, <2>1
  <1>7. QED
    BY <1>1, <1>2, <1>3, <1>4, <1>5, <1>6 DEF From

-----------------------------------------------------------------------------
(* A tick of the mix task. *)

\* Every frame in the channel is in time, and when all of them have been
\* inserted reading is behind the first that has not arrived.
LEMMA DrainKeeps ==
  ASSUME Ample, UpTypes, InOrder(sequence, Pending, lost), AllFresh(sequence, Pending, lost),
         Behind(sequence, Pending, lost, jb, 0)
  PROVE  /\ Drained \in Buffers
         /\ Behind(sequence, Pending, lost, Drained, Len(channel))
         /\ LateInDrain = {}
         /\ channel # <<>> =>
               /\ Drained.initialized
               /\ Age(sequence, Drained.read_seq) > Gap(sequence, Pending, Len(channel) + 1)
  <1>1. /\ channel \in Seq(Seq32) /\ flight \in Seq(Seq32) /\ jb \in Buffers
        /\ Len(channel) + Len(flight) <= MaxFlight
    BY DEF UpTypes
  <1>2. PICK c \in Nat, f \in Nat : c = Len(channel) /\ f = Len(flight)
    BY <1>1
  <1>3. PICK q \in Seq32 : q = sequence
    BY DEF UpTypes
  <1>4. PICK l \in Nat : l = lost /\ l <= MaxLoss
    BY Numbers DEF UpTypes
  <1>5. PICK p \in Seq(Seq32) : /\ p = Pending /\ Len(p) = c + f
                                /\ \A j \in 1..c : p[j] = channel[j]
    <2>1. PICK p : p = Pending /\ p = channel \o flight
      BY DEF Pending
    <2>2. p \in Seq(Seq32) /\ Len(p) = c + f /\ \A j \in 1..c : p[j] = channel[j]
      BY <1>1, <1>2, <2>1, Joined
    <2>3. QED
      BY <2>1, <2>2
  <1>6. Len(p) <= MaxFlight
    BY <1>1, <1>2, <1>5
  <1>7. InOrder(q, p, l) /\ AllFresh(q, p, l) /\ Behind(q, p, l, jb, 0)
    BY <1>3, <1>4, <1>5
  <1>8. ASSUME NEW k \in 1..c, NEW b \in Buffers, Behind(q, p, l, b, k - 1)
        PROVE  /\ ~Late(b, channel[k]) /\ Behind(q, p, l, Insert(b, channel[k]), k)
               /\ Insert(b, channel[k]).initialized
               /\ Age(q, Insert(b, channel[k]).read_seq) >= Gap(q, p, k)
    <2>1. PICK h \in 0..(Len(p) - 1) : h = k - 1 /\ h + 1 = k
      <3>1. k - 1 \in 0..(Len(p) - 1) /\ (k - 1) + 1 = k
        BY <1>5
      <3>2. QED
        BY <3>1
    <2>2. PICK x : x = channel[k] /\ x = p[h + 1]
      BY <1>5, <2>1
    <2>3. Behind(q, p, l, b, h)
      BY <1>8, <2>1
    <2>4. ~Late(b, x)
      BY <1>4, <1>6, <1>7, <2>2, <2>3, PutInTime
    <2>5. PICK d : d = Insert(b, x)
      OBVIOUS
    <2>6. /\ d.initialized /\ Behind(q, p, l, d, h + 1)
          /\ Age(q, d.read_seq) >= Gap(q, p, h + 1)
      BY <1>4, <1>6, <1>7, <2>2, <2>3, <2>5, PutKeeps
    <2>7. QED
      BY <2>1, <2>2, <2>4, <2>5, <2>6
  <1>9. /\ DrainedTo[0] = jb
        /\ \A k \in 1..c : DrainedTo[k] = Insert(DrainedTo[k - 1], channel[k])
        /\ \A k \in 0..c : DrainedTo[k] \in Buffers
    BY <1>1, <1>2, DrainSteps
  <1>10. \A k \in 0..c : Behind(q, p, l, DrainedTo[k], k)
    <2> DEFINE S == {k \in 0..c : Behind(q, p, l, DrainedTo[k], k)}
    <2>1. 0 \in S
      BY <1>7, <1>9
    <2>2. ASSUME NEW k \in 1..c, k - 1 \in S
          PROVE  k \in S
      <3>1. k - 1 \in 0..c /\ k \in 0..c /\ Behind(q, p, l, DrainedTo[k - 1], k - 1)
        BY <2>2
      <3>2. QED
        BY <1>8, <1>9, <3>1
    <2>3. \A k \in 0..c : k \in S
      <3> HIDE DEF S
      <3>1. QED
        BY <2>1, <2>2, Rounds
    <2>4. QED
      BY <2>3
  <1>11. Drained = DrainedTo[c] /\ c \in 0..c
    BY <1>2 DEF Drained
  <1>12. LateInDrain = {}
    <2>1. ASSUME NEW k \in 1..c
          PROVE  ~Late(DrainedTo[k - 1], channel[k])
      <3>1. k - 1 \in 0..c
        OBVIOUS
      <3>2. QED
        BY <1>8, <1>9, <1>10, <3>1
    <2>2. QED
      BY <1>2, <2>1 DEF LateInDrain
  <1>13. ASSUME channel # <<>>
         PROVE  Drained.initialized /\ Age(q, Drained.read_seq) > Gap(q, p, c + 1)
    <2>1. c \in 1..c /\ c - 1 \in 0..c
      BY <1>1, <1>2, <1>13
    <2>2. PICK b \in Buffers : b = DrainedTo[c - 1] /\ Behind(q, p, l, b, c - 1)
      BY <1>9, <1>10, <2>1
    <2>3. Drained = Insert(b, channel[c])
      BY <1>9, <1>11, <2>1, <2>2
    <2>4. Drained.initialized /\ Age(q, Drained.read_seq) >= Gap(q, p, c)
      BY <1>8, <2>1, <2>2, <2>3
    <2>5. PICK e \in Seq32 : e = Drained.read_seq
      BY <1>9, <1>11 DEF Buffers
    <2>6. c \in 1..(Len(p) + 1) /\ c + 1 \in 1..(Len(p) + 1) /\ c < c + 1
      BY <1>5, <2>1
    <2>7. PICK a \in Nat, g \in Nat, h \in Nat :
             a = Age(q, e) /\ g = Gap(q, p, c) /\ h = Gap(q, p, c + 1)
      <3>1. Age(q, e) \in Nat /\ Gap(q, p, c) \in Nat /\ Gap(q, p, c + 1) \in Nat
        <4>1. c \in Nat /\ c + 1 \in Nat
          OBVIOUS
        <4>2. QED
          BY <4>1, Ages, Gaps
      <3>2. QED
        BY <3>1
    <2>8. g > h
      BY <1>7, <2>6, <2>7, InOrderGaps
    <2>9. a > h
      BY <2>4, <2>5, <2>7, <2>8
    <2>10. QED
      BY <2>4, <2>5, <2>7, <2>9
  <1>14. QED
    BY <1>2, <1>3, <1>4, <1>5, <1>9, <1>10, <1>11, <1>12, <1>13

\* Whatever the tick does after the drain, reading does not overtake what is
\* on the way: it waits when nothing came, and otherwise has a frame to spare.
LEMMA TickKeeps ==
  ASSUME Ample, UpTypes, UpInv, Tick, reordered = 0
  PROVE  late' = 0 /\ Behind(sequence, Pending, lost, jb', Len(channel))
  <1>1. PICK n \in Nat : n = Len(channel)
    BY DEF UpTypes
  <1>2. PICK q \in Seq32 : q = sequence
    BY DEF UpTypes
  <1>3. PICK l \in Nat : l = lost
    BY Numbers DEF UpTypes
  <1>4. PICK p \in Seq(Seq32) : p = Pending /\ n \in 0..Len(p)
    <2>1. channel \in Seq(Seq32) /\ flight \in Seq(Seq32)
      BY DEF UpTypes
    <2>2. Pending \in Seq(Seq32) /\ Len(Pending) = Len(channel) + Len(flight)
          /\ Len(flight) \in Nat
      BY <2>1, Joined DEF Pending
    <2>3. QED
      BY <1>1, <2>2
  <1>5. late = 0 /\ InOrder(q, p, l)
    BY <1>2, <1>3, <1>4 DEF UpInv
  <1>6. PICK b \in Buffers :
           /\ b = Drained
           /\ TickSolo(b) \/ TickHeard(b) \/ TickUnprimed(b)
              \/ TickReset(b) \/ TickWait(b) \/ TickConceal(b)
    BY DrainTypes DEF Tick
  <1>7. /\ Behind(q, p, l, b, n) /\ LateInDrain = {}
        /\ channel # <<>> => b.initialized /\ Age(q, b.read_seq) > Gap(q, p, n + 1)
    BY <1>1, <1>2, <1>3, <1>4, <1>6, DrainKeeps DEF UpInv
  <1>8. late' = 0
    <2>1. PICK y \in Nat : y = MaxReorder + 1
      BY Numbers
    <2>2. Cardinality(LateInDrain) = 0
      BY <1>7, FS_EmptySet
    <2>3. late + Cardinality(LateInDrain) = 0
      BY <1>5, <2>2
    <2>4. late' = Min({0, y})
      BY <2>1, <2>3 DEF Tick
    <2>5. late' \in {0, y} /\ late' <= 0
      BY <2>4, LateCount
    <2>6. QED
      BY <2>5
  <1>9. \A d \in Buffers : Behind(q, p, l, d, n) /\ CanPop(d) =>
           Popped(d) \in Buffers /\ Behind(q, p, l, Popped(d), n)
    BY <1>4, <1>5, PopKeeps
  <1>10. CASE TickSolo(b)
    <2>1. PICK S : S = {d \in Buffers : Behind(q, p, l, d, n)}
      OBVIOUS
    <2>2. S \subseteq Buffers /\ b \in S /\ \A d \in S : CanPop(d) => Popped(d) \in S
      BY <1>7, <1>9, <2>1
    <2>3. PopAll(b) \in S
      BY <2>2, PopSteps
    <2>4. QED
      BY <1>1, <1>2, <1>3, <1>4, <1>8, <1>10, <2>1, <2>3 DEF TickSolo
  <1>11. CASE TickHeard(b)
    BY <1>1, <1>2, <1>3, <1>4, <1>7, <1>8, <1>9, <1>11 DEF TickHeard
  <1>12. CASE TickUnprimed(b) \/ TickWait(b)
    BY <1>1, <1>2, <1>3, <1>4, <1>7, <1>8, <1>12 DEF TickUnprimed, TickWait
  <1>13. CASE TickReset(b)
    BY <1>1, <1>2, <1>3, <1>4, <1>8, <1>13, EmptyKeeps DEF TickReset
  <1>14. CASE TickConceal(b)
    <2>1. channel # <<>> /\ jb' = AdvanceExpected(b)
      BY <1>14 DEF TickConceal
    <2>2. Behind(q, p, l, AdvanceExpected(b), n)
      BY <1>4, <1>5, <1>7, <2>1, AdvanceKeeps
    <2>3. QED
      BY <1>1, <1>2, <1>3, <1>4, <1>8, <2>1, <2>2
  <1>15. QED
    BY <1>6, <1>10, <1>11, <1>12, <1>13, <1>14

-----------------------------------------------------------------------------
(* Every step. *)

LEMMA UpInvStart == Init => UpInv
  <1> SUFFICES ASSUME Init PROVE UpInv
    OBVIOUS
  <1>1. PICK p : p = Pending /\ p \in Seq(Seq32) /\ Len(p) = 0
    <2>1. <<>> \in Seq(Seq32) /\ Len(<<>>) = 0
      OBVIOUS
    <2>2. <<>> \o <<>> \in Seq(Seq32) /\ Len(<<>> \o <<>>) = 0
      BY <2>1, Joined
    <2>3. QED
      BY <2>2 DEF Init, Pending
  <1>2. InOrder(sequence, p, lost)
    <2>1. \A i, j \in 1..(Len(p) + 1) : ~(i < j)
      BY <1>1
    <2>2. QED
      BY <2>1 DEF InOrder
  <1>3. AllFresh(sequence, p, lost)
    BY <1>1 DEF AllFresh
  <1>4. Behind(sequence, p, lost, jb, 0)
    BY EmptyKeeps DEF Init
  <1>5. QED
    BY <1>1, <1>2, <1>3, <1>4 DEF Init, UpInv

LEMMA UpInvStep ==
  ASSUME Ample, UpTypes, UpTypes', UpInv, [Next]_vars
  PROVE  UpInv'
  <1> SUFFICES ASSUME reordered' = 0
               PROVE  /\ late' = 0
                      /\ InOrder(sequence', Pending', lost')
                      /\ AllFresh(sequence', Pending', lost')
                      /\ Behind(sequence', Pending', lost', jb', 0)
    BY DEF UpInv
  <1>1. reordered = 0
    <2>1. ~Overtake
      <3>1. PICK r \in Nat : r = reordered
        BY Numbers DEF UpTypes
      <3>2. r + 1 # 0
        OBVIOUS
      <3>3. QED
        BY <3>1, <3>2 DEF Overtake
    <2>2. reordered' = reordered
      BY <2>1 DEF Next, vars, Send, Lose, RecvDatagram, Tick, OthersChange
    <2>3. QED
      BY <2>2
  <1>2. PICK q \in Seq32 : q = sequence
    BY DEF UpTypes
  <1>3. PICK l \in Nat : l = lost /\ l <= MaxLoss
    BY Numbers DEF UpTypes
  <1>4. PICK p \in Seq(Seq32) : p = Pending
    BY Joined DEF Pending, UpTypes
  <1>5. /\ late = 0 /\ InOrder(q, p, l) /\ AllFresh(q, p, l) /\ Behind(q, p, l, jb, 0)
        /\ jb \in Buffers
    BY <1>1, <1>2, <1>3, <1>4 DEF UpInv, UpTypes
  <1>6. PICK r : r = Pending'
    OBVIOUS
  <1>7. CASE Send
    <2>1. Sent(q, p, sequence', r) /\ Len(p) < MaxFlight
      BY <1>2, <1>4, <1>6, <1>7, SendPending
    <2>2. InOrder(sequence', r, l) /\ AllFresh(sequence', r, l)
          /\ Behind(sequence', r, l, jb, 0)
      BY <1>3, <1>5, <2>1, SentKeeps
    <2>3. lost' = lost /\ jb' = jb /\ late' = late
      BY <1>7 DEF Send
    <2>4. QED
      BY <1>3, <1>5, <1>6, <2>2, <2>3
  <1>8. CASE Lose \/ (RecvDatagram /\ channel' = channel)
    <2>1. flight # <<>> /\ flight' = Tail(flight) /\ channel' = channel
          /\ sequence' = sequence /\ jb' = jb /\ late' = late
      BY <1>8 DEF Lose, RecvDatagram
    <2>2. lost' = lost + 1
      <3>1. CASE Lose
        BY <3>1 DEF Lose
      <3>2. CASE RecvDatagram /\ channel' = channel
        <4>1. PICK c \in Seq(Seq32) : c = channel
          BY DEF UpTypes
        <4>2. PICK x \in Seq32 : x = Head(flight)
          BY <2>1, FlightHead DEF UpTypes
        <4>3. Append(c, x) # c
          <5>1. PICK n \in Nat : n = Len(c)
            OBVIOUS
          <5>2. Len(Append(c, x)) = n + 1 /\ n + 1 # n
            BY <5>1, Appended
          <5>3. QED
            BY <5>1, <5>2
        <4>4. QED
          BY <3>2, <4>1, <4>2, <4>3 DEF RecvDatagram
      <3>3. QED
        BY <1>8, <3>1, <3>2
    <2>3. PICK m : m = Len(channel) + 1 /\ Without(p, m, r)
      BY <1>4, <1>6, <2>1, LosePending
    <2>4. InOrder(q, r, l + 1) /\ AllFresh(q, r, l + 1) /\ Behind(q, r, l + 1, jb, 0)
      BY <1>5, <2>3, LostKeeps
    <2>5. QED
      BY <1>2, <1>3, <1>5, <1>6, <2>1, <2>2, <2>4
  <1>9. CASE RecvDatagram /\ channel' # channel
    <2>1. /\ flight # <<>> /\ flight' = Tail(flight)
          /\ channel' = Append(channel, Head(flight))
          /\ UNCHANGED <<sequence, jb, lost, late>>
      BY <1>9 DEF RecvDatagram
    <2>2. r = p
      BY <1>4, <1>6, <2>1, ReceivePending
    <2>3. QED
      BY <1>2, <1>3, <1>5, <1>6, <2>1, <2>2
  <1>10. CASE Tick
    <2>1. late' = 0 /\ Behind(q, p, l, jb', Len(channel))
      BY <1>1, <1>2, <1>3, <1>4, <1>10, TickKeeps
    <2>2. channel' = <<>> /\ UNCHANGED <<sequence, flight, lost>>
      BY <1>10 DEF Tick
    <2>3. PICK n : n = Len(channel) /\ From(p, n, r)
      BY <1>4, <1>6, <2>2, TickPending
    <2>4. PICK b \in Buffers : b = jb'
      BY DEF UpTypes
    <2>5. InOrder(q, r, l) /\ AllFresh(q, r, l) /\ Behind(q, r, l, b, 0)
      BY <1>5, <2>1, <2>3, <2>4, TakenKeeps
    <2>6. QED
      BY <1>2, <1>3, <1>6, <2>1, <2>2, <2>4, <2>5
  <1>11. CASE OthersChange \/ UNCHANGED vars
    <2>1. UNCHANGED <<sequence, flight, channel, jb, lost, late>>
      BY <1>11 DEF OthersChange, vars
    <2>2. r = p
      BY <1>4, <1>6, <2>1 DEF Pending
    <2>3. QED
      BY <1>2, <1>3, <1>5, <1>6, <2>1, <2>2
  <1>12. CASE Overtake
    <2>1. PICK n \in Nat : n = reordered
      BY Numbers DEF UpTypes
    <2>2. n + 1 # 0
      OBVIOUS
    <2>3. QED
      BY <1>12, <2>1, <2>2 DEF Overtake
  <1>13. QED
    BY <1>7, <1>8, <1>9, <1>10, <1>11, <1>12 DEF Next

\* For every depth, capacity, drift of the clocks and number of losses that the
\* sequence numbers suffice for, room_mix_loop never refuses a frame of a stream
\* that arrives in order: not after a wrap of the numbers, not after an overrun,
\* a reset or ticks on its own, and however long the stream goes on.
THEOREM InOrderIsNeverLate ==
  ASSUME Ample
  PROVE  FairSpec => []InOrderNeverLate
  <1>1. UpInv => InOrderNeverLate
    BY DEF UpInv, InOrderNeverLate
  <1>2. UpInv /\ UpTypes /\ UpTypes' /\ [Next]_vars => UpInv'
    BY UpInvStep
  <1>3. QED
    BY <1>1, <1>2, UpInvStart, UpTyped, PTL DEF FairSpec, Spec
===============================================================================
