----------------------------- MODULE DequeProofs -----------------------------
(***************************************************************************)
(* Proofs on CCDeque for every set of elements and every capacity.  The   *)
(* first inductive invariant is Shape: the fields are in their ranges,     *)
(* last is size slots after first, and the buffer has exactly the slots    *)
(* that the capacity counts; each operation has a lemma that it preserves  *)
(* it.  The second one adds what the slots hold (Holding) and what the     *)
(* iterator owes (WalkFits): each operation has a lemma that says what the *)
(* contents are after it, place by place and then as a sequence, and each  *)
(* call one that this is what SeqSpec promises.                            *)
(***************************************************************************)
EXTENDS CCDeque, SharedLemmas

Values  == Elements \cup {NoElement}
Buffers == UNION {[0..(n - 1) -> Values] : n \in Nat}
Deques  == [size : Nat, capacity : Nat, first : Nat, last : Nat,
            buffer : Buffers]

Shape(d) ==
  /\ d \in Deques
  /\ d.capacity \in 1..MaxCapacity /\ IsPowerOfTwo(d.capacity)
  /\ d.size <= d.capacity
  /\ d.first < d.capacity
  /\ d.last <= d.capacity
  /\ Mask(d, d.last) = Slot(d, d.size)
  /\ d.buffer \in [0..(d.capacity - 1) -> Values]

-----------------------------------------------------------------------------
\* memmove keeps the type of a buffer when it reads inside it.
LEMMA MoveTyped ==
  ASSUME NEW c \in Nat, NEW b \in [0..(c - 1) -> Values],
         NEW dst \in Nat, NEW src \in Nat, NEW n \in Int, src + n <= c
  PROVE  Move(b, dst, src, n) \in [0..(c - 1) -> Values]
<1>1. ASSUME NEW s \in 0..(c - 1), dst <= s, s < dst + n
      PROVE  s - dst + src \in 0..(c - 1)
  BY <1>1
<1> QED
  BY <1>1 DEF Move

\* A buffer of n slots for a positive n is one of Buffers.
LEMMA IsABuffer ==
  ASSUME NEW n \in Nat, NEW b \in [0..(n - 1) -> Values]
  PROVE  b \in Buffers
BY DEF Buffers

\* That last and first + size agree modulo the capacity, in linear arithmetic.
LEMMA EndsLinear ==
  ASSUME NEW c \in Nat \ {0}, NEW f \in Nat, NEW n \in Nat, NEW l \in Nat,
         n <= c, f < c, l <= c
  PROVE  l % c = (f + n) % c <=> \/ l = f + n
                                 \/ l = f + n - c
                                 \/ l = c /\ f = 0 /\ n = 0
<1> DEFINE x == f + n
<1>1. x \in Int /\ 0 <= x /\ x < 2 * c
  OBVIOUS
<1>2. (l < c => l % c = l) /\ (l = c => l % c = 0)
  BY Wrap
<1>3. (x < c => x % c = x) /\ (c <= x => x % c = x - c)
  <2> HIDE DEF x
  <2> QED
    BY <1>1, Wrap
<1>4. l % c = x % c <=> \/ l = x
                        \/ l = x - c
                        \/ l = c /\ x = 0
  <2> HIDE DEF x
  <2> QED
    BY <1>1, <1>2, <1>3
<1> QED
  BY <1>4

\* What Shape says of the fields, without the set of records.
LEMMA ShapeFields ==
  ASSUME NEW d, Shape(d)
  PROVE  /\ d.size \in Nat /\ d.capacity \in Nat \ {0}
         /\ d.first \in Nat /\ d.last \in Nat
         /\ d.size <= d.capacity /\ d.first < d.capacity
         /\ d.last <= d.capacity
         /\ \/ d.last = d.first + d.size
            \/ d.last = d.first + d.size - d.capacity
            \/ d.last = d.capacity /\ d.first = 0 /\ d.size = 0
         /\ d.buffer \in [0..(d.capacity - 1) -> Values]
         /\ DOMAIN d.buffer = 0..(d.capacity - 1)
<1>1. /\ d.size \in Nat /\ d.capacity \in Nat \ {0}
      /\ d.first \in Nat /\ d.last \in Nat
      /\ d.size <= d.capacity /\ d.first < d.capacity
      /\ d.last <= d.capacity
      /\ d.buffer \in [0..(d.capacity - 1) -> Values]
  BY DEF Shape, Deques
<1>2. d.last % d.capacity = (d.first + d.size) % d.capacity
  BY DEF Shape, Mask, Slot
<1>3. \/ d.last = d.first + d.size
      \/ d.last = d.first + d.size - d.capacity
      \/ d.last = d.capacity /\ d.first = 0 /\ d.size = 0
  <2>1. \A c \in Nat \ {0}, f \in Nat, n \in Nat, l \in Nat :
          n <= c /\ f < c /\ l <= c /\ l % c = (f + n) % c
            => l = f + n \/ l = f + n - c \/ (l = c /\ f = 0 /\ n = 0)
    BY EndsLinear
  <2> QED
    BY <1>1, <1>2, <2>1
<1> QED
  BY <1>1, <1>3

\* The other way round: a record with such fields has Shape.
LEMMA FieldsShape ==
  ASSUME NEW n \in Nat, NEW c \in 1..MaxCapacity, NEW f \in Nat, NEW l \in Nat,
         NEW b \in [0..(c - 1) -> Values],
         IsPowerOfTwo(c), n <= c, f < c, l <= c,
         \/ l = f + n
         \/ l = f + n - c
         \/ l = c /\ f = 0 /\ n = 0
  PROVE  Shape([size |-> n, capacity |-> c, first |-> f, last |-> l,
                buffer |-> b])
<1> DEFINE d == [size |-> n, capacity |-> c, first |-> f, last |-> l,
                 buffer |-> b]
<1>1. MaxCapacity \in Nat
  BY DequeConstants
<1>2. c \in Nat \ {0}
  BY <1>1
<1>3. d \in Deques
  BY <1>2, IsABuffer DEF Deques
<1>4. l % c = (f + n) % c
  BY <1>2, EndsLinear
<1> QED
  BY <1>3, <1>4 DEF Shape, Mask, Slot

\* A deque written out by its fields, as a record and as the only member of a
\* set of records, which is the form in which the provers compute an EXCEPT.
Ring(n, c, f, l, b) ==
  [size |-> n, capacity |-> c, first |-> f, last |-> l, buffer |-> b]
Rings(n, c, f, l, b) ==
  [size : {n}, capacity : {c}, first : {f}, last : {l}, buffer : {b}]

LEMMA OnlyRing ==
  ASSUME NEW n, NEW c, NEW f, NEW l, NEW b, NEW d \in Rings(n, c, f, l, b)
  PROVE  d = Ring(n, c, f, l, b)
BY DEF Ring, Rings

\* The numbers of a deque that has Shape.
Fitting(n, c, f, l) ==
  /\ c \in 1..MaxCapacity /\ IsPowerOfTwo(c)
  /\ n <= c /\ f < c /\ l <= c
  /\ \/ l = f + n
     \/ l = f + n - c
     \/ l = c /\ f = 0 /\ n = 0

LEMMA ShapeOpen ==
  ASSUME NEW d, Shape(d)
  PROVE  \E n \in Nat, c \in Nat \ {0}, f \in Nat, l \in Nat, b \in Buffers :
           /\ d = Ring(n, c, f, l, b) /\ Fitting(n, c, f, l)
           /\ b \in [0..(c - 1) -> Values]
<1>1. d = Ring(d.size, d.capacity, d.first, d.last, d.buffer)
  BY OnlyRing DEF Shape, Deques, Rings
<1>2. Fitting(d.size, d.capacity, d.first, d.last)
  BY ShapeFields DEF Fitting, Shape
<1>3. d.buffer \in Buffers
  BY DEF Shape, Deques
<1> QED
  BY <1>1, <1>2, <1>3, ShapeFields

LEMMA ShapeClose ==
  ASSUME NEW n \in Nat, NEW c \in Nat \ {0}, NEW f \in Nat, NEW l \in Nat,
         NEW b \in [0..(c - 1) -> Values], Fitting(n, c, f, l),
         NEW d \in Rings(n, c, f, l, b)
  PROVE  Shape(d)
BY FieldsShape, OnlyRing DEF Fitting, Ring

\* What an operation on a deque does that neither copies nor expands it: the
\* shape stays, the capacity too, and last stays inside the buffer.
Keeps(d, x) ==
  /\ Shape(x) /\ x.capacity = d.capacity
  /\ d.last < d.capacity => x.last < x.capacity

LEMMA KeepsClose ==
  ASSUME NEW n \in Nat, NEW c \in Nat \ {0}, NEW f \in Nat, NEW l \in Nat,
         NEW b \in [0..(c - 1) -> Values], Fitting(n, c, f, l),
         NEW x \in Rings(n, c, f, l, b),
         NEW d, d.capacity = c, d.last < c => l < c
  PROVE  Keeps(d, x)
<1>1. Shape(x)
  BY ShapeClose
<1>2. x.capacity = c /\ x.last = l
  BY DEF Rings
<1> QED
  BY <1>1, <1>2 DEF Keeps

-----------------------------------------------------------------------------
\* Each operation keeps the shape.

LEMMA PushFrontShape ==
  ASSUME NEW d, Shape(d), d.size < d.capacity, NEW e \in Elements
  PROVE  Keeps(d, PushFront(d, e))
<1>1. PICK n \in Nat, c \in Nat \ {0}, f \in Nat, l \in Nat, b \in Buffers :
        /\ d = Ring(n, c, f, l, b) /\ Fitting(n, c, f, l)
        /\ b \in [0..(c - 1) -> Values]
  BY ShapeOpen
<1> DEFINE s == (f - 1) % c
           w == [b EXCEPT ![s] = e]
<1>2. PushFront(d, e) \in Rings(n + 1, c, s, l, w)
  BY <1>1 DEF PushFront, Mask, Ring, Rings
<1>3. s \in Nat /\ w \in [0..(c - 1) -> Values]
  BY <1>1 DEF Values
<1>4. Fitting(n + 1, c, s, l)
  <2>1. (f = 0 => s = c - 1) /\ (f # 0 => s = f - 1)
    BY <1>1 DEF Fitting
  <2>2. n < c
    BY <1>1 DEF Ring
  <2> QED
    BY <1>1, <1>3, <2>1, <2>2 DEF Fitting
<1>5. d.capacity = c /\ d.last = l
  BY <1>1 DEF Ring
<1> DEFINE x == PushFront(d, e)
           k == n + 1
<1>6. k \in Nat /\ x \in Rings(k, c, s, l, w) /\ Fitting(k, c, s, l)
  BY <1>2, <1>4
<1>7. d.last < c => l < c
  BY <1>5
<1> HIDE DEF s, w, x, k
<1>8. Keeps(d, x)
  BY <1>1, <1>3, <1>5, <1>6, <1>7, KeepsClose, SMTT(20)
<1> QED
  BY <1>8 DEF x

LEMMA PushBackShape ==
  ASSUME NEW d, Shape(d), d.size < d.capacity, NEW e \in Elements,
         d.last < d.capacity \/ d.capacity > 1
  PROVE  Keeps(d, PushBack(d, e))
<1>1. PICK n \in Nat, c \in Nat \ {0}, f \in Nat, l \in Nat, b \in Buffers :
        /\ d = Ring(n, c, f, l, b) /\ Fitting(n, c, f, l)
        /\ b \in [0..(c - 1) -> Values]
  BY ShapeOpen
<1> DEFINE m == (l + 1) % c
           w == [b EXCEPT ![l] = e]
<1>2. PushBack(d, e) \in Rings(n + 1, c, f, m, w)
  BY <1>1 DEF PushBack, Mask, Ring, Rings
<1>3. m \in Nat /\ m < c /\ w \in [0..(c - 1) -> Values]
  <2>1. m \in Nat /\ m < c
    OBVIOUS
  <2>2. w \in [0..(c - 1) -> Values]
    <3>1. e \in Values
      BY DEF Values
    <3> HIDE DEF Values
    <3> QED
      BY <3>1, <1>1
  <2> QED
    BY <2>1, <2>2
<1>4. Fitting(n + 1, c, f, m)
  <2>1. l <= c /\ (l < c \/ c > 1)
    BY <1>1 DEF Fitting, Ring
  <2>2. (l + 1 < c => m = l + 1) /\ (c <= l + 1 => m = l + 1 - c)
    BY <2>1
  <2>3. n < c
    BY <1>1 DEF Ring
  <2> QED
    BY <1>1, <1>3, <2>2, <2>3 DEF Fitting
<1>5. d.capacity = c /\ d.last = l
  BY <1>1 DEF Ring
<1> DEFINE x == PushBack(d, e)
           k == n + 1
<1>6. k \in Nat /\ x \in Rings(k, c, f, m, w) /\ Fitting(k, c, f, m)
  BY <1>2, <1>4
<1>7. d.last < c => m < c
  BY <1>3
<1> HIDE DEF m, w, x, k
<1>8. Keeps(d, x)
  BY <1>1, <1>3, <1>5, <1>6, <1>7, KeepsClose, SMTT(20)
<1> QED
  BY <1>8 DEF x

LEMMA PopFrontShape ==
  ASSUME NEW d, Shape(d), d.size # 0
  PROVE  Keeps(d, PopFront(d))
<1>1. PICK n \in Nat, c \in Nat \ {0}, f \in Nat, l \in Nat, b \in Buffers :
        /\ d = Ring(n, c, f, l, b) /\ Fitting(n, c, f, l)
        /\ b \in [0..(c - 1) -> Values]
  BY ShapeOpen
<1> DEFINE m == (f + 1) % c
<1>2. PopFront(d) \in Rings(n - 1, c, m, l, b)
  BY <1>1 DEF PopFront, Mask, Ring, Rings
<1>3. m \in Nat /\ n - 1 \in Nat
  BY <1>1 DEF Ring
<1>4. Fitting(n - 1, c, m, l)
  <2>1. f < c
    BY <1>1 DEF Fitting
  <2>2. (f + 1 < c => m = f + 1) /\ (c <= f + 1 => m = f + 1 - c)
    BY <2>1
  <2> QED
    BY <1>1, <1>3, <2>2, SMTT(20) DEF Fitting
<1>5. d.capacity = c /\ d.last = l
  BY <1>1 DEF Ring
<1> HIDE DEF m
<1> QED
  BY <1>1, <1>2, <1>3, <1>4, <1>5, KeepsClose, SMTT(20)

LEMMA PopBackShape ==
  ASSUME NEW d, Shape(d), d.size # 0
  PROVE  Keeps(d, PopBack(d))
<1>1. PICK n \in Nat, c \in Nat \ {0}, f \in Nat, l \in Nat, b \in Buffers :
        /\ d = Ring(n, c, f, l, b) /\ Fitting(n, c, f, l)
        /\ b \in [0..(c - 1) -> Values]
  BY ShapeOpen
<1> DEFINE m == (l - 1) % c
<1>2. PopBack(d) \in Rings(n - 1, c, f, m, b)
  BY <1>1 DEF PopBack, Mask, Ring, Rings
<1>3. m \in Nat /\ m < c /\ n - 1 \in Nat
  BY <1>1 DEF Ring
<1>4. Fitting(n - 1, c, f, m)
  <2>1. l <= c
    BY <1>1 DEF Fitting
  <2>2. (l = 0 => m = c - 1) /\ (l # 0 => m = l - 1)
    BY <2>1
  <2> QED
    BY <1>1, <1>3, <2>2 DEF Fitting
<1>5. d.capacity = c /\ d.last = l
  BY <1>1 DEF Ring
<1> HIDE DEF m
<1> QED
  BY <1>1, <1>2, <1>3, <1>4, <1>5, KeepsClose, SMTT(20)

\* The buffer of a realigned deque: copy_buffer reads only inside the old one.
LEMMA CopyTyped ==
  ASSUME NEW d, Shape(d), NEW k \in Nat
  PROVE  CopyBuffer(d, k) \in [0..(k - 1) -> Values]
<1>1. PICK n \in Nat, c \in Nat \ {0}, f \in Nat, l \in Nat, b \in Buffers :
        /\ d = Ring(n, c, f, l, b) /\ Fitting(n, c, f, l)
        /\ b \in [0..(c - 1) -> Values]
  BY ShapeOpen
<1>2. /\ d.size = n /\ d.capacity = c /\ d.first = f /\ d.last = l
      /\ d.buffer = b
  BY <1>1 DEF Ring
<1> DEFINE copied == IF l > f THEN n ELSE (c - f) + l
<1>3. ASSUME NEW s \in 0..(k - 1), s < copied, l > f \/ s < c - f
      PROVE  f + s \in 0..(c - 1)
  BY <1>1, <1>3 DEF Fitting
<1>4. ASSUME NEW s \in 0..(k - 1), s < copied, ~(l > f \/ s < c - f)
      PROVE  s - (c - f) \in 0..(c - 1)
  BY <1>1, <1>4 DEF Fitting
<1>5. CopyBuffer(d, k) =
        [s \in 0..(k - 1) |->
           IF s >= copied THEN NoElement
           ELSE IF l > f \/ s < c - f THEN b[f + s] ELSE b[s - (c - f)]]
  BY <1>2 DEF CopyBuffer, CopiedSlots
<1>6. ASSUME NEW s \in 0..(k - 1)
      PROVE  (IF s >= copied THEN NoElement
              ELSE IF l > f \/ s < c - f THEN b[f + s] ELSE b[s - (c - f)])
                \in Values
  <2>1. CASE s >= copied
    BY <2>1 DEF Values
  <2>2. CASE s < copied /\ (l > f \/ s < c - f)
    <3>1. b[f + s] \in Values
      BY <1>1, <1>3, <2>2
    <3> QED
      BY <2>2, <3>1
  <2>3. CASE s < copied /\ ~(l > f \/ s < c - f)
    <3>1. b[s - (c - f)] \in Values
      BY <1>1, <1>4, <2>3
    <3> QED
      BY <2>3, <3>1
  <2>4. copied \in Int
    BY <1>1 DEF Fitting
  <2> QED
    BY <2>1, <2>2, <2>3, <2>4
<1> QED
  BY <1>5, <1>6

LEMMA RealignedShape ==
  ASSUME NEW d, Shape(d), NEW k \in 1..MaxCapacity, IsPowerOfTwo(k),
         d.size <= k
  PROVE  Shape(Realigned(d, k))
<1>1. k \in Nat \ {0}
  BY DequeConstants
<1>2. d.size \in Nat
  BY ShapeFields
<1>3. CopyBuffer(d, k) \in [0..(k - 1) -> Values]
  BY <1>1, CopyTyped
<1> QED
  BY <1>1, <1>2, <1>3, FieldsShape DEF Realigned

\* What an insertion finds after its capacity check: a deque with room.
LEMMA MakeRoomShape ==
  ASSUME NEW d, Shape(d), NEW r \in MakeRoom(d)
  PROVE  /\ Shape(r) /\ r.size = d.size /\ r.size < r.capacity
         /\ r = d \/ r.last < r.capacity
<1>1. d.size \in Nat /\ d.capacity \in Nat \ {0} /\ d.size <= d.capacity
  BY ShapeFields
<1>2. CASE d.size < d.capacity
  BY <1>1, <1>2 DEF MakeRoom
<1>3. CASE ~(d.size < d.capacity)
  <2>1. d.size = d.capacity
    BY <1>1, <1>3
  <2>2. d.capacity # MaxCapacity /\ r = Realigned(d, 2 * d.capacity)
    BY <1>1, <2>1 DEF MakeRoom, ExpandCapacity
  <2>3. 2 * d.capacity \in 1..MaxCapacity /\ IsPowerOfTwo(2 * d.capacity)
    <3>1. /\ MaxCapacity \in Nat /\ d.capacity <= MaxCapacity
          /\ IsPowerOfTwo(d.capacity) /\ IsPowerOfTwo(MaxCapacity)
      BY DequeConstants DEF Shape
    <3> QED
      BY <1>1, <2>2, <3>1, DoublingStaysBelow
  <2>4. Shape(r)
    BY <1>1, <2>1, <2>2, <2>3, RealignedShape
  <2>5. r.size = d.size /\ r.capacity = 2 * d.capacity /\ r.last = d.size
    BY <2>2 DEF Realigned
  <2> QED
    BY <1>1, <2>1, <2>4, <2>5
<1> QED
  BY <1>2, <1>3

-----------------------------------------------------------------------------
\* The shifts of add_at and remove_at read only inside the buffer.

LEMMA ShiftBackTyped ==
  ASSUME NEW d, Shape(d), d.size < d.capacity,
         NEW i \in Nat, 0 < i, i < d.size
  PROVE  ShiftBack(d, i) \in [0..(d.capacity - 1) -> Values]
<1>1. PICK n \in Nat, c \in Nat \ {0}, f \in Nat, l \in Nat, b \in Buffers :
        /\ d = Ring(n, c, f, l, b) /\ Fitting(n, c, f, l)
        /\ b \in [0..(c - 1) -> Values]
  BY ShapeOpen
<1>2. /\ d.size = n /\ d.capacity = c /\ d.first = f /\ d.last = l
      /\ d.buffer = b
  BY <1>1 DEF Ring
<1> DEFINE p == (f + i) % c
           tailMoved == IF f # 0 THEN Move(b, f - 1, f, (c - 1) - f + 1) ELSE b
           bothMoved == IF p # 0 THEN Move(tailMoved, 0, 1, p) ELSE tailMoved
<1>3. p \in Nat /\ p < c /\ f < c /\ i < c
      /\ (f + i < c => p = f + i) /\ (c <= f + i => p = f + i - c)
  <2>1. f < c /\ i < c
    BY <1>1, <1>2 DEF Fitting
  <2> QED
    BY <2>1
<1>4. tailMoved \in [0..(c - 1) -> Values]
  BY <1>1, <1>3, MoveTyped, SMTT(30)
<1>5. bothMoved \in [0..(c - 1) -> Values]
  <2> HIDE DEF tailMoved, p
  <2> QED
    BY <1>3, <1>4, MoveTyped, SMTT(20)
<1>6. [bothMoved EXCEPT ![c - 1] = b[0]] \in [0..(c - 1) -> Values]
  <2> HIDE DEF bothMoved
  <2> QED
    BY <1>1, <1>5
<1>7. ASSUME ~(p < f \/ f = 0)
      PROVE  Move(b, f - 1, f, i) \in [0..(c - 1) -> Values]
  <2>1. f - 1 \in Nat /\ f + i <= c
    BY <1>3, <1>7
  <2> QED
    BY <1>1, <2>1, MoveTyped, SMTT(20)
<1>8. ShiftBack(d, i) = IF p < f \/ f = 0
                        THEN [bothMoved EXCEPT ![c - 1] = b[0]]
                        ELSE Move(b, f - 1, f, i)
  BY <1>2 DEF ShiftBack, Slot, Mask
<1> QED
  BY <1>2, <1>6, <1>7, <1>8

LEMMA ShiftForthTyped ==
  ASSUME NEW d, Shape(d), d.size < d.capacity,
         NEW i \in Nat, 0 < i, i < d.size
  PROVE  ShiftForth(d, i) \in [0..(d.capacity - 1) -> Values]
<1>1. PICK n \in Nat, c \in Nat \ {0}, f \in Nat, l \in Nat, b \in Buffers :
        /\ d = Ring(n, c, f, l, b) /\ Fitting(n, c, f, l)
        /\ b \in [0..(c - 1) -> Values]
  BY ShapeOpen
<1>2. /\ d.size = n /\ d.capacity = c /\ d.first = f /\ d.last = l
      /\ d.buffer = b
  BY <1>1 DEF Ring
<1> DEFINE p == (f + i) % c
           m == l % c
           tailMoved == IF p # c - 1 THEN Move(b, p + 1, p, (c - 1) - p) ELSE b
           bothMoved == IF m # c - 1 THEN Move(tailMoved, 1, 0, m + 1)
                                     ELSE tailMoved
<1>3. /\ p \in Nat /\ p < c /\ f < c /\ i < n /\ n < c /\ m \in Nat /\ m < c
      /\ (f + i < c => p = f + i) /\ (c <= f + i => p = f + i - c)
      /\ (l < c => m = l) /\ (l = c => m = 0)
  <2>1. f < c /\ i < n /\ n < c /\ l <= c
    BY <1>1, <1>2 DEF Fitting
  <2> QED
    BY <2>1
<1>4. tailMoved \in [0..(c - 1) -> Values]
  <2> HIDE DEF p
  <2> QED
    BY <1>1, <1>3, MoveTyped, SMTT(20)
<1>5. bothMoved \in [0..(c - 1) -> Values]
  <2> HIDE DEF tailMoved, m
  <2> QED
    BY <1>3, <1>4, MoveTyped, SMTT(20)
<1>6. [bothMoved EXCEPT ![0] = b[c - 1]] \in [0..(c - 1) -> Values]
  <2> HIDE DEF bothMoved
  <2> QED
    BY <1>1, <1>5
<1>7. ASSUME ~(p > m \/ m = c - 1)
      PROVE  Move(b, p + 1, p, n - i) \in [0..(c - 1) -> Values]
  <2>1. p + (n - i) <= c
    <3> HIDE DEF p, m
    <3> QED
      BY <1>1, <1>3, <1>7 DEF Fitting
  <2> HIDE DEF p
  <2> QED
    BY <1>1, <1>3, <2>1, MoveTyped, SMTT(20)
<1>8. ShiftForth(d, i) = IF p > m \/ m = c - 1
                         THEN [bothMoved EXCEPT ![0] = b[c - 1]]
                         ELSE Move(b, p + 1, p, n - i)
  BY <1>2 DEF ShiftForth, Slot, Mask
<1> QED
  BY <1>2, <1>6, <1>7, <1>8

LEMMA CloseFrontTyped ==
  ASSUME NEW d, Shape(d), NEW i \in Nat, 0 < i, i < d.size
  PROVE  CloseFront(d, i) \in [0..(d.capacity - 1) -> Values]
<1>1. PICK n \in Nat, c \in Nat \ {0}, f \in Nat, l \in Nat, b \in Buffers :
        /\ d = Ring(n, c, f, l, b) /\ Fitting(n, c, f, l)
        /\ b \in [0..(c - 1) -> Values]
  BY ShapeOpen
<1>2. /\ d.size = n /\ d.capacity = c /\ d.first = f /\ d.last = l
      /\ d.buffer = b
  BY <1>1 DEF Ring
<1> DEFINE p == (f + i) % c
           tailMoved == Move(b, f + 1, f, (c - 1) - f)
           bothMoved == Move(tailMoved, 1, 0, p)
<1>3. p \in Nat /\ p < c /\ f < c /\ i < c
      /\ (f + i < c => p = f + i) /\ (c <= f + i => p = f + i - c)
  <2>1. f < c /\ i < c
    BY <1>1, <1>2 DEF Fitting
  <2> QED
    BY <2>1
<1>4. tailMoved \in [0..(c - 1) -> Values]
  BY <1>1, <1>3, MoveTyped, SMTT(20)
<1>5. bothMoved \in [0..(c - 1) -> Values]
  <2> HIDE DEF tailMoved, p
  <2> QED
    BY <1>3, <1>4, MoveTyped, SMTT(20)
<1>6. [bothMoved EXCEPT ![0] = b[c - 1]] \in [0..(c - 1) -> Values]
  <2> HIDE DEF bothMoved
  <2> QED
    BY <1>1, <1>5
<1>7. ASSUME ~(p < f)
      PROVE  Move(b, f + 1, f, i) \in [0..(c - 1) -> Values]
  <2>1. f + i <= c
    BY <1>3, <1>7
  <2> QED
    BY <1>1, <2>1, MoveTyped, SMTT(20)
<1>8. CloseFront(d, i) = IF p < f
                         THEN [bothMoved EXCEPT ![0] = b[c - 1]]
                         ELSE Move(b, f + 1, f, i)
  BY <1>2 DEF CloseFront, Slot, Mask
<1> QED
  BY <1>2, <1>6, <1>7, <1>8

LEMMA CloseBackTyped ==
  ASSUME NEW d, Shape(d), NEW i \in Nat, 0 < i, i < d.size
  PROVE  CloseBack(d, i) \in [0..(d.capacity - 1) -> Values]
<1>1. PICK n \in Nat, c \in Nat \ {0}, f \in Nat, l \in Nat, b \in Buffers :
        /\ d = Ring(n, c, f, l, b) /\ Fitting(n, c, f, l)
        /\ b \in [0..(c - 1) -> Values]
  BY ShapeOpen
<1>2. /\ d.size = n /\ d.capacity = c /\ d.first = f /\ d.last = l
      /\ d.buffer = b
  BY <1>1 DEF Ring
<1> DEFINE p == (f + i) % c
           m == l % c
           tailMoved == Move(b, p, p + 1, (c - 1) - p)
           bothMoved == IF p # 0 THEN Move(tailMoved, 1, 0, m) ELSE tailMoved
<1>3. /\ p \in Nat /\ p < c /\ m \in Nat /\ m < c
  OBVIOUS
<1>4. tailMoved \in [0..(c - 1) -> Values]
  <2> HIDE DEF p
  <2> QED
    BY <1>1, <1>3, MoveTyped, SMTT(30)
<1>5. bothMoved \in [0..(c - 1) -> Values]
  <2> HIDE DEF tailMoved, m, p
  <2> QED
    BY <1>3, <1>4, MoveTyped, SMTT(20)
<1>6. [bothMoved EXCEPT ![c - 1] = b[0]] \in [0..(c - 1) -> Values]
  <2> HIDE DEF bothMoved
  <2> QED
    BY <1>1, <1>5
<1>7. ASSUME ~(p > m)
      PROVE  Move(b, p, p + 1, m - p) \in [0..(c - 1) -> Values]
  <2> HIDE DEF p, m
  <2> QED
    BY <1>1, <1>3, <1>7, MoveTyped, SMTT(20)
<1>8. CloseBack(d, i) = IF p > m
                        THEN [bothMoved EXCEPT ![c - 1] = b[0]]
                        ELSE Move(b, p, p + 1, m - p)
  BY <1>2 DEF CloseBack, Slot, Mask
<1> QED
  BY <1>2, <1>6, <1>7, <1>8

LEMMA InsertAtShape ==
  ASSUME NEW d, Shape(d), d.size < d.capacity, NEW e \in Elements,
         NEW i \in Nat, i < d.size
  PROVE  Keeps(d, InsertAt(d, e, i))
<1>1. PICK n \in Nat, c \in Nat \ {0}, f \in Nat, l \in Nat, b \in Buffers :
        /\ d = Ring(n, c, f, l, b) /\ Fitting(n, c, f, l)
        /\ b \in [0..(c - 1) -> Values]
  BY ShapeOpen
<1>2. /\ d.size = n /\ d.capacity = c /\ d.first = f /\ d.last = l
      /\ n < c
  BY <1>1 DEF Ring
<1>3. e \in Values
  BY DEF Values
<1> DEFINE p == Slot(d, i)
<1>4. CASE i = 0
  BY <1>4, PushFrontShape DEF InsertAt
<1>5. CASE i # 0 /\ i = c - 1
  BY <1>2, <1>5, PushBackShape DEF InsertAt
<1>6. CASE i # 0 /\ i # c - 1 /\ i <= (n \div 2) - 1
  <2> DEFINE w == [ShiftBack(d, i) EXCEPT ![p] = e]
             s == (f - 1) % c
  <2>1. w \in [0..(c - 1) -> Values]
    <3>1. ShiftBack(d, i) \in [0..(c - 1) -> Values]
      BY <1>2, <1>6, ShiftBackTyped
    <3> HIDE DEF Values, p
    <3> QED
      BY <1>3, <3>1
  <2>2. InsertAt(d, e, i) =
          [d EXCEPT !.buffer = w, !.first = Mask(d, @ - 1), !.size = @ + 1]
    BY <1>2, <1>6 DEF InsertAt
  <2>3. InsertAt(d, e, i) \in Rings(n + 1, c, s, l, w)
    <3> HIDE DEF w
    <3> QED
      BY <1>1, <2>1, <2>2 DEF Ring, Rings, Mask
  <2>4. Fitting(n + 1, c, s, l)
    <3>1. s \in Nat /\ (f = 0 => s = c - 1) /\ (f # 0 => s = f - 1)
      BY <1>1 DEF Fitting
    <3> QED
      BY <1>1, <1>2, <3>1 DEF Fitting
  <2>5. s \in Nat
    OBVIOUS
  <2> DEFINE x == InsertAt(d, e, i)
             k == n + 1
  <2>6. k \in Nat /\ s < c
    BY <2>4 DEF Fitting
  <2>7. x \in Rings(k, c, s, l, w) /\ Fitting(k, c, s, l)
    BY <2>3, <2>4
  <2> HIDE DEF s, w, x, k
  <2>8. Keeps(d, x)
    BY <1>2, <2>1, <2>5, <2>6, <2>7, KeepsClose, SMTT(20)
  <2> QED
    BY <2>8 DEF x
<1>7. CASE i # 0 /\ i # c - 1 /\ ~(i <= (n \div 2) - 1)
  <2> DEFINE w == [ShiftForth(d, i) EXCEPT ![p] = e]
             m == (l + 1) % c
  <2>1. w \in [0..(c - 1) -> Values]
    <3>1. ShiftForth(d, i) \in [0..(c - 1) -> Values]
      BY <1>2, <1>7, ShiftForthTyped
    <3> HIDE DEF Values, p
    <3> QED
      BY <1>3, <3>1
  <2>2. InsertAt(d, e, i) =
          [d EXCEPT !.buffer = w, !.last = Mask(d, d.last + 1), !.size = @ + 1]
    BY <1>2, <1>7 DEF InsertAt
  <2>3. InsertAt(d, e, i) \in Rings(n + 1, c, f, m, w)
    <3> HIDE DEF w
    <3> QED
      BY <1>1, <2>1, <2>2 DEF Ring, Rings, Mask
  <2>4. m \in Nat /\ m < c
    OBVIOUS
  <2>5. Fitting(n + 1, c, f, m)
    <3>1. l <= c /\ c > 1
      BY <1>1, <1>2, <1>7 DEF Fitting
    <3>2. (l + 1 < c => m = l + 1) /\ (c <= l + 1 => m = l + 1 - c)
      BY <3>1
    <3> QED
      BY <1>1, <1>2, <2>4, <3>2 DEF Fitting
  <2> HIDE DEF m, w
  <2> QED
    BY <1>2, <2>1, <2>3, <2>4, <2>5, KeepsClose, SMTT(30)
<1> QED
  BY <1>4, <1>5, <1>6, <1>7

LEMMA DeleteAtShape ==
  ASSUME NEW d, Shape(d), NEW i \in Nat, i < d.size
  PROVE  Keeps(d, DeleteAt(d, i))
<1>1. PICK n \in Nat, c \in Nat \ {0}, f \in Nat, l \in Nat, b \in Buffers :
        /\ d = Ring(n, c, f, l, b) /\ Fitting(n, c, f, l)
        /\ b \in [0..(c - 1) -> Values]
  BY ShapeOpen
<1>2. /\ d.size = n /\ d.capacity = c /\ d.first = f /\ d.last = l
      /\ n # 0 /\ n - 1 \in Nat
  BY <1>1 DEF Ring
<1>3. CASE i = 0
  BY <1>2, <1>3, PopFrontShape DEF DeleteAt
<1>4. CASE i # 0 /\ i = c - 1
  BY <1>2, <1>4, PopBackShape DEF DeleteAt
<1>5. CASE i # 0 /\ i # c - 1 /\ i <= (n \div 2) - 1
  <2> DEFINE w == CloseFront(d, i)
             m == (f + 1) % c
  <2>1. w \in [0..(c - 1) -> Values]
    BY <1>2, <1>5, CloseFrontTyped
  <2>2. DeleteAt(d, i) =
          [d EXCEPT !.buffer = w, !.first = Mask(d, @ + 1), !.size = @ - 1]
    BY <1>2, <1>5 DEF DeleteAt
  <2>3. DeleteAt(d, i) \in Rings(n - 1, c, m, l, w)
    <3> HIDE DEF w
    <3> QED
      BY <1>1, <2>1, <2>2 DEF Ring, Rings, Mask
  <2>4. m \in Nat
    OBVIOUS
  <2>5. Fitting(n - 1, c, m, l)
    <3>1. f < c
      BY <1>1 DEF Fitting
    <3>2. (f + 1 < c => m = f + 1) /\ (c <= f + 1 => m = f + 1 - c)
      BY <3>1
    <3> QED
      BY <1>1, <1>2, <2>4, <3>2 DEF Fitting
  <2> HIDE DEF m, w
  <2> QED
    BY <1>2, <2>1, <2>3, <2>4, <2>5, KeepsClose, SMTT(30)
<1>6. CASE i # 0 /\ i # c - 1 /\ ~(i <= (n \div 2) - 1)
  <2> DEFINE w == CloseBack(d, i)
             m == (l - 1) % c
  <2>1. w \in [0..(c - 1) -> Values]
    BY <1>2, <1>6, CloseBackTyped
  <2>2. DeleteAt(d, i) =
          [d EXCEPT !.buffer = w, !.last = Mask(d, @ - 1), !.size = @ - 1]
    BY <1>2, <1>6 DEF DeleteAt
  <2>3. DeleteAt(d, i) \in Rings(n - 1, c, f, m, w)
    <3> HIDE DEF w
    <3> QED
      BY <1>1, <2>1, <2>2 DEF Ring, Rings, Mask
  <2>4. m \in Nat /\ m < c
    OBVIOUS
  <2>5. Fitting(n - 1, c, f, m)
    <3>1. l <= c
      BY <1>1 DEF Fitting
    <3>2. (l = 0 => m = c - 1) /\ (l # 0 => m = l - 1)
      BY <3>1
    <3> QED
      BY <1>1, <1>2, <2>4, <3>2 DEF Fitting
  <2> HIDE DEF m, w
  <2> QED
    BY <1>2, <2>1, <2>3, <2>4, <2>5, KeepsClose, SMTT(20)
<1> QED
  BY <1>3, <1>4, <1>5, <1>6

LEMMA ReversedShape ==
  ASSUME NEW d, Shape(d)
  PROVE  Keeps(d, Reversed(d))
<1>1. PICK n \in Nat, c \in Nat \ {0}, f \in Nat, l \in Nat, b \in Buffers :
        /\ d = Ring(n, c, f, l, b) /\ Fitting(n, c, f, l)
        /\ b \in [0..(c - 1) -> Values]
  BY ShapeOpen
<1>2. /\ d.size = n /\ d.capacity = c /\ d.first = f /\ d.last = l
      /\ d.buffer = b
  BY <1>1 DEF Ring
<1> DEFINE w == [s \in 0..(c - 1) |->
                   IF (s - f) % c < n
                   THEN b[(f + (n - 1 - ((s - f) % c))) % c] ELSE b[s]]
<1>3. w \in [0..(c - 1) -> Values]
  <2>1. ASSUME NEW s \in 0..(c - 1)
        PROVE  b[(f + (n - 1 - ((s - f) % c))) % c] \in Values
    <3>1. (f + (n - 1 - ((s - f) % c))) % c \in 0..(c - 1)
      <4>1. (s - f) % c \in Int
        OBVIOUS
      <4>2. f + (n - 1 - ((s - f) % c)) \in Int
        BY <4>1
      <4> QED
        BY <4>2, Wrap
    <3> QED
      BY <1>1, <3>1
  <2> QED
    BY <1>1, <2>1
<1>4. Reversed(d) = [d EXCEPT !.buffer = w]
  BY <1>1, <1>2 DEF Reversed, Slot, Mask
<1>5. Reversed(d) \in Rings(n, c, f, l, w)
  <2> HIDE DEF w
  <2> QED
    BY <1>1, <1>3, <1>4 DEF Ring, Rings
<1> HIDE DEF w
<1> QED
  BY <1>1, <1>2, <1>3, <1>5, KeepsClose, SMTT(20)

-----------------------------------------------------------------------------
\* The loops of the two filters, as recursive functions that exist.

\* filter_mut after n elements: a deque on the same buffer that is shorter by what
\* was removed, and the index of the next element.
Scans(d, n) ==
  {at \in [d : Deques, i : 0..n] :
     Keeps(d, at.d) /\ at.d.size = d.size - (n - at.i)}
ScanStep(keep, at) ==
  IF at.d.buffer[Slot(at.d, at.i)] \in keep THEN [at EXCEPT !.i = @ + 1]
  ELSE [at EXCEPT !.d = DeleteAt(at.d, at.i)]

LEMMA KeepsTrans ==
  ASSUME NEW d, NEW x, NEW y, Keeps(d, x), Keeps(x, y)
  PROVE  Keeps(d, y)
BY DEF Keeps

LEMMA ScanLeads ==
  ASSUME NEW d, Shape(d), NEW n \in 1..d.size, NEW at \in Scans(d, n - 1), NEW keep
  PROVE  ScanStep(keep, at) \in Scans(d, n)
<1>1. /\ d.size \in Nat /\ n \in Nat /\ n <= d.size
      /\ at.d \in Deques /\ at.i \in Nat /\ at.i <= n - 1
      /\ Keeps(d, at.d) /\ at.d.size = d.size - (n - 1 - at.i)
      /\ at = [d |-> at.d, i |-> at.i]
  BY ShapeFields DEF Scans
<1>2. CASE at.d.buffer[Slot(at.d, at.i)] \in keep
  <2>1. ScanStep(keep, at) = [d |-> at.d, i |-> at.i + 1]
    BY <1>1, <1>2 DEF ScanStep
  <2>2. at.i + 1 \in 0..n /\ at.d.size = d.size - (n - (at.i + 1))
    BY <1>1
  <2> QED
    BY <1>1, <2>1, <2>2 DEF Scans
<1>3. CASE ~(at.d.buffer[Slot(at.d, at.i)] \in keep)
  <2> DEFINE z == DeleteAt(at.d, at.i)
  <2>1. ScanStep(keep, at) = [d |-> z, i |-> at.i]
    BY <1>1, <1>3 DEF ScanStep
  <2>2. Shape(at.d) /\ at.i < at.d.size
    BY <1>1 DEF Keeps
  <2>3. Keeps(at.d, z)
    BY <1>1, <2>2, DeleteAtShape
  <2>4. z.size = at.d.size - 1
    BY <1>1 DEF DeleteAt, PopFront, PopBack, Deques
  <2>5. Keeps(d, z) /\ z \in Deques
    BY <1>1, <2>3, KeepsTrans DEF Keeps, Shape
  <2> HIDE DEF z
  <2>6. at.i \in 0..n /\ z.size = d.size - (n - at.i)
    BY <1>1, <2>4
  <2> QED
    BY <2>1, <2>5, <2>6 DEF Scans
<1> QED
  BY <1>2, <1>3

Scanned(scan, d, keep) ==
  /\ scan[0] = [d |-> d, i |-> 0]
  /\ \A n \in 1..d.size : scan[n] = ScanStep(keep, scan[n - 1])
  /\ \A n \in 0..d.size : scan[n] \in Scans(d, n)
  /\ Scan(d, keep) = scan
  /\ Filtered(d, keep) = scan[d.size].d

LEMMA Scanning ==
  ASSUME NEW d, Shape(d), NEW keep
  PROVE  \E scan : Scanned(scan, d, keep)
<1> DEFINE N == d.size
           L(f) == [n \in 0..N |->
                  IF n = 0 THEN [d |-> d, i |-> 0]
                  ELSE LET at == f[n - 1]
                       IN  IF at.d.buffer[Slot(at.d, at.i)] \in keep
                           THEN [at EXCEPT !.i = @ + 1]
                           ELSE [at EXCEPT !.d = DeleteAt(at.d, at.i)]]
           x == [d |-> d, i |-> 0]
           G == [n \in 0..N |-> Scans(d, n)]
           D == UNION {G[n] : n \in 0..N}
           h == [p \in (1..N) \X D |-> ScanStep(keep, p[2])]
           scan == CHOOSE f : f = L(f)
<1>1. Scan(d, keep) = scan /\ Filtered(d, keep) = scan[N].d
  BY Zenon DEF Scan, Filtered
<1>2. N \in Nat
  BY ShapeFields
<1>3. \A f : L(f) = [n \in 0..N |-> IF n = 0 THEN x ELSE ScanStep(keep, f[n - 1])]
  BY DEF ScanStep
<1> HIDE DEF L
<1>4. x \in Scans(d, 0)
  <2>1. d \in Deques /\ Keeps(d, d) /\ 0 \in 0..0 /\ d.size = d.size - (0 - 0)
    BY <1>2 DEF Keeps, Shape
  <2> QED
    BY <2>1 DEF Scans
<1>5. \A n \in 0..N : G[n] = Scans(d, n)
  OBVIOUS
<1>6. ASSUME NEW n \in 1..N, NEW y \in G[n - 1] PROVE h[<<n, y>>] = ScanStep(keep, y)
  <2>1. n - 1 \in 0..N
    BY <1>2
  <2>2. y \in D
    BY <2>1
  <2> HIDE DEF D, G
  <2> QED
    BY <2>2
<1> HIDE DEF h, G, D, x
<1>7. Leads(h, N, G)
  <2> SUFFICES ASSUME NEW n \in 1..N, NEW y \in G[n - 1]
               PROVE  h[<<n, y>>] \in G[n]
    BY DEF Leads
  <2>1. n \in 0..N /\ n - 1 \in 0..N
    BY <1>2
  <2> QED
    BY <1>5, <1>6, <2>1, ScanLeads
<1>8. PICK f : Iterates(f, N, G, x, h)
  <2>1. x \in G[0]
    BY <1>2, <1>4, <1>5
  <2> HIDE DEF N
  <2> QED
    BY <1>2, <1>7, <2>1, Recursion
<1>9. /\ f[0] = x /\ f = [n \in 0..N |-> f[n]]
      /\ \A n \in 1..N : f[n] = ScanStep(keep, f[n - 1])
      /\ \A n \in 0..N : f[n] \in Scans(d, n)
  <2>1. ASSUME NEW n \in 1..N PROVE f[n] = ScanStep(keep, f[n - 1])
    <3>1. n - 1 \in 0..N
      BY <1>2
    <3> QED
      BY <1>6, <1>8, <3>1 DEF Iterates
  <2> QED
    BY <1>5, <1>8, <2>1 DEF Iterates
<1>10. f = L(f)
  <2>1. \A n \in 0..N : f[n] = IF n = 0 THEN x ELSE ScanStep(keep, f[n - 1])
    <3>1. \A n \in 0..N : n # 0 => n \in 1..N
      BY <1>2
    <3> HIDE DEF N
    <3> QED
      BY <1>9, <3>1
  <2> HIDE DEF N
  <2> QED
    BY <1>3, <1>9, <2>1
<1>11. scan = L(scan)
  BY <1>10
<1> HIDE DEF scan
<1>12. scan = [n \in 0..N |-> IF n = 0 THEN x ELSE ScanStep(keep, scan[n - 1])]
  BY <1>3, <1>11
<1> HIDE DEF N
<1>13. scan[0] = x /\ \A n \in 1..N : scan[n] = ScanStep(keep, scan[n - 1])
  BY <1>2, <1>12
<1>14. 0..N \subseteq {n \in 0..N : scan[n] \in Scans(d, n)}
  <2> DEFINE A == {n \in 0..N : scan[n] \in Scans(d, n)}
  <2>1. 0 \in A
    BY <1>2, <1>4, <1>13
  <2>2. ASSUME NEW n \in 1..N, n - 1 \in A PROVE n \in A
    <3>1. scan[n - 1] \in Scans(d, n - 1) /\ n \in 0..N
      BY <1>2, <2>2
    <3>2. ScanStep(keep, scan[n - 1]) \in Scans(d, n)
      BY <3>1, ScanLeads DEF N
    <3> QED
      BY <1>13, <3>1, <3>2
  <2> HIDE DEF A
  <2>3. 0..N \subseteq A
    BY <1>2, <2>1, <2>2, Induction
  <2> QED
    BY <2>3 DEF A
<1>15. \A n \in 0..N : scan[n] \in Scans(d, n)
  BY <1>14
<1> QED
  BY <1>1, <1>13, <1>15 DEF Scanned, N, x

LEMMA FilteredShape ==
  ASSUME NEW d, Shape(d), NEW keep
  PROVE  Keeps(d, Filtered(d, keep))
<1>1. PICK scan : Scanned(scan, d, keep)
  BY Scanning
<1>2. d.size \in Nat
  BY ShapeFields
<1>3. d.size \in 0..d.size
  BY <1>2
<1> QED
  BY <1>1, <1>3 DEF Scanned, Scans

\* filter after n elements: any deque whose last is a slot.
Inside(f) == Shape(f) /\ f.last < f.capacity
Copies  == {f \in Deques : Inside(f)}
CopyStep(d, keep, granted, n, f) ==
  IF Contents(d)[n] \notin keep THEN f
  ELSE IF f.size < f.capacity THEN PushBack(f, Contents(d)[n])
  ELSE IF n \notin granted \/ f.capacity = MaxCapacity THEN f
  ELSE PushBack(Realigned(f, 2 * f.capacity), Contents(d)[n])

LEMMA CopyLeads ==
  ASSUME NEW d, NEW n, NEW keep \in SUBSET Elements, NEW granted, NEW f \in Copies
  PROVE  CopyStep(d, keep, granted, n, f) \in Copies
<1> DEFINE e == Contents(d)[n]
<1>1. Shape(f) /\ f.last < f.capacity
  BY DEF Copies, Inside
<1>2. ASSUME e \in keep, NEW g, Shape(g), g.last < g.capacity, g.size < g.capacity
      PROVE  PushBack(g, e) \in Copies
  <2>1. e \in Elements
    BY <1>2
  <2> HIDE DEF e
  <2>2. Keeps(g, PushBack(g, e))
    BY <1>2, <2>1, PushBackShape
  <2> QED
    BY <1>2, <2>2 DEF Keeps, Copies, Inside, Shape
<1>3. ASSUME ~(f.size < f.capacity), f.capacity # MaxCapacity
      PROVE  LET g == Realigned(f, 2 * f.capacity)
             IN  Shape(g) /\ g.last < g.capacity /\ g.size < g.capacity
  <2>1. /\ f.size \in Nat /\ f.capacity \in Nat \ {0} /\ f.size <= f.capacity
        /\ MaxCapacity \in Nat /\ f.capacity <= MaxCapacity
        /\ IsPowerOfTwo(f.capacity) /\ IsPowerOfTwo(MaxCapacity)
    BY <1>1, ShapeFields, DequeConstants DEF Shape
  <2>2. 2 * f.capacity \in 1..MaxCapacity /\ IsPowerOfTwo(2 * f.capacity)
    BY <1>3, <2>1, DoublingStaysBelow
  <2>3. Shape(Realigned(f, 2 * f.capacity))
    BY <1>1, <2>1, <2>2, RealignedShape
  <2>4. f.size < 2 * f.capacity
    BY <2>1
  <2> QED
    BY <2>3, <2>4 DEF Realigned
<1> QED
  BY <1>1, <1>2, <1>3 DEF CopyStep

LEMMA FilteredCopyShape ==
  ASSUME NEW d, Shape(d), NEW keep \in SUBSET Elements, NEW granted
  PROVE  Inside(FilteredCopy(d, keep, granted))
<1> DEFINE N == d.size
           x == [size |-> 0, capacity |-> DefaultCapacity, first |-> 0,
                 last |-> 0, buffer |-> Buffer(DefaultCapacity)]
           L(p) == [n \in 0..N |->
                  IF n = 0 THEN [size |-> 0, capacity |-> DefaultCapacity, first |-> 0,
                                 last |-> 0, buffer |-> Buffer(DefaultCapacity)]
                  ELSE LET f == p[n - 1]
                           e == Contents(d)[n]
                       IN  IF e \notin keep THEN f
                           ELSE IF f.size < f.capacity THEN PushBack(f, e)
                           ELSE IF n \notin granted \/ f.capacity = MaxCapacity THEN f
                           ELSE PushBack(Realigned(f, 2 * f.capacity), e)]
           G == [n \in 0..N |-> Copies]
           h == [p \in (1..N) \X Copies |-> CopyStep(d, keep, granted, p[1], p[2])]
           scan == CHOOSE p : p = L(p)
<1>1. FilteredCopy(d, keep, granted) = scan[N]
  BY Zenon DEF FilteredCopy
<1>2. N \in Nat
  BY ShapeFields
<1>3. \A p : L(p) = [n \in 0..N |-> IF n = 0 THEN x
                                    ELSE CopyStep(d, keep, granted, n, p[n - 1])]
  BY DEF CopyStep
<1> HIDE DEF L
<1>4. x \in Copies
  <2>1. /\ DefaultCapacity \in 1..MaxCapacity /\ DefaultCapacity \in Nat \ {0}
        /\ IsPowerOfTwo(DefaultCapacity)
    BY DequeConstants
  <2>2. Buffer(DefaultCapacity) \in [0..(DefaultCapacity - 1) -> Values]
    BY DEF Buffer, Values
  <2>3. Shape(x)
    BY <2>1, <2>2, FieldsShape
  <2>4. x.last < x.capacity
    BY <2>1
  <2> HIDE DEF x
  <2> QED
    BY <2>3, <2>4 DEF Copies, Inside, Shape
<1>5. \A n \in 0..N : G[n] = Copies
  OBVIOUS
<1>6. ASSUME NEW n \in 1..N, NEW y \in Copies
      PROVE  h[<<n, y>>] = CopyStep(d, keep, granted, n, y)
  OBVIOUS
<1> HIDE DEF h, G, x
<1>7. Leads(h, N, G)
  <2> SUFFICES ASSUME NEW n \in 1..N, NEW y \in G[n - 1]
               PROVE  h[<<n, y>>] \in G[n]
    BY DEF Leads
  <2>1. n \in 0..N /\ n - 1 \in 0..N
    BY <1>2
  <2> QED
    BY <1>5, <1>6, <2>1, CopyLeads
<1>8. PICK f : Iterates(f, N, G, x, h)
  <2>1. x \in G[0]
    BY <1>2, <1>4, <1>5
  <2> HIDE DEF N
  <2> QED
    BY <1>2, <1>7, <2>1, Recursion
<1>9. f = L(f)
  <2>1. ASSUME NEW n \in 1..N PROVE f[n] = CopyStep(d, keep, granted, n, f[n - 1])
    <3>1. n - 1 \in 0..N
      BY <1>2
    <3> QED
      BY <1>5, <1>6, <1>8, <3>1 DEF Iterates
  <2>2. \A n \in 0..N : f[n] = IF n = 0 THEN x
                               ELSE CopyStep(d, keep, granted, n, f[n - 1])
    <3>1. \A n \in 0..N : n # 0 => n \in 1..N
      BY <1>2
    <3>2. f[0] = x
      BY <1>8 DEF Iterates
    <3> HIDE DEF N
    <3> QED
      BY <2>1, <3>1, <3>2
  <2>3. f = [n \in 0..N |-> f[n]]
    BY <1>8 DEF Iterates
  <2> HIDE DEF N
  <2> QED
    BY <1>3, <2>2, <2>3
<1>10. scan = L(scan)
  BY <1>9
<1> HIDE DEF scan
<1>11. scan = [n \in 0..N |-> IF n = 0 THEN x
                              ELSE CopyStep(d, keep, granted, n, scan[n - 1])]
  BY <1>3, <1>10
<1> HIDE DEF N
<1>12. 0..N \subseteq {n \in 0..N : scan[n] \in Copies}
  <2> DEFINE A == {n \in 0..N : scan[n] \in Copies}
  <2>1. 0 \in A
    BY <1>2, <1>4, <1>11
  <2>2. ASSUME NEW n \in 1..N, n - 1 \in A PROVE n \in A
    <3>1. scan[n - 1] \in Copies /\ n \in 0..N /\ n # 0
      BY <1>2, <2>2
    <3>2. scan[n] = CopyStep(d, keep, granted, n, scan[n - 1])
      BY <1>11, <3>1
    <3>3. CopyStep(d, keep, granted, n, scan[n - 1]) \in Copies
      BY <3>1, CopyLeads
    <3> QED
      BY <3>1, <3>2, <3>3
  <2> HIDE DEF A
  <2>3. 0..N \subseteq A
    BY <1>2, <2>1, <2>2, Induction
  <2> QED
    BY <2>3 DEF A
<1>13. scan[N] \in Copies
  BY <1>2, <1>12
<1> QED
  BY <1>1, <1>13 DEF Copies, Inside

-----------------------------------------------------------------------------
\* The inductive invariant, and what holds besides it as long as no deque was
\* copied or trimmed: last is a slot, and no call has left the buffer.

Iters == [index : Nat, last_removed : BOOLEAN]

IsResult(r) == r.stat \in Stats /\ r.out \in Values

DequeInv ==
  /\ Shape(deque)
  /\ iter \in Iters
  /\ IsResult(ret)

Tight == ~fault /\ deque.last < deque.capacity

LEMMA Results ==
  /\ IsResult(Done)
  /\ \A st \in Stats : IsResult(Refused(st))
  /\ \A e \in Values : IsResult(Got(e))
  /\ {CC_ERR_ALLOC, CC_ERR_OUT_OF_RANGE, CC_ERR_VALUE_NOT_FOUND, CC_ITER_END}
       \subseteq Stats
<1>1. {CC_OK, CC_ERR_ALLOC, CC_ERR_OUT_OF_RANGE, CC_ERR_VALUE_NOT_FOUND,
       CC_ITER_END} \subseteq Stats
  BY DEF Stats, Errors
<1>2. NoElement \in Values
  BY DEF Values
<1>3. \A st \in Stats, o \in Values : IsResult(Result(st, o))
  BY DEF Result, IsResult
<1> QED
  BY <1>1, <1>2, <1>3 DEF Done, Refused, Got

LEMMA RejectStep ==
  ASSUME DequeInv, iter' \in Iters, NEW st \in Stats, Reject(st)
  PROVE  DequeInv' /\ (Tight => Tight')
<1>1. IsResult(Refused(st))
  BY Results
<1> QED
  BY <1>1 DEF Reject, Return, DequeInv, Tight

LEMMA RefuseStep ==
  ASSUME DequeInv, NEW st \in Stats, Refuse(st)
  PROVE  DequeInv' /\ (Tight => Tight')
<1>1. iter' \in Iters
  BY DEF Refuse, EndWalk, DequeInv
<1> QED
  BY <1>1, RejectStep DEF Refuse

LEMMA CommitInv ==
  ASSUME DequeInv, iter' \in Iters,
         NEW d, Shape(d), NEW slots, NEW r, IsResult(r), Commit(d, slots, r)
  PROVE  DequeInv'
BY DEF Commit, Return, DequeInv

LEMMA CommitStep ==
  ASSUME DequeInv, iter' \in Iters,
         NEW d, Shape(d), NEW slots, NEW r, IsResult(r), Commit(d, slots, r),
         Tight => d.last < d.capacity /\ slots \subseteq 0..(d.capacity - 1)
  PROVE  DequeInv' /\ (Tight => Tight')
<1>1. DOMAIN d.buffer = 0..(d.capacity - 1)
  BY ShapeFields
<1>2. CASE slots \subseteq DOMAIN d.buffer
  BY <1>2 DEF Commit, Return, DequeInv, Tight
<1>3. CASE ~(slots \subseteq DOMAIN d.buffer)
  BY <1>1, <1>3 DEF Commit, DequeInv, Tight
<1> QED
  BY <1>2, <1>3

LEMMA UpdateStep ==
  ASSUME DequeInv, NEW d, Shape(d), NEW slots, NEW r, IsResult(r),
         Update(d, slots, r),
         Tight => d.last < d.capacity /\ slots \subseteq 0..(d.capacity - 1)
  PROVE  DequeInv' /\ (Tight => Tight')
<1>1. iter' \in Iters
  BY DEF Update, EndWalk, DequeInv
<1> QED
  BY <1>1, CommitStep DEF Update

\* A slot of the deque is in the buffer, and what it holds is a value.
LEMMA ElementIs ==
  ASSUME NEW d, Shape(d), NEW i \in Int
  PROVE  /\ Mask(d, i) \in 0..(d.capacity - 1)
         /\ Slot(d, i) \in 0..(d.capacity - 1)
         /\ d.first \in 0..(d.capacity - 1)
         /\ \A s \in 0..(d.capacity - 1) : d.buffer[s] \in Values
<1>1. PICK n \in Nat, c \in Nat \ {0}, f \in Nat, l \in Nat, b \in Buffers :
        /\ d = Ring(n, c, f, l, b) /\ Fitting(n, c, f, l)
        /\ b \in [0..(c - 1) -> Values]
  BY ShapeOpen
<1>2. d.capacity = c /\ d.first = f /\ d.buffer = b
  BY <1>1 DEF Ring
<1>3. i % c \in 0..(c - 1) /\ (f + i) % c \in 0..(c - 1)
  OBVIOUS
<1>4. f \in 0..(c - 1)
  BY <1>1 DEF Fitting
<1> QED
  BY <1>1, <1>2, <1>3, <1>4 DEF Mask, Slot

-----------------------------------------------------------------------------
\* The ends

LEMMA AddFirstStep ==
  ASSUME DequeInv, NEW e \in Elements, AddFirst(e)
  PROVE  DequeInv' /\ (Tight => Tight')
<1>1. ASSUME NEW d \in MakeRoom(deque),
             Update(PushFront(d, e), {Mask(d, d.first - 1)}, Done)
      PROVE  DequeInv' /\ (Tight => Tight')
  <2>1. Shape(d) /\ d.size < d.capacity /\ (d = deque \/ d.last < d.capacity)
    BY MakeRoomShape DEF DequeInv
  <2>2. Keeps(d, PushFront(d, e))
    BY <2>1, PushFrontShape
  <2>3. Mask(d, d.first - 1) \in 0..(d.capacity - 1)
    <3>1. d.first - 1 \in Int
      BY <2>1, ShapeFields
    <3> QED
      BY <2>1, <3>1, ElementIs
  <2>4. Tight => /\ PushFront(d, e).last < PushFront(d, e).capacity
                 /\ {Mask(d, d.first - 1)}
                      \subseteq 0..(PushFront(d, e).capacity - 1)
    BY <2>1, <2>2, <2>3 DEF Keeps, Tight
  <2>5. Shape(PushFront(d, e))
    BY <2>2 DEF Keeps
  <2> QED
    BY <1>1, <2>4, <2>5, Results, UpdateStep
<1> QED
  BY <1>1, Results, RefuseStep DEF AddFirst

LEMMA AddLastStep ==
  ASSUME DequeInv, NEW e \in Elements, AddLast(e)
  PROVE  DequeInv' /\ (Tight => Tight')
<1>1. ASSUME NEW d \in MakeRoom(deque), Update(PushBack(d, e), {d.last}, Done)
      PROVE  DequeInv' /\ (Tight => Tight')
  <2>1. Shape(d) /\ d.size < d.capacity /\ (d = deque \/ d.last < d.capacity)
    BY MakeRoomShape DEF DequeInv
  <2>2. CASE d.last < d.capacity
    <3>1. Keeps(d, PushBack(d, e))
      BY <2>1, <2>2, PushBackShape
    <3>2. d.last \in 0..(d.capacity - 1)
      BY <2>1, <2>2, ShapeFields
    <3>3. Tight => /\ PushBack(d, e).last < PushBack(d, e).capacity
                   /\ {d.last} \subseteq 0..(PushBack(d, e).capacity - 1)
      BY <2>2, <3>1, <3>2 DEF Keeps
    <3>4. Shape(PushBack(d, e))
      BY <3>1 DEF Keeps
    <3> QED
      BY <1>1, <3>3, <3>4, Results, UpdateStep
  <2>3. CASE ~(d.last < d.capacity)  \* the slot does not exist
    <3>1. DOMAIN PushBack(d, e).buffer = DOMAIN d.buffer
      BY <2>1 DEF PushBack, Shape, Deques
    <3>2. ~({d.last} \subseteq DOMAIN PushBack(d, e).buffer)
      BY <2>1, <2>3, <3>1, ShapeFields
    <3>3. /\ UNCHANGED <<deque, ret>> /\ iter' = iter
      BY <1>1, <3>2 DEF Update, Commit, EndWalk
    <3>4. ~Tight
      BY <2>1, <2>3 DEF Tight
    <3> QED
      BY <3>3, <3>4 DEF DequeInv
  <2> QED
    BY <2>2, <2>3
<1> QED
  BY <1>1, Results, RefuseStep DEF AddLast

LEMMA RemoveFirstStep ==
  ASSUME DequeInv, RemoveFirst
  PROVE  DequeInv' /\ (Tight => Tight')
<1>1. ASSUME deque.size # 0,
             Update(PopFront(deque), {deque.first},
                    Got(deque.buffer[deque.first]))
      PROVE  DequeInv' /\ (Tight => Tight')
  <2>1. Keeps(deque, PopFront(deque))
    BY <1>1, PopFrontShape DEF DequeInv
  <2>2. /\ deque.first \in 0..(deque.capacity - 1)
        /\ deque.buffer[deque.first] \in Values
    BY ElementIs DEF DequeInv
  <2>3. IsResult(Got(deque.buffer[deque.first]))
    BY <2>2, Results
  <2> QED
    BY <1>1, <2>1, <2>2, <2>3, UpdateStep DEF Keeps, Tight
<1> QED
  BY <1>1, Results, RefuseStep DEF RemoveFirst

LEMMA RemoveLastStep ==
  ASSUME DequeInv, RemoveLast
  PROVE  DequeInv' /\ (Tight => Tight')
<1> DEFINE s == Mask(deque, deque.last - 1)
<1>1. s \in 0..(deque.capacity - 1) /\ IsResult(Got(deque.buffer[s]))
  <2>1. deque.last - 1 \in Int
    BY ShapeFields DEF DequeInv
  <2>2. s \in 0..(deque.capacity - 1) /\ deque.buffer[s] \in Values
    BY <2>1, ElementIs DEF DequeInv
  <2> QED
    BY <2>2, Results
<1>2. ASSUME deque.size # 0, Update(PopBack(deque), {s}, Got(deque.buffer[s]))
      PROVE  DequeInv' /\ (Tight => Tight')
  <2>1. Keeps(deque, PopBack(deque))
    BY <1>2, PopBackShape DEF DequeInv
  <2> HIDE DEF s
  <2> QED
    BY <1>1, <1>2, <2>1, UpdateStep DEF Keeps, Tight
<1> QED
  BY <1>2, Results, RefuseStep DEF RemoveLast

LEMMA GetFirstStep ==
  ASSUME DequeInv, GetFirst
  PROVE  DequeInv' /\ (Tight => Tight')
<1>1. /\ deque.first \in 0..(deque.capacity - 1)
      /\ deque.buffer[deque.first] \in Values
  BY ElementIs DEF DequeInv
<1>2. IsResult(Got(deque.buffer[deque.first])) /\ Shape(deque)
  BY <1>1, Results DEF DequeInv
<1>3. ASSUME Update(deque, {deque.first}, Got(deque.buffer[deque.first]))
      PROVE  DequeInv' /\ (Tight => Tight')
  BY <1>1, <1>2, <1>3, UpdateStep DEF Tight
<1> QED
  BY <1>3, Results, RefuseStep DEF GetFirst

LEMMA GetLastStep ==
  ASSUME DequeInv, GetLast
  PROVE  DequeInv' /\ (Tight => Tight')
<1> DEFINE s == Mask(deque, deque.last - 1)
<1>1. s \in 0..(deque.capacity - 1) /\ IsResult(Got(deque.buffer[s]))
  <2>1. deque.last - 1 \in Int
    BY ShapeFields DEF DequeInv
  <2>2. s \in 0..(deque.capacity - 1) /\ deque.buffer[s] \in Values
    BY <2>1, ElementIs DEF DequeInv
  <2> QED
    BY <2>2, Results
<1>2. ASSUME Update(deque, {s}, Got(deque.buffer[s]))
      PROVE  DequeInv' /\ (Tight => Tight')
  <2> HIDE DEF s
  <2> QED
    BY <1>1, <1>2, UpdateStep DEF Tight, DequeInv
<1> QED
  BY <1>2, Results, RefuseStep DEF GetLast

LEMMA RemoveAllStep ==
  ASSUME DequeInv, RemoveAll
  PROVE  DequeInv' /\ (Tight => Tight')
<1> DEFINE d == [deque EXCEPT !.first = 0, !.last = 0, !.size = 0]
<1>1. Keeps(deque, d)
  <2>1. PICK n \in Nat, c \in Nat \ {0}, f \in Nat, l \in Nat, b \in Buffers :
          /\ deque = Ring(n, c, f, l, b) /\ Fitting(n, c, f, l)
          /\ b \in [0..(c - 1) -> Values]
    BY ShapeOpen DEF DequeInv
  <2>2. d \in Rings(0, c, 0, 0, b) /\ deque.capacity = c
    BY <2>1 DEF Ring, Rings
  <2>3. Fitting(0, c, 0, 0)
    BY <2>1 DEF Fitting
  <2> HIDE DEF d
  <2> QED
    BY <2>1, <2>2, <2>3, KeepsClose, SMTT(20)
<1>2. Update(d, {}, Done)
  BY DEF RemoveAll
<1> HIDE DEF d
<1> QED
  BY <1>1, <1>2, Results, UpdateStep DEF Keeps, Tight

-----------------------------------------------------------------------------
\* The middle

LEMMA InsertMiddleStep ==
  ASSUME DequeInv, iter' \in Iters, NEW e \in Elements, NEW i \in Int,
         InsertMiddle(e, i)
  PROVE  DequeInv' /\ (Tight => Tight')
<1>1. ASSUME InRange(i), NEW d \in MakeRoom(deque),
             Commit(InsertAt(d, e, i), {Slot(d, i)}, Done)
      PROVE  DequeInv' /\ (Tight => Tight')
  <2>1. /\ Shape(d) /\ d.size < d.capacity /\ d.size = deque.size
        /\ d = deque \/ d.last < d.capacity
    BY MakeRoomShape DEF DequeInv
  <2>2. i \in Nat /\ i < d.size
    BY <1>1, <2>1 DEF InRange
  <2>3. Keeps(d, InsertAt(d, e, i))
    BY <2>1, <2>2, InsertAtShape
  <2>4. Slot(d, i) \in 0..(d.capacity - 1)
    BY <2>1, ElementIs
  <2>5. Tight => /\ InsertAt(d, e, i).last < InsertAt(d, e, i).capacity
                 /\ {Slot(d, i)} \subseteq 0..(InsertAt(d, e, i).capacity - 1)
    BY <2>1, <2>3, <2>4 DEF Keeps, Tight
  <2>6. Shape(InsertAt(d, e, i))
    BY <2>3 DEF Keeps
  <2> QED
    BY <1>1, <2>5, <2>6, Results, CommitStep
<1> QED
  BY <1>1, Results, RejectStep DEF InsertMiddle

LEMMA ReplaceMiddleStep ==
  ASSUME DequeInv, iter' \in Iters, NEW e \in Elements, NEW i \in Int,
         ReplaceMiddle(e, i)
  PROVE  DequeInv' /\ (Tight => Tight')
<1> DEFINE d == [deque EXCEPT !.buffer[Slot(deque, i)] = e]
<1>1. ASSUME Commit(d, {Slot(deque, i)}, Got(Element(i)))
      PROVE  DequeInv' /\ (Tight => Tight')
  <2>1. /\ Slot(deque, i) \in 0..(deque.capacity - 1)
        /\ IsResult(Got(Element(i)))
    BY ElementIs, Results DEF DequeInv, Element
  <2>2. Keeps(deque, d)
    <3>1. PICK n \in Nat, c \in Nat \ {0}, f \in Nat, l \in Nat,
               b \in Buffers :
            /\ deque = Ring(n, c, f, l, b) /\ Fitting(n, c, f, l)
            /\ b \in [0..(c - 1) -> Values]
      BY ShapeOpen DEF DequeInv
    <3> DEFINE s == Slot(deque, i)
               w == [b EXCEPT ![s] = e]
    <3>2. w \in [0..(c - 1) -> Values]
      BY <3>1 DEF Values
    <3>3. d \in Rings(n, c, f, l, w) /\ deque.capacity = c /\ deque.last = l
      BY <3>1, <3>2 DEF Ring, Rings
    <3> HIDE DEF d, w
    <3> QED
      BY <3>1, <3>2, <3>3, KeepsClose, SMTT(20)
  <2> HIDE DEF d
  <2> QED
    BY <1>1, <2>1, <2>2, CommitStep DEF Keeps, Tight
<1> QED
  BY <1>1, Results, RejectStep DEF ReplaceMiddle

LEMMA RemoveMiddleStep ==
  ASSUME DequeInv, iter' \in Iters, NEW i \in Int, InRange(i), RemoveMiddle(i)
  PROVE  DequeInv' /\ (Tight => Tight')
<1>1. i \in Nat /\ i < deque.size
  BY DEF InRange
<1>2. Keeps(deque, DeleteAt(deque, i))
  BY <1>1, DeleteAtShape DEF DequeInv
<1>3. /\ Slot(deque, i) \in 0..(deque.capacity - 1)
      /\ IsResult(Got(Element(i)))
  BY ElementIs, Results DEF DequeInv, Element
<1>4. Commit(DeleteAt(deque, i), {Slot(deque, i)}, Got(Element(i)))
  BY DEF RemoveMiddle
<1> QED
  BY <1>2, <1>3, <1>4, CommitStep DEF Keeps, Tight

LEMMA MiddleStep ==
  ASSUME DequeInv, Middle
  PROVE  DequeInv' /\ (Tight => Tight')
<1>1. Indices \subseteq Int
  BY DequeConstants DEF Indices
<1>2. ASSUME EndWalk PROVE iter' \in Iters
  BY <1>2 DEF EndWalk, DequeInv
<1>3. ASSUME NEW e \in Elements, NEW i \in Indices, AddAt(e, i)
      PROVE  DequeInv' /\ (Tight => Tight')
  BY <1>1, <1>2, <1>3, InsertMiddleStep DEF AddAt
<1>4. ASSUME NEW e \in Elements, NEW i \in Indices, ReplaceAt(e, i)
      PROVE  DequeInv' /\ (Tight => Tight')
  BY <1>1, <1>2, <1>4, ReplaceMiddleStep DEF ReplaceAt
<1>5. ASSUME NEW i \in Indices, RemoveAt(i)
      PROVE  DequeInv' /\ (Tight => Tight')
  BY <1>1, <1>2, <1>5, Results, RefuseStep, RemoveMiddleStep DEF RemoveAt
<1>6. ASSUME NEW i \in Indices, GetAt(i)
      PROVE  DequeInv' /\ (Tight => Tight')
  <2>1. /\ Slot(deque, i) \in 0..(deque.capacity - 1)
        /\ IsResult(Got(Element(i)))
    BY <1>1, ElementIs, Results DEF DequeInv, Element
  <2>2. ASSUME Update(deque, {Slot(deque, i)}, Got(Element(i)))
        PROVE  DequeInv' /\ (Tight => Tight')
    BY <2>1, <2>2, UpdateStep DEF DequeInv, Tight
  <2> QED
    BY <1>6, <2>2, Results, RefuseStep DEF GetAt
<1>7. ASSUME NEW e \in Elements, Remove(e)
      PROVE  DequeInv' /\ (Tight => Tight')
  <2>1. ASSUME NEW i \in IndexOf(e), RemoveMiddle(i), EndWalk
        PROVE  DequeInv' /\ (Tight => Tight')
    <3>1. i \in Int /\ InRange(i)
      BY ShapeFields DEF IndexOf, InRange, DequeInv
    <3> QED
      BY <1>2, <2>1, <3>1, RemoveMiddleStep
  <2> QED
    BY <1>7, <2>1, Results, RefuseStep DEF Remove
<1> QED
  BY <1>3, <1>4, <1>5, <1>6, <1>7 DEF Middle

-----------------------------------------------------------------------------
\* The whole deque

LEMMA ReverseStep ==
  ASSUME DequeInv, Reverse
  PROVE  DequeInv' /\ (Tight => Tight')
<1>1. Keeps(deque, Reversed(deque))
  BY ReversedShape DEF DequeInv
<1> QED
  BY <1>1, Results, UpdateStep DEF Reverse, Keeps, Tight

LEMMA FilterMutStep ==
  ASSUME DequeInv, NEW keep, FilterMut(keep)
  PROVE  DequeInv' /\ (Tight => Tight')
<1>1. Keeps(deque, Filtered(deque, keep))
  BY FilteredShape DEF DequeInv
<1>2. ASSUME Update(Filtered(deque, keep), {}, Done)
      PROVE  DequeInv' /\ (Tight => Tight')
  BY <1>1, <1>2, Results, UpdateStep DEF Keeps, Tight
<1> QED
  BY <1>2, Results, RefuseStep DEF FilterMut

LEMMA FilterStep ==
  ASSUME DequeInv, NEW keep \in SUBSET Elements, Filter(keep)
  PROVE  DequeInv' /\ (Tight => Tight')
<1>1. ASSUME NEW granted, Adopt(FilteredCopy(deque, keep, granted))
      PROVE  DequeInv' /\ (Tight => Tight')
  <2>1. iter' \in Iters
    BY <1>1 DEF Adopt, NewIter, Iters
  <2>2. Inside(FilteredCopy(deque, keep, granted))
    BY FilteredCopyShape DEF DequeInv
  <2> QED
    BY <1>1, <2>1, <2>2, Results, CommitStep DEF Adopt, Inside
<1> QED
  BY <1>1, Results, RefuseStep DEF Filter

LEMMA CopyShallowStep ==
  ASSUME DequeInv, CopyShallow
  PROVE  DequeInv'
<1>1. ASSUME Adopt(Realigned(deque, deque.capacity))
      PROVE  DequeInv'
  <2>1. iter' \in Iters
    BY <1>1 DEF Adopt, NewIter, Iters
  <2>2. Shape(Realigned(deque, deque.capacity))
    BY RealignedShape DEF DequeInv, Shape
  <2> QED
    BY <1>1, <2>1, <2>2, Results, CommitInv DEF Adopt
<1> QED
  BY <1>1, Results, RefuseStep DEF CopyShallow

LEMMA DeepCopyShape ==
  ASSUME NEW d, Shape(d), NEW cp \in [Elements -> Elements]
  PROVE  Shape(DeepCopy(d, cp))
<1>1. /\ d.size \in Nat /\ d.capacity \in 1..MaxCapacity
      /\ IsPowerOfTwo(d.capacity) /\ d.size <= d.capacity
  BY ShapeFields DEF Shape
<1>2. d.capacity \in Nat \ {0}
  BY <1>1, DequeConstants
<1>3. CopyDeepBuffer(d, cp) \in [0..(d.capacity - 1) -> Values]
  BY <1>2 DEF CopyDeepBuffer, Values
<1> QED
  BY <1>1, <1>2, <1>3, FieldsShape, SMTT(30) DEF DeepCopy

LEMMA CopyDeepStep ==
  ASSUME DequeInv, NEW cp \in [Elements -> Elements], CopyDeep(cp)
  PROVE  DequeInv'
<1>1. ASSUME Adopt(DeepCopy(deque, cp))
      PROVE  DequeInv'
  <2>1. iter' \in Iters
    BY <1>1 DEF Adopt, NewIter, Iters
  <2>2. Shape(DeepCopy(deque, cp))
    BY DeepCopyShape DEF DequeInv
  <2> QED
    BY <1>1, <2>1, <2>2, Results, CommitInv DEF Adopt
<1> QED
  BY <1>1, Results, RefuseStep DEF CopyDeep

LEMMA TrimCapacityStep ==
  ASSUME DequeInv, TrimCapacity
  PROVE  DequeInv'
<1> DEFINE k == RoundUp(deque.size)
<1>1. /\ deque.size \in Nat /\ MaxCapacity \in Nat /\ deque.size <= MaxCapacity
      /\ IsPowerOfTwo(MaxCapacity)
  BY ShapeFields, DequeConstants DEF DequeInv, Shape
<1>2. Shape(Realigned(deque, k))
  <2>1. k \in 1..MaxCapacity /\ IsPowerOfTwo(k) /\ deque.size <= k
    BY <1>1, RoundingGivesPower DEF RoundUp
  <2> HIDE DEF k
  <2> QED
    BY <2>1, RealignedShape DEF DequeInv
<1>3. iter' = iter
  BY DEF TrimCapacity, Answer, Refuse, Update, EndWalk
<1>4. ASSUME Answer(Done) PROVE DequeInv'
  BY <1>3, <1>4, Results, CommitInv DEF Answer, Update, DequeInv
<1>5. ASSUME Update(Realigned(deque, k), 0..(CopiedSlots(deque) - 1), Done)
      PROVE  DequeInv'
  BY <1>2, <1>3, <1>5, Results, CommitInv DEF Update, DequeInv
<1> QED
  BY <1>4, <1>5, Results, RefuseStep DEF TrimCapacity

-----------------------------------------------------------------------------
\* The iterator

LEMMA IterInitStep ==
  ASSUME DequeInv, IterInit
  PROVE  DequeInv' /\ (Tight => Tight')
BY Results DEF IterInit, NewIter, Return, DequeInv, Tight, Iters

LEMMA IterNextStep ==
  ASSUME DequeInv, IterNext
  PROVE  DequeInv' /\ (Tight => Tight')
<1>0. iter.index \in Nat /\ iter \in Iters
  BY DEF DequeInv, Iters
<1>1. IsResult(Got(Element(iter.index)))
  BY <1>0, ElementIs, Results DEF DequeInv, Element
<1>2. ret' = Refused(CC_ITER_END) \/ ret' = Got(Element(iter.index))
  BY DEF IterNext, Return
<1>3. IsResult(ret')
  BY <1>1, <1>2, Results
<1>4. iter' \in Iters
  <2>1. \/ iter' = iter
        \/ iter' = [index |-> iter.index + 1, last_removed |-> FALSE]
    BY DEF IterNext
  <2>2. iter.index + 1 \in Nat
    BY <1>0
  <2>3. [index |-> iter.index + 1, last_removed |-> FALSE] \in Iters
    BY <2>2 DEF Iters
  <2> QED
    BY <1>0, <2>1, <2>3
<1>5. UNCHANGED <<deque, fault>>
  BY DEF IterNext
<1> QED
  BY <1>3, <1>4, <1>5 DEF DequeInv, Tight, IsResult

LEMMA IterReplaceStep ==
  ASSUME DequeInv, NEW e \in Elements, IterReplace(e)
  PROVE  DequeInv' /\ (Tight => Tight')
<1>1. iter.index \in Int /\ iter' \in Iters
  BY DEF DequeInv, Iters, IterReplace
<1> QED
  BY <1>1, ReplaceMiddleStep DEF IterReplace

LEMMA IterateStep ==
  ASSUME DequeInv, Iterate
  PROVE  DequeInv' /\ (Tight => Tight')
<1>1. iter.index \in Nat /\ iter \in Iters
  BY DEF DequeInv, Iters
<1>2. ASSUME IterInit PROVE DequeInv' /\ (Tight => Tight')
  BY <1>2, IterInitStep
<1>3. ASSUME IterNext PROVE DequeInv' /\ (Tight => Tight')
  BY <1>3, IterNextStep
<1>4. ASSUME IterRemove PROVE DequeInv' /\ (Tight => Tight')
  <2>1. CASE UNCHANGED iter
    BY <1>1, <1>4, <2>1, Results, RejectStep, RemoveMiddleStep
       DEF IterRemove
  <2>2. ASSUME InRange(iter.index - 1), RemoveMiddle(iter.index - 1),
               iter' = [index |-> iter.index - 1, last_removed |-> TRUE]
        PROVE  DequeInv' /\ (Tight => Tight')
    <3>1. iter.index - 1 \in Nat
      BY <1>1, <2>2 DEF InRange
    <3>2. iter' \in Iters
      BY <2>2, <3>1 DEF Iters
    <3> QED
      BY <2>2, <3>1, <3>2, RemoveMiddleStep
  <2> QED
    BY <1>4, <2>1, <2>2 DEF IterRemove
<1>5. ASSUME NEW e \in Elements, IterAdd(e)
      PROVE  DequeInv' /\ (Tight => Tight')
  <2>1. iter' \in Iters
    BY <1>1, <1>5 DEF IterAdd, Iters
  <2> QED
    BY <1>1, <1>5, <2>1, InsertMiddleStep DEF IterAdd
<1>6. ASSUME NEW e \in Elements, IterReplace(e)
      PROVE  DequeInv' /\ (Tight => Tight')
  BY <1>6, IterReplaceStep
<1> QED
  BY <1>2, <1>3, <1>4, <1>5, <1>6 DEF Iterate

-----------------------------------------------------------------------------
\* The theorems about the fields and the buffer, for every client.

LEMMA InitEstablishes ==
  ASSUME IsPowerOfTwo(InitCapacity), Init
  PROVE  DequeInv /\ Tight
<1>1. /\ InitCapacity \in Nat /\ MaxCapacity \in Nat \ {0}
      /\ InitCapacity <= MaxCapacity /\ IsPowerOfTwo(MaxCapacity)
  BY DequeConstants
<1>2. RoundUp(InitCapacity) = InitCapacity /\ InitCapacity \in 1..MaxCapacity
  BY <1>1, RoundingGivesPower DEF RoundUp
<1>3. Buffer(InitCapacity) \in [0..(InitCapacity - 1) -> Values]
  BY DEF Buffer, Values
<1>4. Shape(deque)
  <2>1. deque = [size |-> 0, capacity |-> InitCapacity, first |-> 0,
                 last |-> 0, buffer |-> Buffer(InitCapacity)]
    BY <1>2 DEF Init
  <2> QED
    BY <1>1, <1>2, <1>3, <2>1, FieldsShape
<1> QED
  BY <1>2, <1>4, Results DEF Init, DequeInv, Tight, Iters

LEMMA EndsStep ==
  ASSUME DequeInv, Ends
  PROVE  DequeInv' /\ (Tight => Tight')
BY AddFirstStep, AddLastStep, RemoveFirstStep, RemoveLastStep, GetFirstStep,
   GetLastStep, RemoveAllStep DEF Ends

LEMMA InvPreserved ==
  ASSUME DequeInv, [Next]_vars
  PROVE  DequeInv'
<1>1. CASE Ends
  BY <1>1, EndsStep
<1>2. CASE Middle
  BY <1>2, MiddleStep
<1>3. CASE AllOfIt
  BY <1>3, ReverseStep, FilterMutStep, FilterStep, CopyShallowStep, CopyDeepStep,
     TrimCapacityStep
  DEF AllOfIt
<1>4. CASE Iterate
  BY <1>4, IterateStep
<1>5. CASE UNCHANGED vars
  BY <1>5 DEF vars, DequeInv
<1> QED
  BY <1>1, <1>2, <1>3, <1>4, <1>5 DEF Next

LEMMA InvImplies ==
  ASSUME DequeInv
  PROVE  TypeOK /\ EndsAgree
<1>1. /\ deque.size \in Nat /\ deque.capacity \in Nat \ {0}
      /\ deque.first \in Nat /\ deque.last \in Nat
      /\ deque.size <= deque.capacity /\ deque.first < deque.capacity
      /\ deque.last <= deque.capacity
      /\ deque.buffer \in [DOMAIN deque.buffer -> Values]
  BY ShapeFields DEF DequeInv
<1>2. /\ deque.capacity \in 1..MaxCapacity /\ IsPowerOfTwo(deque.capacity)
      /\ Mask(deque, deque.last) = Slot(deque, deque.size)
  BY DEF DequeInv, Shape
<1>3. TypeOK
  BY <1>1, <1>2 DEF TypeOK, DequeInv, Iters, IsResult, Values
<1> QED
  BY <1>2, <1>3 DEF EndsAgree

\* For every set of elements and every capacity, whatever a client calls: the
\* fields of the deque stay in their ranges and the buffer holds nothing but
\* elements and unused slots.
THEOREM DequeTypeCorrect ==
  ASSUME IsPowerOfTwo(InitCapacity)
  PROVE  Spec => []TypeOK
<1>1. Init => DequeInv
  BY InitEstablishes
<1>2. DequeInv /\ [Next]_vars => DequeInv'
  BY InvPreserved
<1>3. DequeInv => TypeOK
  BY InvImplies
<1> QED
  BY <1>1, <1>2, <1>3, PTL DEF Spec

\* first, last and size never contradict each other, and the capacity by which
\* they are masked stays a power of two: across wraps, expansions, filters, trims
\* and copies, also those that leave last outside the buffer.
THEOREM DequeEndsAgree ==
  ASSUME IsPowerOfTwo(InitCapacity)
  PROVE  Spec => []EndsAgree
<1>1. Init => DequeInv
  BY InitEstablishes
<1>2. DequeInv /\ [Next]_vars => DequeInv'
  BY InvPreserved
<1>3. DequeInv => EndsAgree
  BY InvImplies
<1> QED
  BY <1>1, <1>2, <1>3, PTL DEF Spec

LEMMA InsideKept ==
  ASSUME DequeInv, Tight, [Next]_vars,
         Calls \cap {"copy_shallow", "copy_deep", "trim_capacity"} = {}
  PROVE  DequeInv' /\ Tight'
<1>1. CASE Ends
  BY <1>1, EndsStep
<1>2. CASE Middle
  BY <1>2, MiddleStep
<1>3. CASE AllOfIt
  BY <1>3, ReverseStep, FilterMutStep, FilterStep DEF AllOfIt
<1>4. CASE Iterate
  BY <1>4, IterateStep
<1>5. CASE UNCHANGED vars
  BY <1>5 DEF vars, DequeInv, Tight
<1> QED
  BY <1>1, <1>2, <1>3, <1>4, <1>5 DEF Next

\* A client that neither copies nor trims never makes the deque read or write
\* outside its buffer, whatever it inserts, removes, filters or iterates over.
THEOREM DequeStaysInside ==
  ASSUME IsPowerOfTwo(InitCapacity),
         Calls \cap {"copy_shallow", "copy_deep", "trim_capacity"} = {}
  PROVE  Spec => []NoFault
<1>1. Init => DequeInv /\ Tight
  BY InitEstablishes
<1>2. DequeInv /\ Tight /\ [Next]_vars => (DequeInv /\ Tight)'
  BY InsideKept
<1>3. Tight => NoFault
  BY DEF Tight, NoFault
<1> QED
  BY <1>1, <1>2, <1>3, PTL DEF Spec

-----------------------------------------------------------------------------
\* The contents: what the deque holds at each place, and that it is an element.

At(d, i)   == d.buffer[Slot(d, i)]
Holding(d) == Shape(d) /\ \A i \in 0..(d.size - 1) : At(d, i) \in Elements

\* A remainder within two rounds.
Around(f, i, c) == IF f + i < c THEN f + i ELSE f + i - c

LEMMA AroundIs ==
  ASSUME NEW c \in Nat \ {0}, NEW f \in Nat, f < c, NEW i \in 0..c
  PROVE  (f + i) % c = Around(f, i, c) /\ Around(f, i, c) \in 0..(c - 1)
<1> DEFINE x == f + i
<1>1. x \in Int /\ 0 <= x /\ x < 2 * c /\ (x < c \/ c <= x)
  OBVIOUS
<1>2. (x < c => x % c = x) /\ (c <= x => x % c = x - c)
  <2> HIDE DEF x
  <2> QED
    BY <1>1, Wrap
<1> QED
  BY <1>1, <1>2 DEF Around

LEMMA ContentsFacts ==
  ASSUME NEW d, Holding(d)
  PROVE  /\ Contents(d) \in Seq(Elements) /\ Len(Contents(d)) = d.size
         /\ DOMAIN Contents(d) = 1..d.size /\ d.size \in Nat
         /\ \A i \in 1..d.size : Contents(d)[i] = At(d, i - 1)
<1>1. d.size \in Nat
  BY ShapeFields DEF Holding
<1>2. \A i \in 1..d.size : i - 1 \in 0..(d.size - 1)
  BY <1>1
<1>3. Contents(d) = [i \in 1..d.size |-> At(d, i - 1)]
  BY DEF Contents, At
<1>4. Contents(d) \in [1..d.size -> Elements]
  BY <1>2, <1>3 DEF Holding
<1>5. Contents(d) \in Seq(Elements) /\ Len(Contents(d)) = d.size
  BY <1>1, <1>4
<1> QED
  BY <1>1, <1>3, <1>5

\* A deque that holds the elements of s, place by place, holds s.
LEMMA ContentsAre ==
  ASSUME NEW d, Shape(d), NEW s \in Seq(Elements), Len(s) = d.size,
         \A i \in 1..d.size : At(d, i - 1) = s[i]
  PROVE  Holding(d) /\ Contents(d) = s
<1>1. d.size \in Nat
  BY ShapeFields
<1>2. Holding(d)
  <2>1. ASSUME NEW i \in 0..(d.size - 1) PROVE At(d, i) \in Elements
    <3>1. i + 1 \in 1..d.size /\ i + 1 - 1 = i
      BY <1>1
    <3>2. At(d, i) = s[i + 1] /\ s[i + 1] \in Elements
      BY <3>1
    <3> QED
      BY <3>2
  <2> QED
    BY <2>1 DEF Holding
<1>3. /\ Contents(d) \in Seq(Elements) /\ Len(Contents(d)) = d.size
      /\ \A i \in 1..d.size : Contents(d)[i] = s[i]
  BY <1>2, ContentsFacts
<1> QED
  BY <1>2, <1>3, SameSequence

\* A place of a deque written out by its fields.
LEMMA PlaceOf ==
  ASSUME NEW n \in Nat, NEW c \in Nat \ {0}, NEW f \in Nat, NEW l \in Nat, NEW b,
         f < c, NEW x \in Rings(n, c, f, l, b)
  PROVE  /\ x.size = n /\ x.capacity = c /\ x.first = f /\ x.last = l /\ x.buffer = b
         /\ \A i \in 0..c : /\ Slot(x, i) = Around(f, i, c)
                            /\ At(x, i) = b[Around(f, i, c)]
<1>1. x.size = n /\ x.capacity = c /\ x.first = f /\ x.last = l /\ x.buffer = b
  BY DEF Rings
<1>2. ASSUME NEW i \in 0..c PROVE Slot(x, i) = Around(f, i, c)
  BY <1>1, AroundIs DEF Slot, Mask
<1> QED
  BY <1>1, <1>2 DEF At

LEMMA RingOpen ==
  ASSUME NEW d, Shape(d)
  PROVE  \E n \in Nat, c \in Nat \ {0}, f \in Nat, l \in Nat, b \in Buffers :
           /\ d \in Rings(n, c, f, l, b) /\ d = Ring(n, c, f, l, b)
           /\ Fitting(n, c, f, l) /\ b \in [0..(c - 1) -> Values]
           /\ n <= c /\ f < c /\ l <= c
           /\ l = f + n \/ l = f + n - c \/ (l = c /\ f = 0 /\ n = 0)
<1>1. PICK n \in Nat, c \in Nat \ {0}, f \in Nat, l \in Nat, b \in Buffers :
           /\ d = Ring(n, c, f, l, b) /\ Fitting(n, c, f, l)
           /\ b \in [0..(c - 1) -> Values]
  BY ShapeOpen
<1>2. d \in Rings(n, c, f, l, b)
  BY <1>1 DEF Ring, Rings
<1>3. n <= c /\ f < c /\ l <= c
      /\ (l = f + n \/ l = f + n - c \/ (l = c /\ f = 0 /\ n = 0))
  BY <1>1 DEF Fitting
<1> QED
  BY <1>1, <1>2, <1>3

\* The elements of a deque after each operation, place by place.
LEMMA PushFrontPlaces ==
  ASSUME NEW d, Shape(d), d.size < d.capacity, NEW e \in Elements
  PROVE  LET z == PushFront(d, e)
         IN  /\ z.size = d.size + 1 /\ At(z, 0) = e
             /\ \A i \in 0..(d.size - 1) : At(z, i + 1) = At(d, i)
<1>1. PICK n \in Nat, c \in Nat \ {0}, f \in Nat, l \in Nat, b \in Buffers :
           /\ d \in Rings(n, c, f, l, b) /\ d = Ring(n, c, f, l, b)
           /\ Fitting(n, c, f, l) /\ b \in [0..(c - 1) -> Values]
           /\ n <= c /\ f < c /\ l <= c
           /\ l = f + n \/ l = f + n - c \/ (l = c /\ f = 0 /\ n = 0)
  BY RingOpen
<1>0. /\ n <= c /\ f < c /\ l <= c
      /\ l = f + n \/ l = f + n - c \/ (l = c /\ f = 0 /\ n = 0)
  BY <1>1
<1> DEFINE s == (f - 1) % c
           w == [b EXCEPT ![s] = e]
           z == PushFront(d, e)
<1>2. z \in Rings(n + 1, c, s, l, w)
  BY <1>1 DEF PushFront, Mask, Ring, Rings
<1>3. d.size = n /\ d.capacity = c /\ \A i \in 0..c : At(d, i) = b[Around(f, i, c)]
  BY <1>1, PlaceOf, SMTT(20)
<1>4. s \in Nat /\ s < c /\ (f = 0 => s = c - 1) /\ (f # 0 => s = f - 1)
  BY <1>1
<1>5. w[s] = e /\ \A j \in 0..(c - 1) : j # s => w[j] = b[j]
  <2>1. s \in 0..(c - 1)
    BY <1>4
  <2> HIDE DEF s
  <2> QED
    BY <1>1, <2>1
<1> HIDE DEF s, w, z
<1>6. z.size = n + 1 /\ \A i \in 0..c : At(z, i) = w[Around(s, i, c)]
  BY <1>2, <1>4, PlaceOf, SMTT(20)
<1>7. At(z, 0) = e
  BY <1>4, <1>5, <1>6 DEF Around
<1>8. ASSUME NEW i \in 0..(n - 1) PROVE At(z, i + 1) = At(d, i)
  <2>1. i \in 0..c /\ i + 1 \in 0..c
    BY <1>1
  <2>2. Around(s, i + 1, c) = Around(f, i, c) /\ Around(f, i, c) # s
        /\ Around(f, i, c) \in 0..(c - 1)
    <3>1. n < c
      BY <1>3
    <3>2. CASE f = 0
      BY <1>0, <1>4, <3>1, <3>2 DEF Around
    <3>3. CASE f # 0
      BY <1>0, <1>4, <3>1, <3>3 DEF Around
    <3> QED
      BY <3>2, <3>3
  <2> QED
    BY <1>3, <1>5, <1>6, <2>1, <2>2
<1> QED
  BY <1>3, <1>6, <1>7, <1>8 DEF z

LEMMA PushBackPlaces ==
  ASSUME NEW d, Shape(d), d.size < d.capacity, d.last < d.capacity, NEW e \in Elements
  PROVE  LET z == PushBack(d, e)
         IN  /\ z.size = d.size + 1 /\ At(z, d.size) = e
             /\ \A i \in 0..(d.size - 1) : At(z, i) = At(d, i)
<1>1. PICK n \in Nat, c \in Nat \ {0}, f \in Nat, l \in Nat, b \in Buffers :
           /\ d \in Rings(n, c, f, l, b) /\ d = Ring(n, c, f, l, b)
           /\ Fitting(n, c, f, l) /\ b \in [0..(c - 1) -> Values]
           /\ n <= c /\ f < c /\ l <= c
           /\ l = f + n \/ l = f + n - c \/ (l = c /\ f = 0 /\ n = 0)
  BY RingOpen
<1>0. /\ n <= c /\ f < c /\ l <= c
      /\ l = f + n \/ l = f + n - c \/ (l = c /\ f = 0 /\ n = 0)
  BY <1>1
<1> DEFINE m == (l + 1) % c
           w == [b EXCEPT ![l] = e]
           z == PushBack(d, e)
<1>2. z \in Rings(n + 1, c, f, m, w)
  BY <1>1 DEF PushBack, Mask, Ring, Rings
<1>3. /\ d.size = n /\ d.capacity = c /\ d.last = l
      /\ \A i \in 0..c : At(d, i) = b[Around(f, i, c)]
  <2>1. d.size = n /\ d.capacity = c /\ d.last = l
    BY <1>1, PlaceOf, SMTT(20)
  <2>2. \A i \in 0..c : At(d, i) = b[Around(f, i, c)]
    BY <1>1, PlaceOf, SMTT(20)
  <2> QED
    BY <2>1, <2>2
<1>4. m \in Nat
  OBVIOUS
<1>5. l \in 0..(c - 1) /\ w[l] = e /\ \A j \in 0..(c - 1) : j # l => w[j] = b[j]
  BY <1>1, <1>3
<1> HIDE DEF m, w, z
<1>6. z.size = n + 1 /\ \A i \in 0..c : At(z, i) = w[Around(f, i, c)]
  <2> DEFINE k == n + 1
  <2>1. k \in Nat /\ z \in Rings(k, c, f, m, w) /\ f < c
    BY <1>0, <1>2
  <2> HIDE DEF k
  <2>2. f \in Nat /\ c \in Nat \ {0}
    BY <1>1
  <2>3. z.size = k
    BY <1>4, <2>1, <2>2, PlaceOf, SMTT(20)
  <2>4. \A i \in 0..c : At(z, i) = w[Around(f, i, c)]
    BY <1>4, <2>1, <2>2, PlaceOf, SMTT(20)
  <2> QED
    BY <2>3, <2>4 DEF k
<1>7. At(z, n) = e
  <2>1. n \in 0..c /\ Around(f, n, c) = l
    BY <1>1, <1>3 DEF Around
  <2> QED
    BY <1>5, <1>6, <2>1
<1>8. ASSUME NEW i \in 0..(n - 1) PROVE At(z, i) = At(d, i)
  <2>1. i \in 0..c /\ Around(f, i, c) # l /\ Around(f, i, c) \in 0..(c - 1)
    BY <1>1, <1>3 DEF Around
  <2> QED
    BY <1>3, <1>5, <1>6, <2>1
<1> QED
  BY <1>3, <1>6, <1>7, <1>8 DEF z

LEMMA PopFrontPlaces ==
  ASSUME NEW d, Shape(d), d.size # 0
  PROVE  LET z == PopFront(d)
         IN  /\ z.size = d.size - 1
             /\ \A i \in 0..(d.size - 2) : At(z, i) = At(d, i + 1)
<1>1. PICK n \in Nat, c \in Nat \ {0}, f \in Nat, l \in Nat, b \in Buffers :
           /\ d \in Rings(n, c, f, l, b) /\ d = Ring(n, c, f, l, b)
           /\ Fitting(n, c, f, l) /\ b \in [0..(c - 1) -> Values]
           /\ n <= c /\ f < c /\ l <= c
           /\ l = f + n \/ l = f + n - c \/ (l = c /\ f = 0 /\ n = 0)
  BY RingOpen
<1>0. /\ n <= c /\ f < c /\ l <= c
      /\ l = f + n \/ l = f + n - c \/ (l = c /\ f = 0 /\ n = 0)
  BY <1>1
<1> DEFINE m == (f + 1) % c
           z == PopFront(d)
<1>2. z \in Rings(n - 1, c, m, l, b)
  BY <1>1 DEF PopFront, Mask, Ring, Rings
<1>3. /\ d.size = n /\ d.capacity = c /\ n - 1 \in Nat
      /\ \A i \in 0..c : At(d, i) = b[Around(f, i, c)]
  BY <1>1, PlaceOf, SMTT(20)
<1>4. m \in Nat /\ m < c /\ m = Around(f, 1, c)
  <2>1. 1 \in 0..c
    OBVIOUS
  <2> QED
    BY <1>0, <2>1, AroundIs
<1> HIDE DEF m, z
<1>5. z.size = n - 1 /\ \A i \in 0..c : At(z, i) = b[Around(m, i, c)]
  <2> DEFINE k == n - 1
  <2>1. k \in Nat /\ z \in Rings(k, c, m, l, b)
    BY <1>2, <1>3
  <2> HIDE DEF k
  <2>2. z.size = k /\ \A i \in 0..c : At(z, i) = b[Around(m, i, c)]
    BY <1>4, <2>1, PlaceOf, SMTT(20)
  <2> QED
    BY <2>2 DEF k
<1>6. ASSUME NEW i \in 0..(n - 2) PROVE At(z, i) = At(d, i + 1)
  <2>1. i \in 0..c /\ i + 1 \in 0..c /\ Around(m, i, c) = Around(f, i + 1, c)
    BY <1>1, <1>3, <1>4 DEF Around
  <2> QED
    BY <1>3, <1>5, <2>1
<1> QED
  BY <1>3, <1>5, <1>6 DEF z

LEMMA PopBackPlaces ==
  ASSUME NEW d, Shape(d), d.size # 0
  PROVE  LET z == PopBack(d)
         IN  /\ z.size = d.size - 1
             /\ \A i \in 0..(d.size - 2) : At(z, i) = At(d, i)
<1>1. PICK n \in Nat, c \in Nat \ {0}, f \in Nat, l \in Nat, b \in Buffers :
           /\ d \in Rings(n, c, f, l, b) /\ d = Ring(n, c, f, l, b)
           /\ Fitting(n, c, f, l) /\ b \in [0..(c - 1) -> Values]
           /\ n <= c /\ f < c /\ l <= c
           /\ l = f + n \/ l = f + n - c \/ (l = c /\ f = 0 /\ n = 0)
  BY RingOpen
<1>0. /\ n <= c /\ f < c /\ l <= c
      /\ l = f + n \/ l = f + n - c \/ (l = c /\ f = 0 /\ n = 0)
  BY <1>1
<1> DEFINE m == (l - 1) % c
           z == PopBack(d)
<1>2. z \in Rings(n - 1, c, f, m, b)
  BY <1>1 DEF PopBack, Mask, Ring, Rings
<1>3. /\ d.size = n /\ d.capacity = c /\ n - 1 \in Nat
      /\ \A i \in 0..c : At(d, i) = b[Around(f, i, c)]
  BY <1>1, PlaceOf, SMTT(20)
<1>4. m \in Nat
  OBVIOUS
<1> HIDE DEF m, z
<1>5. z.size = n - 1 /\ \A i \in 0..c : At(z, i) = b[Around(f, i, c)]
  <2> DEFINE k == n - 1
  <2>1. k \in Nat /\ z \in Rings(k, c, f, m, b) /\ f < c
    BY <1>1, <1>2, <1>3
  <2> HIDE DEF k
  <2>2. z.size = k /\ \A i \in 0..c : At(z, i) = b[Around(f, i, c)]
    BY <1>4, <2>1, PlaceOf, SMTT(20)
  <2> QED
    BY <2>2 DEF k
<1>6. ASSUME NEW i \in 0..(n - 2) PROVE At(z, i) = At(d, i)
  <2>1. i \in 0..c
    BY <1>1, <1>3
  <2> QED
    BY <1>3, <1>5, <2>1
<1> QED
  BY <1>3, <1>5, <1>6 DEF z

\* The half in front of element i moves one slot on, over it.
LEMMA CloseFrontPlaces ==
  ASSUME NEW d, Shape(d), NEW i \in Nat, 0 < i, i < d.size, NEW k \in 1..(d.size - 1)
  PROVE  CloseFront(d, i)[Around(d.first, k, d.capacity)]
           = IF k <= i THEN At(d, k - 1) ELSE At(d, k)
<1>1. PICK n \in Nat, c \in Nat \ {0}, f \in Nat, l \in Nat, b \in Buffers :
           /\ d \in Rings(n, c, f, l, b) /\ d = Ring(n, c, f, l, b)
           /\ Fitting(n, c, f, l) /\ b \in [0..(c - 1) -> Values]
           /\ n <= c /\ f < c /\ l <= c
           /\ l = f + n \/ l = f + n - c \/ (l = c /\ f = 0 /\ n = 0)
  BY RingOpen
<1>2. /\ d.size = n /\ d.capacity = c /\ d.first = f /\ d.buffer = b
      /\ \A j \in 0..c : Slot(d, j) = Around(f, j, c)
      /\ \A j \in 0..c : At(d, j) = b[Around(f, j, c)]
  <2>1. f < c /\ d \in Rings(n, c, f, l, b)
    BY <1>1
  <2> QED
    BY <2>1, PlaceOf, SMTT(20)
<1>3. /\ n <= c /\ f < c /\ i \in 0..c /\ i < n /\ 0 < i
      /\ k \in 1..(n - 1) /\ k \in 0..c /\ k - 1 \in 0..c
      /\ DOMAIN b = 0..(c - 1)
  BY <1>1, <1>2
<1> DEFINE p == Around(f, i, c)
           tailMoved == Move(b, f + 1, f, (c - 1) - f)
           bothMoved == Move(tailMoved, 1, 0, p)
           wrapped == [bothMoved EXCEPT ![0] = b[c - 1]]
           front == Move(b, f + 1, f, i)
           s == Around(f, k, c)
<1>4. CloseFront(d, i) = IF p < f THEN wrapped ELSE front
  <2>1. Slot(d, i) = p
    BY <1>2, <1>3
  <2> QED
    BY <1>2, <2>1 DEF CloseFront
<1>5. s \in 0..(c - 1) /\ p \in 0..(c - 1) /\ 0 \in 0..(c - 1)
  BY <1>3 DEF Around
<1>6. /\ DOMAIN tailMoved = 0..(c - 1)
      /\ \A x \in 0..(c - 1) :
           tailMoved[x] = IF f + 1 <= x /\ x < f + 1 + ((c - 1) - f)
                          THEN b[x - (f + 1) + f] ELSE b[x]
  BY <1>3, <1>5 DEF Move
<1>7. /\ DOMAIN bothMoved = 0..(c - 1)
      /\ \A x \in 0..(c - 1) :
           bothMoved[x] = IF 1 <= x /\ x < 1 + p
                          THEN tailMoved[x - 1 + 0] ELSE tailMoved[x]
  <2> HIDE DEF tailMoved, p
  <2> QED
    BY <1>5, <1>6 DEF Move
<1>8. front[s] = IF f + 1 <= s /\ s < f + 1 + i THEN b[s - (f + 1) + f] ELSE b[s]
  <2> HIDE DEF s
  <2> QED
    BY <1>3, <1>5 DEF Move
<1>9. wrapped[0] = b[c - 1] /\ (s # 0 => wrapped[s] = bothMoved[s])
  <2> HIDE DEF bothMoved, s
  <2> QED
    BY <1>5, <1>7
<1>10. At(d, k) = b[s] /\ At(d, k - 1) = b[Around(f, k - 1, c)]
  BY <1>2, <1>3
<1> SUFFICES CloseFront(d, i)[s] = IF k <= i THEN b[Around(f, k - 1, c)] ELSE b[s]
  BY <1>2, <1>10
<1> HIDE DEF tailMoved, bothMoved, wrapped, front
<1>11. CASE p < f
  <2>1. f + i >= c /\ p = f + i - c
    BY <1>3, <1>11 DEF Around
  <2>2. CASE f + k < c
    <3>1. s = f + k /\ k <= i /\ Around(f, k - 1, c) = s - 1 /\ s # 0
      BY <1>3, <2>1, <2>2 DEF Around
    <3>2. bothMoved[s] = tailMoved[s]
      <4>1. ~(s < 1 + p)
        BY <1>3, <1>11, <2>1, <3>1
      <4> HIDE DEF s
      <4> QED
        BY <1>5, <1>7, <4>1
    <3>3. tailMoved[s] = b[s - 1]
      <4>1. f + 1 <= s /\ s < f + 1 + ((c - 1) - f) /\ s - (f + 1) + f = s - 1
        BY <1>3, <2>2, <3>1
      <4> HIDE DEF s
      <4> QED
        BY <1>5, <1>6, <4>1
    <3> HIDE DEF s, p
    <3> QED
      BY <1>4, <1>9, <1>11, <3>1, <3>2, <3>3
  <2>3. CASE f + k = c
    <3>1. s = 0 /\ k <= i /\ Around(f, k - 1, c) = c - 1
      BY <1>3, <2>1, <2>3 DEF Around
    <3> HIDE DEF s, p
    <3> QED
      BY <1>4, <1>9, <1>11, <3>1
  <2>4. CASE f + k > c
    <3>1. s = f + k - c /\ s # 0 /\ Around(f, k - 1, c) = s - 1 /\ 1 <= s
          /\ (k <= i <=> s < 1 + p) /\ s - 1 + 0 = s - 1 /\ s - 1 \in 0..(c - 1)
          /\ s < f /\ ~(f + 1 <= s) /\ ~(f + 1 <= s - 1)
      BY <1>3, <2>1, <2>4 DEF Around
    <3>2. tailMoved[s] = b[s] /\ tailMoved[s - 1] = b[s - 1]
      <4> HIDE DEF s
      <4> QED
        BY <1>5, <1>6, <3>1
    <3>3. bothMoved[s] = IF k <= i THEN b[s - 1] ELSE b[s]
      <4> HIDE DEF s, p
      <4> QED
        BY <1>5, <1>7, <3>1, <3>2
    <3> HIDE DEF s, p
    <3> QED
      BY <1>4, <1>9, <1>11, <3>1, <3>3
  <2> QED
    BY <1>3, <2>2, <2>3, <2>4
<1>12. CASE ~(p < f)
  <2>1. f + i < c
    BY <1>3, <1>12 DEF Around
  <2>2. CASE f + k < c
    <3>1. s = f + k /\ Around(f, k - 1, c) = s - 1 /\ f + 1 <= s
          /\ (k <= i <=> s < f + 1 + i) /\ s - (f + 1) + f = s - 1
      BY <1>3, <2>2 DEF Around
    <3> HIDE DEF s, p
    <3> QED
      BY <1>4, <1>8, <1>12, <3>1
  <2>3. CASE f + k >= c
    <3>1. ~(k <= i) /\ ~(f + 1 <= s)
      BY <1>3, <2>1, <2>3 DEF Around
    <3> HIDE DEF s, p
    <3> QED
      BY <1>4, <1>8, <1>12, <3>1
  <2> QED
    BY <1>3, <2>2, <2>3
<1> QED
  BY <1>11, <1>12

\* What cc_deque_remove_at leaves in slot s when it closes the half behind slot p, of
\* a deque whose last is m.
Closed(b, c, p, m, s) ==
  IF ~(p > m) THEN (IF p <= s /\ s < m THEN b[s + 1] ELSE b[s])
  ELSE IF s = c - 1 THEN b[0]
  ELSE IF 1 <= s /\ s <= m THEN b[s - 1]
  ELSE IF p <= s THEN b[s + 1] ELSE b[s]

LEMMA CloseBackSlots ==
  ASSUME NEW d, NEW c \in Nat \ {0}, NEW b \in [0..(c - 1) -> Values], NEW i,
         d.capacity = c, d.buffer = b,
         NEW p \in 0..(c - 1), p = Slot(d, i),
         NEW m \in 0..(c - 1), m = Mask(d, d.last), NEW s \in 0..(c - 1)
  PROVE  CloseBack(d, i)[s] = Closed(b, c, p, m, s)
<1> DEFINE tailMoved == Move(b, p, p + 1, (c - 1) - p)
           bothMoved == IF p # 0 THEN Move(tailMoved, 1, 0, m) ELSE tailMoved
           wrapped == [bothMoved EXCEPT ![c - 1] = b[0]]
           back == Move(b, p, p + 1, m - p)
<1>1. CloseBack(d, i) = IF p > m THEN wrapped ELSE back
  BY DEF CloseBack
<1>2. /\ DOMAIN tailMoved = 0..(c - 1)
      /\ \A x \in 0..(c - 1) :
           tailMoved[x] = IF p <= x /\ x < p + ((c - 1) - p)
                          THEN b[x - p + (p + 1)] ELSE b[x]
  BY DEF Move
<1>3. p # 0 => /\ DOMAIN bothMoved = 0..(c - 1)
               /\ \A x \in 0..(c - 1) :
                    bothMoved[x] = IF 1 <= x /\ x < 1 + m
                                   THEN tailMoved[x - 1 + 0] ELSE tailMoved[x]
  <2> HIDE DEF tailMoved
  <2> QED
    BY <1>2 DEF Move
<1>4. back[s] = IF p <= s /\ s < p + (m - p) THEN b[s - p + (p + 1)] ELSE b[s]
  BY DEF Move
<1>5. p # 0 => /\ wrapped[c - 1] = b[0]
               /\ s # c - 1 => wrapped[s] = bothMoved[s]
  <2> HIDE DEF bothMoved
  <2> QED
    BY <1>3
<1> HIDE DEF tailMoved, bothMoved, wrapped, back
<1>6. CASE ~(p > m)
  <2>1. /\ p <= s /\ s < p + (m - p) <=> p <= s /\ s < m
        /\ s - p + (p + 1) = s + 1
    OBVIOUS
  <2> QED
    BY <1>1, <1>4, <1>6, <2>1 DEF Closed
<1>7. CASE p > m /\ s = c - 1
  BY <1>1, <1>5, <1>7 DEF Closed
<1>8. CASE p > m /\ s # c - 1 /\ 1 <= s /\ s <= m
  <2>1. s - 1 \in 0..(c - 1) /\ s - 1 + 0 = s - 1 /\ ~(p <= s - 1) /\ s < 1 + m /\ p # 0
    BY <1>8
  <2>2. bothMoved[s] = tailMoved[s - 1] /\ tailMoved[s - 1] = b[s - 1]
    BY <1>2, <1>3, <1>8, <2>1
  <2> QED
    BY <1>1, <1>5, <1>8, <2>1, <2>2 DEF Closed
<1>9. CASE p > m /\ s # c - 1 /\ ~(1 <= s /\ s <= m)
  <2>1. p # 0 /\ ~(1 <= s /\ s < 1 + m) /\ s < p + ((c - 1) - p) /\ s - p + (p + 1) = s + 1
    BY <1>9
  <2>2. bothMoved[s] = tailMoved[s]
    BY <1>3, <2>1
  <2>3. tailMoved[s] = IF p <= s THEN b[s + 1] ELSE b[s]
    BY <1>2, <2>1
  <2> QED
    BY <1>1, <1>5, <1>9, <2>1, <2>2, <2>3 DEF Closed
<1> QED
  BY <1>6, <1>7, <1>8, <1>9

\* The slots of a deque before and after the removal of element i, and where the
\* elements are.
Closing(d, i, n, c, f, b, p, m) ==
  /\ f \in 0..(c - 1) /\ b \in [0..(c - 1) -> Values]
  /\ p \in 0..(c - 1) /\ m \in 0..(c - 1)
  /\ d.size = n /\ d.capacity = c /\ d.first = f /\ n <= c
  /\ p = Around(f, i, c) /\ m = Around(f, n, c)
  /\ p = Slot(d, i) /\ m = Mask(d, d.last)
  /\ \A j \in 0..c : At(d, j) = b[Around(f, j, c)]
  /\ \A s \in 0..(c - 1) : CloseBack(d, i)[s] = Closed(b, c, p, m, s)

LEMMA ClosedRing ==
  ASSUME NEW d, Shape(d), NEW i \in Nat, 0 < i, i < d.size
  PROVE  \E n \in Nat, c \in Nat \ {0}, f \in Nat, b \in Buffers, p \in Nat, m \in Nat :
           Closing(d, i, n, c, f, b, p, m)
<1>1. PICK n \in Nat, c \in Nat \ {0}, f \in Nat, l \in Nat, b \in Buffers :
           /\ d \in Rings(n, c, f, l, b) /\ d = Ring(n, c, f, l, b)
           /\ Fitting(n, c, f, l) /\ b \in [0..(c - 1) -> Values]
           /\ n <= c /\ f < c /\ l <= c
           /\ l = f + n \/ l = f + n - c \/ (l = c /\ f = 0 /\ n = 0)
  BY RingOpen
<1>2. /\ d.size = n /\ d.capacity = c /\ d.first = f /\ d.last = l /\ d.buffer = b
      /\ \A j \in 0..c : Slot(d, j) = Around(f, j, c)
      /\ \A j \in 0..c : At(d, j) = b[Around(f, j, c)]
  <2>1. f < c /\ d \in Rings(n, c, f, l, b)
    BY <1>1
  <2> QED
    BY <2>1, PlaceOf, SMTT(20)
<1>3. /\ n <= c /\ f < c /\ i \in 0..c /\ i < n /\ 0 < i /\ n \in 0..c
      /\ f \in 0..(c - 1)
  BY <1>1, <1>2
<1> DEFINE p == Around(f, i, c)
           m == Around(f, n, c)
<1>4. Slot(d, i) = p /\ Mask(d, d.last) = m
  <2>1. Slot(d, i) = p /\ Slot(d, n) = m
    BY <1>2, <1>3
  <2>2. Mask(d, d.last) = m
    BY <1>2, <2>1 DEF Shape
  <2> QED
    BY <2>1, <2>2
<1>5. p \in 0..(c - 1) /\ m \in 0..(c - 1)
  BY <1>3 DEF Around
<1> HIDE DEF p, m
<1>6. ASSUME NEW s \in 0..(c - 1) PROVE CloseBack(d, i)[s] = Closed(b, c, p, m, s)
  <2>1. d.capacity = c /\ d.buffer = b /\ p = Slot(d, i) /\ m = Mask(d, d.last)
    BY <1>2, <1>4
  <2>2. b \in [0..(c - 1) -> Values] /\ c \in Nat \ {0} /\ s \in 0..(c - 1)
    BY <1>1
  <2> QED
    BY ONLY <1>5, <2>1, <2>2, CloseBackSlots
<1>7. p = Around(f, i, c) /\ m = Around(f, n, c) /\ p \in Nat /\ m \in Nat
  BY <1>5 DEF p, m
<1>8. Closing(d, i, n, c, f, b, p, m)
  BY <1>1, <1>2, <1>3, <1>4, <1>5, <1>6, <1>7, Zenon DEF Closing
<1> QED
  BY <1>7, <1>8

\* A removal that CloseBack does not spoil.
Carries(d, i) ==
  Slot(d, i) > Mask(d, d.last)
    => Mask(d, d.last) <= (IF d.size = d.capacity THEN 0 ELSE 1)

\* The half behind element i moves one slot back, over it, when no more than one
\* element of it is at the start of the buffer.
LEMMA CloseBackPlaces ==
  ASSUME NEW d, Shape(d), NEW i \in Nat, 0 < i, i < d.size, NEW k \in 0..(d.size - 2),
         Carries(d, i)
  PROVE  CloseBack(d, i)[Around(d.first, k, d.capacity)]
           = IF k < i THEN At(d, k) ELSE At(d, k + 1)
<1>1. PICK n \in Nat, c \in Nat \ {0}, f \in Nat, b \in Buffers, p \in Nat, m \in Nat :
           Closing(d, i, n, c, f, b, p, m)
  BY ClosedRing
<1> USE DEF Closing
<1>2. /\ n <= c /\ i \in 0..c /\ i < n /\ 0 < i
      /\ k \in 0..(n - 2) /\ k \in 0..c /\ k + 1 \in 0..c
  BY <1>1
<1> DEFINE s == Around(f, k, c)
<1>3. s \in 0..(c - 1)
  BY <1>1, <1>2 DEF Around
<1>4. /\ At(d, k) = b[s] /\ At(d, k + 1) = b[Around(f, k + 1, c)]
      /\ CloseBack(d, i)[s] = Closed(b, c, p, m, s)
  BY <1>1, <1>2, <1>3
<1>5. p > m => m <= 1 /\ (n = c => m = 0)
  BY <1>1 DEF Carries
<1> SUFFICES Closed(b, c, p, m, s) = IF k < i THEN b[s] ELSE b[Around(f, k + 1, c)]
  BY <1>1, <1>4
<1>6. CASE p > m
  <2>1. f + i < c /\ p = f + i /\ c <= f + n /\ m = f + n - c /\ m <= f
    BY <1>1, <1>2, <1>6 DEF Around
  <2>2. s = f + k /\ s <= c - 1 /\ ~(1 <= s /\ s <= m)
    BY <1>2, <1>5, <1>6, <2>1 DEF Around
  <2>3. CASE k < i
    <3>1. s # c - 1 /\ ~(p <= s)
      BY <1>2, <2>1, <2>2, <2>3
    <3> HIDE DEF s
    <3> QED
      BY <1>6, <2>2, <2>3, <3>1 DEF Closed
  <2>4. CASE i <= k /\ s < c - 1
    <3>1. p <= s /\ Around(f, k + 1, c) = s + 1 /\ ~(k < i)
      BY <1>2, <2>1, <2>2, <2>4 DEF Around
    <3> HIDE DEF s
    <3> QED
      BY <1>3, <1>6, <2>2, <2>4, <3>1 DEF Closed
  <2>5. CASE i <= k /\ s = c - 1
    <3>1. Around(f, k + 1, c) = 0 /\ ~(k < i)
      BY <1>2, <2>1, <2>2, <2>5 DEF Around
    <3> HIDE DEF s
    <3> QED
      BY <1>6, <2>5, <3>1 DEF Closed
  <2> QED
    BY <1>2, <1>3, <2>2, <2>3, <2>4, <2>5
<1>7. CASE ~(p > m)
  <2>1. \/ f + n < c /\ p = f + i /\ m = f + n
        \/ c <= f + i /\ p = f + i - c /\ m = f + n - c
    BY <1>1, <1>2, <1>7 DEF Around
  <2>2. CASE k < i
    <3>1. ~(p <= s /\ s < m)
      BY <1>2, <2>1, <2>2 DEF Around
    <3> HIDE DEF s
    <3> QED
      BY <1>7, <2>2, <3>1 DEF Closed
  <2>3. CASE i <= k
    <3>1. p <= s /\ s < m /\ ~(k < i) /\ Around(f, k + 1, c) = s + 1
      BY <1>2, <2>1, <2>3 DEF Around
    <3> HIDE DEF s
    <3> QED
      BY <1>7, <3>1 DEF Closed
  <2> QED
    BY <1>2, <2>2, <2>3
<1> QED
  BY <1>6, <1>7

\* Whatever it does to their order, it leaves elements in all the places that remain.
LEMMA CloseBackHolds ==
  ASSUME NEW d, Holding(d), NEW i \in Nat, 0 < i, i < d.size, NEW k \in 0..(d.size - 2)
  PROVE  CloseBack(d, i)[Around(d.first, k, d.capacity)] \in Elements
<1>1. PICK n \in Nat, c \in Nat \ {0}, f \in Nat, b \in Buffers, p \in Nat, m \in Nat :
           Closing(d, i, n, c, f, b, p, m)
  BY ClosedRing DEF Holding
<1> USE DEF Closing
<1>2. n <= c /\ i < n /\ 0 < i /\ k \in 0..(n - 2)
  BY <1>1
<1>3. \A j \in 0..(n - 1) : b[Around(f, j, c)] \in Elements
  <2>1. \A j \in 0..(n - 1) : j \in 0..c /\ At(d, j) \in Elements
    BY <1>1 DEF Holding
  <2> QED
    BY <1>1, <2>1
<1> DEFINE s == Around(f, k, c)
<1>4. s \in 0..(c - 1)
  BY <1>1, <1>2 DEF Around
<1> SUFFICES Closed(b, c, p, m, s) \in Elements
  BY <1>1, <1>4
<1>5. CASE p > m
  <2>1. f + i < c /\ p = f + i /\ c <= f + n /\ m = f + n - c /\ m <= f /\ p # 0
    BY <1>1, <1>2, <1>5 DEF Around
  <2>2. \A x \in 0..(c - 1) : f <= x \/ x < m => b[x] \in Elements
    <3>1. ASSUME NEW x \in 0..(c - 1), f <= x PROVE b[x] \in Elements
      <4>1. x - f \in 0..(n - 1) /\ Around(f, x - f, c) = x
        BY <1>2, <2>1, <3>1 DEF Around
      <4> QED
        BY <1>3, <4>1
    <3>2. ASSUME NEW x \in 0..(c - 1), x < m PROVE b[x] \in Elements
      <4>1. x + c - f \in 0..(n - 1) /\ Around(f, x + c - f, c) = x
        BY <1>2, <2>1, <3>2 DEF Around
      <4> QED
        BY <1>3, <4>1
    <3> QED
      BY <3>1, <3>2
  <2>3. s >= f \/ s < m - 1
    BY <1>2, <2>1 DEF Around
  <2>4. s = c - 1 => m > 0
    BY <1>2, <2>1 DEF Around
  <2> HIDE DEF s
  <2>5. CASE s = c - 1
    <3>1. b[0] \in Elements
      BY <2>2, <2>4, <2>5
    <3> QED
      BY <1>5, <2>5, <3>1 DEF Closed
  <2>6. CASE s # c - 1 /\ 1 <= s /\ s <= m
    <3>1. s - 1 \in 0..(c - 1) /\ s - 1 < m
      BY <1>4, <2>6
    <3> QED
      BY <1>5, <2>2, <2>6, <3>1 DEF Closed
  <2>7. CASE s # c - 1 /\ ~(1 <= s /\ s <= m) /\ p <= s
    <3>1. s + 1 \in 0..(c - 1) /\ f <= s + 1
      BY <1>4, <2>1, <2>7
    <3> QED
      BY <1>5, <2>2, <2>7, <3>1 DEF Closed
  <2>8. CASE s # c - 1 /\ ~(1 <= s /\ s <= m) /\ ~(p <= s)
    <3>1. f <= s \/ s < m
      BY <1>1, <1>4, <2>3
    <3> QED
      BY <1>4, <1>5, <2>2, <2>8, <3>1 DEF Closed
  <2> QED
    BY <2>5, <2>6, <2>7, <2>8
<1>6. CASE ~(p > m)
  <2>1. \/ f + n < c /\ p = f + i /\ m = f + n
        \/ c <= f + i /\ p = f + i - c /\ m = f + n - c
    BY <1>1, <1>2, <1>6 DEF Around
  <2>2. k \in 0..(n - 1) /\ k + 1 \in 0..(n - 1)
    BY <1>2
  <2>3. CASE p <= s /\ s < m
    <3>1. Around(f, k + 1, c) = s + 1
      BY <1>2, <2>1, <2>3 DEF Around
    <3>2. b[Around(f, k + 1, c)] \in Elements
      BY <1>3, <2>2
    <3> HIDE DEF s
    <3> QED
      BY <1>6, <2>3, <3>1, <3>2 DEF Closed
  <2>4. CASE ~(p <= s /\ s < m)
    <3>1. b[s] \in Elements
      BY <1>3, <2>2
    <3> HIDE DEF s
    <3> QED
      BY <1>6, <2>4, <3>1 DEF Closed
  <2> QED
    BY <2>3, <2>4
<1> QED
  BY <1>5, <1>6

LEMMA DeleteAtPlaces ==
  ASSUME NEW d, Shape(d), NEW i \in Nat, i < d.size, ~TearsAt(d, i)
  PROVE  LET z == DeleteAt(d, i)
         IN  /\ z.size = d.size - 1
             /\ \A k \in 0..(d.size - 2) :
                  At(z, k) = IF k < i THEN At(d, k) ELSE At(d, k + 1)
<1>1. PICK n \in Nat, c \in Nat \ {0}, f \in Nat, l \in Nat, b \in Buffers :
           /\ d \in Rings(n, c, f, l, b) /\ d = Ring(n, c, f, l, b)
           /\ Fitting(n, c, f, l) /\ b \in [0..(c - 1) -> Values]
           /\ n <= c /\ f < c /\ l <= c
           /\ l = f + n \/ l = f + n - c \/ (l = c /\ f = 0 /\ n = 0)
  BY RingOpen
<1>2. d.size = n /\ d.capacity = c /\ d.first = f /\ d.last = l
  <2>1. f < c /\ d \in Rings(n, c, f, l, b)
    BY <1>1
  <2> QED
    BY <2>1, PlaceOf, SMTT(20)
<1>3. n <= c /\ f < c /\ i < n /\ n # 0 /\ n - 1 \in Nat
  BY <1>1, <1>2
<1>4. CASE i = 0
  <2>1. DeleteAt(d, i) = PopFront(d)
    BY <1>4 DEF DeleteAt
  <2>2. \A k \in 0..(n - 2) : ~(k < i)
    BY <1>4
  <2> QED
    BY <1>2, <1>3, <2>1, <2>2, PopFrontPlaces
<1>5. CASE i # 0 /\ i = c - 1
  <2>1. DeleteAt(d, i) = PopBack(d)
    BY <1>2, <1>5 DEF DeleteAt
  <2>2. \A k \in 0..(n - 2) : k < i
    BY <1>3, <1>5
  <2> QED
    BY <1>2, <1>3, <2>1, <2>2, PopBackPlaces
<1>6. CASE i # 0 /\ i # c - 1 /\ i <= (n \div 2) - 1
  <2> DEFINE w == CloseFront(d, i)
             m == (f + 1) % c
             z == DeleteAt(d, i)
  <2>1. w \in [0..(c - 1) -> Values]
    BY <1>2, <1>3, <1>6, CloseFrontTyped
  <2>2. z = [d EXCEPT !.buffer = w, !.first = Mask(d, @ + 1), !.size = @ - 1]
    BY <1>2, <1>6 DEF DeleteAt
  <2>3. z \in Rings(n - 1, c, m, l, w)
    <3> HIDE DEF w, z
    <3> QED
      BY <1>1, <2>1, <2>2 DEF Ring, Rings, Mask
  <2>4. m \in Nat /\ m < c /\ m = Around(f, 1, c)
    <3>1. 1 \in 0..c
      OBVIOUS
    <3> QED
      BY <1>3, <3>1, AroundIs
  <2>5. \A k \in 1..(n - 1) :
          w[Around(f, k, c)] = IF k <= i THEN At(d, k - 1) ELSE At(d, k)
    <3>1. 0 < i
      BY <1>6
    <3> QED
      BY <1>2, <1>3, <3>1, CloseFrontPlaces
  <2> HIDE DEF w, m, z
  <2>6. z.size = n - 1 /\ \A k \in 0..c : At(z, k) = w[Around(m, k, c)]
    BY <1>3, <2>3, <2>4, PlaceOf, SMTT(20)
  <2>7. ASSUME NEW k \in 0..(n - 2)
        PROVE  At(z, k) = IF k < i THEN At(d, k) ELSE At(d, k + 1)
    <3>1. k \in 0..c /\ k + 1 \in 1..(n - 1) /\ Around(m, k, c) = Around(f, k + 1, c)
          /\ k + 1 - 1 = k /\ (k + 1 <= i <=> k < i)
      BY <1>3, <2>4 DEF Around
    <3>2. At(z, k) = w[Around(f, k + 1, c)]
      BY <2>6, <3>1
    <3>3. w[Around(f, k + 1, c)] = IF k + 1 <= i THEN At(d, k + 1 - 1) ELSE At(d, k + 1)
      BY <2>5, <3>1
    <3> QED
      BY <3>1, <3>2, <3>3
  <2> QED
    BY <1>2, <2>6, <2>7 DEF z
<1>7. CASE i # 0 /\ i # c - 1 /\ ~(i <= (n \div 2) - 1)
  <2> DEFINE w == CloseBack(d, i)
             m == (l - 1) % c
             z == DeleteAt(d, i)
  <2>1. w \in [0..(c - 1) -> Values]
    BY <1>2, <1>3, <1>7, CloseBackTyped
  <2>2. z = [d EXCEPT !.buffer = w, !.last = Mask(d, @ - 1), !.size = @ - 1]
    BY <1>2, <1>7 DEF DeleteAt
  <2>3. z \in Rings(n - 1, c, f, m, w)
    <3> HIDE DEF w, z
    <3> QED
      BY <1>1, <2>1, <2>2 DEF Ring, Rings, Mask
  <2>4. m \in Nat
    OBVIOUS
  <2>5. \A k \in 0..(n - 2) :
          w[Around(f, k, c)] = IF k < i THEN At(d, k) ELSE At(d, k + 1)
    <3>1. 0 < i
      BY <1>7
    <3>2. Carries(d, i)
      <4> DEFINE h == d.size \div 2
      <4>1. i # 0 /\ i # d.capacity - 1 /\ ~(i <= h - 1) /\ h \in Int
        BY <1>2, <1>7
      <4>2. i > h - 1
        <5> HIDE DEF h
        <5> QED
          BY <4>1
      <4>3. ~(Slot(d, i) > Mask(d, d.last))
              \/ ~(Mask(d, d.last) > (IF d.size = d.capacity THEN 0 ELSE 1))
        BY <4>1, <4>2, Zenon DEF TearsAt
      <4>4. Mask(d, d.last) \in Int
        BY <1>2 DEF Mask
      <4> QED
        BY <4>3, <4>4 DEF Carries
    <3> QED
      BY <1>2, <1>3, <3>1, <3>2, CloseBackPlaces
  <2> HIDE DEF w, m, z
  <2>6. z.size = n - 1 /\ \A k \in 0..c : At(z, k) = w[Around(f, k, c)]
    BY <1>3, <2>3, <2>4, PlaceOf, SMTT(20)
  <2>7. \A k \in 0..(n - 2) : k \in 0..c
    BY <1>3
  <2> QED
    BY <1>2, <2>5, <2>6, <2>7 DEF z
<1> QED
  BY <1>4, <1>5, <1>6, <1>7

\* What a removal leaves are elements also when it tears.
LEMMA TornHolds ==
  ASSUME NEW d, Holding(d), NEW i \in Nat, i < d.size, TearsAt(d, i)
  PROVE  LET z == DeleteAt(d, i)
         IN  /\ z.size = d.size - 1
             /\ \A k \in 0..(d.size - 2) : At(z, k) \in Elements
<1>1. PICK n \in Nat, c \in Nat \ {0}, f \in Nat, l \in Nat, b \in Buffers :
           /\ d \in Rings(n, c, f, l, b) /\ d = Ring(n, c, f, l, b)
           /\ Fitting(n, c, f, l) /\ b \in [0..(c - 1) -> Values]
           /\ n <= c /\ f < c /\ l <= c
           /\ l = f + n \/ l = f + n - c \/ (l = c /\ f = 0 /\ n = 0)
  BY RingOpen DEF Holding
<1>2. d.size = n /\ d.capacity = c /\ d.first = f /\ d.last = l
  <2>1. f < c /\ d \in Rings(n, c, f, l, b)
    BY <1>1
  <2> QED
    BY <2>1, PlaceOf, SMTT(20)
<1>3. n <= c /\ f < c /\ i < n /\ 0 < i /\ n - 1 \in Nat
  BY <1>1, <1>2 DEF TearsAt
<1> DEFINE w == CloseBack(d, i)
           m == (l - 1) % c
           z == DeleteAt(d, i)
<1>4. w \in [0..(c - 1) -> Values]
  BY <1>2, <1>3, CloseBackTyped DEF Holding
<1>5. z = [d EXCEPT !.buffer = w, !.last = Mask(d, @ - 1), !.size = @ - 1]
  <2>1. i # 0 /\ i # d.capacity - 1 /\ ~(i <= (d.size \div 2) - 1)
    BY <1>2 DEF TearsAt
  <2> QED
    BY <2>1 DEF DeleteAt
<1>6. z \in Rings(n - 1, c, f, m, w)
  <2> HIDE DEF w, z
  <2> QED
    BY <1>1, <1>4, <1>5 DEF Ring, Rings, Mask
<1>7. m \in Nat
  OBVIOUS
<1>8. \A k \in 0..(n - 2) : w[Around(f, k, c)] \in Elements
  BY <1>2, <1>3, CloseBackHolds
<1> HIDE DEF w, m, z
<1>9. z.size = n - 1 /\ \A k \in 0..c : At(z, k) = w[Around(f, k, c)]
  BY <1>3, <1>6, <1>7, PlaceOf, SMTT(20)
<1>10. \A k \in 0..(n - 2) : k \in 0..c
  BY <1>3
<1> QED
  BY <1>2, <1>8, <1>9, <1>10 DEF z

LEMMA ReversedPlaces ==
  ASSUME NEW d, Shape(d)
  PROVE  LET z == Reversed(d)
         IN  /\ z.size = d.size
             /\ \A i \in 0..(d.size - 1) : At(z, i) = At(d, d.size - 1 - i)
<1>1. PICK n \in Nat, c \in Nat \ {0}, f \in Nat, l \in Nat, b \in Buffers :
           /\ d \in Rings(n, c, f, l, b) /\ d = Ring(n, c, f, l, b)
           /\ Fitting(n, c, f, l) /\ b \in [0..(c - 1) -> Values]
           /\ n <= c /\ f < c /\ l <= c
           /\ l = f + n \/ l = f + n - c \/ (l = c /\ f = 0 /\ n = 0)
  BY RingOpen
<1>2. /\ d.size = n /\ d.capacity = c /\ d.first = f /\ d.last = l /\ d.buffer = b
      /\ \A j \in 0..c : Slot(d, j) = Around(f, j, c)
      /\ \A j \in 0..c : At(d, j) = b[Around(f, j, c)]
  <2>1. f < c /\ d \in Rings(n, c, f, l, b)
    BY <1>1
  <2> QED
    BY <2>1, PlaceOf, SMTT(20)
<1>3. n <= c /\ f < c
  BY <1>1
<1> DEFINE w == [s \in 0..(c - 1) |->
                   IF Mask(d, s - f) < n THEN b[Slot(d, n - 1 - Mask(d, s - f))] ELSE b[s]]
           z == Reversed(d)
<1>4. z = [d EXCEPT !.buffer = w]
  BY <1>1, <1>2 DEF Reversed
<1>5. z \in Rings(n, c, f, l, w)
  <2> HIDE DEF w, z
  <2> QED
    BY <1>1, <1>4 DEF Ring, Rings
<1> HIDE DEF z
<1>6. z.size = n /\ \A i \in 0..c : At(z, i) = w[Around(f, i, c)]
  <2> HIDE DEF w
  <2> QED
    BY <1>3, <1>5, PlaceOf, SMTT(20)
<1>7. ASSUME NEW i \in 0..(n - 1) PROVE At(z, i) = At(d, n - 1 - i)
  <2> DEFINE s == Around(f, i, c)
  <2>1. i \in 0..c /\ n - 1 - i \in 0..c /\ s \in 0..(c - 1)
    BY <1>3 DEF Around
  <2>2. Mask(d, s - f) = i
    <3> DEFINE x == s - f
    <3>1. x \in Int /\ 0 - c <= x /\ x < c /\ (x < 0 => x + c = i) /\ (0 <= x => x = i)
      BY <1>3 DEF Around
    <3> HIDE DEF x
    <3>2. x % c = i
      BY <3>1, Wrap
    <3> QED
      BY <1>2, <3>2 DEF Mask, x
  <2> HIDE DEF s
  <2>3. w[s] = b[Slot(d, n - 1 - i)]
    BY <2>1, <2>2
  <2>4. At(z, i) = w[s]
    BY <1>6, <2>1 DEF s
  <2>5. At(d, n - 1 - i) = b[Slot(d, n - 1 - i)]
    BY <1>2, <2>1
  <2> HIDE DEF w
  <2> QED
    BY <2>3, <2>4, <2>5
<1> QED
  BY <1>2, <1>6, <1>7 DEF z

Replaced(d, i, e) == [d EXCEPT !.buffer[Slot(d, i)] = e]

LEMMA ReplacedPlaces ==
  ASSUME NEW d, Shape(d), NEW i \in Nat, i < d.size, NEW e
  PROVE  LET z == Replaced(d, i, e)
         IN  /\ z.size = d.size
             /\ \A k \in 0..(d.size - 1) : At(z, k) = IF k = i THEN e ELSE At(d, k)
<1>1. PICK n \in Nat, c \in Nat \ {0}, f \in Nat, l \in Nat, b \in Buffers :
           /\ d \in Rings(n, c, f, l, b) /\ d = Ring(n, c, f, l, b)
           /\ Fitting(n, c, f, l) /\ b \in [0..(c - 1) -> Values]
           /\ n <= c /\ f < c /\ l <= c
           /\ l = f + n \/ l = f + n - c \/ (l = c /\ f = 0 /\ n = 0)
  BY RingOpen
<1>2. /\ d.size = n /\ d.capacity = c /\ d.first = f /\ d.last = l /\ d.buffer = b
      /\ \A j \in 0..c : Slot(d, j) = Around(f, j, c)
      /\ \A j \in 0..c : At(d, j) = b[Around(f, j, c)]
  <2>1. f < c /\ d \in Rings(n, c, f, l, b)
    BY <1>1
  <2> QED
    BY <2>1, PlaceOf, SMTT(20)
<1>3. n <= c /\ f < c /\ i < n /\ i \in 0..c
  BY <1>1, <1>2
<1> DEFINE p == Around(f, i, c)
           w == [b EXCEPT ![p] = e]
           z == Replaced(d, i, e)
<1>4. z \in Rings(n, c, f, l, w)
  <2>1. z = [d EXCEPT !.buffer = w]
    BY <1>1, <1>2, <1>3 DEF Replaced, Ring
  <2> HIDE DEF w, z
  <2> QED
    BY <1>1, <2>1 DEF Ring, Rings
<1>5. p \in 0..(c - 1) /\ w[p] = e /\ \A s \in 0..(c - 1) : s # p => w[s] = b[s]
  <2>1. p \in 0..(c - 1)
    BY <1>3 DEF Around
  <2> HIDE DEF p
  <2> QED
    BY <1>1, <2>1
<1> HIDE DEF w, z
<1>6. z.size = n /\ \A k \in 0..c : At(z, k) = w[Around(f, k, c)]
  BY <1>3, <1>4, PlaceOf, SMTT(20)
<1>7. ASSUME NEW k \in 0..(n - 1)
      PROVE  At(z, k) = IF k = i THEN e ELSE At(d, k)
  <2>1. k \in 0..c /\ Around(f, k, c) \in 0..(c - 1) /\ (k # i => Around(f, k, c) # p)
    BY <1>3 DEF Around
  <2> HIDE DEF p
  <2>2. CASE k = i
    BY <1>5, <1>6, <2>1, <2>2 DEF p
  <2>3. CASE k # i
    BY <1>2, <1>5, <1>6, <2>1, <2>3
  <2> QED
    BY <2>2, <2>3
<1> QED
  BY <1>2, <1>6, <1>7 DEF z

\* The copy into another buffer starts at its slot 0, the wrapped part behind the
\* other.
LEMMA RealignedPlaces ==
  ASSUME NEW d, Shape(d), NEW k \in Nat \ {0}, d.size <= k
  PROVE  LET z == Realigned(d, k)
         IN  /\ z.size = d.size
             /\ \A i \in 0..(d.size - 1) : At(z, i) = At(d, i)
<1>1. PICK n \in Nat, c \in Nat \ {0}, f \in Nat, l \in Nat, b \in Buffers :
           /\ d \in Rings(n, c, f, l, b) /\ d = Ring(n, c, f, l, b)
           /\ Fitting(n, c, f, l) /\ b \in [0..(c - 1) -> Values]
           /\ n <= c /\ f < c /\ l <= c
           /\ l = f + n \/ l = f + n - c \/ (l = c /\ f = 0 /\ n = 0)
  BY RingOpen
<1>2. /\ d.size = n /\ d.capacity = c /\ d.first = f /\ d.last = l /\ d.buffer = b
      /\ \A j \in 0..c : At(d, j) = b[Around(f, j, c)]
  <2>1. f < c /\ d \in Rings(n, c, f, l, b)
    BY <1>1
  <2> QED
    BY <2>1, PlaceOf, SMTT(20)
<1>3. /\ n <= c /\ f < c /\ l <= c /\ n <= k
      /\ l = f + n \/ l = f + n - c \/ (l = c /\ f = 0 /\ n = 0)
  BY <1>1, <1>2
<1> DEFINE z == Realigned(d, k)
           w == CopyBuffer(d, k)
<1>4. z.size = n /\ z.capacity = k /\ z.first = 0 /\ z.buffer = w
  BY <1>2 DEF Realigned
<1>5. ASSUME NEW i \in 0..(n - 1) PROVE At(z, i) = At(d, i)
  <2>1. i \in 0..(k - 1) /\ 0 + i = i /\ i \in Nat /\ i < k /\ i \in 0..c
    BY <1>3
  <2>2. Slot(z, i) = i
    <3> HIDE DEF z, w
    <3>1. i % k = i
      BY <2>1
    <3> QED
      BY <1>4, <2>1, <3>1 DEF Slot, Mask
  <2>3. ~(i >= (IF l > f THEN n ELSE (c - f) + l))
    BY <1>3
  <2>4. w[i] = IF l > f \/ i < c - f THEN b[f + i] ELSE b[i - (c - f)]
    BY <1>2, <2>1, <2>3 DEF CopyBuffer, CopiedSlots
  <2>5. CASE l > f \/ i < c - f
    <3>1. f + i < c
      BY <1>3, <2>5
    <3>2. f + i = Around(f, i, c)
      BY <3>1 DEF Around
    <3> HIDE DEF z, w
    <3> QED
      BY <1>2, <1>4, <2>1, <2>2, <2>4, <2>5, <3>2 DEF At
  <2>6. CASE ~(l > f \/ i < c - f)
    <3>1. ~(f + i < c) /\ i - (c - f) = f + i - c
      BY <1>3, <2>6
    <3>2. i - (c - f) = Around(f, i, c)
      BY <3>1 DEF Around
    <3> HIDE DEF z, w
    <3> QED
      BY <1>2, <1>4, <2>1, <2>2, <2>4, <2>6, <3>2 DEF At
  <2> QED
    BY <2>5, <2>6
<1> QED
  BY <1>2, <1>4, <1>5 DEF z

-----------------------------------------------------------------------------
\* The contents after each operation, as sequences.

Removed(s, i) == SubSeq(s, 1, i) \o SubSeq(s, i + 2, Len(s))

LEMMA RemovedPlaces ==
  ASSUME NEW s \in Seq(Elements), NEW i \in 0..(Len(s) - 1)
  PROVE  /\ Removed(s, i) \in Seq(Elements)
         /\ Len(Removed(s, i)) = Len(s) - 1
         /\ \A j \in 1..(Len(s) - 1) :
              Removed(s, i)[j] = IF j <= i THEN s[j] ELSE s[j + 1]
<1> DEFINE k == i + 1
           w == SubSeq(s, 1, k - 1) \o SubSeq(s, k + 1, Len(s))
<1>1. k \in 1..Len(s)
  OBVIOUS
<1>2. /\ w \in Seq(Elements) /\ Len(w) = Len(s) - 1
      /\ \A j \in 1..Len(w) : w[j] = IF j < k THEN s[j] ELSE s[j + 1]
  <2> HIDE DEF k
  <2> QED
    BY <1>1, WithoutOne
<1>3. Removed(s, i) = w
  <2>1. k - 1 = i /\ k + 1 = i + 2
    OBVIOUS
  <2> QED
    BY <2>1 DEF Removed
<1>4. \A j \in 1..(Len(s) - 1) : j < k <=> j <= i
  OBVIOUS
<1> HIDE DEF w, k
<1> QED
  BY <1>2, <1>3, <1>4

LEMMA PushedFront ==
  ASSUME NEW d, Holding(d), d.size < d.capacity, NEW e \in Elements
  PROVE  LET z == PushFront(d, e)
         IN  /\ Keeps(d, z) /\ Holding(z)
             /\ Contents(z) = OneMore(Contents(d), e, 0)
<1> DEFINE z == PushFront(d, e)
           c == Contents(d)
           w == OneMore(c, e, 0)
<1>1. /\ c \in Seq(Elements) /\ Len(c) = d.size /\ d.size \in Nat
      /\ \A i \in 1..d.size : c[i] = At(d, i - 1)
  BY ContentsFacts
<1>2. /\ z.size = d.size + 1 /\ At(z, 0) = e
      /\ \A i \in 0..(d.size - 1) : At(z, i + 1) = At(d, i)
  BY PushFrontPlaces DEF Holding
<1>3. Keeps(d, z) /\ Shape(z)
  BY PushFrontShape DEF Keeps, Holding
<1> HIDE DEF z, c
<1>4. /\ w \in Seq(Elements) /\ Len(w) = d.size + 1
      /\ \A j \in 1..(d.size + 1) : w[j] = IF j <= 0 THEN c[j]
                                           ELSE IF j = 0 + 1 THEN e ELSE c[j - 1]
  <2> DEFINE k == 0
  <2>0. k \in 0..Len(c) /\ c \in Seq(Elements)
    BY <1>1
  <2>1. w = OneMore(c, e, k)
    OBVIOUS
  <2> HIDE DEF k, w
  <2>2. OneMore(c, e, k) \in Seq(Elements) /\ Len(OneMore(c, e, k)) = Len(c) + 1
    BY <2>0, WithOneMore
  <2>3. ASSUME NEW j \in 1..(Len(c) + 1)
        PROVE  OneMore(c, e, k)[j] = IF j <= k THEN c[j]
                                     ELSE IF j = k + 1 THEN e ELSE c[j - 1]
    BY <2>0, WithOneMore
  <2> QED
    BY <1>1, <2>1, <2>2, <2>3 DEF k
<1> HIDE DEF w
<1>5. ASSUME NEW j \in 1..(d.size + 1) PROVE At(z, j - 1) = w[j]
  <2>1. CASE j = 1
    BY <1>1, <1>2, <1>4, <2>1
  <2>2. CASE j # 1
    <3>1. j - 2 \in 0..(d.size - 1) /\ j - 1 \in 1..d.size /\ j - 2 + 1 = j - 1
          /\ j - 1 - 1 = j - 2 /\ ~(j <= 0) /\ j # 0 + 1
      BY <1>1, <2>2
    <3>2. At(z, j - 1) = At(d, j - 2)
      BY <1>2, <3>1
    <3>3. c[j - 1] = At(d, j - 2)
      BY <1>1, <3>1
    <3>4. w[j] = c[j - 1]
      BY <1>4, <3>1
    <3> QED
      BY <3>2, <3>3, <3>4
  <2> QED
    BY <2>1, <2>2
<1>6. Holding(z) /\ Contents(z) = w
  BY <1>2, <1>3, <1>4, <1>5, ContentsAre
<1> QED
  BY <1>3, <1>6 DEF z, c, w

LEMMA PushedBack ==
  ASSUME NEW d, Holding(d), d.size < d.capacity, d.last < d.capacity, NEW e \in Elements
  PROVE  LET z == PushBack(d, e)
         IN  /\ Keeps(d, z) /\ Holding(z)
             /\ Contents(z) = OneMore(Contents(d), e, Len(Contents(d)))
<1> DEFINE z == PushBack(d, e)
           c == Contents(d)
           w == OneMore(c, e, Len(c))
<1>1. /\ c \in Seq(Elements) /\ Len(c) = d.size /\ d.size \in Nat
      /\ \A i \in 1..d.size : c[i] = At(d, i - 1)
  BY ContentsFacts
<1>2. /\ z.size = d.size + 1 /\ At(z, d.size) = e
      /\ \A i \in 0..(d.size - 1) : At(z, i) = At(d, i)
  BY PushBackPlaces DEF Holding
<1>3. Keeps(d, z) /\ Shape(z)
  BY PushBackShape DEF Keeps, Holding
<1> HIDE DEF z, c
<1>4. /\ w \in Seq(Elements) /\ Len(w) = d.size + 1
      /\ \A j \in 1..(d.size + 1) : w[j] = IF j <= Len(c) THEN c[j]
                                           ELSE IF j = Len(c) + 1 THEN e ELSE c[j - 1]
  <2> DEFINE k == Len(c)
  <2>0. k \in 0..Len(c) /\ c \in Seq(Elements)
    BY <1>1
  <2>1. w = OneMore(c, e, k)
    OBVIOUS
  <2> HIDE DEF k, w
  <2>2. OneMore(c, e, k) \in Seq(Elements) /\ Len(OneMore(c, e, k)) = Len(c) + 1
    BY <2>0, WithOneMore
  <2>3. ASSUME NEW j \in 1..(Len(c) + 1)
        PROVE  OneMore(c, e, k)[j] = IF j <= k THEN c[j]
                                     ELSE IF j = k + 1 THEN e ELSE c[j - 1]
    BY <2>0, WithOneMore
  <2> QED
    BY <1>1, <2>1, <2>2, <2>3 DEF k
<1> HIDE DEF w
<1>5. ASSUME NEW j \in 1..(d.size + 1) PROVE At(z, j - 1) = w[j]
  <2>1. CASE j = d.size + 1
    <3>1. j - 1 = d.size /\ ~(j <= Len(c)) /\ j = Len(c) + 1
      BY <1>1, <2>1
    <3> QED
      BY <1>2, <1>4, <3>1
  <2>2. CASE j # d.size + 1
    <3>1. j \in 1..d.size /\ j - 1 \in 0..(d.size - 1) /\ j <= Len(c)
      BY <1>1, <2>2
    <3>2. At(z, j - 1) = At(d, j - 1)
      BY <1>2, <3>1
    <3>3. c[j] = At(d, j - 1)
      BY <1>1, <3>1
    <3>4. w[j] = c[j]
      BY <1>4, <3>1
    <3> QED
      BY <3>2, <3>3, <3>4
  <2> QED
    BY <2>1, <2>2
<1>6. Holding(z) /\ Contents(z) = w
  BY <1>2, <1>3, <1>4, <1>5, ContentsAre
<1> QED
  BY <1>3, <1>6 DEF z, c, w

\* Any deque that is d without its element i.
LEMMA Shortened ==
  ASSUME NEW d, Holding(d), NEW i \in 0..(d.size - 1), NEW z, Shape(z),
         z.size = d.size - 1,
         \A k \in 0..(d.size - 2) : At(z, k) = IF k < i THEN At(d, k) ELSE At(d, k + 1)
  PROVE  Holding(z) /\ Contents(z) = Removed(Contents(d), i)
<1> DEFINE c == Contents(d)
           w == Removed(c, i)
<1>1. /\ c \in Seq(Elements) /\ Len(c) = d.size /\ d.size \in Nat
      /\ \A j \in 1..d.size : c[j] = At(d, j - 1)
  BY ContentsFacts
<1> HIDE DEF c
<1>2. /\ w \in Seq(Elements) /\ Len(w) = d.size - 1
      /\ \A j \in 1..(d.size - 1) : w[j] = IF j <= i THEN c[j] ELSE c[j + 1]
  BY <1>1, RemovedPlaces
<1> HIDE DEF w
<1>3. ASSUME NEW j \in 1..(d.size - 1) PROVE At(z, j - 1) = w[j]
  <2>1. j - 1 \in 0..(d.size - 2) /\ j \in 1..d.size /\ j + 1 \in 1..d.size
        /\ (j - 1 < i <=> j <= i) /\ j - 1 + 1 = j /\ j + 1 - 1 = j
    BY <1>1
  <2>2. At(z, j - 1) = IF j - 1 < i THEN At(d, j - 1) ELSE At(d, j - 1 + 1)
    BY <2>1
  <2>3. c[j] = At(d, j - 1)
    BY <1>1, <2>1
  <2>4. c[j + 1] = At(d, j + 1 - 1)
    BY <1>1, <2>1
  <2>5. w[j] = IF j <= i THEN c[j] ELSE c[j + 1]
    BY <1>2
  <2> QED
    BY <2>1, <2>2, <2>3, <2>4, <2>5
<1> QED
  BY <1>2, <1>3, ContentsAre DEF c, w

LEMMA Deleted ==
  ASSUME NEW d, Holding(d), NEW i \in 0..(d.size - 1)
  PROVE  LET z == DeleteAt(d, i)
         IN  /\ Keeps(d, z) /\ Holding(z) /\ z.size = d.size - 1
             /\ ~TearsAt(d, i) => Contents(z) = Removed(Contents(d), i)
<1> DEFINE z == DeleteAt(d, i)
<1>1. d.size \in Nat /\ i \in Nat /\ i < d.size /\ Shape(d)
  BY ShapeFields DEF Holding
<1>2. Keeps(d, z) /\ Shape(z)
  BY <1>1, DeleteAtShape DEF Keeps
<1>3. CASE ~TearsAt(d, i)
  <2>1. /\ z.size = d.size - 1
        /\ \A k \in 0..(d.size - 2) : At(z, k) = IF k < i THEN At(d, k) ELSE At(d, k + 1)
    BY <1>1, <1>3, DeleteAtPlaces
  <2> HIDE DEF z
  <2>2. Holding(z) /\ Contents(z) = Removed(Contents(d), i)
    BY <1>2, <2>1, Shortened
  <2> QED
    BY <1>2, <2>1, <2>2 DEF z
<1>4. CASE TearsAt(d, i)
  <2>1. z.size = d.size - 1 /\ \A k \in 0..(d.size - 2) : At(z, k) \in Elements
    BY <1>1, <1>4, TornHolds
  <2> HIDE DEF z
  <2>2. z.size - 1 = d.size - 2
    BY <1>1, <2>1
  <2>3. Holding(z)
    BY <1>2, <2>1, <2>2 DEF Holding
  <2> QED
    BY <1>2, <1>4, <2>1, <2>3 DEF z
<1> QED
  BY <1>3, <1>4

LEMMA PoppedFront ==
  ASSUME NEW d, Holding(d), d.size # 0
  PROVE  LET z == PopFront(d)
         IN  Keeps(d, z) /\ Holding(z) /\ Contents(z) = Removed(Contents(d), 0)
<1> DEFINE z == PopFront(d)
<1>1. d.size \in Nat /\ Shape(d) /\ 0 \in 0..(d.size - 1)
  BY ShapeFields DEF Holding
<1>2. Keeps(d, z) /\ Shape(z)
  BY <1>1, PopFrontShape DEF Keeps
<1>3. /\ z.size = d.size - 1
      /\ \A k \in 0..(d.size - 2) : At(z, k) = IF k < 0 THEN At(d, k) ELSE At(d, k + 1)
  <2>1. \A k \in 0..(d.size - 2) : ~(k < 0)
    OBVIOUS
  <2> QED
    BY <1>1, <2>1, PopFrontPlaces
<1> HIDE DEF z
<1>4. Holding(z) /\ Contents(z) = Removed(Contents(d), 0)
  BY <1>1, <1>2, <1>3, Shortened
<1> QED
  BY <1>2, <1>4 DEF z

LEMMA PoppedBack ==
  ASSUME NEW d, Holding(d), d.size # 0
  PROVE  LET z == PopBack(d)
         IN  Keeps(d, z) /\ Holding(z) /\ Contents(z) = Removed(Contents(d), d.size - 1)
<1> DEFINE z == PopBack(d)
           i == d.size - 1
<1>1. d.size \in Nat /\ Shape(d) /\ i \in 0..(d.size - 1)
  BY ShapeFields DEF Holding
<1>2. Keeps(d, z) /\ Shape(z)
  BY <1>1, PopBackShape DEF Keeps
<1>3. /\ z.size = d.size - 1
      /\ \A k \in 0..(d.size - 2) : At(z, k) = IF k < i THEN At(d, k) ELSE At(d, k + 1)
  <2>1. \A k \in 0..(d.size - 2) : k < i
    BY <1>1
  <2> HIDE DEF i
  <2> QED
    BY <1>1, <2>1, PopBackPlaces
<1> HIDE DEF z, i
<1>4. Holding(z) /\ Contents(z) = Removed(Contents(d), i)
  BY <1>1, <1>2, <1>3, Shortened
<1> QED
  BY <1>2, <1>4 DEF z, i

\* Another order of the same places, or other elements in them.
LEMMA TurnedRound ==
  ASSUME NEW d, Holding(d)
  PROVE  LET z == Reversed(d)
         IN  /\ Keeps(d, z) /\ Holding(z)
             /\ Contents(z) = [i \in 1..d.size |-> Contents(d)[d.size + 1 - i]]
<1> DEFINE z == Reversed(d)
           c == Contents(d)
           w == [i \in 1..d.size |-> c[d.size + 1 - i]]
<1>1. /\ c \in Seq(Elements) /\ Len(c) = d.size /\ d.size \in Nat
      /\ \A i \in 1..d.size : c[i] = At(d, i - 1)
  BY ContentsFacts
<1>2. /\ z.size = d.size
      /\ \A i \in 0..(d.size - 1) : At(z, i) = At(d, d.size - 1 - i)
  BY ReversedPlaces DEF Holding
<1>3. Keeps(d, z) /\ Shape(z)
  BY ReversedShape DEF Keeps, Holding
<1> HIDE DEF z, c
<1>4. w \in Seq(Elements) /\ Len(w) = d.size
  <2>1. \A i \in 1..d.size : d.size + 1 - i \in 1..d.size
    BY <1>1
  <2>2. w \in [1..d.size -> Elements]
    BY <1>1, <2>1
  <2> HIDE DEF w
  <2> QED
    BY <1>1, <2>2
<1>5. ASSUME NEW j \in 1..d.size PROVE At(z, j - 1) = w[j]
  <2>1. j - 1 \in 0..(d.size - 1) /\ d.size + 1 - j \in 1..d.size
        /\ d.size + 1 - j - 1 = d.size - 1 - (j - 1)
    BY <1>1
  <2>2. At(z, j - 1) = At(d, d.size - 1 - (j - 1))
    BY <1>2, <2>1
  <2>3. c[d.size + 1 - j] = At(d, d.size + 1 - j - 1)
    BY <1>1, <2>1
  <2> QED
    BY <2>1, <2>2, <2>3
<1> HIDE DEF w
<1>6. Holding(z) /\ Contents(z) = w
  BY <1>2, <1>3, <1>4, <1>5, ContentsAre
<1> QED
  BY <1>3, <1>6 DEF z, c, w

LEMMA ReplacedShape ==
  ASSUME NEW d, Shape(d), NEW i \in Nat, NEW e \in Elements
  PROVE  Keeps(d, Replaced(d, i, e))
<1>1. PICK n \in Nat, c \in Nat \ {0}, f \in Nat, l \in Nat, b \in Buffers :
        /\ d = Ring(n, c, f, l, b) /\ Fitting(n, c, f, l)
        /\ b \in [0..(c - 1) -> Values]
  BY ShapeOpen
<1> DEFINE s == Slot(d, i)
           w == [b EXCEPT ![s] = e]
           z == Replaced(d, i, e)
<1>2. w \in [0..(c - 1) -> Values]
  BY <1>1 DEF Values
<1>3. z \in Rings(n, c, f, l, w) /\ d.capacity = c /\ d.last = l
  BY <1>1, <1>2 DEF Ring, Rings, Replaced
<1> HIDE DEF w, z
<1> QED
  BY <1>1, <1>2, <1>3, KeepsClose DEF z

LEMMA PutInPlace ==
  ASSUME NEW d, Holding(d), NEW i \in 0..(d.size - 1), NEW e \in Elements
  PROVE  LET z == Replaced(d, i, e)
         IN  /\ Keeps(d, z) /\ Holding(z)
             /\ Contents(z) = [Contents(d) EXCEPT ![i + 1] = e]
<1> DEFINE z == Replaced(d, i, e)
           c == Contents(d)
           w == [c EXCEPT ![i + 1] = e]
<1>1. /\ c \in Seq(Elements) /\ Len(c) = d.size /\ d.size \in Nat
      /\ \A j \in 1..d.size : c[j] = At(d, j - 1)
      /\ i \in Nat /\ i < d.size /\ DOMAIN c = 1..d.size
  BY ContentsFacts
<1>2. /\ z.size = d.size
      /\ \A k \in 0..(d.size - 1) : At(z, k) = IF k = i THEN e ELSE At(d, k)
  BY <1>1, ReplacedPlaces DEF Holding
<1>3. Keeps(d, z) /\ Shape(z)
  BY <1>1, ReplacedShape DEF Keeps, Holding
<1> HIDE DEF z, c
<1>4. w \in Seq(Elements) /\ Len(w) = d.size
      /\ \A j \in 1..d.size : w[j] = IF j = i + 1 THEN e ELSE c[j]
  BY <1>1
<1> HIDE DEF w
<1>5. ASSUME NEW j \in 1..d.size PROVE At(z, j - 1) = w[j]
  <2>1. j - 1 \in 0..(d.size - 1) /\ (j - 1 = i <=> j = i + 1)
    BY <1>1
  <2>2. At(z, j - 1) = IF j - 1 = i THEN e ELSE At(d, j - 1)
    BY <1>2, <2>1
  <2>3. w[j] = IF j = i + 1 THEN e ELSE c[j]
    BY <1>4
  <2>4. c[j] = At(d, j - 1)
    BY <1>1
  <2> QED
    BY <2>1, <2>2, <2>3, <2>4
<1>6. Holding(z) /\ Contents(z) = w
  BY <1>2, <1>3, <1>4, <1>5, ContentsAre
<1> QED
  BY <1>3, <1>6 DEF z, c, w

\* The capacity check leaves the same elements and room for one more.
LEMMA RoomMade ==
  ASSUME NEW d, Holding(d), d.last < d.capacity, NEW r \in MakeRoom(d)
  PROVE  /\ Holding(r) /\ r.size < r.capacity /\ r.last < r.capacity
         /\ Contents(r) = Contents(d)
<1>1. /\ Shape(r) /\ r.size = d.size /\ r.size < r.capacity
      /\ r = d \/ r.last < r.capacity
  BY MakeRoomShape DEF Holding
<1>2. CASE r = d
  BY <1>1, <1>2
<1>3. CASE r # d
  <2>1. /\ d.size \in Nat /\ d.capacity \in Nat \ {0} /\ d.size <= d.capacity
        /\ Shape(d)
    BY ShapeFields DEF Holding
  <2> DEFINE k == 2 * d.capacity
  <2>2. r = Realigned(d, k)
    BY <1>3 DEF MakeRoom, ExpandCapacity
  <2>3. k \in Nat \ {0} /\ d.size <= k
    BY <2>1
  <2> HIDE DEF k
  <2>4. \A i \in 0..(d.size - 1) : At(r, i) = At(d, i)
    BY <2>1, <2>2, <2>3, RealignedPlaces
  <2>5. /\ Contents(d) \in Seq(Elements) /\ Len(Contents(d)) = r.size
        /\ \A i \in 1..r.size : At(r, i - 1) = Contents(d)[i]
    <3>1. \A i \in 1..d.size : i - 1 \in 0..(d.size - 1)
      BY <2>1
    <3> QED
      BY <1>1, <2>4, <3>1, ContentsFacts
  <2>6. Holding(r) /\ Contents(r) = Contents(d)
    BY <1>1, <2>5, ContentsAre
  <2> QED
    BY <1>1, <1>3, <2>6
<1> QED
  BY <1>2, <1>3

-----------------------------------------------------------------------------
\* What filter_mut leaves is what the promise selects.

\* The first i elements with one more of them, and what follows.
LEMMA OneFurther ==
  ASSUME NEW s \in Seq(Elements), NEW i \in 0..(Len(s) - 1), NEW t \in Seq(Elements)
  PROVE  SubSeq(s, 1, i + 1) \o t = SubSeq(s, 1, i) \o (<<s[i + 1]>> \o t)
<1> DEFINE a == SubSeq(s, 1, i)
           b == SubSeq(s, 1, i + 1)
           u == <<s[i + 1]>> \o t
           N == Len(t)
           y == b \o t
           z == a \o u
<1>1. a \in Seq(Elements) /\ Len(a) = i /\ \A j \in 1..i : a[j] = s[j]
  OBVIOUS
<1>2. b \in Seq(Elements) /\ Len(b) = i + 1 /\ \A j \in 1..(i + 1) : b[j] = s[j]
  OBVIOUS
<1>3. N \in Nat /\ i \in Nat /\ s[i + 1] \in Elements
  OBVIOUS
<1>4. /\ u \in Seq(Elements) /\ Len(u) = N + 1 /\ u[1] = s[i + 1]
      /\ \A j \in 1..N : u[j + 1] = t[j]
  BY <1>3, OnePut
<1> HIDE DEF a, b, u
<1>5. /\ y \in Seq(Elements) /\ Len(y) = i + 1 + N
      /\ \A j \in 1..(i + 1) : y[j] = b[j]
      /\ \A j \in 1..N : y[i + 1 + j] = t[j]
  <2> DEFINE m == i + 1
  <2>1. m = Len(b) /\ b \in Seq(Elements)
    BY <1>2
  <2> HIDE DEF m
  <2>2. b \o t \in Seq(Elements) /\ Len(b \o t) = m + Len(t)
    BY <2>1, Joined, SMTT(20)
  <2>3. \A j \in 1..m : (b \o t)[j] = b[j]
    BY <2>1, Joined, SMTT(20)
  <2>4. \A j \in 1..Len(t) : (b \o t)[m + j] = t[j]
    BY <2>1, Joined, SMTT(20)
  <2> QED
    BY <2>2, <2>3, <2>4 DEF m
<1>6. /\ z \in Seq(Elements) /\ Len(z) = i + (N + 1)
      /\ \A j \in 1..i : z[j] = a[j]
      /\ \A j \in 1..(N + 1) : z[i + j] = u[j]
  <2> HIDE DEF N
  <2>1. /\ z \in Seq(Elements) /\ Len(z) = i + Len(u)
        /\ \A j \in 1..i : z[j] = a[j]
        /\ \A j \in 1..Len(u) : z[i + j] = u[j]
    <3>1. a \in Seq(Elements) /\ u \in Seq(Elements) /\ i = Len(a)
      BY <1>1, <1>4
    <3> HIDE DEF u
    <3>2. a \o u \in Seq(Elements) /\ Len(a \o u) = i + Len(u)
      BY <3>1, Joined, SMTT(20)
    <3>3. \A j \in 1..i : (a \o u)[j] = a[j]
      BY <3>1, Joined, SMTT(20)
    <3>4. \A j \in 1..Len(u) : (a \o u)[i + j] = u[j]
      BY <3>1, Joined, SMTT(20)
    <3> QED
      BY <3>2, <3>3, <3>4 DEF z
  <2> HIDE DEF z
  <2> QED
    BY <1>4, <2>1
<1> HIDE DEF y, z, N
<1>7. ASSUME NEW j \in 1..(i + 1 + N) PROVE y[j] = z[j]
  <2>1. CASE j <= i
    <3>1. j \in 1..i /\ j \in 1..(i + 1)
      BY <1>3, <2>1
    <3> QED
      BY <1>1, <1>2, <1>5, <1>6, <3>1
  <2>2. CASE j = i + 1
    <3>1. j \in 1..(i + 1) /\ 1 \in 1..(N + 1)
      BY <1>3, <2>2
    <3>2. z[i + 1] = u[1]
      BY <1>6, <3>1
    <3> QED
      BY <1>2, <1>4, <1>5, <2>2, <3>1, <3>2
  <2>3. CASE j > i + 1
    <3> DEFINE k == j - (i + 1)
    <3>1. k \in 1..N /\ k + 1 \in 1..(N + 1) /\ i + 1 + k = j /\ i + (k + 1) = j
      BY <1>3, <2>3
    <3> HIDE DEF k
    <3>2. y[i + 1 + k] = t[k] /\ z[i + (k + 1)] = u[k + 1] /\ u[k + 1] = t[k]
      BY <1>4, <1>5, <1>6, <3>1
    <3> QED
      BY <3>1, <3>2
  <2> QED
    BY <1>3, <2>1, <2>2, <2>3
<1>8. Len(y) = Len(z)
  BY <1>3, <1>5, <1>6
<1>9. y = z
  BY <1>5, <1>6, <1>7, <1>8, SameSequence
<1> QED
  BY <1>9 DEF a, b, u, y, z

\* An element taken out behind the first i leaves those as they are.
LEMMA FrontStays ==
  ASSUME NEW s \in Seq(Elements), NEW i \in 0..(Len(s) - 1)
  PROVE  SubSeq(Removed(s, i), 1, i) = SubSeq(s, 1, i)
<1> DEFINE r == Removed(s, i)
<1>1. r \in Seq(Elements) /\ Len(r) = Len(s) - 1 /\ \A j \in 1..i : r[j] = s[j]
  <2>1. /\ r \in Seq(Elements) /\ Len(r) = Len(s) - 1
        /\ \A j \in 1..(Len(s) - 1) : r[j] = IF j <= i THEN s[j] ELSE s[j + 1]
    BY RemovedPlaces
  <2>2. \A j \in 1..i : j \in 1..(Len(s) - 1) /\ j <= i
    OBVIOUS
  <2> HIDE DEF r
  <2> QED
    BY <2>1, <2>2
<1> HIDE DEF r
<1>2. /\ SubSeq(r, 1, i) \in Seq(Elements) /\ Len(SubSeq(r, 1, i)) = i
      /\ \A j \in 1..i : SubSeq(r, 1, i)[j] = r[j]
  BY <1>1
<1>3. /\ SubSeq(s, 1, i) \in Seq(Elements) /\ Len(SubSeq(s, 1, i)) = i
      /\ \A j \in 1..i : SubSeq(s, 1, i)[j] = s[j]
  OBVIOUS
<1>4. SubSeq(r, 1, i) = SubSeq(s, 1, i)
  <2> DEFINE x == SubSeq(r, 1, i)
             y == SubSeq(s, 1, i)
  <2>1. x \in Seq(Elements) /\ y \in Seq(Elements) /\ Len(x) = Len(y)
        /\ \A j \in 1..Len(x) : x[j] = y[j]
    BY <1>1, <1>2, <1>3
  <2> HIDE DEF x, y
  <2>2. x = y
    BY <2>1, SameSequence
  <2> QED
    BY <2>2 DEF x, y
<1> QED
  BY <1>4 DEF r

\* After n elements: what was kept, with what the promise selects from the rest, is
\* what it selects from all; and the rest is still there.
Kept(at, n, c, last) ==
  /\ Holding(at.d)
  /\ SubSeq(Contents(at.d), 1, at.i) \o last[Len(c) - n] = last[Len(c)]
  /\ \A j \in 1..(Len(c) - n) : Contents(at.d)[at.i + j] = c[n + j]

LEMMA Arrange ==
  ASSUME NEW N \in Nat, NEW n \in 1..N, NEW i \in Nat, i <= n - 1, NEW j \in 1..(N - n)
  PROVE  /\ j + 1 \in 1..(N - (n - 1)) /\ i + (j + 1) = i + 1 + j
         /\ n - 1 + (j + 1) = n + j
         /\ i + j \in 1..(N - (n - 1 - i) - 1) /\ ~(i + j <= i)
         /\ i + (j + 1) = i + j + 1
OBVIOUS

LEMMA KeptGoesOn ==
  ASSUME NEW d, Holding(d), NEW keep, NEW n \in 1..d.size, NEW at \in Scans(d, n - 1),
         NEW last \in [0..d.size -> Seq(Elements)], Selects(last, Contents(d), keep),
         Kept(at, n - 1, Contents(d), last),
         At(at.d, at.i) \notin keep => ~TearsAt(at.d, at.i)
  PROVE  Kept(ScanStep(keep, at), n, Contents(d), last)
<1> DEFINE N == d.size
           c == Contents(d)
           C == Contents(at.d)
           i == at.i
           t == last[N - n]
<1>1. /\ c \in Seq(Elements) /\ Len(c) = N /\ N \in Nat
  BY ContentsFacts
<1>2. /\ at.d.size = N - (n - 1 - i) /\ at = [d |-> at.d, i |-> at.i]
      /\ i \in Nat /\ i <= n - 1 /\ n \in Nat /\ n <= N
  BY <1>1 DEF Scans
<1>3. /\ C \in Seq(Elements) /\ Len(C) = at.d.size
      /\ \A j \in 1..at.d.size : C[j] = At(at.d, j - 1)
  BY ContentsFacts DEF Kept
<1>4. /\ SubSeq(C, 1, i) \o last[N - (n - 1)] = last[N]
      /\ \A j \in 1..(N - (n - 1)) : C[i + j] = c[n - 1 + j]
      /\ Holding(at.d)
  BY <1>1 DEF Kept
<1> HIDE DEF C, c
<1>5. i + 1 \in 1..at.d.size /\ i \in 0..(at.d.size - 1) /\ i + 1 - 1 = i
  BY <1>1, <1>2
<1>6. C[i + 1] = c[n] /\ At(at.d, i) = c[n]
  <2>1. 1 \in 1..(N - (n - 1)) /\ n - 1 + 1 = n
    BY <1>1, <1>2
  <2>2. C[i + 1] = c[n - 1 + 1]
    BY <1>4, <2>1
  <2>3. C[i + 1] = At(at.d, i)
    BY <1>3, <1>5
  <2> QED
    BY <2>1, <2>2, <2>3
<1>7. /\ t \in Seq(Elements)
      /\ last[N - (n - 1)] = IF c[n] \in keep THEN <<c[n]>> \o t ELSE t
  <2> DEFINE k == N - (n - 1)
  <2>1. k \in 1..N /\ k - 1 = N - n /\ N + 1 - k = n /\ N - n \in 0..N
    BY <1>1, <1>2
  <2>2. \A m \in 1..N : last[m] = IF c[N + 1 - m] \in keep
                                  THEN <<c[N + 1 - m]>> \o last[m - 1] ELSE last[m - 1]
    BY <1>1 DEF Selects, c
  <2> HIDE DEF k
  <2>3. last[k] = IF c[N + 1 - k] \in keep THEN <<c[N + 1 - k]>> \o last[k - 1]
                  ELSE last[k - 1]
    BY <2>1, <2>2
  <2> QED
    BY <2>1, <2>3 DEF k
<1> HIDE DEF t
<1>8. CASE c[n] \in keep
  <2> DEFINE x == [d |-> at.d, i |-> i + 1]
  <2>1. ScanStep(keep, at) = x
    BY <1>2, <1>6, <1>8 DEF ScanStep, At
  <2>2. SubSeq(C, 1, i + 1) \o t = SubSeq(C, 1, i) \o (<<C[i + 1]>> \o t)
    <3>1. i \in 0..(Len(C) - 1)
      BY <1>3, <1>5
    <3> QED
      BY <1>3, <1>7, <3>1, OneFurther
  <2>3. SubSeq(C, 1, i + 1) \o t = last[N]
    BY <1>4, <1>6, <1>7, <1>8, <2>2
  <2>4. ASSUME NEW j \in 1..(N - n) PROVE C[i + 1 + j] = c[n + j]
    <3> DEFINE h == j + 1
    <3>1. h \in 1..(N - (n - 1)) /\ i + h = i + 1 + j /\ n - 1 + h = n + j
      <4> HIDE DEF N, i
      <4> QED
        BY <1>1, <1>2, Arrange
    <3> HIDE DEF h
    <3>2. C[i + h] = c[n - 1 + h]
      BY <1>4, <3>1
    <3> QED
      BY <3>1, <3>2
  <2>5. x.d = at.d /\ x.i = i + 1
    OBVIOUS
  <2> HIDE DEF x
  <2>6. Kept(x, n, c, last)
    BY <1>1, <1>4, <2>3, <2>4, <2>5 DEF Kept, C, t
  <2> QED
    BY <2>1, <2>6 DEF c
<1>9. CASE ~(c[n] \in keep)
  <2> DEFINE z == DeleteAt(at.d, i)
             x == [d |-> z, i |-> i]
             R == Removed(C, i)
  <2>1. ScanStep(keep, at) = x
    BY <1>2, <1>6, <1>9 DEF ScanStep, At
  <2>2. Holding(z) /\ Contents(z) = R
    <3>1. ~TearsAt(at.d, i)
      BY <1>6, <1>9
    <3> QED
      BY <1>4, <1>5, <3>1, Deleted DEF C
  <2>3. i \in 0..(Len(C) - 1)
    BY <1>3, <1>5
  <2>4. SubSeq(R, 1, i) = SubSeq(C, 1, i)
    BY <1>3, <2>3, FrontStays
  <2>5. \A j \in 1..(Len(C) - 1) : R[j] = IF j <= i THEN C[j] ELSE C[j + 1]
    BY <1>3, <2>3, RemovedPlaces
  <2> HIDE DEF R, z
  <2>6. ASSUME NEW j \in 1..(N - n) PROVE R[i + j] = c[n + j]
    <3> DEFINE h == j + 1
               k == i + j
    <3>1. /\ h \in 1..(N - (n - 1)) /\ i + h = k + 1 /\ n - 1 + h = n + j
          /\ k \in 1..(Len(C) - 1) /\ ~(k <= i)
      <4>1. Len(C) = N - (n - 1 - i)
        BY <1>2, <1>3
      <4> HIDE DEF N, i
      <4> QED
        BY <1>1, <1>2, <4>1, Arrange
    <3> HIDE DEF h, k
    <3>2. C[i + h] = c[n - 1 + h]
      BY <1>4, <3>1
    <3>3. R[k] = C[k + 1]
      BY <2>5, <3>1
    <3> QED
      BY <3>1, <3>2, <3>3 DEF k
  <2>7. x.d = z /\ x.i = i
    OBVIOUS
  <2>8. SubSeq(R, 1, i) \o t = last[N]
    BY <1>4, <1>7, <1>9, <2>4
  <2> HIDE DEF x
  <2>9. Kept(x, n, c, last)
    BY <1>1, <2>2, <2>6, <2>7, <2>8 DEF Kept, t
  <2> QED
    BY <2>1, <2>9 DEF c
<1> QED
  BY <1>8, <1>9

\* Of what filter_mut takes out or leaves, it makes elements in any case.
LEMMA FilteredHolds ==
  ASSUME NEW d, Holding(d), NEW keep
  PROVE  Keeps(d, Filtered(d, keep)) /\ Holding(Filtered(d, keep))
<1> DEFINE N == d.size
<1>1. N \in Nat /\ Shape(d)
  BY ShapeFields DEF Holding
<1>2. PICK scan : Scanned(scan, d, keep)
  BY <1>1, Scanning
<1> DEFINE A == {n \in 0..N : Holding(scan[n].d)}
<1>3. 0 \in A
  <2>1. scan[0].d = d
    BY <1>2 DEF Scanned
  <2> QED
    BY <1>1, <2>1
<1>4. ASSUME NEW n \in 1..N, n - 1 \in A PROVE n \in A
  <2> DEFINE at == scan[n - 1]
             z == DeleteAt(at.d, at.i)
  <2>1. n - 1 \in 0..N /\ n \in 0..N /\ Holding(at.d)
    BY <1>1, <1>4
  <2>2. at \in Scans(d, n - 1) /\ scan[n] = ScanStep(keep, at)
    BY <1>2, <2>1 DEF Scanned
  <2> HIDE DEF at
  <2>3. /\ at.i \in 0..(n - 1) /\ at.d.size = N - (n - 1 - at.i)
        /\ at = [d |-> at.d, i |-> at.i]
    BY <2>2 DEF Scans
  <2>4. at.i \in 0..(at.d.size - 1)
    BY <1>1, <2>3
  <2>5. Holding(z)
    BY <2>1, <2>4, Deleted
  <2> HIDE DEF z
  <2>6. scan[n].d = at.d \/ scan[n].d = z
    BY <2>2, <2>3 DEF ScanStep, z
  <2> QED
    BY <2>1, <2>5, <2>6
<1> HIDE DEF A
<1>5. 0..N \subseteq A
  <2> HIDE DEF N
  <2> QED
    BY <1>1, <1>3, <1>4, Induction
<1>6. Holding(scan[N].d)
  BY <1>1, <1>5 DEF A
<1> QED
  BY <1>1, <1>2, <1>6, FilteredShape DEF Scanned

LEMMA FilteredOut ==
  ASSUME NEW d, Holding(d), NEW keep, ~FilterTears(d, keep)
  PROVE  LET z == Filtered(d, keep)
         IN  /\ Keeps(d, z) /\ Holding(z)
             /\ Contents(z) = Selected(Contents(d), keep)
<1> DEFINE N == d.size
           c == Contents(d)
           z == Filtered(d, keep)
<1>1. /\ c \in Seq(Elements) /\ Len(c) = N /\ N \in Nat /\ Shape(d)
  BY ContentsFacts DEF Holding
<1>2. PICK scan : Scanned(scan, d, keep)
  BY <1>1, Scanning
<1>3. PICK last \in [0..N -> Seq(Elements)] :
        Selects(last, c, keep) /\ Selected(c, keep) = last[N]
  <2> HIDE DEF c
  <2>1. \E last \in [0..Len(c) -> Seq(Elements)] :
           Selects(last, c, keep) /\ Selected(c, keep) = last[Len(c)]
    BY <1>1, Selecting
  <2> QED
    BY <1>1, <2>1
<1> DEFINE A == {n \in 0..N : Kept(scan[n], n, c, last)}
<1>4. 0 \in A
  <2>1. scan[0].d = d /\ scan[0].i = 0
    BY <1>2 DEF Scanned
  <2>2. last[N] \in Seq(Elements)
    BY <1>1
  <2> HIDE DEF c
  <2>3. SubSeq(c, 1, 0) \o last[N] = last[N]
    <3>1. SubSeq(c, 1, 0) = <<>>
      BY <1>1
    <3>2. \A q \in Seq(Elements) : <<>> \o q = q
      OBVIOUS
    <3> QED
      BY <2>2, <3>1, <3>2
  <2>4. Kept(scan[0], 0, c, last)
    <3>1. N - 0 = N /\ \A j \in 1..N : 0 + j = j
      BY <1>1
    <3> QED
      BY <1>1, <2>1, <2>3, <3>1 DEF Kept, c
  <2> QED
    BY <1>1, <2>4
<1>5. ASSUME NEW n \in 1..N, n - 1 \in A PROVE n \in A
  <2>1. n - 1 \in 0..N /\ n \in 0..N /\ Kept(scan[n - 1], n - 1, c, last)
    BY <1>1, <1>5
  <2>2. scan[n - 1] \in Scans(d, n - 1) /\ scan[n] = ScanStep(keep, scan[n - 1])
    BY <1>2, <2>1 DEF Scanned
  <2>3. At(scan[n - 1].d, scan[n - 1].i) \notin keep
          => ~TearsAt(scan[n - 1].d, scan[n - 1].i)
    <3>1. Scan(d, keep) = scan
      BY <1>2 DEF Scanned
    <3> QED
      BY <3>1, Zenon DEF FilterTears, At
  <2>4. Kept(scan[n], n, c, last)
    BY <1>3, <2>1, <2>2, <2>3, KeptGoesOn
  <2> QED
    BY <2>1, <2>4
<1> HIDE DEF A
<1>6. 0..N \subseteq A
  <2> HIDE DEF N
  <2> QED
    BY <1>1, <1>4, <1>5, Induction
<1>7. Kept(scan[N], N, c, last)
  BY <1>1, <1>6 DEF A
<1>8. z = scan[N].d /\ Keeps(d, z) /\ scan[N].i = z.size
  <2>1. N \in 0..N
    BY <1>1
  <2>2. z = scan[N].d /\ scan[N] \in Scans(d, N)
    BY <1>2, <2>1 DEF Scanned
  <2>3. Keeps(d, z) /\ z.size = N - (N - scan[N].i) /\ scan[N].i \in 0..N
    BY <2>2 DEF Scans
  <2> HIDE DEF z
  <2> QED
    BY <1>1, <2>2, <2>3
<1> HIDE DEF z, c
<1>9. Holding(z) /\ SubSeq(Contents(z), 1, z.size) \o last[0] = last[N]
  <2>1. Len(c) - N = 0 /\ Len(c) = N
    BY <1>1
  <2> DEFINE at == scan[N]
  <2>2. Holding(at.d) /\ SubSeq(Contents(at.d), 1, at.i) \o last[Len(c) - N] = last[Len(c)]
    BY <1>7 DEF Kept
  <2>3. at.d = z /\ at.i = z.size
    BY <1>8
  <2> HIDE DEF at
  <2> QED
    BY <2>1, <2>2, <2>3
<1>10. Contents(z) = last[N]
  <2>1. Contents(z) \in Seq(Elements) /\ Len(Contents(z)) = z.size
    BY <1>9, ContentsFacts
  <2>2. \A q \in Seq(Elements) : SubSeq(q, 1, Len(q)) = q /\ q \o <<>> = q
    OBVIOUS
  <2>3. last[0] = <<>>
    BY <1>3 DEF Selects
  <2> QED
    BY <1>9, <2>1, <2>2, <2>3
<1> QED
  BY <1>3, <1>8, <1>9, <1>10 DEF z, c

-----------------------------------------------------------------------------
\* What each call does to the contents, as SeqSpec says it.

\* The calls for which the deque is a sequence: README.md says what the others do.
SequenceCalls ==
  {"add_first", "add_last", "remove_first", "remove_last", "get_first",
   "get_last", "remove_all", "replace_at", "remove_at", "remove", "reverse",
   "filter_mut", "iter_init", "iter_next", "iter_remove"}

Sound == DequeInv /\ Tight /\ Holding(deque)

\* The results of SeqSpec are those of the deque.
LEMMA SameResults ==
  /\ Abs!Done = Done
  /\ \A e : Abs!Got(e) = Got(e)
  /\ \A st : Abs!Refused(st) = Refused(st)
<1>1. Abs!Done = Done
  BY DEF Abs!Done, Abs!Result, Done, Result, Abs!CC_OK, CC_OK
<1>2. ASSUME NEW e PROVE Abs!Got(e) = Got(e)
  BY DEF Abs!Got, Abs!Result, Got, Result, Abs!CC_OK, CC_OK
<1>3. ASSUME NEW st PROVE Abs!Refused(st) = Refused(st)
  BY DEF Abs!Refused, Abs!Result, Refused, Result
<1> QED
  BY <1>1, <1>2, <1>3

\* A call that refuses leaves everything as it was.
LEMMA Rejected ==
  ASSUME Sound, NEW st, Reject(st)
  PROVE  /\ Holding(deque') /\ Contents(deque)' = Contents(deque) /\ ret' = Refused(st)
         /\ st = CC_ERR_ALLOC => Abs!NoMemory
         /\ st \in {CC_ERR_OUT_OF_RANGE, CC_ERR_VALUE_NOT_FOUND} => Abs!NotThere
<1>1. deque' = deque /\ ret' = Refused(st)
  BY DEF Reject, Return
<1>2. Contents(deque)' = Contents(deque)
  BY <1>1
<1>3. Holding(deque')
  BY <1>1 DEF Sound
<1> USE SameResults
    DEF Abs!Refuse, Abs!CC_ERR_ALLOC, Abs!CC_ERR_MAX_CAPACITY, Abs!CC_ERR_OUT_OF_RANGE,
        Abs!CC_ERR_VALUE_NOT_FOUND, CC_ERR_ALLOC, CC_ERR_OUT_OF_RANGE,
        CC_ERR_VALUE_NOT_FOUND
<1>4. st = CC_ERR_ALLOC => Abs!NoMemory
  BY <1>1, <1>2 DEF Abs!NoMemory
<1>5. st \in {CC_ERR_OUT_OF_RANGE, CC_ERR_VALUE_NOT_FOUND} => Abs!NotThere
  BY <1>1, <1>2 DEF Abs!NotThere
<1> QED
  BY <1>1, <1>2, <1>3, <1>4, <1>5

\* A call that leaves d in the place of the deque.
LEMMA Committed ==
  ASSUME NEW d, Holding(d), NEW slots, slots \subseteq 0..(d.capacity - 1), NEW r,
         Commit(d, slots, r)
  PROVE  deque' = d /\ Holding(deque') /\ Contents(deque)' = Contents(d) /\ ret' = r
<1>1. DOMAIN d.buffer = 0..(d.capacity - 1)
  BY ShapeFields DEF Holding
<1>2. deque' = d /\ ret' = r
  BY <1>1 DEF Commit, Return
<1>3. Contents(deque)' = Contents(d)
  BY <1>2
<1> QED
  BY <1>2, <1>3

\* The elements at both ends, by the fields a call reads them with.
LEMMA EndsAt ==
  ASSUME NEW d, Shape(d)
  PROVE  /\ d.buffer[d.first] = At(d, 0)
         /\ d.size # 0 => d.buffer[Mask(d, d.last - 1)] = At(d, d.size - 1)
<1>1. PICK n \in Nat, c \in Nat \ {0}, f \in Nat, l \in Nat, b \in Buffers :
           /\ d \in Rings(n, c, f, l, b) /\ d = Ring(n, c, f, l, b)
           /\ Fitting(n, c, f, l) /\ b \in [0..(c - 1) -> Values]
           /\ n <= c /\ f < c /\ l <= c
           /\ l = f + n \/ l = f + n - c \/ (l = c /\ f = 0 /\ n = 0)
  BY RingOpen
<1>2. /\ d.size = n /\ d.capacity = c /\ d.first = f /\ d.last = l /\ d.buffer = b
      /\ \A j \in 0..c : At(d, j) = b[Around(f, j, c)]
  <2>1. f < c /\ d \in Rings(n, c, f, l, b)
    BY <1>1
  <2> QED
    BY <2>1, PlaceOf, SMTT(20)
<1>3. /\ n <= c /\ f < c /\ l <= c
      /\ l = f + n \/ l = f + n - c \/ (l = c /\ f = 0 /\ n = 0)
  BY <1>1
<1>4. 0 \in 0..c /\ Around(f, 0, c) = f
  BY <1>3 DEF Around
<1>5. ASSUME n # 0 PROVE (l - 1) % c = Around(f, n - 1, c) /\ n - 1 \in 0..c
  <2> DEFINE x == l - 1
  <2>1. /\ x \in Int /\ 0 - c <= x /\ x < c
        /\ x < 0 => x + c = Around(f, n - 1, c)
        /\ 0 <= x => x = Around(f, n - 1, c)
    BY <1>3, <1>5 DEF Around
  <2> HIDE DEF x
  <2>2. x % c = Around(f, n - 1, c)
    <3>1. (x < 0 => x % c = x + c) /\ (0 <= x => x % c = x)
      BY <2>1, Wrap
    <3>2. x < 0 \/ 0 <= x
      BY <2>1
    <3> QED
      BY <2>1, <3>1, <3>2
  <2> QED
    BY <1>3, <1>5, <2>2 DEF x
<1> QED
  BY <1>2, <1>4, <1>5 DEF Mask

\* What the deque holds, in the terms of SeqSpec.
LEMMA HeldIs ==
  ASSUME Sound
  PROVE  /\ Contents(deque) \in Seq(Elements) /\ Len(Contents(deque)) = deque.size
         /\ deque.size \in Nat /\ Shape(deque) /\ Holding(deque)
         /\ deque.last < deque.capacity /\ deque.capacity \in Nat
         /\ deque.size <= deque.capacity
         /\ \A i \in 1..deque.size : Contents(deque)[i] = At(deque, i - 1)
         /\ deque.size = 0 <=> Contents(deque) = <<>>
<1>1. Holding(deque) /\ Shape(deque) /\ deque.last < deque.capacity
  BY DEF Sound, Tight, Holding
<1>2. /\ Contents(deque) \in Seq(Elements) /\ Len(Contents(deque)) = deque.size
      /\ deque.size \in Nat /\ deque.capacity \in Nat /\ deque.size <= deque.capacity
      /\ \A i \in 1..deque.size : Contents(deque)[i] = At(deque, i - 1)
  BY <1>1, ContentsFacts, ShapeFields
<1>3. deque.size = 0 <=> Contents(deque) = <<>>
  <2> DEFINE c == Contents(deque)
  <2> HIDE DEF c
  <2>1. c \in Seq(Elements) /\ Len(c) = deque.size
    BY <1>2 DEF c
  <2>2. Len(c) = 0 <=> c = <<>>
    BY <2>1
  <2> QED
    BY <2>1, <2>2 DEF c
<1> QED
  BY <1>1, <1>2, <1>3

\* A call that takes out element i.
LEMMA TakenOut ==
  ASSUME Sound, NEW i \in 0..(deque.size - 1), NEW d, Holding(d),
         Contents(d) = Removed(Contents(deque), i),
         NEW slots, slots \subseteq 0..(d.capacity - 1),
         NEW r, r = Got(At(deque, i)), Commit(d, slots, r)
  PROVE  /\ Holding(deque') /\ Abs!RemoveAt(i) /\ ret' = r /\ deque' = d
         /\ Contents(deque)' = Removed(Contents(deque), i)
<1>1. deque' = d /\ Holding(deque') /\ Contents(deque)' = Contents(d) /\ ret' = r
  BY Committed
<1>2. i < Len(Contents(deque)) /\ Contents(deque)[i + 1] = At(deque, i)
  <2>1. i < deque.size /\ i + 1 \in 1..deque.size /\ i + 1 - 1 = i
    BY HeldIs
  <2> QED
    BY <2>1, HeldIs
<1>3. Abs!RemoveAt(i)
  BY <1>1, <1>2, SameResults DEF Abs!RemoveAt, Abs!Without, Removed
<1> QED
  BY <1>1, <1>3

LEMMA PutIn ==
  ASSUME Sound, NEW i \in Nat, NEW e \in Elements, NEW d, Holding(d),
         Contents(d) = OneMore(Contents(deque), e, i),
         NEW slots, slots \subseteq 0..(d.capacity - 1), Commit(d, slots, Done)
  PROVE  Holding(deque') /\ Abs!Insert(e, i)
<1>1. deque' = d /\ Holding(deque') /\ Contents(deque)' = Contents(d) /\ ret' = Done
  BY Committed
<1> QED
  BY <1>1, SameResults DEF Abs!Insert, Abs!Inserted, OneMore

\* A call that only reads element i.
LEMMA ReadAt ==
  ASSUME Sound, NEW i \in 0..(deque.size - 1),
         NEW slots, slots \subseteq 0..(deque.capacity - 1),
         NEW r, r = Got(At(deque, i)), Commit(deque, slots, r)
  PROVE  Holding(deque') /\ Abs!GetAt(i)
<1>1. Holding(deque') /\ Contents(deque)' = Contents(deque) /\ ret' = r
  BY Committed DEF Sound
<1>2. i < Len(Contents(deque)) /\ Contents(deque)[i + 1] = At(deque, i)
  <2>1. i < deque.size /\ i + 1 \in 1..deque.size /\ i + 1 - 1 = i
    BY HeldIs
  <2> QED
    BY <2>1, HeldIs
<1> QED
  BY <1>1, <1>2, SameResults DEF Abs!GetAt

-----------------------------------------------------------------------------
\* Each call keeps its promise.

LEMMA AddFirstDoes ==
  ASSUME Sound, NEW e \in Elements, AddFirst(e)
  PROVE  Holding(deque') /\ (Abs!Insert(e, 0) \/ Refuse(CC_ERR_ALLOC))
<1>1. ASSUME NEW d \in MakeRoom(deque), Update(PushFront(d, e), {Mask(d, d.first - 1)}, Done)
      PROVE  Holding(deque') /\ Abs!Insert(e, 0)
  <2> DEFINE z == PushFront(d, e)
             slots == {Mask(d, d.first - 1)}
  <2>1. /\ Holding(d) /\ d.size < d.capacity /\ Contents(d) = Contents(deque)
    BY HeldIs, RoomMade
  <2>2. Holding(z) /\ z.capacity = d.capacity /\ Contents(z) = OneMore(Contents(deque), e, 0)
    BY <2>1, PushedFront DEF Keeps
  <2>3. slots \subseteq 0..(z.capacity - 1)
    <3>1. Shape(d) /\ d.first - 1 \in Int
      BY <2>1, ShapeFields DEF Holding
    <3> HIDE DEF z
    <3> QED
      BY <2>2, <3>1, ElementIs
  <2>4. Commit(z, slots, Done)
    BY <1>1 DEF Update
  <2> HIDE DEF z, slots
  <2> QED
    BY <2>2, <2>3, <2>4, PutIn
<1>2. CASE Refuse(CC_ERR_ALLOC)
  BY <1>2, Rejected DEF Refuse
<1> QED
  BY <1>1, <1>2 DEF AddFirst

LEMMA AddFirstKept ==
  ASSUME Sound, NEW e \in Elements, AddFirst(e)
  PROVE  Holding(deque') /\ Abs!AddFirst(e)
<1>1. Refuse(CC_ERR_ALLOC) => Abs!NoMemory
  BY Rejected DEF Refuse
<1> QED
  BY <1>1, AddFirstDoes DEF Abs!AddFirst

LEMMA AddLastKept ==
  ASSUME Sound, NEW e \in Elements, AddLast(e)
  PROVE  Holding(deque') /\ Abs!AddLast(e)
<1>1. ASSUME NEW d \in MakeRoom(deque), Update(PushBack(d, e), {d.last}, Done)
      PROVE  Holding(deque') /\ Abs!Insert(e, Len(Contents(deque)))
  <2> DEFINE z == PushBack(d, e)
             slots == {d.last}
             n == Len(Contents(deque))
  <2>1. /\ Holding(d) /\ d.size < d.capacity /\ d.last < d.capacity
        /\ Contents(d) = Contents(deque)
    BY HeldIs, RoomMade
  <2>2. Holding(z) /\ z.capacity = d.capacity /\ Contents(z) = OneMore(Contents(deque), e, n)
    BY <2>1, PushedBack DEF Keeps
  <2>3. slots \subseteq 0..(z.capacity - 1)
    <3>1. d.last \in Nat /\ d.capacity \in Nat
      BY <2>1, ShapeFields DEF Holding
    <3> HIDE DEF z
    <3> QED
      BY <2>1, <2>2, <3>1
  <2>4. Commit(z, slots, Done) /\ n \in Nat
    BY <1>1, HeldIs DEF Update
  <2>5. Holding(deque') /\ Abs!Insert(e, n)
    <3> HIDE DEF z, slots, n
    <3> QED
      BY <2>2, <2>3, <2>4, PutIn
  <2> QED
    BY <2>5
<1>2. CASE Refuse(CC_ERR_ALLOC)
  BY <1>2, Rejected DEF Refuse, Abs!AddLast
<1> QED
  BY <1>1, <1>2 DEF AddLast, Abs!AddLast

\* Where nothing is, an index is out of range.
LEMMA NothingThere ==
  ASSUME Sound, deque.size = 0, Refuse(CC_ERR_OUT_OF_RANGE)
  PROVE  /\ Holding(deque') /\ Abs!NotThere /\ Contents(deque) = <<>>
         /\ Abs!RemoveAt(0) /\ Abs!GetAt(0)
<1>1. Holding(deque') /\ Abs!NotThere
  BY Rejected DEF Refuse
<1>2. Contents(deque) = <<>> /\ 0 >= Len(Contents(deque))
  BY HeldIs
<1> QED
  BY <1>1, <1>2 DEF Abs!RemoveAt, Abs!GetAt

LEMMA FrontKept ==
  ASSUME Sound
  PROVE  /\ RemoveFirst => Holding(deque') /\ Abs!RemoveFirst
         /\ GetFirst => Holding(deque') /\ Abs!GetFirst
<1> DEFINE slots == {deque.first}
           z == PopFront(deque)
           r == Got(deque.buffer[deque.first])
<1>1. slots \subseteq 0..(deque.capacity - 1) /\ r = Got(At(deque, 0))
  <2>1. Shape(deque)
    BY HeldIs
  <2>2. deque.first \in 0..(deque.capacity - 1)
    BY <2>1, ShapeFields
  <2> QED
    BY <2>1, <2>2, EndsAt
<1>2. CASE deque.size = 0
  BY <1>2, NothingThere
     DEF RemoveFirst, GetFirst, Abs!RemoveFirst, Abs!GetFirst
<1>3. CASE deque.size # 0
  <2>1. 0 \in 0..(deque.size - 1)
    BY <1>3, HeldIs
  <2>2. Holding(z) /\ z.capacity = deque.capacity /\ Contents(z) = Removed(Contents(deque), 0)
    BY <1>3, HeldIs, PoppedFront DEF Keeps
  <2>3. RemoveFirst => Commit(z, slots, r)
    BY <1>3 DEF RemoveFirst, Update
  <2>4. GetFirst => Commit(deque, slots, r)
    BY <1>3 DEF GetFirst, Update
  <2> HIDE DEF z, slots, r
  <2>5. ASSUME Commit(z, slots, r) PROVE Holding(deque') /\ Abs!RemoveAt(0)
    BY <1>1, <2>1, <2>2, <2>5, TakenOut
  <2>6. ASSUME Commit(deque, slots, r) PROVE Holding(deque') /\ Abs!GetAt(0)
    BY <1>1, <2>1, <2>6, ReadAt
  <2> QED
    BY <2>3, <2>4, <2>5, <2>6 DEF Abs!RemoveFirst, Abs!GetFirst
<1> QED
  BY <1>2, <1>3

LEMMA BackKept ==
  ASSUME Sound
  PROVE  /\ RemoveLast => Holding(deque') /\ Abs!RemoveLast
         /\ GetLast => Holding(deque') /\ Abs!GetLast
<1> DEFINE s == Mask(deque, deque.last - 1)
           slots == {s}
           z == PopBack(deque)
           r == Got(deque.buffer[s])
           i == deque.size - 1
<1>1. slots \subseteq 0..(deque.capacity - 1) /\ (deque.size # 0 => r = Got(At(deque, i)))
  <2>1. deque.last - 1 \in Int /\ Shape(deque)
    BY HeldIs, ShapeFields
  <2> QED
    BY <2>1, ElementIs, EndsAt
<1>2. CASE deque.size = 0
  BY <1>2, NothingThere
     DEF RemoveLast, GetLast, Abs!RemoveLast, Abs!GetLast
<1>3. CASE deque.size # 0
  <2>1. i \in 0..(deque.size - 1) /\ i = Len(Contents(deque)) - 1 /\ Contents(deque) # <<>>
    BY <1>3, HeldIs
  <2>2. Holding(z) /\ z.capacity = deque.capacity /\ Contents(z) = Removed(Contents(deque), i)
    BY <1>3, HeldIs, PoppedBack DEF Keeps
  <2>3. RemoveLast => Commit(z, slots, r)
    BY <1>3 DEF RemoveLast, Update
  <2>4. GetLast => Commit(deque, slots, r)
    BY <1>3 DEF GetLast, Update
  <2>5. r = Got(At(deque, i))
    BY <1>1, <1>3
  <2> HIDE DEF z, slots, r, i
  <2>6. ASSUME Commit(z, slots, r) PROVE Holding(deque') /\ Abs!RemoveAt(i)
    BY <1>1, <2>1, <2>2, <2>5, <2>6, TakenOut
  <2>7. ASSUME Commit(deque, slots, r) PROVE Holding(deque') /\ Abs!GetAt(i)
    BY <1>1, <2>1, <2>5, <2>7, ReadAt
  <2> QED
    BY <2>1, <2>3, <2>4, <2>6, <2>7 DEF Abs!RemoveLast, Abs!GetLast
<1> QED
  BY <1>2, <1>3

LEMMA RemoveAllKept ==
  ASSUME Sound, RemoveAll
  PROVE  Holding(deque') /\ Abs!RemoveAll
<1> DEFINE d == [deque EXCEPT !.first = 0, !.last = 0, !.size = 0]
<1>1. Shape(deque')
  BY RemoveAllStep DEF Sound, DequeInv
<1>2. deque' = d /\ ret' = Done
  BY DEF RemoveAll, Update, Commit, Return, Sound, Tight
<1>3. deque'.size = 0
  BY <1>2, HeldIs DEF Shape, Deques
<1>4. Holding(deque')
  BY <1>1, <1>3 DEF Holding
<1>5. Contents(deque') = <<>>
  BY <1>3 DEF Contents
<1> QED
  BY <1>2, <1>4, <1>5, SameResults DEF Abs!RemoveAll

LEMMA ReplaceMiddleKept ==
  ASSUME Sound, NEW e \in Elements, NEW i \in Nat, ReplaceMiddle(e, i)
  PROVE  Holding(deque') /\ Abs!ReplaceAt(e, i)
<1> DEFINE z == Replaced(deque, i, e)
           slots == {Slot(deque, i)}
           r == Got(Element(i))
<1>1. CASE ~InRange(i) /\ Reject(CC_ERR_OUT_OF_RANGE)
  <2>1. i >= Len(Contents(deque))
    BY <1>1, HeldIs DEF InRange
  <2> QED
    BY <1>1, <2>1, Rejected DEF Abs!ReplaceAt
<1>2. CASE InRange(i) /\ Commit(z, slots, r)
  <2>1. i \in 0..(deque.size - 1) /\ i + 1 \in 1..deque.size /\ i + 1 - 1 = i
        /\ i < Len(Contents(deque))
    BY <1>2, HeldIs DEF InRange
  <2>2. /\ Holding(z) /\ z.capacity = deque.capacity
        /\ Contents(z) = [Contents(deque) EXCEPT ![i + 1] = e]
    BY <2>1, HeldIs, PutInPlace DEF Keeps
  <2>3. slots \subseteq 0..(z.capacity - 1)
    <3> HIDE DEF z
    <3> QED
      BY <2>1, <2>2, HeldIs, ElementIs
  <2>4. r = Got(Contents(deque)[i + 1])
    BY <2>1, HeldIs DEF Element, At
  <2> HIDE DEF z, slots, r
  <2>5. Holding(deque') /\ Contents(deque)' = Contents(z) /\ ret' = r
    BY <1>2, <2>2, <2>3, Committed
  <2> QED
    BY <2>1, <2>2, <2>4, <2>5, SameResults DEF Abs!ReplaceAt
<1>3. ReplaceMiddle(e, i)
  OBVIOUS
<1> QED
  BY <1>1, <1>2, <1>3 DEF ReplaceMiddle, Replaced

LEMMA RemoveMiddleKept ==
  ASSUME Sound, NEW i \in Int, InRange(i), RemoveMiddle(i)
  PROVE  /\ Holding(deque') /\ ret' = Got(Element(i))
         /\ deque'.size = deque.size - 1 /\ i \in 0..(deque.size - 1)
         /\ ~TearsAt(deque, i) => /\ Abs!RemoveAt(i)
                                  /\ Contents(deque)' = Removed(Contents(deque), i)
         /\ TearsAt(deque, i) => Torn(i)
<1> DEFINE z == DeleteAt(deque, i)
           slots == {Slot(deque, i)}
           r == Got(Element(i))
<1>1. i \in 0..(deque.size - 1)
  BY HeldIs DEF InRange
<1>2. /\ Holding(z) /\ z.capacity = deque.capacity /\ z.size = deque.size - 1
      /\ ~TearsAt(deque, i) => Contents(z) = Removed(Contents(deque), i)
  BY <1>1, HeldIs, Deleted DEF Keeps
<1>3. slots \subseteq 0..(z.capacity - 1)
  <2> HIDE DEF z
  <2> QED
    BY <1>2, HeldIs, ElementIs
<1>4. r = Got(At(deque, i)) /\ Commit(z, slots, r)
  BY DEF Element, At, RemoveMiddle
<1> HIDE DEF z, slots, r
<1>5. ~TearsAt(deque, i)
        => Abs!RemoveAt(i) /\ Contents(deque)' = Removed(Contents(deque), i)
  BY <1>1, <1>2, <1>3, <1>4, TakenOut
<1>6. deque' = z /\ Holding(deque') /\ ret' = r
  BY <1>2, <1>3, <1>4, Committed
<1> QED
  BY <1>1, <1>2, <1>5, <1>6 DEF r, Torn

LEMMA RemoveAtKept ==
  ASSUME Sound, NEW i \in Nat, RemoveAt(i)
  PROVE  Holding(deque') /\ (Abs!RemoveAt(i) \/ Torn(i))
<1>1. CASE ~InRange(i) /\ Refuse(CC_ERR_OUT_OF_RANGE)
  <2>1. i >= Len(Contents(deque))
    BY <1>1, HeldIs DEF InRange
  <2> QED
    BY <1>1, <2>1, Rejected DEF Refuse, Abs!RemoveAt
<1>2. CASE InRange(i) /\ RemoveMiddle(i)
  BY <1>2, RemoveMiddleKept
<1> QED
  BY <1>1, <1>2 DEF RemoveAt

LEMMA FirstOccurrence ==
  ASSUME Sound, NEW e
  PROVE  /\ IndexOf(e) = {} => \A j \in 1..Len(Contents(deque)) : Contents(deque)[j] # e
         /\ \A i \in IndexOf(e) :
              /\ i \in Int /\ InRange(i)
              /\ i + 1 \in 1..Len(Contents(deque)) /\ Contents(deque)[i + 1] = e
              /\ \A j \in 1..i : Contents(deque)[j] # e
<1> DEFINE n == deque.size
           c == Contents(deque)
<1>1. n \in Nat /\ Len(c) = n
  BY HeldIs
<1>2. \A j \in 1..n : j - 1 \in 0..(n - 1) /\ c[j] = Element(j - 1)
  BY <1>1, HeldIs DEF Element, At
<1> HIDE DEF c
<1>3. ASSUME IndexOf(e) = {}, NEW j \in 1..n, c[j] = e PROVE FALSE
  <2> DEFINE T == {s \in 0..(n - 1) : Element(s) = e}
  <2>1. j - 1 \in T
    BY <1>2, <1>3
  <2>2. T \subseteq Nat
    BY <1>1
  <2>3. PICK s \in T : \A y \in T : s <= y
    <3> HIDE DEF T
    <3> QED
      BY <2>1, <2>2, Least
  <2>4. ASSUME NEW y \in 0..(s - 1) PROVE Element(y) # e
    <3>1. y \in 0..(n - 1) /\ ~(s <= y)
      BY <1>1, <2>2
    <3> QED
      BY <2>3, <3>1
  <2>5. s \in IndexOf(e)
    BY <2>4 DEF IndexOf
  <2> QED
    BY <1>3, <2>5
<1>4. ASSUME NEW i \in IndexOf(e)
      PROVE  /\ i \in Int /\ InRange(i)
             /\ i + 1 \in 1..n /\ c[i + 1] = e
             /\ \A j \in 1..i : c[j] # e
  <2>1. /\ i \in 0..(n - 1) /\ Element(i) = e
        /\ \A j \in 0..(i - 1) : Element(j) # e
    BY DEF IndexOf
  <2>2. i \in Int /\ InRange(i) /\ i + 1 \in 1..n /\ i + 1 - 1 = i
    BY <1>1, <2>1 DEF InRange
  <2>3. c[i + 1] = e
    BY <1>2, <2>1, <2>2
  <2>4. ASSUME NEW j \in 1..i PROVE c[j] # e
    <3>1. j \in 1..n /\ j - 1 \in 0..(i - 1)
      BY <1>1, <2>1
    <3> QED
      BY <1>2, <2>1, <3>1
  <2> QED
    BY <2>2, <2>3, <2>4
<1> QED
  BY <1>1, <1>3, <1>4 DEF c

LEMMA RemoveKept ==
  ASSUME Sound, NEW e, Remove(e)
  PROVE  Holding(deque') /\ (Abs!Remove(e) \/ \E i \in IndexOf(e) : Torn(i))
<1>1. CASE IndexOf(e) = {} /\ Refuse(CC_ERR_OUT_OF_RANGE)
  <2>1. Holding(deque') /\ Abs!NotThere
    BY <1>1, Rejected DEF Refuse
  <2> QED
    BY <1>1, <2>1, FirstOccurrence DEF Abs!Remove
<1>2. ASSUME NEW i \in IndexOf(e), RemoveMiddle(i)
      PROVE  Holding(deque') /\ (Abs!Remove(e) \/ Torn(i))
  <2> DEFINE c == Contents(deque)
             j == i + 1
  <2>1. /\ i \in Int /\ InRange(i) /\ j \in 1..Len(c) /\ c[j] = e
        /\ \A k \in 1..i : c[k] # e
    BY FirstOccurrence
  <2>2. Holding(deque') /\ (Abs!RemoveAt(i) \/ Torn(i))
    BY <1>2, <2>1, RemoveMiddleKept
  <2>3. j - 1 = i
    BY <2>1
  <2> HIDE DEF c, j
  <2>4. (Abs!RemoveAt(j - 1) \/ Torn(i)) /\ \A k \in 1..(j - 1) : c[k] # e
    BY <2>1, <2>2, <2>3
  <2> QED
    BY <2>1, <2>2, <2>4 DEF Abs!Remove, c
<1> QED
  BY <1>1, <1>2 DEF Remove

LEMMA ReverseKept ==
  ASSUME Sound, Reverse
  PROVE  Holding(deque') /\ Abs!Reverse
<1> DEFINE z == Reversed(deque)
<1>1. /\ Holding(z)
      /\ Contents(z) = [i \in 1..deque.size |-> Contents(deque)[deque.size + 1 - i]]
  BY HeldIs, TurnedRound
<1>2. Commit(z, {}, Done)
  BY DEF Reverse, Update
<1> HIDE DEF z
<1>3. Holding(deque') /\ Contents(deque)' = Contents(z) /\ ret' = Done
  BY <1>1, <1>2, Committed
<1> QED
  BY <1>1, <1>3, HeldIs, SameResults DEF Abs!Reverse

LEMMA FilterMutKept ==
  ASSUME Sound, NEW keep, FilterMut(keep)
  PROVE  Holding(deque') /\ (Abs!Filter(keep) \/ TornFilter(keep))
<1> DEFINE z == Filtered(deque, keep)
<1>1. CASE deque.size = 0 /\ Refuse(CC_ERR_OUT_OF_RANGE)
  BY <1>1, NothingThere DEF Abs!Filter
<1>2. CASE deque.size # 0 /\ Commit(z, {}, Done)
  <2>1. Holding(z) /\ (~FilterTears(deque, keep)
                         => Contents(z) = Selected(Contents(deque), keep))
    BY HeldIs, FilteredHolds, FilteredOut
  <2> HIDE DEF z
  <2>2. Holding(deque') /\ Contents(deque)' = Contents(z) /\ ret' = Done
    BY <1>2, <2>1, Committed
  <2>3. Contents(deque) # <<>>
    BY <1>2, HeldIs
  <2>4. Abs!Selected(Contents(deque), keep) = Selected(Contents(deque), keep)
    BY DEF Abs!Selected, Selected
  <2> QED
    BY <2>1, <2>2, <2>3, <2>4, SameResults DEF Abs!Filter, TornFilter
<1> QED
  BY <1>1, <1>2 DEF FilterMut, Update

-----------------------------------------------------------------------------
\* The iterator: what it still owes, and what it returned last.

WalkFits ==
  /\ walk \in [on : BOOLEAN, rest : Seq(Elements), fresh : BOOLEAN]
  /\ WalkInOrder
  /\ walk.fresh => /\ ~iter.last_removed /\ iter.index \in 1..deque.size
                   /\ ret = Got(Element(iter.index - 1))

\* The rest of a sequence, element by element.
LEMMA RestIs ==
  ASSUME NEW s \in Seq(Elements), NEW n, n = Len(s), NEW i \in 0..n
  PROVE  LET r == SubSeq(s, i + 1, n)
         IN  /\ r \in Seq(Elements) /\ Len(r) = n - i
             /\ \A j \in 1..(n - i) : r[j] = s[i + j]
<1> DEFINE r == SubSeq(s, i + 1, n)
<1>1. r \in Seq(Elements) /\ Len(r) = n - i
  OBVIOUS
<1>2. ASSUME NEW j \in 1..(n - i) PROVE r[j] = s[i + j]
  <2>1. r[j] = s[i + 1 + j - 1] /\ i + 1 + j - 1 = i + j
    OBVIOUS
  <2> QED
    BY <2>1
<1> QED
  BY <1>1, <1>2

LEMMA TailOfRest ==
  ASSUME NEW s \in Seq(Elements), NEW n, n = Len(s), NEW i \in 0..(n - 1)
  PROVE  Tail(SubSeq(s, i + 1, n)) = SubSeq(s, i + 1 + 1, n)
<1> DEFINE k == i + 1
           r == SubSeq(s, i + 1, n)
           t == SubSeq(s, k + 1, n)
           u == Tail(r)
<1>1. n \in Nat /\ i \in 0..n /\ k \in 0..n /\ n - i > 0 /\ n - i - 1 = n - k
  OBVIOUS
<1>2. r \in Seq(Elements) /\ Len(r) = n - i /\ \A j \in 1..(n - i) : r[j] = s[i + j]
  BY <1>1, RestIs
<1>3. t \in Seq(Elements) /\ Len(t) = n - k /\ \A j \in 1..(n - k) : t[j] = s[k + j]
  <2> HIDE DEF k
  <2> QED
    BY <1>1, RestIs
<1> HIDE DEF r, t
<1>4. u \in Seq(Elements) /\ Len(u) = n - k /\ \A j \in 1..(n - k) : u[j] = r[j + 1]
  <2>1. Len(r) > 0
    BY <1>1, <1>2
  <2>2. /\ u \in Seq(Elements) /\ Len(u) = Len(r) - 1
        /\ \A j \in 1..(Len(r) - 1) : u[j] = r[j + 1]
    BY <1>2, <2>1, Beheaded
  <2> QED
    BY <1>1, <1>2, <2>2
<1> HIDE DEF u
<1>5. ASSUME NEW j \in 1..(n - k) PROVE u[j] = t[j]
  <2>1. j + 1 \in 1..(n - i) /\ i + (j + 1) = k + j
    BY <1>1
  <2>2. r[j + 1] = s[i + (j + 1)]
    BY <1>2, <2>1
  <2> QED
    BY <1>3, <1>4, <2>1, <2>2
<1>6. u = t
  BY <1>3, <1>4, <1>5, SameSequence
<1> QED
  BY <1>6 DEF u, t, r

LEMMA RestStays ==
  ASSUME NEW s \in Seq(Elements), NEW n, n = Len(s), NEW i \in 0..(n - 1)
  PROVE  SubSeq(Removed(s, i), i + 1, n - 1) = SubSeq(s, i + 1 + 1, n)
<1> DEFINE k == i + 1
           m == n - 1
           v == Removed(s, i)
           r == SubSeq(v, i + 1, m)
           t == SubSeq(s, k + 1, n)
<1>1. n \in Nat /\ i \in 0..m /\ k \in 0..n /\ m - i = n - k /\ m \in Nat
  OBVIOUS
<1>2. /\ v \in Seq(Elements) /\ m = Len(v)
      /\ \A j \in 1..m : v[j] = IF j <= i THEN s[j] ELSE s[j + 1]
  BY RemovedPlaces
<1>3. t \in Seq(Elements) /\ Len(t) = n - k /\ \A j \in 1..(n - k) : t[j] = s[k + j]
  <2> HIDE DEF k
  <2> QED
    BY <1>1, RestIs
<1>4. r \in Seq(Elements) /\ Len(r) = m - i /\ \A j \in 1..(m - i) : r[j] = v[i + j]
  <2> HIDE DEF m, v
  <2> QED
    BY <1>1, <1>2, RestIs
<1> HIDE DEF v, r, t
<1>5. ASSUME NEW j \in 1..(n - k) PROVE r[j] = t[j]
  <2>1. /\ i + j \in 1..m /\ ~(i + j <= i) /\ i + j + 1 = k + j /\ j \in 1..(m - i)
    BY <1>1
  <2>2. r[j] = v[i + j] /\ v[i + j] = s[i + j + 1]
    BY <1>2, <1>4, <2>1
  <2> QED
    BY <1>3, <2>1, <2>2
<1>6. r = t
  BY <1>1, <1>3, <1>4, <1>5, SameSequence
<1> QED
  BY <1>6 DEF v, r, t

LEMMA WalkEnds ==
  ASSUME EndWalk
  PROVE  WalkFits'
<1>1. walk' = NoWalk
  BY DEF EndWalk
<1>2. <<>> \in Seq(Elements)
  OBVIOUS
<1> QED
  BY <1>1, <1>2 DEF WalkFits, WalkInOrder, NoWalk

LEMMA IterInitKept ==
  ASSUME Sound, IterInit
  PROVE  Holding(deque') /\ Abs!Copy /\ WalkFits'
<1> DEFINE c == Contents(deque)
<1>1. /\ deque' = deque /\ ret' = Done /\ iter' = [index |-> 0, last_removed |-> FALSE]
      /\ walk' = [on |-> TRUE, rest |-> c, fresh |-> FALSE]
  BY DEF IterInit, NewIter, Return
<1>2. c \in Seq(Elements) /\ Len(c) = deque.size /\ Holding(deque)
  BY HeldIs
<1>3. Contents(deque)' = c
  BY <1>1
<1> HIDE DEF c
<1>4. c = SubSeq(c, 0 + 1, deque.size)
  BY <1>2
<1>5. WalkFits'
  <2>1. walk' \in [on : BOOLEAN, rest : Seq(Elements), fresh : BOOLEAN]
    BY <1>1, <1>2
  <2>2. WalkInOrder'
    BY <1>1, <1>3, <1>4 DEF WalkInOrder
  <2> QED
    BY <1>1, <2>1, <2>2 DEF WalkFits
<1>6. Abs!Copy
  BY <1>1, <1>3, SameResults DEF Abs!Copy, Abs!Keep, Abs!Same, c
<1> QED
  BY <1>1, <1>2, <1>5, <1>6

LEMMA IterNextKept ==
  ASSUME Sound, WalkFits, iter \in Iters, IterNext
  PROVE  /\ Holding(deque') /\ WalkFits'
         /\ Abs!WalkOver \/ (iter.index < deque.size /\ Abs!GetAt(iter.index))
<1> DEFINE c == Contents(deque)
           n == deque.size
           i == iter.index
<1>1. /\ deque' = deque /\ Holding(deque) /\ c \in Seq(Elements) /\ Len(c) = n /\ n \in Nat
      /\ i \in Nat /\ walk \in [on : BOOLEAN, rest : Seq(Elements), fresh : BOOLEAN]
  BY HeldIs DEF IterNext, Iters, WalkFits
<1>2. Contents(deque)' = c
  BY <1>1
<1>3. walk.on => walk.rest = SubSeq(c, i + 1, n)
  BY DEF WalkFits, WalkInOrder
<1> HIDE DEF c
<1>4. CASE /\ ret' = Refused(CC_ITER_END) /\ iter' = iter
           /\ walk' = [walk EXCEPT !.fresh = FALSE]
  <2>1. Abs!WalkOver
    BY <1>2, <1>4, SameResults
       DEF Abs!WalkOver, Abs!Refuse, Abs!CC_ITER_END, CC_ITER_END, c
  <2>2. /\ walk' \in [on : BOOLEAN, rest : Seq(Elements), fresh : BOOLEAN]
        /\ walk'.on = walk.on /\ walk'.rest = walk.rest /\ walk'.fresh = FALSE
    BY <1>1, <1>4
  <2>3. WalkFits'
    BY <1>1, <1>2, <1>3, <1>4, <2>2 DEF WalkFits, WalkInOrder
  <2> QED
    BY <1>1, <2>1, <2>3
<1>5. CASE /\ ~AtEnd /\ ret' = Got(Element(i))
           /\ iter' = [index |-> i + 1, last_removed |-> FALSE]
           /\ walk' = [walk EXCEPT !.fresh = TRUE,
                                   !.rest = IF walk.on THEN Tail(@) ELSE @]
  <2>1. i < n /\ i \in 0..(n - 1)
    BY <1>1, <1>5 DEF AtEnd
  <2>2. c[i + 1] = Element(i) /\ i < Len(c)
    <3>1. i + 1 \in 1..n /\ i + 1 - 1 = i
      BY <1>1, <2>1
    <3> QED
      BY <1>1, <2>1, <3>1, HeldIs DEF c, Element, At
  <2>3. Abs!GetAt(i)
    BY <1>2, <1>5, <2>2, SameResults DEF Abs!GetAt, c
  <2>4. walk.on => Tail(walk.rest) \in Seq(Elements)
                   /\ Tail(walk.rest) = SubSeq(c, i + 1 + 1, n)
    <3>1. ASSUME walk.on PROVE Tail(walk.rest) = SubSeq(c, i + 1 + 1, n)
      <4>1. walk.rest = SubSeq(c, i + 1, n)
        BY <1>3, <3>1
      <4> HIDE DEF i, n
      <4>2. Tail(SubSeq(c, i + 1, n)) = SubSeq(c, i + 1 + 1, n)
        BY <1>1, <2>1, TailOfRest
      <4> QED
        BY <4>1, <4>2
    <3>2. SubSeq(c, i + 1 + 1, n) \in Seq(Elements)
      <4> DEFINE k == i + 1
      <4>1. k \in 0..n
        BY <1>1, <2>1
      <4> HIDE DEF k
      <4>2. SubSeq(c, k + 1, n) \in Seq(Elements)
        BY <1>1, <4>1, RestIs
      <4> QED
        BY <4>2 DEF k
    <3> QED
      BY <3>1, <3>2
  <2>5. /\ walk' \in [on : BOOLEAN, rest : Seq(Elements), fresh : BOOLEAN]
        /\ walk'.on = walk.on
        /\ walk.on => walk'.rest = SubSeq(c, i + 1 + 1, n)
    <3> DEFINE q == Tail(walk.rest)
    <3> HIDE DEF q
    <3>1. walk' = [walk EXCEPT !.fresh = TRUE, !.rest = IF walk.on THEN q ELSE @]
      BY <1>5 DEF q
    <3>2. walk.on => q \in Seq(Elements) /\ q = SubSeq(c, i + 1 + 1, n)
      BY <2>4 DEF q
    <3> QED
      BY <1>1, <3>1, <3>2
  <2>6. iter'.index = i + 1 /\ iter'.last_removed = FALSE
    BY <1>5
  <2>7. WalkInOrder'
    BY <1>1, <1>2, <2>5, <2>6 DEF WalkInOrder
  <2>8. (ret = Got(Element(iter.index - 1)))' /\ iter'.index \in 1..n
    <3>1. iter'.index - 1 = i
      BY <1>1, <2>6
    <3>2. Element(iter.index - 1)' = deque'.buffer[Slot(deque', iter'.index - 1)]
      BY DEF Element
    <3>3. Element(iter.index - 1)' = Element(i)
      BY <1>1, <3>1, <3>2 DEF Element
    <3>4. ret' = Got(Element(i))
      BY <1>5
    <3> QED
      BY <1>1, <2>1, <2>6, <3>3, <3>4
  <2>9. WalkFits'
    <3>1. walk' \in [on : BOOLEAN, rest : Seq(Elements), fresh : BOOLEAN]
      BY <2>5
    <3>2. ~iter'.last_removed /\ (iter.index \in 1..deque.size)'
      BY <1>1, <2>6, <2>8
    <3> QED
      BY <2>7, <2>8, <3>1, <3>2 DEF WalkFits
  <2> QED
    BY <1>1, <2>1, <2>3, <2>9
<1> QED
  BY <1>4, <1>5 DEF IterNext, Return, Pause

\* An element that the iterator returned last can be removed, and is what is returned
\* again; the rest is not disturbed, unless the removal tears.
LEMMA IterRemoveKept ==
  ASSUME Sound, WalkFits, iter \in Iters, IterRemove
  PROVE  /\ Holding(deque') /\ WalkFits'
         /\ \/ ret'.stat # CC_OK /\ Abs!NotThere
            \/ /\ Abs!RemoveAt(iter.index - 1) \/ Torn(iter.index - 1)
               /\ iter.index - 1 \in 0..(deque.size - 1)
         /\ walk.fresh => ret' = ret
<1> DEFINE c == Contents(deque)
           n == deque.size
           i == iter.index - 1
<1>1. /\ Holding(deque) /\ c \in Seq(Elements) /\ Len(c) = n /\ n \in Nat
      /\ iter.index \in Nat /\ i \in Int
      /\ walk \in [on : BOOLEAN, rest : Seq(Elements), fresh : BOOLEAN]
  BY HeldIs DEF Iters, WalkFits
<1>2. walk.on => walk.rest = SubSeq(c, iter.index + 1, n)
  BY DEF WalkFits, WalkInOrder
<1>3. Pause => /\ walk' \in [on : BOOLEAN, rest : Seq(Elements), fresh : BOOLEAN]
               /\ walk'.on = walk.on /\ walk'.rest = walk.rest /\ walk'.fresh = FALSE
  BY <1>1 DEF Pause
<1>4. walk.fresh => ~iter.last_removed /\ InRange(i) /\ ret = Got(Element(i))
  <2>1. iter.index \in 1..n => InRange(i)
    BY <1>1 DEF InRange
  <2> QED
    BY <2>1 DEF WalkFits
<1>5. ASSUME NEW st \in {CC_ERR_OUT_OF_RANGE, CC_ERR_VALUE_NOT_FOUND},
             Reject(st), Pause, iter' = iter, iter.last_removed \/ ~InRange(i)
      PROVE  /\ Holding(deque') /\ WalkFits' /\ ret'.stat # CC_OK /\ Abs!NotThere
             /\ ~walk.fresh
  <2>1. /\ Holding(deque') /\ Contents(deque)' = c /\ ret' = Refused(st) /\ Abs!NotThere
        /\ deque' = deque
    BY <1>5, Rejected DEF Reject
  <2>2. ret'.stat # CC_OK
    BY <2>1 DEF Refused, Result, CC_OK, CC_ERR_OUT_OF_RANGE, CC_ERR_VALUE_NOT_FOUND
  <2> HIDE DEF c
  <2>3. WalkFits'
    BY <1>2, <1>3, <1>5, <2>1 DEF WalkFits, WalkInOrder
  <2> QED
    BY <1>4, <1>5, <2>1, <2>2, <2>3
<1>6. ASSUME ~iter.last_removed, InRange(i), RemoveMiddle(i),
             iter' = [index |-> i, last_removed |-> TRUE],
             IF TearsAt(deque, i) THEN walk' = NoWalk ELSE Pause
      PROVE  /\ Holding(deque') /\ WalkFits' /\ (Abs!RemoveAt(i) \/ Torn(i))
             /\ i \in 0..(n - 1) /\ ret' = Got(Element(i))
  <2>1. /\ Holding(deque') /\ ret' = Got(Element(i))
        /\ deque'.size = n - 1 /\ i \in 0..(n - 1)
        /\ ~TearsAt(deque, i) => Abs!RemoveAt(i) /\ Contents(deque)' = Removed(c, i)
        /\ TearsAt(deque, i) => Torn(i)
    <3> HIDE DEF i
    <3> QED
      BY <1>1, <1>6, RemoveMiddleKept
  <2> HIDE DEF c
  <2>2. CASE ~TearsAt(deque, i)
    <3>1. SubSeq(Removed(c, i), i + 1, n - 1) = SubSeq(c, i + 1 + 1, n)
      <4> HIDE DEF i, n
      <4> QED
        BY <1>1, <2>1, RestStays
    <3>2. i + 1 + 1 = iter.index + 1 /\ iter'.index = i
      BY <1>1, <1>6
    <3>3. walk.on => walk.rest = SubSeq(Removed(c, i), i + 1, n - 1)
      BY <1>2, <3>1, <3>2
    <3>4. Pause
      BY <1>6, <2>2
    <3> HIDE DEF i
    <3>5. WalkInOrder'
      BY <1>3, <2>1, <2>2, <3>2, <3>3, <3>4 DEF WalkInOrder
    <3> QED
      BY <1>3, <2>1, <2>2, <3>4, <3>5 DEF WalkFits
  <2>3. CASE TearsAt(deque, i)
    <3>1. walk' = NoWalk /\ <<>> \in Seq(Elements)
      BY <1>6, <2>3
    <3>2. WalkFits'
      BY <3>1 DEF WalkFits, WalkInOrder, NoWalk
    <3> QED
      BY <2>1, <2>3, <3>2
  <2> QED
    BY <2>2, <2>3
<1> QED
  BY <1>4, <1>5, <1>6 DEF IterRemove

-----------------------------------------------------------------------------
\* Every step

SeqInv == Sound /\ WalkFits

\* Calls of SeqSpec with an index, which may be one that is not there.
LEMMA IndexedSteps ==
  ASSUME Sound, NEW i \in Nat
  PROVE  /\ Abs!RemoveAt(i) => Abs!Next
         /\ Abs!GetAt(i) => Abs!Next
         /\ \A e \in Elements : Abs!ReplaceAt(e, i) => Abs!Next
<1>1. i \in Abs!Indices \/ i >= Len(Contents(deque))
  BY HeldIs DEF Abs!Indices
<1>2. CASE i \in Abs!Indices
  BY <1>2 DEF Abs!Next
<1>3. CASE i >= Len(Contents(deque))
  <2>1. ~(i < Len(Contents(deque)))
    BY <1>3, HeldIs
  <2> QED
    BY <2>1 DEF Abs!Next, Abs!RemoveAt, Abs!GetAt, Abs!ReplaceAt
<1> QED
  BY <1>1, <1>2, <1>3

LEMMA TornIsAStep ==
  ASSUME Sound, NEW i \in Int, Torn(i)
  PROVE  SeqStep
<1>1. /\ 0 <= i /\ i < deque.size
      /\ deque.size \in Nat /\ deque.capacity \in Nat /\ deque.size <= deque.capacity
      /\ deque.capacity <= MaxCapacity /\ MaxCapacity \in Nat
  BY ShapeFields, DequeConstants DEF Torn, InRange, Sound, DequeInv, Shape
<1>2. i \in Indices
  BY <1>1 DEF Indices
<1> QED
  BY <1>2 DEF SeqStep

LEMMA EndsPromise ==
  ASSUME Sound
  PROVE  EndsKeepPromise
BY AddFirstKept, AddLastKept, FrontKept, BackKept, RemoveAllKept DEF EndsKeepPromise

LEMMA IndicesAreNat == Indices \subseteq Nat
BY DequeConstants DEF Indices

LEMMA MiddlePromise ==
  ASSUME Sound
  PROVE  MiddleKeepsPromise
<1>1. ASSUME NEW e \in Elements, NEW i \in Indices, ReplaceAt(e, i)
      PROVE  Abs!ReplaceAt(e, i)
  BY <1>1, IndicesAreNat, ReplaceMiddleKept DEF ReplaceAt
<1>2. ASSUME NEW i \in Indices, RemoveAt(i) PROVE Abs!RemoveAt(i) \/ Torn(i)
  BY <1>2, IndicesAreNat, RemoveAtKept
<1> QED
  BY <1>1, <1>2, RemoveKept, ReverseKept, FilterMutKept DEF MiddleKeepsPromise

LEMMA IterPromise ==
  ASSUME Sound, WalkFits
  PROVE  IterKeepsPromise
<1>1. iter \in Iters
  BY DEF Sound, DequeInv
<1>2. IterNext => Abs!WalkOver \/ Abs!GetAt(iter.index)
  BY <1>1, IterNextKept
<1>3. ASSUME IterRemove
      PROVE  /\ ret'.stat = CC_OK
                  => Abs!RemoveAt(iter.index - 1) \/ Torn(iter.index - 1)
             /\ walk.fresh => ret' = ret
  BY <1>1, <1>3, IterRemoveKept
<1> QED
  BY <1>2, <1>3 DEF IterKeepsPromise

LEMMA EndsGoOn ==
  ASSUME Sound, Ends
  PROVE  Abs!Next /\ Holding(deque') /\ EndWalk
<1>1. ASSUME NEW e \in Elements, AddFirst(e) \/ AddLast(e)
      PROVE  Abs!Next /\ Holding(deque') /\ EndWalk
  <2>1. EndWalk
    BY <1>1 DEF AddFirst, AddLast, Update, Refuse
  <2>2. Holding(deque') /\ (Abs!AddFirst(e) \/ Abs!AddLast(e))
    BY <1>1, AddFirstKept, AddLastKept
  <2> QED
    BY <2>1, <2>2 DEF Abs!Next
<1>2. ASSUME RemoveFirst \/ RemoveLast \/ GetFirst \/ GetLast \/ RemoveAll
      PROVE  Abs!Next /\ Holding(deque') /\ EndWalk
  <2>1. EndWalk
    BY <1>2 DEF RemoveFirst, RemoveLast, GetFirst, GetLast, RemoveAll, Update, Refuse
  <2>2. /\ Holding(deque')
        /\ Abs!RemoveFirst \/ Abs!RemoveLast \/ Abs!GetFirst \/ Abs!GetLast \/ Abs!RemoveAll
    BY <1>2, FrontKept, BackKept, RemoveAllKept
  <2> QED
    BY <2>1, <2>2 DEF Abs!Next
<1> QED
  BY <1>1, <1>2 DEF Ends

LEMMA MiddleGoesOn ==
  ASSUME Sound, Calls \subseteq SequenceCalls, Middle
  PROVE  SeqStep /\ Holding(deque') /\ EndWalk
<1>1. "add_at" \notin Calls /\ "get_at" \notin Calls
  BY DEF SequenceCalls
<1>2. ASSUME NEW e \in Elements, NEW i \in Indices, ReplaceAt(e, i)
      PROVE  SeqStep /\ Holding(deque') /\ EndWalk
  <2>1. i \in Nat /\ ReplaceMiddle(e, i) /\ EndWalk
    BY <1>2, IndicesAreNat DEF ReplaceAt
  <2>2. Holding(deque') /\ Abs!ReplaceAt(e, i)
    BY <2>1, ReplaceMiddleKept
  <2> QED
    BY <2>1, <2>2, IndexedSteps DEF SeqStep
<1>3. ASSUME NEW i \in Indices, RemoveAt(i)
      PROVE  SeqStep /\ Holding(deque') /\ EndWalk
  <2>1. i \in Nat /\ EndWalk
    BY <1>3, IndicesAreNat DEF RemoveAt, Refuse
  <2>2. Holding(deque') /\ (Abs!RemoveAt(i) \/ Torn(i))
    BY <1>3, <2>1, RemoveAtKept
  <2> QED
    BY <2>1, <2>2, IndexedSteps, TornIsAStep DEF SeqStep
<1>4. ASSUME NEW e \in Elements, Remove(e)
      PROVE  SeqStep /\ Holding(deque') /\ EndWalk
  <2>1. EndWalk
    BY <1>4 DEF Remove, Refuse
  <2>2. Holding(deque') /\ (Abs!Remove(e) \/ \E i \in IndexOf(e) : Torn(i))
    BY <1>4, RemoveKept
  <2>3. \A i \in IndexOf(e) : i \in Int
    BY FirstOccurrence
  <2> QED
    BY <2>1, <2>2, <2>3, TornIsAStep DEF Abs!Next, SeqStep
<1> QED
  BY <1>1, <1>2, <1>3, <1>4 DEF Middle

LEMMA AllOfItGoesOn ==
  ASSUME Sound, Calls \subseteq SequenceCalls, AllOfIt
  PROVE  SeqStep /\ Holding(deque') /\ EndWalk
<1>1. /\ "filter" \notin Calls /\ "copy_shallow" \notin Calls
      /\ "copy_deep" \notin Calls /\ "trim_capacity" \notin Calls
  BY DEF SequenceCalls
<1>2. ASSUME Reverse PROVE SeqStep /\ Holding(deque') /\ EndWalk
  BY <1>2, ReverseKept DEF SeqStep, Abs!Next, Reverse, Update
<1>3. ASSUME NEW keep \in SUBSET Elements, FilterMut(keep)
      PROVE  SeqStep /\ Holding(deque') /\ EndWalk
  <2>1. EndWalk
    BY <1>3 DEF FilterMut, Refuse, Update
  <2>2. Holding(deque') /\ (Abs!Filter(keep) \/ TornFilter(keep))
    BY <1>3, FilterMutKept
  <2> QED
    BY <2>1, <2>2 DEF Abs!Next, SeqStep
<1> QED
  BY <1>1, <1>2, <1>3 DEF AllOfIt

LEMMA IterateGoesOn ==
  ASSUME Sound, WalkFits, Calls \subseteq SequenceCalls, Iterate
  PROVE  SeqStep /\ Holding(deque') /\ WalkFits'
<1>1. "iter_add" \notin Calls /\ "iter_replace" \notin Calls
  BY DEF SequenceCalls
<1>2. iter \in Iters /\ iter.index \in Nat
  BY DEF Sound, DequeInv, Iters
<1>3. ASSUME IterInit PROVE SeqStep /\ Holding(deque') /\ WalkFits'
  BY <1>3, IterInitKept DEF Abs!Next, SeqStep
<1>4. ASSUME IterNext PROVE SeqStep /\ Holding(deque') /\ WalkFits'
  <2>1. Holding(deque') /\ WalkFits' /\ (Abs!WalkOver \/ Abs!GetAt(iter.index))
    BY <1>2, <1>4, IterNextKept
  <2>2. Abs!GetAt(iter.index) => Abs!Next
    BY <1>2, IndexedSteps
  <2>3. Abs!WalkOver => Abs!Next
    BY DEF Abs!Next
  <2> QED
    BY <2>1, <2>2, <2>3 DEF SeqStep
<1>5. ASSUME IterRemove PROVE SeqStep /\ Holding(deque') /\ WalkFits'
  <2> DEFINE i == iter.index - 1
  <2>1. /\ Holding(deque') /\ WalkFits'
        /\ \/ Abs!NotThere
           \/ (Abs!RemoveAt(i) \/ Torn(i)) /\ i \in 0..(deque.size - 1)
    BY <1>2, <1>5, IterRemoveKept
  <2>2. i \in 0..(deque.size - 1) => i \in Nat /\ i \in Int
    BY HeldIs
  <2> HIDE DEF i
  <2>3. Abs!NotThere => Abs!Next
    BY DEF Abs!Next
  <2> QED
    BY <2>1, <2>2, <2>3, IndexedSteps, TornIsAStep DEF SeqStep
<1> QED
  BY <1>1, <1>3, <1>4, <1>5 DEF Iterate

LEMMA SeqInvKept ==
  ASSUME SeqInv, Calls \subseteq SequenceCalls, [Next]_vars
  PROVE  SeqInv' /\ [SeqStep]_(Abs!vars)
<1>1. Sound /\ WalkFits /\ DequeInv /\ Tight /\ Holding(deque)
  BY DEF SeqInv, Sound
<1>2. CASE UNCHANGED vars
  <2>1. deque' = deque /\ iter' = iter /\ walk' = walk /\ ret' = ret /\ fault' = fault
    BY <1>2 DEF vars
  <2>2. Contents(deque)' = Contents(deque)
    BY <2>1
  <2>3. Sound'
    BY <1>1, <2>1 DEF Sound, DequeInv, Tight
  <2>4. WalkFits'
    BY <1>1, <2>1, <2>2 DEF WalkFits, WalkInOrder, Element
  <2> QED
    BY <2>1, <2>2, <2>3, <2>4 DEF SeqInv, Abs!vars
<1>3. CASE Next
  <2>1. DequeInv' /\ Tight'
    <3>1. Calls \cap {"copy_shallow", "copy_deep", "trim_capacity"} = {}
      BY DEF SequenceCalls
    <3> QED
      BY <1>1, <3>1, InsideKept
  <2>2. SeqStep /\ Holding(deque') /\ (EndWalk \/ WalkFits')
    BY <1>1, <1>3, EndsGoOn, MiddleGoesOn, AllOfItGoesOn, IterateGoesOn DEF Next, SeqStep
  <2>3. WalkFits'
    BY <2>2, WalkEnds
  <2> QED
    BY <2>1, <2>2, <2>3 DEF SeqInv, Sound
<1> QED
  BY <1>2, <1>3

LEMMA SeqInvStarts ==
  ASSUME IsPowerOfTwo(InitCapacity), Init
  PROVE  SeqInv /\ Abs!Init
<1>1. DequeInv /\ Tight
  BY InitEstablishes
<1>2. deque.size = 0 /\ walk = NoWalk /\ ret = Done
  BY DEF Init
<1>3. Holding(deque)
  BY <1>1, <1>2 DEF Holding, DequeInv
<1>4. Contents(deque) = <<>>
  BY <1>2 DEF Contents
<1>5. WalkFits
  <2>1. <<>> \in Seq(Elements)
    OBVIOUS
  <2> QED
    BY <1>2, <2>1 DEF WalkFits, WalkInOrder, NoWalk
<1> QED
  BY <1>1, <1>2, <1>3, <1>4, <1>5, SameResults DEF SeqInv, Sound, Abs!Init

\* Each call of SequenceCalls on a deque, and of its iterator, does what SeqSpec says
\* of the call of that name, for any capacity, across every wrap and expansion and
\* whichever half is shifted: except a removal behind the middle of a buffer that
\* wraps with two elements or more at its start (TearsAt), which the code gets wrong.
\* That one returns the right element and leaves one less; and what a call after it
\* does to the elements it left is again what SeqSpec says.
THEOREM DequeIsASequence ==
  ASSUME IsPowerOfTwo(InitCapacity), Calls \subseteq SequenceCalls
  PROVE  Spec => IsASequence
<1>1. Init => SeqInv /\ Abs!Init
  BY SeqInvStarts
<1>2. SeqInv /\ [Next]_vars => SeqInv' /\ [SeqStep]_(Abs!vars)
  BY SeqInvKept
<1>3. SeqInv /\ [Next]_vars
        => [EndsKeepPromise /\ MiddleKeepsPromise /\ IterKeepsPromise]_vars
  BY EndsPromise, MiddlePromise, IterPromise DEF SeqInv
<1> QED
  BY <1>1, <1>2, <1>3, PTL DEF Spec, IsASequence

\* No reader of such a deque meets a slot that was never written, also after a
\* removal that tore: every element it counts is one some client stored.
THEOREM DequeHoldsElements ==
  ASSUME IsPowerOfTwo(InitCapacity), Calls \subseteq SequenceCalls
  PROVE  Spec => []NoStraySlot
<1>1. Init => SeqInv
  BY SeqInvStarts
<1>2. SeqInv /\ [Next]_vars => SeqInv'
  BY SeqInvKept
<1>3. SeqInv => NoStraySlot
  BY HeldIs DEF SeqInv, NoStraySlot
<1> QED
  BY <1>1, <1>2, <1>3, PTL DEF Spec

\* An iteration over it visits what was there at iter_init, in order, also while
\* elements are removed through the iterator: as long as none of these removals tears.
THEOREM DequeWalksInOrder ==
  ASSUME IsPowerOfTwo(InitCapacity), Calls \subseteq SequenceCalls
  PROVE  Spec => []WalkInOrder
<1>1. Init => SeqInv
  BY SeqInvStarts
<1>2. SeqInv /\ [Next]_vars => SeqInv'
  BY SeqInvKept
<1>3. SeqInv => WalkInOrder
  BY DEF SeqInv, WalkFits
<1> QED
  BY <1>1, <1>2, <1>3, PTL DEF Spec

-----------------------------------------------------------------------------
\* Failures

\* What a call that commits returns is no error.
LEMMA Succeeds ==
  ASSUME NEW d, NEW slots, NEW r, Commit(d, slots, r), r.stat = CC_OK
  PROVE  ret'.stat \in Errors => deque' = deque
BY DEF Commit, Return, Errors, CC_OK, CC_ERR_ALLOC, CC_ERR_KEY_NOT_FOUND,
       CC_ERR_VALUE_NOT_FOUND, CC_ERR_OUT_OF_RANGE, CC_ERR_INVALID_CAPACITY,
       CC_ERR_INVALID_RANGE, CC_ERR_MAX_CAPACITY

LEMMA Successes == Done.stat = CC_OK /\ \A e : Got(e).stat = CC_OK
BY DEF Done, Got, Result

LEMMA FailureStep ==
  ASSUME Next, ret'.stat \in Errors
  PROVE  deque' = deque
<1>1. ASSUME NEW st, Reject(st) PROVE deque' = deque
  BY <1>1 DEF Reject
<1>2. ASSUME NEW st, Refuse(st) PROVE deque' = deque
  BY <1>2 DEF Refuse, Reject
<1>3. ASSUME NEW d, NEW slots, NEW r, r.stat = CC_OK, Update(d, slots, r)
      PROVE  deque' = deque
  BY <1>3, Succeeds DEF Update
<1>4. CASE Ends
  BY <1>2, <1>3, <1>4, Successes
     DEF Ends, AddFirst, AddLast, RemoveFirst, RemoveLast, GetFirst, GetLast, RemoveAll
<1>5. ASSUME NEW i, RemoveMiddle(i) PROVE deque' = deque
  BY <1>5, Succeeds, Successes DEF RemoveMiddle
<1>6. ASSUME NEW e, NEW i, InsertMiddle(e, i) \/ ReplaceMiddle(e, i) PROVE deque' = deque
  <2>1. ASSUME InsertMiddle(e, i) PROVE deque' = deque
    <3>1. ASSUME NEW d, Commit(InsertAt(d, e, i), {Slot(d, i)}, Done)
          PROVE  deque' = deque
      BY <3>1, Succeeds, Successes
    <3> QED
      BY <1>1, <2>1, <3>1 DEF InsertMiddle
  <2>2. ASSUME ReplaceMiddle(e, i) PROVE deque' = deque
    <3>1. ASSUME NEW d, Commit(d, {Slot(deque, i)}, Got(Element(i)))
          PROVE  deque' = deque
      BY <3>1, Succeeds, Successes
    <3> QED
      BY <1>1, <2>2, <3>1 DEF ReplaceMiddle
  <2> QED
    BY <1>6, <2>1, <2>2
<1>7. CASE Middle
  <2>1. ASSUME NEW i, GetAt(i) PROVE deque' = deque
    BY <1>2, <1>3, <2>1, Successes DEF GetAt
  <2>2. ASSUME NEW i, RemoveAt(i) PROVE deque' = deque
    BY <1>2, <1>5, <2>2 DEF RemoveAt
  <2>3. ASSUME NEW e, Remove(e) PROVE deque' = deque
    BY <1>2, <1>5, <2>3 DEF Remove
  <2> QED
    BY <1>6, <1>7, <2>1, <2>2, <2>3 DEF Middle, AddAt, ReplaceAt
<1>8. ASSUME NEW d, Adopt(d) PROVE deque' = deque
  BY <1>8, Succeeds, Successes DEF Adopt
<1>9. CASE AllOfIt
  <2>1. ASSUME TrimCapacity PROVE deque' = deque
    BY <1>2, <1>3, <2>1, Successes DEF TrimCapacity, Answer
  <2> QED
    BY <1>2, <1>3, <1>8, <1>9, <2>1, Successes
       DEF AllOfIt, Reverse, FilterMut, Filter, CopyShallow, CopyDeep
<1>10. CASE Iterate
  <2>1. ASSUME IterRemove PROVE deque' = deque
    BY <1>1, <1>5, <2>1 DEF IterRemove
  <2> QED
    BY <1>6, <1>10, <2>1 DEF Iterate, IterInit, IterNext, IterAdd, IterReplace
<1> QED
  BY <1>4, <1>7, <1>9, <1>10 DEF Next

\* Whatever a client calls, and however large the deque: a call that returns an error
\* has changed nothing that a client can see.
THEOREM DequeFailureIsAtomic == Spec => FailureIsAtomic
<1>1. ASSUME [Next]_vars
      PROVE  [ret'.stat \in Errors => Contents(deque') = Contents(deque)]_vars
  BY <1>1, FailureStep
<1> QED
  BY <1>1, PTL DEF Spec, FailureIsAtomic
=============================================================================
