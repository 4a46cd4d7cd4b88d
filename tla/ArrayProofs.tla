----------------------------- MODULE ArrayProofs -----------------------------
(***************************************************************************)
(* Proofs on CCArray, for every set of elements, capacity, growth factor   *)
(* and limit: which memory it touches, and that it is a sequence; that the *)
(* stack over it is last in, first out; and which memory the array of      *)
(* blocks touches.                                                         *)
(***************************************************************************)
EXTENDS MCValues, SharedLemmas

-----------------------------------------------------------------------------
\* The invariant

\* An array on m slots, the first `size' of which hold elements.
Array(m) ==
  [size : 0..m, capacity : Nat, exp : Nat,
   buffer : [Slots(m) -> Elements \cup {NoElement}]]

Holds(a, m) ==
  /\ a \in Array(m) /\ a.size <= a.capacity
  /\ \A s \in Slots(a.size) : a.buffer[s] \in Elements

WellFormed(a) == \E m \in 0..MemLimit : Holds(a, m)

\* What the array believes it has, it has.
Roomy(a) == Slots(a.capacity) \subseteq DOMAIN a.buffer

BufferInv == WellFormed(array) /\ (refused \/ Roomy(array))

\* Right after iter_next the iterator stands behind the element returned.
IterInv ==
  /\ iter \in [index : Nat, last_removed : BOOLEAN]
  /\ fresh => /\ ~iter.last_removed
              /\ iter.index \in 1..array.size
              /\ ret = Got(array.buffer[iter.index - 1])

ArrayInv ==
  /\ BufferInv /\ IterInv
  /\ fault \in BOOLEAN /\ NoStrayAccess
  /\ kept = TRUE

LEMMA ContentsFacts ==
  ASSUME NEW a, WellFormed(a)
  PROVE  /\ Contents(a) \in Seq(Elements) /\ Len(Contents(a)) = a.size
         /\ DOMAIN Contents(a) = 1..a.size /\ a.size \in Nat
         /\ \A i \in 1..a.size : Contents(a)[i] = a.buffer[i - 1]
<1>1. PICK m \in 0..MemLimit : Holds(a, m)
  BY DEF WellFormed
<1>2. a.size \in Nat /\ \A s \in Slots(a.size) : a.buffer[s] \in Elements
  BY <1>1, ArrayConstants DEF Holds, Array
<1>3. \A i \in 1..a.size : i - 1 \in Slots(a.size)
  BY <1>2 DEF Slots
<1>4. Contents(a) \in [1..a.size -> Elements]
  BY <1>2, <1>3 DEF Contents
<1>5. Contents(a) \in Seq(Elements) /\ Len(Contents(a)) = a.size
  BY <1>2, <1>4
<1> QED
  BY <1>2, <1>4, <1>5 DEF Contents

\* Two arrays with the same elements.
LEMMA SameContents ==
  ASSUME NEW a, NEW z, z.size = a.size, a.size \in Nat,
         \A s \in Slots(a.size) : z.buffer[s] = a.buffer[s]
  PROVE  Contents(z) = Contents(a)
<1>1. \A i \in 1..a.size : i - 1 \in Slots(a.size)
  BY DEF Slots
<1> QED
  BY <1>1 DEF Contents

\* The results of SeqSpec are those of the array.
LEMMA SameResults ==
  /\ Abs!Done = Done
  /\ \A e : Abs!Got(e) = Got(e)
  /\ \A st : Abs!Refused(st) = Refused(st)
<1>1. Abs!Done = Done
  BY DEF Abs!Done, Abs!Result, Done, Result, Abs!CC_OK, CC_OK
<1>2. ASSUME NEW e PROVE Abs!Got(e) = Got(e)
  BY DEF Abs!Got, Abs!Result, Got, Result, Abs!CC_OK, CC_OK
<1>3. ASSUME NEW st PROVE Abs!Refused(st) = Refused(st)
  BY DEF Abs!Refused, Abs!Result, Refused, Result
<1> QED
  BY <1>1, <1>2, <1>3

LEMMA Refusals ==
  ASSUME NEW st, ret' = Refused(st), Contents(array)' = Contents(array)
  PROVE  /\ st \in {CC_ERR_ALLOC, CC_ERR_MAX_CAPACITY} => Abs!NoMemory
         /\ st \in {CC_ERR_OUT_OF_RANGE, CC_ERR_VALUE_NOT_FOUND} => Abs!NotThere
         /\ st = CC_ITER_END => Abs!WalkOver
         /\ st = CC_ERR_INVALID_RANGE => Abs!Refuse({Abs!CC_ERR_INVALID_RANGE})
<1> USE SameResults
    DEF Abs!Refuse, Abs!CC_ERR_ALLOC, Abs!CC_ERR_MAX_CAPACITY, Abs!CC_ERR_OUT_OF_RANGE,
        Abs!CC_ERR_VALUE_NOT_FOUND, Abs!CC_ITER_END, Abs!CC_ERR_INVALID_RANGE,
        CC_ERR_ALLOC, CC_ERR_MAX_CAPACITY, CC_ERR_OUT_OF_RANGE,
        CC_ERR_VALUE_NOT_FOUND, CC_ITER_END, CC_ERR_INVALID_RANGE
<1>1. st \in {CC_ERR_ALLOC, CC_ERR_MAX_CAPACITY} => Abs!NoMemory
  BY DEF Abs!NoMemory
<1>2. st \in {CC_ERR_OUT_OF_RANGE, CC_ERR_VALUE_NOT_FOUND} => Abs!NotThere
  BY DEF Abs!NotThere
<1>3. st = CC_ITER_END => Abs!WalkOver
  BY DEF Abs!WalkOver
<1>4. st = CC_ERR_INVALID_RANGE => Abs!Refuse({Abs!CC_ERR_INVALID_RANGE})
  OBVIOUS
<1> QED
  BY <1>1, <1>2, <1>3, <1>4

\* A call that refuses leaves everything as it was.
LEMMA Rejected ==
  ASSUME BufferInv, fault = FALSE, NEW st, Reject(st)
  PROVE  /\ BufferInv' /\ fault' = FALSE
         /\ ret' = Refused(st) /\ Contents(array)' = Contents(array)
BY DEF Reject, Return, BufferInv, WellFormed, Roomy

\* A call that puts a in the place of the array, if it used no slot that is not
\* there.
LEMMA Committed ==
  ASSUME BufferInv, fault = FALSE, NEW a, NEW slots, NEW r, Commit(a, slots, r),
         slots \subseteq DOMAIN a.buffer => WellFormed(a) /\ (refused \/ Roomy(a)),
         refused \/ array.size = 0 \/ slots \subseteq DOMAIN a.buffer
  PROVE  /\ BufferInv' /\ fault' \in BOOLEAN /\ NoStrayAccess'
         /\ ~fault' => array' = a /\ ret' = r
<1>1. CASE slots \subseteq DOMAIN a.buffer
  BY <1>1 DEF Commit, Return, BufferInv, NoStrayAccess
<1>2. CASE ~(slots \subseteq DOMAIN a.buffer)
  BY <1>2 DEF Commit, Crash, BufferInv, NoStrayAccess
<1> QED
  BY <1>1, <1>2

\* A call that goes on with a new array of n slots.
LEMMA Adopted ==
  ASSUME BufferInv, fault = FALSE, NEW a, NEW n, Adopt(a, n),
         n <= MemLimit => WellFormed(a) /\ Roomy(a)
  PROVE  /\ BufferInv' /\ fault' = FALSE
         /\ \/ ret' = Refused(CC_ERR_ALLOC) /\ Contents(array)' = Contents(array)
            \/ ret' = Done /\ array' = a /\ n <= MemLimit
<1>1. CASE Refuse(CC_ERR_ALLOC)
  BY <1>1, Rejected DEF Refuse
<1>2. CASE n <= MemLimit /\ Return(Done) /\ array' = a /\ refused' = FALSE
           /\ UNCHANGED fault
  BY <1>2 DEF Return, BufferInv
<1> QED
  BY <1>1, <1>2 DEF Adopt

-----------------------------------------------------------------------------
\* Insertion and removal

\* The array with other contents.
With(a, b, n) == [a EXCEPT !.buffer = b, !.size = n]

LEMMA ArrayOf ==
  ASSUME NEW m \in Nat, NEW a \in Array(m), NEW n \in 0..m,
         NEW b \in [Slots(m) -> Elements \cup {NoElement}]
  PROVE  /\ With(a, b, n) \in Array(m) /\ With(a, b, n).size = n
         /\ With(a, b, n).buffer = b /\ With(a, b, n).capacity = a.capacity
BY DEF Array, With

LEMMA InsertedAt ==
  ASSUME NEW a, WellFormed(a), a.size < a.capacity, NEW e \in Elements,
         NEW i \in 0..a.size, i..a.size \subseteq DOMAIN a.buffer
  PROVE  LET z == InsertAt(a, e, i)
             c == Contents(a)
         IN  /\ WellFormed(z) /\ (Roomy(a) => Roomy(z))
             /\ Contents(z) = SubSeq(c, 1, i) \o <<e>> \o SubSeq(c, i + 1, Len(c))
<1> DEFINE z == InsertAt(a, e, i)
           c == Contents(a)
           n == a.size
           d == SubSeq(c, 1, i) \o <<e>> \o SubSeq(c, i + 1, Len(c))
           b == [Move(a.buffer, i + 1, i, n - i) EXCEPT ![i] = e]
<1>1. PICK m \in 0..MemLimit : Holds(a, m)
  BY DEF WellFormed
<1>2. /\ a \in Array(m) /\ n \in Nat /\ a.capacity \in Nat /\ m \in Nat
      /\ i \in Nat /\ i <= n
      /\ a.buffer \in [Slots(m) -> Elements \cup {NoElement}]
      /\ \A s \in Slots(n) : a.buffer[s] \in Elements
  BY <1>1, ArrayConstants DEF Holds, Array
<1>3. n + 1 <= m
  <2>1. n \in i..n
    BY <1>2
  <2>2. n \in Slots(m)
    BY <1>2, <2>1
  <2> QED
    BY <1>2, <2>2 DEF Slots
<1>4. ASSUME NEW s \in Slots(m)
      PROVE  /\ s < i => b[s] = a.buffer[s]
             /\ s = i => b[s] = e
             /\ i < s /\ s <= n => b[s] = a.buffer[s - 1]
             /\ n < s => b[s] = a.buffer[s]
             /\ b[s] \in Elements \cup {NoElement}
             /\ s <= n => b[s] \in Elements
  <2>1. s \in Nat /\ s < m
    BY <1>2 DEF Slots
  <2>2. Move(a.buffer, i + 1, i, n - i)[s] =
          IF i + 1 <= s /\ s < i + 1 + (n - i) THEN a.buffer[s - (i + 1) + i] ELSE a.buffer[s]
    BY <1>2 DEF Move
  <2>3. DOMAIN Move(a.buffer, i + 1, i, n - i) = Slots(m)
    BY <1>2 DEF Move
  <2>4. s # i => b[s] = Move(a.buffer, i + 1, i, n - i)[s]
    BY <2>3
  <2>5. s = i => b[s] = e
    BY <2>3
  <2> HIDE DEF b
  <2>6. CASE s < i
    <3>1. b[s] = a.buffer[s] /\ s \in Slots(n)
      BY <1>2, <2>1, <2>2, <2>4, <2>6 DEF Slots
    <3> QED
      BY <1>2, <2>1, <2>6, <3>1
  <2>7. CASE s = i
    BY <1>2, <2>1, <2>5, <2>7
  <2>8. CASE i < s /\ s <= n
    <3>1. i + 1 <= s /\ s < i + 1 + (n - i) /\ s - (i + 1) + i = s - 1 /\ s - 1 \in Slots(n)
      BY <1>2, <2>1, <2>8 DEF Slots
    <3>2. b[s] = a.buffer[s - 1]
      BY <1>2, <2>1, <2>2, <2>4, <2>8, <3>1
    <3> QED
      BY <1>2, <2>1, <2>8, <3>1, <3>2
  <2>9. CASE n < s
    <3>1. ~(s < i + 1 + (n - i)) /\ s # i /\ ~(s < i) /\ ~(s <= n)
      BY <1>2, <2>1, <2>9
    <3>2. b[s] = a.buffer[s]
      BY <2>2, <2>4, <3>1
    <3> QED
      BY <1>2, <3>1, <3>2
  <2> QED
    BY <1>2, <2>1, <2>6, <2>7, <2>8, <2>9
<1>5. DOMAIN b = Slots(m) /\ b = [s \in Slots(m) |-> b[s]]
  BY <1>2 DEF Move
<1>6. z = With(a, b, n + 1)
  BY <1>2 DEF InsertAt, Array, With
<1> HIDE DEF b
<1>7. b \in [Slots(m) -> Elements \cup {NoElement}]
  BY <1>4, <1>5
<1>8. z \in Array(m) /\ z.size = n + 1 /\ z.buffer = b /\ z.capacity = a.capacity
  <2>1. n + 1 \in 0..m
    BY <1>2, <1>3
  <2> DEFINE y == With(a, b, n + 1)
  <2>2. y \in Array(m) /\ y.size = n + 1 /\ y.buffer = b /\ y.capacity = a.capacity
    BY <1>2, <1>7, <2>1, ArrayOf
  <2>3. z = y
    BY <1>6
  <2> HIDE DEF y, z
  <2> QED
    BY <2>2, <2>3
<1> HIDE DEF z
<1>9. Holds(z, m)
  <2>1. ASSUME NEW s \in Slots(n + 1) PROVE b[s] \in Elements
    <3>1. s \in Slots(m) /\ s <= n
      BY <1>2, <1>3 DEF Slots
    <3> QED
      BY <1>4, <3>1
  <2>2. z.size <= z.capacity
    BY <1>2, <1>8
  <2> QED
    BY <1>8, <2>1, <2>2 DEF Holds
<1>10. WellFormed(z) /\ (Roomy(a) => Roomy(z))
  BY <1>2, <1>8, <1>9 DEF WellFormed, Roomy, Array
<1>11. Contents(z) = d
  <2>1. /\ Contents(z) \in Seq(Elements) /\ Len(Contents(z)) = n + 1
        /\ \A j \in 1..(n + 1) : Contents(z)[j] = b[j - 1]
    BY <1>8, <1>10, ContentsFacts
  <2>2. /\ c \in Seq(Elements) /\ Len(c) = n
        /\ \A j \in 1..n : c[j] = a.buffer[j - 1]
    BY ContentsFacts
  <2> HIDE DEF c
  <2>3. /\ d \in Seq(Elements) /\ Len(d) = n + 1
        /\ \A j \in 1..(n + 1) : d[j] = IF j <= i THEN c[j]
                                 ELSE IF j = i + 1 THEN e ELSE c[j - 1]
    BY <2>2, WithOneMore, SMTT(30) DEF OneMore
  <2> HIDE DEF d
  <2>4. ASSUME NEW j \in 1..(n + 1) PROVE Contents(z)[j] = d[j]
    <3>1. j - 1 \in Slots(m) /\ j \in Nat
      BY <1>2, <1>3 DEF Slots
    <3>2. CASE j <= i
      <4>1. j - 1 < i /\ j \in 1..n
        BY <1>2, <3>1, <3>2
      <4> QED
        BY <1>4, <2>1, <2>2, <2>3, <3>1, <3>2, <4>1
    <3>3. CASE j = i + 1
      <4>1. j - 1 = i /\ ~(j <= i)
        BY <1>2, <3>1, <3>3
      <4>2. b[i] = e
        BY <1>4, <3>1, <4>1
      <4>3. d[j] = e
        BY <2>3, <3>3, <4>1
      <4> QED
        BY <2>1, <4>1, <4>2, <4>3
    <3>4. CASE j > i + 1
      <4>1. i < j - 1 /\ j - 1 <= n /\ j - 1 \in 1..n /\ ~(j <= i) /\ j # i + 1
        BY <1>2, <3>1, <3>4
      <4>2. b[j - 1] = a.buffer[j - 1 - 1]
        BY <1>4, <3>1, <4>1
      <4>3. c[j - 1] = a.buffer[j - 1 - 1]
        BY <2>2, <4>1
      <4>4. d[j] = c[j - 1]
        BY <2>3, <4>1
      <4> QED
        BY <2>1, <4>2, <4>3, <4>4
    <3> QED
      BY <1>2, <3>1, <3>2, <3>3, <3>4
  <2> QED
    BY <2>1, <2>3, <2>4, SameSequence
<1> QED
  BY <1>10, <1>11 DEF z, d

Buffers(slots) == [slots -> Elements \cup {NoElement}]
Filled(b, n)   == \A s \in Slots(n) : b[s] \in Elements

LEMMA NewContents ==
  ASSUME NEW m \in 0..MemLimit, NEW a, Holds(a, m), NEW n \in 0..m, n <= a.capacity,
         NEW b \in Buffers(Slots(m)), Filled(b, n)
  PROVE  LET z == With(a, b, n)
         IN  /\ WellFormed(z) /\ (Roomy(a) => Roomy(z)) /\ z.size = n
             /\ Contents(z) \in Seq(Elements) /\ Len(Contents(z)) = n
             /\ \A j \in 1..n : Contents(z)[j] = b[j - 1]
<1> DEFINE z == With(a, b, n)
<1>1. m \in Nat /\ a \in Array(m) /\ b \in [Slots(m) -> Elements \cup {NoElement}]
  BY ArrayConstants DEF Holds, Buffers
<1>2. z \in Array(m) /\ z.size = n /\ z.buffer = b /\ z.capacity = a.capacity
  BY <1>1, ArrayOf
<1> HIDE DEF z
<1>3. DOMAIN a.buffer = DOMAIN z.buffer
  BY <1>1, <1>2 DEF Array
<1>4. WellFormed(z) /\ (Roomy(a) => Roomy(z))
  BY <1>2, <1>3 DEF WellFormed, Holds, Roomy, Filled
<1> QED
  BY <1>2, <1>4, ContentsFacts DEF z

LEMMA DeletedAt ==
  ASSUME NEW a, WellFormed(a), NEW i \in Slots(a.size)
  PROVE  LET z == DeleteAt(a, i)
             c == Contents(a)
         IN  /\ WellFormed(z) /\ (Roomy(a) => Roomy(z))
             /\ Contents(z) = SubSeq(c, 1, i) \o SubSeq(c, i + 2, Len(c))
<1> DEFINE z == DeleteAt(a, i)
           c == Contents(a)
           n == a.size
           d == SubSeq(c, 1, i) \o SubSeq(c, i + 2, Len(c))
           b == Move(a.buffer, i, i + 1, n - 1 - i)
<1>1. PICK m \in 0..MemLimit : Holds(a, m)
  BY DEF WellFormed
<1>2. /\ a \in Array(m) /\ n \in Nat /\ a.capacity \in Nat /\ m \in Nat /\ n <= m
      /\ i \in Nat /\ i < n /\ n <= a.capacity
      /\ a.buffer \in [Slots(m) -> Elements \cup {NoElement}]
      /\ \A s \in Slots(n) : a.buffer[s] \in Elements
  BY <1>1, ArrayConstants DEF Holds, Array, Slots
<1>3. DOMAIN b = Slots(m) /\ b = [s \in Slots(m) |-> b[s]]
  BY <1>2 DEF Move
<1>4. ASSUME NEW s \in Slots(m)
      PROVE  /\ s < i => b[s] = a.buffer[s]
             /\ i <= s /\ s < n - 1 => b[s] = a.buffer[s + 1]
             /\ b[s] \in Elements \cup {NoElement}
             /\ s < n - 1 => b[s] \in Elements
  <2>1. s \in Nat /\ s < m
    BY <1>2 DEF Slots
  <2>2. b[s] = IF i <= s /\ s < i + (n - 1 - i) THEN a.buffer[s - i + (i + 1)]
               ELSE a.buffer[s]
    BY <1>2 DEF Move
  <2> HIDE DEF b
  <2>3. CASE s < i
    <3>1. b[s] = a.buffer[s] /\ s \in Slots(n)
      BY <1>2, <2>1, <2>2, <2>3 DEF Slots
    <3> QED
      BY <1>2, <2>1, <2>3, <3>1
  <2>4. CASE i <= s /\ s < n - 1
    <3>1. s < i + (n - 1 - i) /\ s - i + (i + 1) = s + 1 /\ s + 1 \in Slots(n)
      BY <1>2, <2>1, <2>4 DEF Slots
    <3>2. b[s] = a.buffer[s + 1]
      BY <2>2, <2>4, <3>1
    <3> QED
      BY <1>2, <2>1, <2>4, <3>1, <3>2
  <2>5. CASE ~(s < n - 1)
    <3>1. ~(s < i + (n - 1 - i)) /\ ~(s < i)
      BY <1>2, <2>1, <2>5
    <3>2. b[s] = a.buffer[s]
      BY <2>2, <3>1
    <3> QED
      BY <1>2, <2>5, <3>1, <3>2
  <2> QED
    BY <1>2, <2>1, <2>3, <2>4, <2>5
<1>5. z = With(a, b, n - 1)
  BY <1>2 DEF DeleteAt, Array, With
<1> HIDE DEF b
<1>6. n - 1 \in 0..m /\ n - 1 <= a.capacity /\ \A s \in Slots(n - 1) : b[s] \in Elements
  <2>1. \A s \in Slots(n - 1) : s \in Slots(m) /\ s < n - 1
    BY <1>2 DEF Slots
  <2> QED
    BY <1>2, <1>4, <2>1
<1>7. /\ WellFormed(z) /\ (Roomy(a) => Roomy(z))
      /\ Contents(z) \in Seq(Elements) /\ Len(Contents(z)) = n - 1
      /\ \A j \in 1..(n - 1) : Contents(z)[j] = b[j - 1]
  <2> DEFINE y == With(a, b, n - 1)
  <2>1. /\ WellFormed(y) /\ (Roomy(a) => Roomy(y))
        /\ Contents(y) \in Seq(Elements) /\ Len(Contents(y)) = n - 1
        /\ \A j \in 1..(n - 1) : Contents(y)[j] = b[j - 1]
    <3>1. b \in Buffers(Slots(m)) /\ Filled(b, n - 1)
      BY <1>3, <1>4, <1>6 DEF Buffers, Filled
    <3> QED
      BY <1>1, <1>6, <3>1, NewContents
  <2>2. z = y
    BY <1>5
  <2> HIDE DEF y, z
  <2> QED
    BY <2>1, <2>2
<1>8. /\ c \in Seq(Elements) /\ Len(c) = n
      /\ \A j \in 1..n : c[j] = a.buffer[j - 1]
  BY ContentsFacts
<1> HIDE DEF c, z
<1>9. /\ d \in Seq(Elements) /\ Len(d) = n - 1
      /\ \A j \in 1..(n - 1) : d[j] = IF j < i + 1 THEN c[j] ELSE c[j + 1]
  <2> DEFINE k == i + 1
             w == SubSeq(c, 1, k - 1) \o SubSeq(c, k + 1, Len(c))
  <2>1. k \in 1..Len(c) /\ k - 1 = i /\ k + 1 = i + 2
    BY <1>2, <1>8
  <2>2. d = w
    BY <2>1
  <2> HIDE DEF k
  <2>3. /\ w \in Seq(Elements) /\ Len(w) = Len(c) - 1
        /\ \A j \in 1..Len(w) : w[j] = IF j < k THEN c[j] ELSE c[j + 1]
    BY <1>8, <2>1, WithoutOne
  <2> HIDE DEF w, d
  <2> QED
    BY <1>8, <2>2, <2>3 DEF k
<1> HIDE DEF d
<1>10. ASSUME NEW j \in 1..(n - 1) PROVE Contents(z)[j] = d[j]
  <2>1. j - 1 \in Slots(m) /\ j \in Nat /\ j \in 1..n /\ j + 1 \in 1..n
    BY <1>2 DEF Slots
  <2>2. CASE j < i + 1
    <3>1. j - 1 < i
      BY <1>2, <2>1, <2>2
    <3> QED
      BY <1>4, <1>7, <1>8, <1>9, <2>1, <2>2, <3>1
  <2>3. CASE ~(j < i + 1)
    <3>1. i <= j - 1 /\ j - 1 < n - 1 /\ j - 1 + 1 = j /\ j + 1 - 1 = j
      BY <1>2, <2>1, <2>3
    <3>2. b[j - 1] = a.buffer[j]
      BY <1>4, <2>1, <3>1
    <3>3. c[j + 1] = a.buffer[j]
      BY <1>8, <2>1, <3>1
    <3> QED
      BY <1>7, <1>9, <2>3, <3>2, <3>3
  <2> QED
    BY <2>2, <2>3
<1>11. Contents(z) = d
  BY <1>7, <1>9, <1>10, SameSequence
<1> QED
  BY <1>7, <1>11 DEF z, d, c

\* What a call leaves behind: a well formed array, unless it ended the program.
Stays == BufferInv' /\ fault' \in BOOLEAN /\ NoStrayAccess'

LEMMA Granted ==
  ASSUME NEW m \in 0..MemLimit, NEW a, Holds(a, m), NEW c \in Nat, c > a.size,
         NEW z, z = [a EXCEPT !.capacity = c]
  PROVE  /\ WellFormed(z) /\ z.size = a.size /\ Contents(z) = Contents(a)
         /\ z.capacity = c
<1>1. /\ a \in Array(m) /\ a.size \in Nat /\ m \in Nat
  BY ArrayConstants DEF Holds, Array
<1>2. /\ z \in Array(m) /\ z.size = a.size /\ z.buffer = a.buffer /\ z.capacity = c
  BY <1>1 DEF Array
<1>3. Holds(z, m)
  BY <1>1, <1>2 DEF Holds
<1> QED
  BY <1>1, <1>2, <1>3, SameContents DEF WellFormed

LEMMA Grown ==
  ASSUME NEW m \in 0..MemLimit, NEW a, Holds(a, m), NEW c \in 0..MemLimit, c >= a.size,
         NEW z, z = [a EXCEPT !.capacity = c, !.buffer = Copied(@, a.size, c)]
  PROVE  /\ WellFormed(z) /\ z.size = a.size /\ Contents(z) = Contents(a)
         /\ z.capacity = c /\ Roomy(z)
<1> DEFINE b == Copied(a.buffer, a.size, c)
<1>1. /\ a \in Array(m) /\ a.size \in Nat /\ m \in Nat /\ c \in Nat
      /\ \A s \in Slots(a.size) : a.buffer[s] \in Elements
  BY ArrayConstants DEF Holds, Array
<1>2. /\ DOMAIN b = Slots(c)
      /\ \A s \in Slots(c) : s \in Slots(a.size) => b[s] = a.buffer[s]
      /\ b \in [Slots(c) -> Elements \cup {NoElement}]
  <2>1. \A s \in Slots(c) : s < a.size => s \in Slots(a.size)
    BY <1>1 DEF Slots
  <2> QED
    BY <1>1, <2>1 DEF Copied, Slots
<1>3. /\ z \in [size : {a.size}, capacity : {c}, exp : Nat, buffer : {b}]
  BY <1>1 DEF Array
<1> HIDE DEF b
<1>4. /\ z \in Array(c) /\ z.size = a.size /\ z.buffer = b /\ z.capacity = c
  <2>1. a.size \in 0..c
    BY <1>1
  <2>2. z \in Array(c)
    BY <1>1, <1>2, <1>3, <2>1 DEF Array
  <2> QED
    BY <1>3, <2>2
<1>5. \A s \in Slots(a.size) : b[s] = a.buffer[s] /\ b[s] \in Elements
  <2>1. \A s \in Slots(a.size) : s \in Slots(c)
    BY <1>1 DEF Slots
  <2> QED
    BY <1>1, <1>2, <2>1
<1>6. Holds(z, c)
  BY <1>1, <1>4, <1>5 DEF Holds
<1>7. Contents(z) = Contents(a)
  BY <1>1, <1>4, <1>5, SameContents
<1> QED
  BY <1>2, <1>4, <1>6, <1>7 DEF WellFormed, Roomy

\* What the check in front of an insertion leaves: an array of the same contents,
\* that has room if the memory was granted.
LEMMA RoomMade ==
  ASSUME NEW a, WellFormed(a), NEW o \in MakeRoom(a)
  PROVE  /\ WellFormed(o.array) /\ Contents(o.array) = Contents(a)
         /\ o.array.size = a.size
         /\ o.stat \in {CC_OK, CC_ERR_ALLOC, CC_ERR_MAX_CAPACITY}
         /\ o.stat = CC_OK => /\ o.array.size < o.array.capacity
                              /\ Roomy(a) => Roomy(o.array)
<1>1. PICK m \in 0..MemLimit : Holds(a, m)
  BY DEF WellFormed
<1>2. /\ a.size \in Nat /\ a.capacity \in Nat /\ a.exp \in Nat
      /\ a.size <= m /\ m <= MemLimit /\ MemLimit < MaxElements
      /\ MemLimit \in Nat /\ MaxElements \in Nat /\ ExpDen \in Nat \ {0} /\ m \in Nat
  BY <1>1, ArrayConstants DEF Holds, Array
<1>3. CASE o = Outcome(CC_OK, a) /\ a.size < a.capacity
  BY <1>3 DEF Outcome
<1>4. CASE a.size >= a.capacity /\ o \in Expanded(a)
  <2> DEFINE n == (a.capacity * a.exp) \div ExpDen
             c == IF n <= a.capacity THEN MaxElements ELSE n
             refusal == [a EXCEPT !.capacity = c]
             granted == [a EXCEPT !.capacity = c, !.buffer = Copied(@, a.size, c)]
  <2>1. n \in Nat
    <3> DEFINE x == a.capacity * a.exp
    <3>1. x \in Nat
      BY <1>2
    <3> HIDE DEF x
    <3>2. x \div ExpDen \in Nat
      BY <1>2, <3>1
    <3> QED
      BY <3>2 DEF x
  <2>2. a.size = a.capacity
    BY <1>1, <1>2, <1>4 DEF Holds
  <2> HIDE DEF n
  <2>3. c \in Nat /\ c > a.size
    BY <1>2, <2>1, <2>2
  <2>4. a.capacity # MaxElements
    BY <1>2, <2>2
  <2>5. \/ o = Outcome(CC_ERR_ALLOC, refusal)
        \/ c <= MemLimit /\ o = Outcome(CC_OK, granted)
    BY <1>4, <2>4 DEF Expanded, n
  <2> HIDE DEF c
  <2>6. CASE o = Outcome(CC_ERR_ALLOC, refusal)
    <3>1. o.stat = CC_ERR_ALLOC /\ o.array = refusal /\ CC_ERR_ALLOC # CC_OK
      BY <2>6 DEF Outcome, CC_ERR_ALLOC, CC_OK
    <3> HIDE DEF refusal
    <3>2. WellFormed(refusal) /\ refusal.size = a.size /\ Contents(refusal) = Contents(a)
      BY <1>1, <2>3, Granted DEF refusal
    <3> QED
      BY <3>1, <3>2
  <2>7. CASE c <= MemLimit /\ o = Outcome(CC_OK, granted)
    <3>1. o.stat = CC_OK /\ o.array = granted /\ c \in 0..MemLimit
      BY <1>2, <2>3, <2>7 DEF Outcome
    <3>3. granted = [a EXCEPT !.capacity = c, !.buffer = Copied(@, a.size, c)]
      OBVIOUS
    <3>4. c >= a.size
      BY <1>2, <2>3
    <3> HIDE DEF granted
    <3>2. /\ WellFormed(granted) /\ granted.size = a.size /\ Contents(granted) = Contents(a)
          /\ granted.capacity = c /\ Roomy(granted)
      BY <1>1, <3>1, <3>3, <3>4, Grown
    <3> QED
      BY <2>3, <3>1, <3>2
  <2> QED
    BY <2>5, <2>6, <2>7
<1> QED
  BY <1>2, <1>3, <1>4 DEF MakeRoom

LEMMA SlotsKept ==
  ASSUME NEW a, WellFormed(a), NEW e, NEW i
  PROVE  /\ DOMAIN InsertAt(a, e, i).buffer = DOMAIN a.buffer
         /\ DOMAIN DeleteAt(a, i).buffer = DOMAIN a.buffer
<1>1. PICK m \in 0..MemLimit : a \in Array(m)
  BY DEF WellFormed, Holds
<1> QED
  BY <1>1 DEF Array, InsertAt, DeleteAt, Move

LEMMA ArrayFacts ==
  ASSUME BufferInv
  PROVE  /\ WellFormed(array) /\ array.size \in Nat /\ Contents(array) \in Seq(Elements)
         /\ Len(Contents(array)) = array.size /\ DOMAIN Contents(array) = 1..array.size
         /\ array.capacity \in Nat /\ array.size <= array.capacity
         /\ \A i \in Slots(array.size) : /\ i + 1 \in 1..array.size
                                         /\ Contents(array)[i + 1] = array.buffer[i]
                                         /\ array.buffer[i] \in Elements
         /\ Slots(array.size) \subseteq DOMAIN array.buffer
         /\ array.buffer \in Buffers(DOMAIN array.buffer) /\ Filled(array.buffer, array.size)
<1>1. WellFormed(array)
  BY DEF BufferInv
<1>2. PICK m \in 0..MemLimit : Holds(array, m)
  BY <1>1 DEF WellFormed
<1>3. /\ m \in Nat /\ array.size \in Nat /\ array.size <= m
      /\ array.capacity \in Nat /\ array.size <= array.capacity
      /\ DOMAIN array.buffer = Slots(m)
      /\ \A i \in Slots(array.size) : array.buffer[i] \in Elements
      /\ array.buffer \in Buffers(DOMAIN array.buffer)
  BY <1>2, ArrayConstants DEF Holds, Array, Buffers
<1>4. Slots(array.size) \subseteq DOMAIN array.buffer
  BY <1>3 DEF Slots
<1>5. ASSUME NEW i \in Slots(array.size)
      PROVE  i + 1 \in 1..array.size /\ Contents(array)[i + 1] = array.buffer[i]
  <2> DEFINE j == i + 1
  <2>1. j \in 1..array.size /\ j - 1 = i
    BY <1>3 DEF Slots
  <2> HIDE DEF j
  <2>2. Contents(array)[j] = array.buffer[j - 1]
    BY <1>1, <2>1, ContentsFacts
  <2> QED
    BY <2>1, <2>2 DEF j
<1> QED
  BY <1>1, <1>3, <1>4, <1>5, ContentsFacts DEF Filled

LEMMA InsertStays ==
  ASSUME BufferInv, fault = FALSE, NEW e \in Elements, NEW i \in 0..array.size,
         Insert(e, i)
  PROVE  Stays /\ (fault' \/ Abs!Insert(e, i) \/ Abs!NoMemory)
<1>1. PICK o \in MakeRoom(array) :
        \/ /\ o.stat # CC_OK
           /\ Return(Refused(o.stat)) /\ array' = o.array
           /\ refused' = TRUE /\ UNCHANGED fault
        \/ /\ o.stat = CC_OK
           /\ Commit(InsertAt(o.array, e, i), i..array.size, Done)
  BY DEF Insert
<1> DEFINE b == o.array
           z == InsertAt(b, e, i)
<1>2. /\ WellFormed(b) /\ Contents(b) = Contents(array) /\ b.size = array.size
      /\ o.stat \in {CC_OK, CC_ERR_ALLOC, CC_ERR_MAX_CAPACITY}
      /\ o.stat = CC_OK => b.size < b.capacity /\ (Roomy(array) => Roomy(b))
  BY RoomMade DEF BufferInv
<1>3. PICK m \in 0..MemLimit : Holds(b, m)
  BY <1>2 DEF WellFormed
<1>4. b.size \in Nat /\ b.capacity \in Nat
  BY <1>3, ArrayConstants DEF Holds, Array
<1>5. DOMAIN z.buffer = DOMAIN b.buffer
  BY <1>2, SlotsKept
<1>6. CASE o.stat # CC_OK
  <2>1. /\ ret' = Refused(o.stat) /\ array' = b /\ refused' = TRUE /\ fault' = FALSE
    BY <1>1, <1>6 DEF Return
  <2>2. Contents(array)' = Contents(array)
    BY <1>2, <2>1
  <2>3. Abs!NoMemory
    BY <1>2, <1>6, <2>1, <2>2, Refusals
  <2> QED
    BY <1>2, <2>1, <2>3 DEF Stays, BufferInv, NoStrayAccess
<1>7. CASE o.stat = CC_OK
  <2>1. Commit(z, i..array.size, Done)
    BY <1>1, <1>7
  <2>2. i \in 0..b.size /\ b.size < b.capacity /\ (Roomy(array) => Roomy(b))
    BY <1>2, <1>7
  <2>3. i..array.size \subseteq Slots(b.capacity)
    BY <1>2, <1>4, <2>2 DEF Slots
  <2>4. refused \/ i..array.size \subseteq DOMAIN z.buffer
    BY <1>5, <2>2, <2>3 DEF BufferInv, Roomy
  <2>5. ASSUME i..array.size \subseteq DOMAIN z.buffer
        PROVE  /\ WellFormed(z) /\ (Roomy(b) => Roomy(z))
               /\ Contents(z) = SubSeq(Contents(b), 1, i) \o <<e>>
                                  \o SubSeq(Contents(b), i + 1, Len(Contents(b)))
    BY <1>2, <1>5, <2>2, <2>5, InsertedAt
  <2> HIDE DEF z, b
  <2>6. i..array.size \subseteq DOMAIN z.buffer => WellFormed(z) /\ (refused \/ Roomy(z))
    BY <2>2, <2>5 DEF BufferInv
  <2>7. /\ BufferInv' /\ fault' \in BOOLEAN /\ NoStrayAccess'
        /\ ~fault' => array' = z /\ ret' = Done
    BY <2>1, <2>4, <2>6, Committed
  <2>8. ASSUME ~fault' PROVE Abs!Insert(e, i)
    <3>1. i..array.size \subseteq DOMAIN z.buffer
      BY <2>1, <2>8 DEF Commit, Crash
    <3>2. Contents(array)' = Contents(z)
      BY <2>7, <2>8
    <3> QED
      BY <1>2, <2>5, <2>7, <2>8, <3>1, <3>2, SameResults
      DEF Abs!Insert, Abs!Inserted
  <2> QED
    BY <2>7, <2>8 DEF Stays
<1> QED
  BY <1>6, <1>7

LEMMA InsertCheckedStays ==
  ASSUME BufferInv, fault = FALSE, NEW e \in Elements, NEW i \in Nat,
         InsertChecked(e, i)
  PROVE  Stays /\ (fault' \/ Abs!AddAt(e, i))
<1>1. array.size \in Nat /\ Len(Contents(array)) = array.size
  BY ArrayFacts
<1>2. CASE i > array.size /\ Reject(CC_ERR_OUT_OF_RANGE)
  <2>1. /\ BufferInv' /\ fault' = FALSE /\ ret' = Refused(CC_ERR_OUT_OF_RANGE)
        /\ Contents(array)' = Contents(array)
    BY <1>2, Rejected
  <2>2. Abs!NotThere
    BY <2>1, Refusals
  <2>3. Abs!AddAt(e, i)
    BY <1>1, <1>2, <2>2 DEF Abs!AddAt
  <2> QED
    BY <2>1, <2>3 DEF Stays, NoStrayAccess
<1>3. CASE i <= array.size /\ Insert(e, i)
  <2>0. i \in 0..array.size
    BY <1>1, <1>3
  <2>1. Stays /\ (fault' \/ Abs!Insert(e, i) \/ Abs!NoMemory)
    BY <1>3, <2>0, InsertStays
  <2>2. Abs!Insert(e, i) \/ Abs!NoMemory => Abs!AddAt(e, i)
    BY <1>1, <1>3 DEF Abs!AddAt
  <2> QED
    BY <2>1, <2>2 DEF Stays
<1> QED
  BY <1>2, <1>3 DEF InsertChecked

\* A call that moves elements within the buffer, and may shorten the array.
LEMMA Rearranged ==
  ASSUME BufferInv, fault = FALSE, NEW b, NEW n \in 0..array.size, NEW slots, NEW r,
         Commit(With(array, b, n), slots, r), slots \subseteq DOMAIN array.buffer,
         b \in Buffers(DOMAIN array.buffer), Filled(b, n)
  PROVE  /\ Stays /\ fault' = FALSE /\ ret' = r
         /\ Contents(array)' = [j \in 1..n |-> b[j - 1]]
<1> DEFINE z == With(array, b, n)
<1>1. PICK m \in 0..MemLimit : Holds(array, m)
  BY DEF BufferInv, WellFormed
<1>2. /\ array.size \in Nat /\ array.capacity \in Nat /\ m \in Nat /\ array.size <= m
      /\ array.size <= array.capacity /\ DOMAIN array.buffer = Slots(m)
      /\ array \in Array(m)
  BY <1>1, ArrayConstants DEF Holds, Array
<1>3. /\ n \in 0..m /\ n <= array.capacity
      /\ b \in Buffers(Slots(m))
  BY <1>2
<1>4. WellFormed(z) /\ (Roomy(array) => Roomy(z)) /\ z.size = n
  BY <1>1, <1>3, NewContents
<1>5. z.buffer = b
  BY <1>2 DEF With, Array
<1>6. Contents(z) = [j \in 1..n |-> b[j - 1]]
  BY <1>4, <1>5 DEF Contents
<1> HIDE DEF z
<1>7. Commit(z, slots, r)
  BY DEF z
<1>8. slots \subseteq DOMAIN z.buffer
  BY <1>5 DEF Buffers
<1>9. /\ array' = z /\ ret' = r /\ fault' = FALSE /\ refused' = refused
  BY <1>7, <1>8 DEF Commit, Return
<1>10. Contents(array)' = Contents(z)
  BY <1>9
<1> QED
  BY <1>4, <1>6, <1>9, <1>10 DEF Stays, BufferInv, NoStrayAccess

\* A call that only reads.
LEMMA Unmoved ==
  ASSUME BufferInv, fault = FALSE, NEW slots, NEW r,
         Commit(array, slots, r), slots \subseteq DOMAIN array.buffer
  PROVE  Stays /\ fault' = FALSE /\ ret' = r /\ Contents(array)' = Contents(array)
BY DEF Commit, Return, Stays, BufferInv, NoStrayAccess

\* Two indices inside the array.
LEMMA Inside ==
  ASSUME BufferInv, NEW i \in Int, InRange(i)
  PROVE  /\ i \in Nat /\ i \in Slots(array.size) /\ i < Len(Contents(array))
         /\ i + 1 \in 1..array.size /\ {i} \subseteq DOMAIN array.buffer
         /\ Contents(array)[i + 1] = array.buffer[i] /\ array.buffer[i] \in Elements
<1>1. array.size \in Nat /\ Len(Contents(array)) = array.size
  BY ArrayFacts
<1>2. i \in Nat /\ i < array.size /\ i \in Slots(array.size)
  BY <1>1 DEF InRange, Slots
<1> QED
  BY <1>1, <1>2, ArrayFacts

LEMMA RejectStays ==
  ASSUME BufferInv, fault = FALSE, NEW st, Reject(st)
  PROVE  /\ Stays /\ fault' = FALSE
         /\ st \in {CC_ERR_OUT_OF_RANGE, CC_ERR_VALUE_NOT_FOUND} => Abs!NotThere
         /\ st = CC_ITER_END => Abs!WalkOver
         /\ st \in {CC_ERR_ALLOC, CC_ERR_MAX_CAPACITY} => Abs!NoMemory
         /\ st = CC_ERR_INVALID_RANGE => Abs!Refuse({Abs!CC_ERR_INVALID_RANGE})
<1>1. /\ BufferInv' /\ fault' = FALSE /\ ret' = Refused(st)
      /\ Contents(array)' = Contents(array)
  BY Rejected
<1> QED
  BY <1>1, Refusals DEF Stays, NoStrayAccess

LEMMA RemoveStays ==
  ASSUME BufferInv, fault = FALSE, NEW i \in Int, RemoveChecked(i)
  PROVE  /\ Stays /\ fault' = FALSE
         /\ InRange(i) => Abs!RemoveAt(i) /\ ret' = Got(array.buffer[i])
         /\ ~InRange(i) => Abs!NotThere
<1>1. CASE ~InRange(i) /\ Reject(CC_ERR_OUT_OF_RANGE)
  BY <1>1, RejectStays
<1>2. CASE InRange(i) /\ Commit(DeleteAt(array, i), {i}, Got(array.buffer[i]))
  <2> DEFINE z == DeleteAt(array, i)
             c == Contents(array)
  <2>1. i \in Slots(array.size) /\ i < Len(c) /\ {i} \subseteq DOMAIN array.buffer
        /\ c[i + 1] = array.buffer[i]
    BY <1>2, Inside
  <2>2. /\ WellFormed(z) /\ (Roomy(array) => Roomy(z))
        /\ Contents(z) = SubSeq(c, 1, i) \o SubSeq(c, i + 2, Len(c))
    BY <2>1, DeletedAt DEF BufferInv
  <2>3. DOMAIN z.buffer = DOMAIN array.buffer
    BY SlotsKept DEF BufferInv
  <2>4. array' = z /\ ret' = Got(array.buffer[i]) /\ fault' = FALSE /\ refused' = refused
    BY <1>2, <2>1, <2>3 DEF Commit, Return
  <2> HIDE DEF z
  <2>5. Contents(array)' = Contents(z)
    BY <2>4
  <2>6. Abs!RemoveAt(i)
    BY <2>1, <2>2, <2>4, <2>5, SameResults DEF Abs!RemoveAt, Abs!Without
  <2> QED
    BY <1>2, <2>2, <2>4, <2>6 DEF Stays, BufferInv, NoStrayAccess
<1> QED
  BY <1>1, <1>2 DEF RemoveChecked

LEMMA ReplaceStays ==
  ASSUME BufferInv, fault = FALSE, NEW e \in Elements, NEW i \in Int,
         ReplaceChecked(e, i)
  PROVE  /\ Stays /\ fault' = FALSE
         /\ InRange(i) => Abs!ReplaceAt(e, i) /\ ret' = Got(array.buffer[i])
         /\ ~InRange(i) => Abs!NotThere
<1>1. CASE ~InRange(i) /\ Reject(CC_ERR_OUT_OF_RANGE)
  BY <1>1, RejectStays
<1>2. CASE InRange(i) /\ Commit([array EXCEPT !.buffer[i] = e], {i}, Got(array.buffer[i]))
  <2> DEFINE c == Contents(array)
             b == [array.buffer EXCEPT ![i] = e]
             n == array.size
  <2>1. /\ i \in Slots(n) /\ i < Len(c) /\ {i} \subseteq DOMAIN array.buffer
        /\ c[i + 1] = array.buffer[i] /\ i + 1 \in 1..n /\ i \in Nat
    BY <1>2, Inside
  <2>2. /\ n \in Nat /\ DOMAIN c = 1..n
        /\ Slots(n) \subseteq DOMAIN array.buffer
        /\ array.buffer \in Buffers(DOMAIN array.buffer) /\ Filled(array.buffer, n)
    BY ArrayFacts
  <2>3. [array EXCEPT !.buffer[i] = e] = With(array, b, n)
    <3>1. PICK m \in 0..MemLimit : array \in Array(m)
      BY DEF BufferInv, WellFormed, Holds
    <3> QED
      BY <3>1 DEF With, Array
  <2>4. /\ b \in Buffers(DOMAIN array.buffer) /\ Filled(b, n)
        /\ b[i] = e /\ \A s \in DOMAIN array.buffer : s # i => b[s] = array.buffer[s]
    BY <2>1, <2>2 DEF Buffers, Filled
  <2> HIDE DEF b
  <2>5. n \in 0..n
    BY <2>2
  <2>6. /\ Stays /\ fault' = FALSE /\ ret' = Got(array.buffer[i])
        /\ Contents(array)' = [j \in 1..n |-> b[j - 1]]
    <3>1. Commit(With(array, b, n), {i}, Got(array.buffer[i]))
      BY <1>2, <2>3
    <3> DEFINE u == {i}
               r == Got(array.buffer[i])
    <3>2. Commit(With(array, b, n), u, r) /\ u \subseteq DOMAIN array.buffer
          /\ n \in 0..array.size
      BY <2>1, <2>5, <3>1
    <3> HIDE DEF n, u, r
    <3>3. /\ Stays /\ fault' = FALSE /\ ret' = r
          /\ Contents(array)' = [j \in 1..n |-> b[j - 1]]
      BY <2>4, <3>2, Rearranged
    <3> QED
      BY <3>3 DEF r
  <2>7. [j \in 1..n |-> b[j - 1]] = [c EXCEPT ![i + 1] = e]
    <3>1. ASSUME NEW j \in 1..n PROVE b[j - 1] = [c EXCEPT ![i + 1] = e][j]
      <4>1. j - 1 \in Slots(n) /\ c[j] = array.buffer[j - 1] /\ (j # i + 1 => j - 1 # i)
            /\ (j = i + 1 => j - 1 = i)
        BY <2>1, <2>2 DEF Contents, Slots
      <4> QED
        BY <2>2, <2>4, <4>1
    <3>2. c = [j \in 1..n |-> c[j]]
      BY DEF Contents
    <3> QED
      BY <3>1, <3>2
  <2>8. Abs!ReplaceAt(e, i)
    BY <2>1, <2>6, <2>7, SameResults DEF Abs!ReplaceAt
  <2> QED
    BY <1>2, <2>6, <2>8
<1> QED
  BY <1>1, <1>2 DEF ReplaceChecked

LEMMA SwapStays ==
  ASSUME BufferInv, fault = FALSE, NEW i \in Nat, NEW j \in Nat, SwapAt(i, j)
  PROVE  Stays /\ fault' = FALSE /\ Abs!SwapAt(i, j)
<1>1. array.size \in Nat /\ Len(Contents(array)) = array.size
  BY ArrayFacts
<1>2. CASE ~(InRange(i) /\ InRange(j)) /\ Refuse(CC_ERR_OUT_OF_RANGE)
  <2>1. Stays /\ fault' = FALSE /\ Abs!NotThere
    BY <1>2, RejectStays DEF Refuse
  <2> QED
    BY <1>1, <1>2, <2>1 DEF Abs!SwapAt, InRange
<1>3. CASE /\ InRange(i) /\ InRange(j)
           /\ Update([array EXCEPT !.buffer[i] = array.buffer[j],
                                   !.buffer[j] = array.buffer[i]], {i, j}, Done)
  <2> DEFINE c == Contents(array)
             b == [array.buffer EXCEPT ![i] = array.buffer[j], ![j] = array.buffer[i]]
             n == array.size
             d == [c EXCEPT ![i + 1] = c[j + 1], ![j + 1] = c[i + 1]]
             slots == {i, j}
  <2>1. /\ i \in Slots(n) /\ i < Len(c) /\ i + 1 \in 1..n
        /\ j \in Slots(n) /\ j < Len(c) /\ j + 1 \in 1..n
        /\ c[i + 1] = array.buffer[i] /\ c[j + 1] = array.buffer[j]
        /\ slots \subseteq DOMAIN array.buffer
    BY <1>3, Inside
  <2>2. /\ n \in Nat /\ DOMAIN c = 1..n
        /\ Slots(n) \subseteq DOMAIN array.buffer
        /\ array.buffer \in Buffers(DOMAIN array.buffer) /\ Filled(array.buffer, n)
    BY ArrayFacts
  <2>3. Commit(With(array, b, n), slots, Done)
    <3>1. PICK m \in 0..MemLimit : array \in Array(m)
      BY DEF BufferInv, WellFormed, Holds
    <3>2. [array EXCEPT !.buffer[i] = array.buffer[j], !.buffer[j] = array.buffer[i]]
            = With(array, b, n)
      BY <3>1 DEF With, Array
    <3> QED
      BY <1>3, <3>2 DEF Update
  <2>4. ASSUME NEW s \in DOMAIN array.buffer
        PROVE  b[s] = IF s = j THEN array.buffer[i]
                      ELSE IF s = i THEN array.buffer[j] ELSE array.buffer[s]
    BY <2>1
  <2>5. b \in Buffers(DOMAIN array.buffer) /\ Filled(b, n)
    BY <2>1, <2>2, <2>4 DEF Buffers, Filled
  <2>6. n \in 0..array.size
    BY <2>2
  <2>7. [k \in 1..n |-> b[k - 1]] = d
    <3>1. ASSUME NEW k \in 1..n PROVE b[k - 1] = d[k]
      <4>1. /\ k - 1 \in Slots(n) /\ c[k] = array.buffer[k - 1]
            /\ (k = i + 1 <=> k - 1 = i) /\ (k = j + 1 <=> k - 1 = j)
        BY <2>2 DEF Contents, Slots
      <4>2. d[k] = IF k = j + 1 THEN c[i + 1] ELSE IF k = i + 1 THEN c[j + 1] ELSE c[k]
        BY <2>1, <2>2
      <4> HIDE DEF b, d, c
      <4> QED
        BY <2>1, <2>2, <2>4, <4>1, <4>2
    <3>2. d = [k \in 1..n |-> d[k]]
      BY <2>2
    <3> HIDE DEF b, d
    <3> QED
      BY <3>1, <3>2
  <2> HIDE DEF b, n, d, slots
  <2>8. /\ Stays /\ fault' = FALSE /\ ret' = Done
        /\ Contents(array)' = [k \in 1..n |-> b[k - 1]]
    BY <2>1, <2>3, <2>5, <2>6, Rearranged
  <2>9. Contents(array)' = d
    BY <2>7, <2>8
  <2> QED
    BY <2>1, <2>8, <2>9, SameResults DEF Abs!SwapAt, d
<1> QED
  BY <1>2, <1>3 DEF SwapAt

LEMMA GetAtStays ==
  ASSUME BufferInv, fault = FALSE, NEW i \in Int, GetAt(i)
  PROVE  /\ Stays /\ fault' = FALSE
         /\ InRange(i) => Abs!GetAt(i)
         /\ ~InRange(i) => Abs!NotThere
<1>1. CASE ~InRange(i) /\ Refuse(CC_ERR_OUT_OF_RANGE)
  BY <1>1, RejectStays DEF Refuse
<1>2. CASE InRange(i) /\ Update(array, {i}, Got(array.buffer[i]))
  <2> DEFINE slots == {i}
             r == Got(array.buffer[i])
  <2>1. /\ i \in Nat /\ i < Len(Contents(array)) /\ slots \subseteq DOMAIN array.buffer
        /\ Contents(array)[i + 1] = array.buffer[i]
    BY <1>2, Inside
  <2>2. Commit(array, slots, r)
    BY <1>2 DEF Update
  <2> HIDE DEF slots, r
  <2>3. Stays /\ fault' = FALSE /\ ret' = r /\ Contents(array)' = Contents(array)
    BY <2>1, <2>2, Unmoved
  <2> QED
    BY <1>2, <2>1, <2>3, SameResults DEF Abs!GetAt, r
<1> QED
  BY <1>1, <1>2 DEF GetAt

\* The calls at the end.
LEMMA EmptyContents ==
  ASSUME BufferInv
  PROVE  Contents(array) = <<>> <=> array.size = 0
BY ArrayFacts

LEMMA GetLastStays ==
  ASSUME BufferInv, fault = FALSE, GetLast
  PROVE  Stays /\ fault' = FALSE /\ Abs!GetLast
<1>1. array.size \in Nat /\ Len(Contents(array)) = array.size
  BY ArrayFacts
<1>2. CASE array.size = 0 /\ Refuse(CC_ERR_VALUE_NOT_FOUND)
  <2>1. Stays /\ fault' = FALSE /\ Abs!NotThere
    BY <1>2, RejectStays DEF Refuse
  <2> QED
    BY <1>2, <2>1, EmptyContents DEF Abs!GetLast
<1>3. CASE array.size # 0 /\ GetAt(array.size - 1)
  <2>1. array.size - 1 \in Int /\ InRange(array.size - 1)
    BY <1>1, <1>3 DEF InRange
  <2> DEFINE i == array.size - 1
  <2>2. i \in Int /\ InRange(i) /\ GetAt(i) /\ Len(Contents(array)) - 1 = i
    BY <1>1, <1>3, <2>1
  <2> HIDE DEF i
  <2>3. Stays /\ fault' = FALSE /\ Abs!GetAt(i)
    BY <2>2, GetAtStays
  <2> QED
    BY <1>3, <2>2, <2>3, EmptyContents DEF Abs!GetLast
<1> QED
  BY <1>2, <1>3 DEF GetLast

LEMMA RemoveLastStays ==
  ASSUME BufferInv, fault = FALSE, RemoveLast
  PROVE  Stays /\ fault' = FALSE /\ Abs!RemoveLast
<1>1. array.size \in Nat /\ Len(Contents(array)) = array.size
  BY ArrayFacts
<1> DEFINE i == array.size - 1
<1>2. /\ i \in Int /\ RemoveChecked(i) /\ Len(Contents(array)) - 1 = i
      /\ InRange(i) <=> array.size # 0
  BY <1>1 DEF RemoveLast, RemoveAt, InRange
<1> HIDE DEF i
<1>3. /\ Stays /\ fault' = FALSE
      /\ InRange(i) => Abs!RemoveAt(i)
      /\ ~InRange(i) => Abs!NotThere
  BY <1>2, RemoveStays
<1> QED
  BY <1>2, <1>3, EmptyContents DEF Abs!RemoveLast

LEMMA RemoveAllStays ==
  ASSUME BufferInv, fault = FALSE, RemoveAll
  PROVE  Stays /\ fault' = FALSE /\ Abs!RemoveAll
<1> DEFINE n == 0
           slots == {}
<1>1. PICK m \in 0..MemLimit : array \in Array(m)
  BY DEF BufferInv, WellFormed, Holds
<1>2. Commit(With(array, array.buffer, n), slots, Done)
  BY <1>1 DEF RemoveAll, Update, With, Array
<1>3. /\ array.buffer \in Buffers(DOMAIN array.buffer) /\ Filled(array.buffer, n)
      /\ n \in 0..array.size /\ slots \subseteq DOMAIN array.buffer /\ 1..n = {}
  BY ArrayFacts DEF Filled, Slots
<1>4. /\ Stays /\ fault' = FALSE /\ ret' = Done
      /\ Contents(array)' = [k \in 1..n |-> array.buffer[k - 1]]
  <2> HIDE DEF n, slots
  <2> QED
    BY <1>2, <1>3, Rearranged
<1>5. Contents(array)' = <<>>
  BY <1>3, <1>4
<1> QED
  BY <1>4, <1>5, SameResults DEF Abs!RemoveAll

LEMMA ReverseStays ==
  ASSUME BufferInv, fault = FALSE, Reverse
  PROVE  Stays /\ fault' = FALSE /\ Abs!Reverse
<1> DEFINE n == array.size
           c == Contents(array)
           b == [s \in DOMAIN array.buffer |-> IF s < n THEN array.buffer[n - 1 - s]
                                                         ELSE array.buffer[s]]
           slots == {}
<1>1. PICK m \in 0..MemLimit : array \in Array(m)
  BY DEF BufferInv, WellFormed, Holds
<1>2. Commit(With(array, b, n), slots, Done)
  BY <1>1 DEF Reverse, Update, With, Array
<1>3. /\ n \in Nat /\ n \in 0..n /\ Len(c) = n
      /\ Slots(n) \subseteq DOMAIN array.buffer
      /\ array.buffer \in Buffers(DOMAIN array.buffer) /\ Filled(array.buffer, n)
  BY ArrayFacts
<1>4. ASSUME NEW s \in Slots(n)
      PROVE  n - 1 - s \in Slots(n) /\ b[s] = array.buffer[n - 1 - s]
  BY <1>3 DEF Slots
<1>5. b \in Buffers(DOMAIN array.buffer) /\ Filled(b, n)
  <2>1. ASSUME NEW s \in DOMAIN array.buffer PROVE b[s] \in Elements \cup {NoElement}
    <3>1. s \in Nat
      BY <1>1, ArrayConstants DEF Array, Slots
    <3>2. s < n => s \in Slots(n)
      BY <1>3, <3>1 DEF Slots
    <3> QED
      BY <1>3, <1>4, <3>2 DEF Filled, Buffers
  <2>2. ASSUME NEW s \in Slots(n) PROVE b[s] \in Elements
    BY <1>3, <1>4 DEF Filled
  <2> QED
    BY <2>1, <2>2 DEF Buffers, Filled
<1>6. [k \in 1..n |-> b[k - 1]] = [k \in 1..Len(c) |-> c[Len(c) + 1 - k]]
  <2>1. ASSUME NEW k \in 1..n PROVE b[k - 1] = c[Len(c) + 1 - k]
    <3>1. /\ k - 1 \in Slots(n) /\ n - 1 - (k - 1) = n - k
          /\ n + 1 - k \in 1..n /\ n + 1 - k - 1 = n - k
      BY <1>3 DEF Slots
    <3>2. b[k - 1] = array.buffer[n - k]
      BY <1>4, <3>1
    <3>3. c[n + 1 - k] = array.buffer[n - k]
      <4> DEFINE j == n + 1 - k
      <4>1. j \in 1..n /\ j - 1 = n - k
        BY <1>3
      <4> HIDE DEF j
      <4>2. c[j] = array.buffer[j - 1]
        BY <4>1 DEF Contents
      <4> QED
        BY <4>1, <4>2 DEF j
    <3> QED
      BY <1>3, <3>2, <3>3
  <2> HIDE DEF b, c
  <2> QED
    BY <1>3, <2>1
<1> HIDE DEF b, n, slots
<1>7. n \in 0..array.size /\ slots \subseteq DOMAIN array.buffer
  BY <1>3 DEF n, slots
<1>8. /\ Stays /\ fault' = FALSE /\ ret' = Done
      /\ Contents(array)' = [k \in 1..n |-> b[k - 1]]
  BY <1>2, <1>5, <1>7, Rearranged
<1> QED
  BY <1>6, <1>8, SameResults DEF Abs!Reverse

\* The index that remove finds is that of the first occurrence.
LEMMA FirstOccurrence ==
  ASSUME BufferInv, NEW e
  PROVE  /\ IndexOf(e) = {} => \A j \in 1..Len(Contents(array)) : Contents(array)[j] # e
         /\ \A i \in IndexOf(e) :
              /\ i \in Nat /\ InRange(i) /\ array.buffer[i] = e
              /\ i + 1 \in 1..Len(Contents(array)) /\ Contents(array)[i + 1] = e
              /\ \A j \in 1..i : Contents(array)[j] # e
<1> DEFINE n == array.size
           c == Contents(array)
<1>1. n \in Nat /\ Len(c) = n
  BY ArrayFacts
<1>2. ASSUME NEW j \in 1..n
      PROVE  j - 1 \in Slots(n) /\ c[j] = array.buffer[j - 1]
  BY <1>1 DEF Contents, Slots
<1>3. ASSUME IndexOf(e) = {}, NEW j \in 1..n, c[j] = e PROVE FALSE
  <2> DEFINE T == {s \in Slots(n) : array.buffer[s] = e}
  <2>1. j - 1 \in T
    BY <1>2, <1>3
  <2>2. T \subseteq Nat
    BY <1>1 DEF Slots
  <2>3. PICK s \in T : \A y \in T : s <= y
    <3> HIDE DEF T
    <3> QED
      BY <2>1, <2>2, Least
  <2>4. ASSUME NEW y \in Slots(s) PROVE array.buffer[y] # e
    <3>1. y \in Slots(n) /\ ~(s <= y)
      BY <1>1, <2>2 DEF Slots
    <3> QED
      BY <2>3, <3>1
  <2>5. s \in IndexOf(e)
    BY <2>4 DEF IndexOf
  <2> QED
    BY <1>3, <2>5
<1>4. ASSUME NEW i \in IndexOf(e)
      PROVE  /\ i \in Nat /\ InRange(i) /\ array.buffer[i] = e
             /\ i + 1 \in 1..n /\ c[i + 1] = e
             /\ \A j \in 1..i : c[j] # e
  <2>1. /\ i \in Slots(n) /\ array.buffer[i] = e
        /\ \A j \in Slots(i) : array.buffer[j] # e
    BY DEF IndexOf
  <2>2. i \in Nat /\ InRange(i)
    BY <1>1, <2>1 DEF Slots, InRange
  <2>3. i + 1 \in 1..n /\ c[i + 1] = e
    BY <2>1, <2>2, Inside
  <2>4. ASSUME NEW j \in 1..i PROVE c[j] # e
    <3>1. j \in 1..n /\ j - 1 \in Slots(i)
      BY <1>1, <2>1 DEF Slots
    <3> QED
      BY <1>2, <2>1, <3>1
  <2> QED
    BY <2>1, <2>2, <2>3, <2>4
<1> QED
  BY <1>1, <1>3, <1>4

LEMMA RemoveElementStays ==
  ASSUME BufferInv, fault = FALSE, NEW e, Remove(e)
  PROVE  Stays /\ fault' = FALSE /\ Abs!Remove(e)
<1>1. CASE IndexOf(e) = {} /\ Refuse(CC_ERR_VALUE_NOT_FOUND)
  <2>1. Stays /\ fault' = FALSE /\ Abs!NotThere
    BY <1>1, RejectStays DEF Refuse
  <2> QED
    BY <1>1, <2>1, FirstOccurrence DEF Abs!Remove
<1>2. ASSUME NEW i \in IndexOf(e), Update(DeleteAt(array, i), {}, Got(e))
      PROVE  Stays /\ fault' = FALSE /\ Abs!Remove(e)
  <2> DEFINE c == Contents(array)
  <2>1. /\ i \in Nat /\ InRange(i) /\ array.buffer[i] = e
        /\ i + 1 \in 1..Len(c) /\ c[i + 1] = e
        /\ \A j \in 1..i : c[j] # e
    BY FirstOccurrence
  <2>2. RemoveChecked(i)
    <3>1. {} \subseteq DOMAIN DeleteAt(array, i).buffer
          /\ {i} \subseteq DOMAIN DeleteAt(array, i).buffer
      BY <2>1, SlotsKept, Inside DEF BufferInv
    <3>2. Commit(DeleteAt(array, i), {i}, Got(array.buffer[i]))
      BY <1>2, <2>1, <3>1 DEF Update, Commit
    <3> QED
      BY <2>1, <3>2 DEF RemoveChecked
  <2>3. Stays /\ fault' = FALSE /\ Abs!RemoveAt(i)
    <3>1. i \in Int
      BY <2>1
    <3> QED
      BY <2>1, <2>2, <3>1, RemoveStays
  <2>4. Abs!Remove(e)
    <3> DEFINE j == i + 1
    <3>1. /\ j \in 1..Len(c) /\ c[j] = e /\ j - 1 = i
      BY <2>1
    <3> HIDE DEF j, c
    <3>2. Abs!RemoveAt(j - 1) /\ \A k \in 1..(j - 1) : c[k] # e
      BY <2>1, <2>3, <3>1
    <3> QED
      BY <3>1, <3>2 DEF Abs!Remove, c
  <2> QED
    BY <2>3, <2>4
<1> QED
  BY <1>1, <1>2 DEF Remove

-----------------------------------------------------------------------------
\* New arrays

LEMMA Rebuilt ==
  ASSUME NEW c \in 0..MemLimit, NEW n \in 0..c, NEW k \in Nat, n <= k, k <= c,
         NEW x \in Nat, NEW b \in Buffers(Slots(c)), Filled(b, n),
         NEW z, z = [size |-> n, capacity |-> k, exp |-> x, buffer |-> b]
  PROVE  WellFormed(z) /\ Roomy(z) /\ Contents(z) = [j \in 1..n |-> b[j - 1]]
<1>1. c \in Nat /\ n \in Nat
  BY ArrayConstants
<1>2. z \in Array(c) /\ z.size = n /\ z.capacity = k /\ z.buffer = b
  BY <1>1 DEF Array, Buffers
<1>3. Holds(z, c)
  BY <1>1, <1>2 DEF Holds, Filled
<1>4. Slots(k) \subseteq Slots(c) /\ DOMAIN b = Slots(c)
  BY <1>1 DEF Slots, Buffers
<1> QED
  BY <1>2, <1>3, <1>4 DEF WellFormed, Roomy, Contents

\* The first n slots, from v.
Fitted(v, n, c) == [s \in Slots(c) |-> IF s < n THEN v[s + 1] ELSE NoElement]

LEMMA FittedContents ==
  ASSUME NEW c \in Nat, NEW v \in Seq(Elements), NEW n, n = Len(v), n <= c
  PROVE  /\ Fitted(v, n, c) \in Buffers(Slots(c)) /\ Filled(Fitted(v, n, c), n)
         /\ [j \in 1..n |-> Fitted(v, n, c)[j - 1]] = v
<1>1. n \in Nat /\ \A j \in 1..n : v[j] \in Elements
  OBVIOUS
<1>2. ASSUME NEW s \in Slots(n)
      PROVE  s \in Slots(c) /\ s < n /\ s + 1 \in 1..n
  BY <1>1 DEF Slots
<1>3. ASSUME NEW s \in Slots(c), s < n PROVE s \in Slots(n)
  BY <1>1, <1>3 DEF Slots
<1>4. Fitted(v, n, c) \in Buffers(Slots(c)) /\ Filled(Fitted(v, n, c), n)
  BY <1>1, <1>2, <1>3 DEF Fitted, Buffers, Filled
<1>5. ASSUME NEW j \in 1..n PROVE Fitted(v, n, c)[j - 1] = v[j]
  <2>1. j - 1 \in Slots(n) /\ j - 1 + 1 = j
    BY <1>1 DEF Slots
  <2> QED
    BY <1>2, <2>1 DEF Fitted
<1>6. v = [j \in 1..n |-> v[j]]
  OBVIOUS
<1> QED
  BY <1>4, <1>5, <1>6

\* A call that goes on with a new array that holds v.
LEMMA AdoptedStays ==
  ASSUME BufferInv, fault = FALSE, NEW v \in Seq(Elements), NEW k \in Nat,
         Len(v) <= k, k <= array.capacity, NEW x \in Nat,
         Adopt([size |-> Len(v), capacity |-> k, exp |-> x,
                buffer |-> Fitted(v, Len(v), array.capacity)], array.capacity)
  PROVE  /\ Stays /\ fault' = FALSE
         /\ Abs!NoMemory \/ (Contents(array)' = v /\ ret' = Done)
<1> DEFINE c == array.capacity
           n == Len(v)
           b == Fitted(v, n, c)
           z == [size |-> n, capacity |-> k, exp |-> x, buffer |-> b]
<1>1. c \in Nat /\ n \in Nat /\ n <= c /\ n \in 0..c
  BY ArrayFacts
<1>2. b \in Buffers(Slots(c)) /\ Filled(b, n) /\ [j \in 1..n |-> b[j - 1]] = v
  <2> HIDE DEF c, n
  <2> QED
    BY <1>1, FittedContents DEF n
<1>3. c <= MemLimit => WellFormed(z) /\ Roomy(z) /\ Contents(z) = v
  <2> SUFFICES ASSUME c <= MemLimit
               PROVE  WellFormed(z) /\ Roomy(z) /\ Contents(z) = v
    OBVIOUS
  <2>1. c \in 0..MemLimit
    BY <1>1, ArrayConstants
  <2> HIDE DEF b, c, n
  <2>2. k <= c /\ n <= k
    BY DEF c, n
  <2> DEFINE y == z
  <2>3. y = [size |-> n, capacity |-> k, exp |-> x, buffer |-> b]
    OBVIOUS
  <2> HIDE DEF y
  <2>4. WellFormed(y) /\ Roomy(y) /\ Contents(y) = [j \in 1..n |-> b[j - 1]]
    BY <1>1, <1>2, <2>1, <2>2, <2>3, Rebuilt
  <2> QED
    BY <1>2, <2>4 DEF y
<1>4. Adopt(z, c)
  OBVIOUS
<1> HIDE DEF z, c, b, n
<1>5. /\ BufferInv' /\ fault' = FALSE
      /\ \/ ret' = Refused(CC_ERR_ALLOC) /\ Contents(array)' = Contents(array)
         \/ ret' = Done /\ array' = z /\ c <= MemLimit
  BY <1>3, <1>4, Adopted
<1>6. Stays /\ fault' = FALSE
  BY <1>5 DEF Stays, NoStrayAccess
<1>7. CASE ret' = Refused(CC_ERR_ALLOC) /\ Contents(array)' = Contents(array)
  BY <1>6, <1>7, Refusals
<1>8. CASE ret' = Done /\ array' = z /\ c <= MemLimit
  <2>1. Contents(array)' = Contents(z)
    BY <1>8
  <2> QED
    BY <1>3, <1>6, <1>8, <2>1
<1> QED
  BY <1>5, <1>7, <1>8

LEMMA ArrayRecord ==
  ASSUME BufferInv
  PROVE  /\ array = [size |-> array.size, capacity |-> array.capacity,
                     exp |-> array.exp, buffer |-> array.buffer]
         /\ array.exp \in Nat
<1>1. PICK m \in 0..MemLimit : array \in Array(m)
  BY DEF BufferInv, WellFormed, Holds
<1> QED
  BY <1>1 DEF Array

LEMMA FilterStays ==
  ASSUME BufferInv, fault = FALSE, NEW pred, Filter(pred)
  PROVE  Stays /\ fault' = FALSE /\ Abs!Filter(pred)
<1>1. CASE array.size = 0 /\ Refuse(CC_ERR_OUT_OF_RANGE)
  <2>1. Stays /\ fault' = FALSE /\ Abs!NotThere
    BY <1>1, RejectStays DEF Refuse
  <2> QED
    BY <1>1, <2>1, EmptyContents DEF Abs!Filter
<1>2. CASE array.size # 0 /\ Adopt(FilteredCopy(array, pred), array.capacity)
  <2> DEFINE v == Selected(Contents(array), pred)
             k == array.capacity
             x == array.exp
  <2>1. v \in Seq(Elements) /\ Len(v) <= array.size
    BY ArrayFacts, SelectedShort
  <2>2. Len(v) <= k /\ k <= array.capacity /\ k \in Nat /\ x \in Nat
    <3> HIDE DEF v
    <3> QED
      BY <2>1, ArrayFacts, ArrayRecord
  <2>3. FilteredCopy(array, pred)
          = [size |-> Len(v), capacity |-> k, exp |-> x,
             buffer |-> Fitted(v, Len(v), array.capacity)]
    <3> HIDE DEF v
    <3> DEFINE b == Fitted(v, Len(v), array.capacity)
    <3>1. FilteredCopy(array, pred) = [array EXCEPT !.size = Len(v), !.buffer = b]
      BY DEF FilteredCopy, Fitted, v
    <3> HIDE DEF b
    <3> QED
      BY <3>1, ArrayRecord DEF b
  <2> HIDE DEF v, k, x
  <2>4. Adopt([size |-> Len(v), capacity |-> k, exp |-> x,
               buffer |-> Fitted(v, Len(v), array.capacity)], array.capacity)
    BY <1>2, <2>3
  <2>5. /\ Stays /\ fault' = FALSE
        /\ Abs!NoMemory \/ (Contents(array)' = v /\ ret' = Done)
    BY <2>1, <2>2, <2>4, AdoptedStays
  <2>6. Contents(array) # <<>> /\ Abs!Done = Done
    BY <1>2, EmptyContents, SameResults
  <2>7. Abs!Selected(Contents(array), pred) = v
    BY DEF Abs!Selected, Selected, v
  <2> QED
    BY <2>5, <2>6, <2>7 DEF Abs!Filter
<1> QED
  BY <1>1, <1>2 DEF Filter

LEMMA PartOf ==
  ASSUME NEW S, NEW s \in Seq(S), NEW m \in 1..Len(s), NEW n \in m..Len(s)
  PROVE  /\ SubSeq(s, m, n) \in Seq(S) /\ Len(SubSeq(s, m, n)) = n - m + 1
         /\ \A j \in 1..(n - m + 1) : SubSeq(s, m, n)[j] = s[m + j - 1]
<1>1. SubSeq(s, m, n) \in Seq(S)
  BY ONLY m \in 1..Len(s), n \in m..Len(s), s \in Seq(S), SMTT(60)
<1>2. Len(SubSeq(s, m, n)) = n - m + 1
  BY ONLY m \in 1..Len(s), n \in m..Len(s), s \in Seq(S), SMTT(60)
<1>3. \A j \in 1..(n - m + 1) : SubSeq(s, m, n)[j] = s[m + j - 1]
  BY ONLY m \in 1..Len(s), n \in m..Len(s), s \in Seq(S), SMTT(60)
<1> QED
  BY <1>1, <1>2, <1>3

LEMMA SubarrayStays ==
  ASSUME BufferInv, fault = FALSE, NEW b \in Nat, NEW e \in Nat, Subarray(b, e)
  PROVE  Stays /\ fault' = FALSE /\ Abs!Subarray(b, e)
<1> DEFINE c == Contents(array)
           n == array.size
<1>1. n \in Nat /\ Len(c) = n /\ c \in Seq(Elements) /\ n <= array.capacity
      /\ array.capacity \in Nat
  BY ArrayFacts
<1>2. CASE (b > e \/ e >= n) /\ Refuse(CC_ERR_INVALID_RANGE)
  <2>1. Stays /\ fault' = FALSE /\ Abs!Refuse({Abs!CC_ERR_INVALID_RANGE})
    BY <1>2, RejectStays DEF Refuse
  <2> QED
    BY <1>1, <1>2, <2>1 DEF Abs!Subarray
<1>3. CASE b <= e /\ e < n /\ Adopt(SubArray(array, b, e), array.capacity)
  <2> DEFINE v == SubSeq(c, b + 1, e + 1)
             k == e - b + 1
  <2>1. /\ v \in Seq(Elements) /\ Len(v) = k
        /\ \A j \in 1..k : v[j] = c[b + j]
    <3> HIDE DEF c, n
    <3>1. b + 1 \in 1..Len(c) /\ e + 1 \in 1..Len(c) /\ b + 1 <= e + 1
      BY <1>1, <1>3
    <3>2. /\ v \in Seq(Elements) /\ Len(v) = (e + 1) - (b + 1) + 1
          /\ \A j \in 1..((e + 1) - (b + 1) + 1) : v[j] = c[(b + 1) + j - 1]
      <4> DEFINE p == b + 1
                 q == e + 1
      <4>1. c \in Seq(Elements) /\ p \in 1..Len(c) /\ q \in p..Len(c)
        BY <1>1, <3>1
      <4> HIDE DEF p, q
      <4>2. /\ SubSeq(c, p, q) \in Seq(Elements) /\ Len(SubSeq(c, p, q)) = q - p + 1
            /\ \A j \in 1..(q - p + 1) : SubSeq(c, p, q)[j] = c[p + j - 1]
        BY <4>1, PartOf
      <4> QED
        BY <4>2 DEF p, q
    <3>3. (e + 1) - (b + 1) + 1 = k
      OBVIOUS
    <3>4. \A j \in 1..k : (b + 1) + j - 1 = b + j
      OBVIOUS
    <3> HIDE DEF v, k
    <3> QED
      BY <3>2, <3>3, <3>4
  <2>2. k \in Nat /\ k <= array.capacity
    BY <1>1, <1>3
  <2>3. SubArray(array, b, e)
          = [size |-> Len(v), capacity |-> k, exp |-> 0,
             buffer |-> Fitted(v, Len(v), array.capacity)]
    <3>1. ASSUME NEW s \in Slots(array.capacity), s < k
          PROVE  array.buffer[b + s] = v[s + 1]
      <4>1. /\ s + 1 \in 1..k /\ b + s \in Slots(n) /\ b + (s + 1) = (b + s) + 1
        BY <1>1, <1>3, <3>1 DEF Slots
      <4>2. c[(b + s) + 1] = array.buffer[b + s]
        <5> DEFINE i == b + s
        <5> HIDE DEF i
        <5>1. i \in Slots(n)
          BY <4>1 DEF i
        <5>2. c[i + 1] = array.buffer[i]
          BY <5>1, ArrayFacts
        <5> QED
          BY <5>2 DEF i
      <4> HIDE DEF v, k, c, n
      <4> QED
        BY <2>1, <4>1, <4>2
    <3> HIDE DEF v
    <3>2. [s \in Slots(array.capacity) |-> IF s < k THEN array.buffer[b + s] ELSE NoElement]
            = Fitted(v, k, array.capacity)
      BY <3>1 DEF Fitted
    <3> QED
      BY <2>1, <3>2 DEF SubArray
  <2> HIDE DEF v, k
  <2>4. Adopt([size |-> Len(v), capacity |-> k, exp |-> 0,
               buffer |-> Fitted(v, Len(v), array.capacity)], array.capacity)
    BY <1>3, <2>3
  <2>5. /\ Stays /\ fault' = FALSE
        /\ Abs!NoMemory \/ (Contents(array)' = v /\ ret' = Done)
    <3>1. Len(v) <= k /\ 0 \in Nat
      BY <2>1, <2>2
    <3> QED
      BY <2>1, <2>2, <2>4, <3>1, AdoptedStays
  <2> QED
    BY <1>1, <1>3, <2>5, SameResults DEF Abs!Subarray, v
<1> QED
  BY <1>2, <1>3 DEF Subarray

LEMMA CopyShallowStays ==
  ASSUME BufferInv, fault = FALSE, CopyShallow
  PROVE  Stays /\ fault' = FALSE /\ Abs!Copy
<1> DEFINE v == Contents(array)
           k == array.capacity
           x == array.exp
<1>1. /\ v \in Seq(Elements) /\ Len(v) = array.size /\ array.size \in Nat
      /\ Len(v) <= k /\ k <= array.capacity /\ k \in Nat /\ x \in Nat
  BY ArrayFacts, ArrayRecord
<1>2. ASSUME NEW s \in Slots(array.capacity), s < array.size
      PROVE  array.buffer[s] = v[s + 1]
  <2>1. s \in Slots(array.size)
    BY <1>1, <1>2 DEF Slots
  <2> QED
    BY <2>1, ArrayFacts
<1> HIDE DEF v
<1>3. Copied(array.buffer, array.size, array.capacity) = Fitted(v, Len(v), array.capacity)
  BY <1>1, <1>2 DEF Copied, Fitted
<1> DEFINE y == [size |-> Len(v), capacity |-> k, exp |-> x,
                 buffer |-> Fitted(v, Len(v), array.capacity)]
<1>4. [array EXCEPT !.buffer = Copied(@, array.size, array.capacity)] = y
  <2> DEFINE b == Fitted(v, Len(v), array.capacity)
  <2>1. [array EXCEPT !.buffer = Copied(@, array.size, array.capacity)]
          = [array EXCEPT !.buffer = b]
    BY <1>3
  <2> HIDE DEF b
  <2> QED
    BY <1>1, <2>1, ArrayRecord DEF b
<1> HIDE DEF k, x
<1>5. Adopt(y, array.capacity)
  BY <1>4 DEF CopyShallow
<1>6. /\ Stays /\ fault' = FALSE
      /\ Abs!NoMemory \/ (Contents(array)' = v /\ ret' = Done)
  BY <1>1, <1>5, AdoptedStays
<1> QED
  BY <1>6, SameResults DEF Abs!Copy, Abs!Keep, Abs!Same, v

LEMMA CopyDeepStays ==
  ASSUME BufferInv, fault = FALSE, NEW cp \in [Elements -> Elements], CopyDeep(cp)
  PROVE  Stays /\ fault' = FALSE /\ Abs!CopyDeep(cp)
<1> DEFINE c == Contents(array)
           v == [i \in DOMAIN c |-> cp[c[i]]]
           k == array.capacity
           x == array.exp
<1>1. /\ c \in Seq(Elements) /\ Len(c) = array.size /\ array.size \in Nat
      /\ DOMAIN c = 1..array.size
      /\ array.size <= k /\ k <= array.capacity /\ k \in Nat /\ x \in Nat
  BY ArrayFacts, ArrayRecord
<1>2. v \in Seq(Elements) /\ Len(v) = array.size
  <2> HIDE DEF c
  <2>1. v \in [1..array.size -> Elements]
    BY <1>1
  <2> QED
    BY <1>1, <2>1
<1>3. ASSUME NEW s \in Slots(array.capacity), s < array.size
      PROVE  cp[array.buffer[s]] = v[s + 1]
  <2>1. s \in Slots(array.size)
    BY <1>1, <1>3 DEF Slots
  <2>2. s + 1 \in 1..array.size /\ c[s + 1] = array.buffer[s]
    BY <2>1, ArrayFacts
  <2> HIDE DEF c
  <2> QED
    BY <1>1, <2>2
<1> HIDE DEF v
<1> DEFINE b == Fitted(v, Len(v), array.capacity)
           y == [size |-> Len(v), capacity |-> k, exp |-> x, buffer |-> b]
<1>4. [s \in Slots(array.capacity) |->
         IF s < array.size THEN cp[array.buffer[s]] ELSE NoElement] = b
  BY <1>2, <1>3 DEF Fitted
<1> HIDE DEF b
<1>5. [array EXCEPT !.buffer = b] = y
  BY <1>2, ArrayRecord
<1> HIDE DEF k, x
<1>6. Adopt(y, array.capacity)
  BY <1>4, <1>5 DEF CopyDeep
<1>7. Len(v) <= k
  BY <1>1, <1>2
<1>8. /\ Stays /\ fault' = FALSE
      /\ Abs!NoMemory \/ (Contents(array)' = v /\ ret' = Done)
  <2>1. Adopt([size |-> Len(v), capacity |-> k, exp |-> x,
               buffer |-> Fitted(v, Len(v), array.capacity)], array.capacity)
    BY <1>6 DEF b
  <2> QED
    BY <1>1, <1>2, <1>7, <2>1, AdoptedStays
<1> QED
  BY <1>8, SameResults DEF Abs!CopyDeep, v

LEMMA TrimStays ==
  ASSUME BufferInv, fault = FALSE, TrimCapacity
  PROVE  Stays /\ (fault' \/ Abs!Copy)
<1> DEFINE n == array.size
<1>1. PICK m \in 0..MemLimit : Holds(array, m)
  BY DEF BufferInv, WellFormed
<1>2. n \in Nat /\ n \in 0..MemLimit
  BY <1>1, ArrayConstants DEF Holds, Array
<1>3. CASE Update(array, {}, Done)
  <2>1. Stays /\ fault' = FALSE /\ ret' = Done /\ Contents(array)' = Contents(array)
    BY <1>3, Unmoved DEF Update
  <2> QED
    BY <2>1, SameResults DEF Abs!Copy, Abs!Keep, Abs!Same
<1>4. CASE Refuse(CC_ERR_ALLOC)
  BY <1>4, RejectStays DEF Refuse, Abs!Copy
<1>5. CASE n = 0 /\ Crash
  BY <1>5 DEF Crash, Stays, BufferInv, NoStrayAccess
<1>6. CASE n # 0 /\ Update([array EXCEPT !.capacity = n, !.buffer = Copied(@, n, n)],
                           {}, Done)
  <2> DEFINE y == [array EXCEPT !.capacity = n, !.buffer = Copied(@, n, n)]
  <2>1. WellFormed(y) /\ Contents(y) = Contents(array) /\ Roomy(y)
    <3> DEFINE z == y
    <3>1. z = [array EXCEPT !.capacity = n, !.buffer = Copied(@, array.size, n)]
      OBVIOUS
    <3> HIDE DEF z
    <3>2. n \in 0..MemLimit /\ n >= array.size
      BY <1>2
    <3> HIDE DEF n
    <3>3. WellFormed(z) /\ Contents(z) = Contents(array) /\ Roomy(z)
      BY <1>1, <3>1, <3>2, Grown
    <3> QED
      BY <3>3 DEF z
  <2>2. array' = y /\ ret' = Done /\ fault' = FALSE /\ refused' = refused
    BY <1>6 DEF Update, Commit, Return
  <2> HIDE DEF y
  <2>3. Contents(array)' = Contents(array)
    BY <2>1, <2>2
  <2> QED
    BY <2>1, <2>2, <2>3, SameResults
    DEF Stays, BufferInv, NoStrayAccess, Abs!Copy, Abs!Keep, Abs!Same
<1> QED
  BY <1>3, <1>4, <1>5, <1>6 DEF TrimCapacity

-----------------------------------------------------------------------------
\* Sorting: the indices of e from 0 are as many as those from 1.
LEMMA SortStays ==
  ASSUME BufferInv, fault = FALSE, Sort
  PROVE  Stays /\ fault' = FALSE /\ Abs!Sort(Key)
<1> DEFINE n == array.size
           c == Contents(array)
           Times(e) == {i \in 1..n : c[i] = e}
           From0(e) == {i \in Slots(n) : array.buffer[i] = e}
           slots == {}
<1>1. /\ n \in Nat /\ n \in 0..n /\ Len(c) = n /\ DOMAIN c = 1..n /\ c \in Seq(Elements)
      /\ Slots(n) \subseteq DOMAIN array.buffer
      /\ array.buffer \in Buffers(DOMAIN array.buffer) /\ Filled(array.buffer, n)
  BY ArrayFacts
<1>2. PICK s \in [1..n -> Elements] :
        /\ \A i \in 2..n : Key[s[i - 1]] <= Key[s[i]]
        /\ \A e \in Elements : Cardinality({i \in 1..n : s[i] = e})
                                 = Cardinality(From0(e))
        /\ Update([array EXCEPT !.buffer =
                     [i \in DOMAIN @ |-> IF i < array.size THEN s[i + 1] ELSE @[i]]],
                  {}, Done)
  BY DEF Sort
<1> DEFINE b == [i \in DOMAIN array.buffer |->
                   IF i < n THEN s[i + 1] ELSE array.buffer[i]]
<1>3. Commit(With(array, b, n), slots, Done)
  <2>1. PICK m \in 0..MemLimit : array \in Array(m)
    BY DEF BufferInv, WellFormed, Holds
  <2> QED
    BY <1>2, <2>1 DEF Update, With, Array
<1>4. ASSUME NEW i \in Slots(n) PROVE i + 1 \in 1..n /\ b[i] = s[i + 1]
  BY <1>1 DEF Slots
<1>5. b \in Buffers(DOMAIN array.buffer) /\ Filled(b, n)
  <2>1. ASSUME NEW i \in DOMAIN array.buffer PROVE b[i] \in Elements \cup {NoElement}
    <3>1. PICK m \in 0..MemLimit : DOMAIN array.buffer = Slots(m)
      BY DEF BufferInv, WellFormed, Holds, Array
    <3>2. i < n => i + 1 \in 1..n
      BY <1>1, <3>1, ArrayConstants DEF Slots
    <3> QED
      BY <1>1, <3>2 DEF Buffers
  <2> QED
    BY <1>4, <2>1 DEF Buffers, Filled
<1>6. [k \in 1..n |-> b[k - 1]] = s
  <2>1. ASSUME NEW k \in 1..n PROVE b[k - 1] = s[k]
    <3>1. k - 1 \in Slots(n) /\ k - 1 + 1 = k
      BY <1>1 DEF Slots
    <3> HIDE DEF b
    <3> QED
      BY <1>4, <3>1
  <2> HIDE DEF b
  <2> QED
    BY <2>1
<1>7. /\ Stays /\ fault' = FALSE /\ ret' = Done /\ Contents(array)' = s
  <2> HIDE DEF b, n, slots
  <2>1. n \in 0..array.size /\ slots \subseteq DOMAIN array.buffer
    BY <1>1 DEF n, slots
  <2>2. /\ Stays /\ fault' = FALSE /\ ret' = Done
        /\ Contents(array)' = [k \in 1..n |-> b[k - 1]]
    BY <1>3, <1>5, <2>1, Rearranged
  <2> QED
    BY <1>6, <2>2
<1>8. ASSUME NEW e \in Elements PROVE Cardinality(Times(e)) = Cardinality(From0(e))
  <2> DEFINE T == From0(e)
             U == Times(e)
             f == [i \in T |-> i + 1]
  <2>1. ASSUME NEW i \in T PROVE i \in Int /\ f[i] = i + 1 /\ f[i] \in U
    <3>1. i \in Slots(n) /\ i \in Int
      BY <1>1 DEF Slots
    <3>2. i + 1 \in 1..n /\ c[i + 1] = array.buffer[i]
      BY <3>1, ArrayFacts
    <3> QED
      BY <3>1, <3>2
  <2>2. ASSUME NEW u \in U PROVE \E i \in T : f[i] = u
    <3>1. u - 1 \in Slots(n) /\ u - 1 + 1 = u
      BY <1>1 DEF Slots
    <3>2. c[u] = array.buffer[u - 1]
      BY DEF Contents
    <3>3. u - 1 \in T
      BY <3>1, <3>2
    <3> QED
      BY <3>1, <3>3
  <2>3. IsFiniteSet(T)
    <3>1. T \subseteq 0..(n - 1) /\ 0 \in Int /\ n - 1 \in Int
      BY <1>1 DEF Slots
    <3> QED
      BY <3>1, FS_Interval, FS_Subset
  <2>4. f \in [T -> U] /\ \A x, y \in T : f[x] = f[y] => x = y
    <3> HIDE DEF T, U
    <3>1. f \in [T -> U]
      BY <2>1
    <3>2. ASSUME NEW x \in T, NEW y \in T, f[x] = f[y] PROVE x = y
      BY <2>1, <3>2
    <3> QED
      BY <3>1, <3>2
  <2> HIDE DEF f, T, U
  <2>5. Cardinality(U) = Cardinality(T)
    BY <2>2, <2>3, <2>4, SameCount
  <2> QED
    BY <2>5 DEF T, U
<1>9. s \in Seq(Elements) /\ Len(s) = n /\ DOMAIN s = 1..n
  BY <1>1
<1>10. ASSUME NEW e \in Elements
       PROVE  Cardinality({i \in DOMAIN c : c[i] = e})
                = Cardinality({i \in DOMAIN s : s[i] = e})
  BY <1>1, <1>2, <1>8, <1>9
<1> HIDE DEF c
<1>11. Abs!Permuted(c, s)
  <2>1. \A S : Abs!Cardinality(S) = Cardinality(S)
    BY DEF Abs!Cardinality, Cardinality
  <2> QED
    BY <1>10, <2>1 DEF Abs!Permuted
<1>12. Abs!Ascending(s, Key)
  BY <1>2, <1>9 DEF Abs!Ascending
<1>13. Abs!Reorder
  BY <1>1, <1>7, <1>9, <1>11, SameResults DEF Abs!Reorder, c
<1> QED
  BY <1>7, <1>12, <1>13 DEF Abs!Sort

-----------------------------------------------------------------------------
\* Filtering in place, element by element.  A scan has the buffer and the size so
\* far, rm elements just rejected and, behind them, keep accepted ones.

Scans(m) == [buffer : Buffers(Slots(m)), size : Nat, rm : Nat, keep : Nat]

\* The scan with its rejected elements closed up.
Closed(s, i) ==
  [s EXCEPT !.buffer = Move(@, i, i + s.rm, s.keep), !.size = @ - s.rm, !.rm = 0]
Tidy(s, i) == IF s.rm > 0 THEN Closed(s, i) ELSE s

ScanStart(a) == [buffer |-> a.buffer, size |-> a.size, rm |-> 0, keep |-> 0]
ScanStep(a, pred, n, s) ==
  IF s.buffer[a.size - n] \notin pred THEN [s EXCEPT !.rm = @ + 1]
  ELSE [Tidy(s, a.size - n + 1) EXCEPT !.keep = @ + 1]

LEMMA TidyFacts ==
  ASSUME NEW m \in Nat, NEW s \in Scans(m), NEW i \in Nat,
         s.size = i + s.rm + s.keep, s.size <= m
  PROVE  LET z == Tidy(s, i)
         IN  /\ z \in Scans(m) /\ z.size = i + s.keep /\ z.rm = 0 /\ z.keep = s.keep
             /\ \A j \in Slots(m) :
                  z.buffer[j] = IF i <= j /\ j < i + s.keep THEN s.buffer[j + s.rm]
                                ELSE s.buffer[j]
<1> DEFINE b == Move(s.buffer, i, i + s.rm, s.keep)
<1>1. /\ s.rm \in Nat /\ s.keep \in Nat /\ s.size \in Nat
      /\ s.buffer \in Buffers(Slots(m)) /\ DOMAIN s.buffer = Slots(m)
      /\ s = [buffer |-> s.buffer, size |-> s.size, rm |-> s.rm, keep |-> s.keep]
  BY DEF Scans, Buffers
<1>2. ASSUME NEW j \in Slots(m)
      PROVE  /\ b[j] = IF i <= j /\ j < i + s.keep THEN s.buffer[j + s.rm]
                       ELSE s.buffer[j]
             /\ b[j] \in Elements \cup {NoElement}
  <2>1. j \in Int /\ j - i + (i + s.rm) = j + s.rm
    BY <1>1 DEF Slots
  <2>2. b[j] = IF i <= j /\ j < i + s.keep THEN s.buffer[j + s.rm]
               ELSE s.buffer[j]
    BY <1>1, <2>1 DEF Move
  <2>3. i <= j /\ j < i + s.keep => j + s.rm \in Slots(m)
    BY <1>1, <2>1 DEF Slots
  <2> QED
    BY <1>1, <2>2, <2>3 DEF Buffers
<1>3. b \in Buffers(Slots(m))
  <2>1. b = [j \in Slots(m) |-> b[j]]
    BY <1>1 DEF Move
  <2> HIDE DEF b
  <2> QED
    BY <1>2, <2>1 DEF Buffers
<1>4. CASE s.rm > 0
  <2>1. Tidy(s, i) = [s EXCEPT !.buffer = b, !.size = s.size - s.rm, !.rm = 0]
    BY <1>4 DEF Tidy, Closed
  <2>2. s.size - s.rm = i + s.keep /\ i + s.keep \in Nat
    BY <1>1
  <2> HIDE DEF b
  <2>3. Tidy(s, i) = [buffer |-> b, size |-> i + s.keep, rm |-> 0, keep |-> s.keep]
    BY <1>1, <2>1, <2>2
  <2> QED
    BY <1>1, <1>2, <1>3, <2>2, <2>3 DEF Scans
<1>5. CASE ~(s.rm > 0)
  <2>1. Tidy(s, i) = s /\ s.rm = 0
    BY <1>1, <1>5 DEF Tidy
  <2>2. \A j \in Slots(m) : j + 0 = j
    BY DEF Slots
  <2> QED
    BY <1>1, <2>1, <2>2
<1> QED
  BY <1>4, <1>5

\* After n elements: those in front are untouched, and what is accepted of the
\* others is last[n], behind the elements just rejected.
Scanned(a, m, last, n) ==
  {s \in Scans(m) :
     /\ s.size = (a.size - n) + s.rm + s.keep /\ s.size <= m
     /\ \A j \in Slots(a.size - n) : s.buffer[j] = a.buffer[j]
     /\ Len(last[n]) = s.keep
     /\ \A j \in Slots(s.size) :
          (a.size - n) + s.rm <= j
            => s.buffer[j] = last[n][j + 1 - ((a.size - n) + s.rm)]}

\* last[n] has the accepted ones of the last n of the elements c of a.
Accepts(last, a, c, pred) ==
  /\ c \in Seq(Elements) /\ Len(c) = a.size
  /\ \A j \in 1..a.size : c[j] = a.buffer[j - 1]
  /\ last \in [0..a.size -> Seq(Elements)]
  /\ Selects(last, c, pred)

LEMMA ScanGoesOn ==
  ASSUME NEW m \in Nat, NEW a, a.size \in 0..m, NEW c, NEW pred, NEW last,
         Accepts(last, a, c, pred),
         NEW n \in 1..a.size, NEW s \in Scanned(a, m, last, n - 1)
  PROVE  ScanStep(a, pred, n, s) \in Scanned(a, m, last, n)
<1> DEFINE i == a.size - n
           p == i + 1
           x == c[p]
           t == last[n - 1]
           u == last[n]
<1>1. /\ a.size \in Nat /\ i \in Nat /\ p \in Nat /\ p = a.size - (n - 1) /\ p \in 1..a.size /\ p <= m
      /\ Len(c) + 1 - n = p /\ i \in Slots(p) /\ i \in Slots(m) /\ p - 1 = i
  <2>1. Len(c) = a.size
    BY DEF Accepts
  <2> QED
    BY <2>1 DEF Slots
<1>2. /\ s \in Scans(m) /\ s.size = p + s.rm + s.keep /\ s.size <= m
      /\ \A j \in Slots(p) : s.buffer[j] = a.buffer[j]
      /\ Len(t) = s.keep
      /\ \A j \in Slots(s.size) :
           p + s.rm <= j => s.buffer[j] = t[j + 1 - (p + s.rm)]
  BY <1>1 DEF Scanned
<1>3. s.rm \in Nat /\ s.keep \in Nat /\ s.size \in Nat
  BY <1>2 DEF Scans
<1>9. s = [buffer |-> s.buffer, size |-> s.size, rm |-> s.rm, keep |-> s.keep]
  BY <1>2 DEF Scans
<1>4. s.buffer[i] = x
  <2>1. c[p] = a.buffer[p - 1] /\ s.buffer[i] = a.buffer[i]
    BY <1>1, <1>2 DEF Accepts
  <2> QED
    BY <1>1, <2>1
<1>5. t \in Seq(Elements) /\ u \in Seq(Elements) /\ x \in Elements
  <2>1. n - 1 \in 0..a.size /\ n \in 0..a.size /\ p \in 1..Len(c)
    BY <1>1, SMTT(30) DEF Accepts
  <2> HIDE DEF p
  <2>2. x \in Elements
    BY <2>1 DEF Accepts
  <2>3. t \in Seq(Elements)
    BY <2>1 DEF Accepts
  <2>4. u \in Seq(Elements)
    BY <2>1 DEF Accepts
  <2> QED
    BY <2>2, <2>3, <2>4
<1>6. u = IF x \in pred THEN <<x>> \o t ELSE t
  BY <1>1 DEF Accepts, Selects
<1> HIDE DEF t, u, x
<1>7. CASE x \notin pred
  <2> DEFINE z == [s EXCEPT !.rm = @ + 1]
  <2>1. ScanStep(a, pred, n, s) = z
    BY <1>4, <1>7 DEF ScanStep
  <2>2. /\ z = [buffer |-> s.buffer, size |-> s.size, rm |-> s.rm + 1, keep |-> s.keep]
        /\ z.buffer = s.buffer /\ z.size = s.size /\ z.rm = s.rm + 1 /\ z.keep = s.keep
    <3> DEFINE r == s.rm + 1
    <3>1. z = [s EXCEPT !.rm = r]
      OBVIOUS
    <3> HIDE DEF r, z
    <3>2. z = [buffer |-> s.buffer, size |-> s.size, rm |-> r, keep |-> s.keep]
      BY <1>9, <3>1
    <3> QED
      BY <3>2 DEF r
  <2>3. z \in Scans(m)
    BY <1>2, <1>3, <2>2 DEF Scans
  <2>4. z.size = i + z.rm + z.keep /\ i + z.rm = p + s.rm
    <3>1. i \in Nat /\ p = i + 1 /\ s.size = p + s.rm + s.keep
      BY <1>1, <1>2
    <3>2. z.size = s.size /\ z.rm = s.rm + 1 /\ z.keep = s.keep
      BY <2>2
    <3> HIDE DEF i, p, z
    <3> QED
      BY <1>3, <3>1, <3>2
  <2>5. \A j \in Slots(i) : j \in Slots(p)
    BY <1>1 DEF Slots
  <2>6. u = t
    BY <1>6, <1>7
  <2> HIDE DEF z
  <2>7. z \in Scanned(a, m, last, n)
    <3>1. \A j \in Slots(i) : z.buffer[j] = a.buffer[j]
      BY <1>2, <2>2, <2>5
    <3>2. Len(u) = z.keep
      BY <1>2, <2>2, <2>6
    <3>3. \A j \in Slots(z.size) : i + z.rm <= j => z.buffer[j] = u[j + 1 - (i + z.rm)]
      BY <1>2, <2>2, <2>4, <2>6
    <3> HIDE DEF i, p
    <3> QED
      BY <1>2, <2>2, <2>3, <2>4, <3>1, <3>2, <3>3 DEF Scanned, i, u
  <2> QED
    BY <2>1, <2>7
<1>8. CASE x \in pred
  <2> DEFINE y == Tidy(s, p)
             z == [y EXCEPT !.keep = @ + 1]
  <2>1. ScanStep(a, pred, n, s) = z
    BY <1>4, <1>8 DEF ScanStep
  <2>2. /\ y \in Scans(m) /\ y.size = p + s.keep /\ y.rm = 0 /\ y.keep = s.keep
        /\ \A j \in Slots(m) :
             y.buffer[j] = IF p <= j /\ j < p + s.keep THEN s.buffer[j + s.rm]
                           ELSE s.buffer[j]
    <3> HIDE DEF p
    <3> QED
      BY <1>1, <1>2, TidyFacts
  <2> HIDE DEF y
  <2>3. /\ z = [buffer |-> y.buffer, size |-> p + s.keep, rm |-> 0, keep |-> s.keep + 1]
        /\ z.buffer = y.buffer /\ z.size = p + s.keep /\ z.rm = 0 /\ z.keep = s.keep + 1
    <3> DEFINE r == s.keep + 1
               e == p + s.keep
    <3>1. z = [y EXCEPT !.keep = r]
      BY <2>2
    <3>2. y.size = e /\ y.rm = 0 /\ y = [buffer |-> y.buffer, size |-> y.size, rm |-> y.rm, keep |-> y.keep]
      BY <2>2 DEF Scans
    <3> HIDE DEF r, e, z
    <3>3. z = [buffer |-> y.buffer, size |-> e, rm |-> 0, keep |-> r]
      BY <3>1, <3>2
    <3> QED
      BY <3>3 DEF r, e
  <2>0. i \in Nat /\ p = i + 1 /\ s.size = p + s.rm + s.keep /\ p <= m
    BY <1>1, <1>2
  <2>4. z \in Scans(m)
    <3> HIDE DEF i, p, z
    <3>1. p + s.keep \in Nat /\ s.keep + 1 \in Nat /\ y.buffer \in Buffers(Slots(m))
      BY <1>3, <2>0, <2>2 DEF Scans
    <3> QED
      BY <2>3, <3>1 DEF Scans
  <2>5. z.size = i + z.rm + z.keep /\ i + z.rm = i /\ z.size <= m
    <3>1. z.size = p + s.keep /\ z.rm = 0 /\ z.keep = s.keep + 1 /\ s.size <= m
      BY <1>2, <2>3
    <3> HIDE DEF i, p, z
    <3> QED
      BY <1>3, <2>0, <3>1
  <2>6. /\ u = <<x>> \o t /\ Len(u) = s.keep + 1 /\ u[1] = x
        /\ \A k \in 1..s.keep : u[k + 1] = t[k]
    <3>1. u = <<x>> \o t
      BY <1>6, <1>8
    <3>2. Len(t) = s.keep
      BY <1>2
    <3> QED
      BY <1>3, <1>5, <3>1, <3>2
  <2> HIDE DEF z
  <2>7. \A j \in Slots(i) : z.buffer[j] = a.buffer[j]
    <3> SUFFICES ASSUME NEW j \in Slots(i) PROVE z.buffer[j] = a.buffer[j]
      OBVIOUS
    <3>1. j \in Slots(p) /\ j \in Slots(m) /\ ~(p <= j)
      <4> HIDE DEF i, p
      <4> QED
        BY <2>0 DEF Slots
    <3> QED
      BY <1>2, <2>2, <2>3, <3>1
  <2>8. \A j \in Slots(z.size) : i + z.rm <= j => z.buffer[j] = u[j + 1 - (i + z.rm)]
    <3> SUFFICES ASSUME NEW j \in Slots(p + s.keep), i <= j
                 PROVE  z.buffer[j] = u[j + 1 - i]
      BY <2>3, <2>5
    <3>1. j \in Nat /\ j < p + s.keep /\ j \in Slots(m)
      <4> HIDE DEF i, p
      <4> QED
        BY <1>2, <1>3, <2>0 DEF Slots
    <3>2. CASE j = i
      <4>1. ~(p <= j) /\ j + 1 - i = 1
        BY <1>1, <3>2
      <4> QED
        BY <1>4, <2>2, <2>3, <2>6, <3>1, <3>2, <4>1
    <3>3. CASE j # i
      <4> DEFINE k == j - i
                 q == j + s.rm
      <4>1. /\ p <= j /\ k \in 1..s.keep /\ j + 1 - i = k + 1
            /\ q \in Slots(s.size) /\ p + s.rm <= q /\ q + 1 - (p + s.rm) = k
        <5> HIDE DEF i, p
        <5> QED
          BY <1>3, <2>0, <3>1, <3>3 DEF Slots
      <4>2. z.buffer[j] = s.buffer[q]
        BY <2>2, <2>3, <3>1, <4>1
      <4> HIDE DEF k, q, p, i
      <4>3. s.buffer[q] = t[k]
        BY <1>2, <4>1
      <4> QED
        BY <2>6, <4>1, <4>2, <4>3
    <3> QED
      BY <3>2, <3>3
  <2>9. Len(u) = z.keep
    BY <2>3, <2>6
  <2> HIDE DEF i, p
  <2>10. z \in Scanned(a, m, last, n)
    BY <2>4, <2>5, <2>7, <2>8, <2>9 DEF Scanned, i, u
  <2> QED
    BY <2>1, <2>10
<1> QED
  BY <1>7, <1>8

\* The loop of FilteredInPlace scans all the elements.
LEMMA ScanEnds ==
  ASSUME NEW a, NEW m \in Nat, a.size \in 0..m, NEW c, NEW pred, NEW last,
         Accepts(last, a, c, pred), ScanStart(a) \in Scanned(a, m, last, 0)
  PROVE  \E s \in Scanned(a, m, last, a.size) :
           FilteredInPlace(a, pred) = With(a, Tidy(s, 0).buffer, Tidy(s, 0).size)
<1> DEFINE N == a.size
           L(f) == [n \in 0..a.size |->
                      IF n = 0
                      THEN [buffer |-> a.buffer, size |-> a.size, rm |-> 0, keep |-> 0]
                      ELSE LET s == f[n - 1]
                               i == a.size - n
                           IN  IF s.buffer[i] \notin pred THEN [s EXCEPT !.rm = @ + 1]
                               ELSE [(IF s.rm > 0
                                      THEN [s EXCEPT !.buffer = Move(@, i + 1, i + 1 + s.rm,
                                                                     s.keep),
                                                     !.size = @ - s.rm, !.rm = 0]
                                      ELSE s) EXCEPT !.keep = @ + 1]]
           scan == CHOOSE f : f = L(f)
           h == [p \in (1..N) \X Scans(m) |-> ScanStep(a, pred, p[1], p[2])]
           G == [n \in 0..N |-> Scanned(a, m, last, n)]
<1>1. FilteredInPlace(a, pred) = With(a, Tidy(scan[N], 0).buffer, Tidy(scan[N], 0).size)
  BY DEF FilteredInPlace, With, Tidy, Closed
<1>2. N \in Nat
  OBVIOUS
<1>3. \A f : L(f) = [n \in 0..N |-> IF n = 0 THEN ScanStart(a)
                                    ELSE ScanStep(a, pred, n, f[n - 1])]
  BY DEF ScanStart, ScanStep, Tidy, Closed
<1>4. ASSUME NEW n \in 1..N, NEW s \in Scans(m)
      PROVE  h[<<n, s>>] = ScanStep(a, pred, n, s)
  OBVIOUS
<1>5. \A n \in 0..N : G[n] = Scanned(a, m, last, n)
  OBVIOUS
<1>6. ASSUME NEW n \in 1..N, NEW s \in Scanned(a, m, last, n - 1)
      PROVE  s \in Scans(m) /\ ScanStep(a, pred, n, s) \in Scanned(a, m, last, n)
  <2>1. s \in Scans(m)
    BY DEF Scanned
  <2>2. ScanStep(a, pred, n, s) \in Scanned(a, m, last, n)
    BY ScanGoesOn
  <2> QED
    BY <2>1, <2>2
<1> HIDE DEF L, h, G, N
<1>7. Leads(h, N, G)
  <2> SUFFICES ASSUME NEW n \in 1..N, NEW y \in G[n - 1] PROVE h[<<n, y>>] \in G[n]
    BY DEF Leads
  <2>1. n \in 0..N /\ n - 1 \in 0..N
    BY <1>2
  <2>2. y \in Scanned(a, m, last, n - 1)
    BY <1>5, <2>1
  <2>3. y \in Scans(m) /\ ScanStep(a, pred, n, y) \in Scanned(a, m, last, n)
    BY <1>6, <2>2
  <2> QED
    BY <1>4, <1>5, <2>1, <2>3
<1>8. 0 \in 0..N /\ N \in 0..N /\ ScanStart(a) \in G[0]
  <2>1. 0 \in 0..N /\ N \in 0..N
    BY <1>2
  <2> QED
    BY <1>5, <2>1
<1>9. PICK f : Iterates(f, N, G, ScanStart(a), h)
  BY <1>2, <1>7, <1>8, Recursion
<1>10. f = L(f)
  <2>1. ASSUME NEW n \in 1..N PROVE f[n] = ScanStep(a, pred, n, f[n - 1])
    <3>1. n - 1 \in 0..N
      BY <1>2
    <3>2. f[n] = h[<<n, f[n - 1]>>] /\ f[n - 1] \in G[n - 1]
      BY <1>9, <3>1 DEF Iterates
    <3>3. f[n - 1] \in Scans(m)
      BY <1>5, <1>6, <3>1, <3>2
    <3> QED
      BY <1>4, <3>2, <3>3
  <2>2. \A n \in 0..N : f[n] = IF n = 0 THEN ScanStart(a)
                               ELSE ScanStep(a, pred, n, f[n - 1])
    <3>1. f[0] = ScanStart(a)
      BY <1>9 DEF Iterates
    <3>2. \A n \in 0..N : n # 0 => n \in 1..N
      BY <1>2
    <3> QED
      BY <2>1, <3>1, <3>2
  <2>3. f = [n \in 0..N |-> f[n]]
    BY <1>9 DEF Iterates
  <2> QED
    BY <1>3, <2>2, <2>3
<1>11. scan = L(scan)
  BY <1>10
<1> HIDE DEF scan
<1>12. scan = [n \in 0..N |-> IF n = 0 THEN ScanStart(a)
                              ELSE ScanStep(a, pred, n, scan[n - 1])]
  BY <1>3, <1>11
<1>13. scan[0] = ScanStart(a) /\ \A n \in 1..N : scan[n] = ScanStep(a, pred, n, scan[n - 1])
  BY <1>2, <1>12
<1> DEFINE A == {n \in 0..N : scan[n] \in Scanned(a, m, last, n)}
<1>14. 0 \in A
  BY <1>8, <1>13
<1>15. ASSUME NEW n \in 1..N, n - 1 \in A PROVE n \in A
  <2>1. n \in 0..N /\ scan[n - 1] \in Scanned(a, m, last, n - 1)
    BY <1>2, <1>15
  <2>2. scan[n] \in Scanned(a, m, last, n)
    BY <1>6, <1>13, <2>1
  <2> QED
    BY <2>1, <2>2
<1> HIDE DEF A
<1>16. 0..N \subseteq A
  BY <1>2, <1>14, <1>15, Induction
<1>17. scan[N] \in Scanned(a, m, last, N)
  BY <1>8, <1>16 DEF A
<1> QED
  BY <1>1, <1>17 DEF N

LEMMA FilterMutStays ==
  ASSUME BufferInv, fault = FALSE, NEW pred, FilterMut(pred)
  PROVE  Stays /\ fault' = FALSE /\ Abs!Filter(pred)
<1>1. CASE array.size = 0 /\ Refuse(CC_ERR_OUT_OF_RANGE)
  <2>1. Stays /\ fault' = FALSE /\ Abs!NotThere
    BY <1>1, RejectStays DEF Refuse
  <2> QED
    BY <1>1, <2>1, EmptyContents DEF Abs!Filter
<1>2. CASE array.size # 0 /\ Update(FilteredInPlace(array, pred), {}, Done)
  <2> DEFINE N == array.size
             c == Contents(array)
             v == Selected(c, pred)
             slots == {}
  <2>1. PICK m \in 0..MemLimit : Holds(array, m)
    BY DEF BufferInv, WellFormed
  <2>2. /\ m \in Nat /\ N \in 0..m /\ N \in Nat
        /\ DOMAIN array.buffer = Slots(m) /\ array.buffer \in Buffers(Slots(m))
    BY <2>1, ArrayConstants DEF Holds, Array, Buffers
  <2>3. /\ c \in Seq(Elements) /\ Len(c) = N
        /\ \A j \in 1..N : c[j] = array.buffer[j - 1]
    BY <2>1, ContentsFacts DEF BufferInv
  <2>4. PICK last \in [0..N -> Seq(Elements)] : Selects(last, c, pred) /\ v = last[N]
    <3> HIDE DEF c, N
    <3> QED
      BY <2>3, Selecting DEF v
  <2>5. Accepts(last, array, c, pred)
    BY <2>3, <2>4 DEF Accepts
  <2>6. v \in Seq(Elements) /\ Len(v) <= N
    BY <2>3, SelectedShort
  <2> HIDE DEF c, v
  <2>7. ScanStart(array) \in Scanned(array, m, last, 0)
    <3> DEFINE z == ScanStart(array)
    <3>1. z.buffer = array.buffer /\ z.size = N /\ z.rm = 0 /\ z.keep = 0
      BY DEF ScanStart
    <3>2. z \in Scans(m)
      BY <2>2 DEF ScanStart, Scans
    <3>3. Len(last[0]) = 0
      BY <2>4 DEF Selects
    <3>4. N = (N - 0) + 0 + 0 /\ N <= m /\ \A j \in Slots(N) : ~((N - 0) + 0 <= j)
      BY <2>2 DEF Slots
    <3> HIDE DEF z
    <3> QED
      BY <3>1, <3>2, <3>3, <3>4 DEF Scanned, z
  <2>8. PICK s \in Scanned(array, m, last, N) :
          FilteredInPlace(array, pred) = With(array, Tidy(s, 0).buffer, Tidy(s, 0).size)
    BY <2>2, <2>5, <2>7, ScanEnds
  <2> DEFINE z == Tidy(s, 0)
             n == s.keep
             b == z.buffer
  <2>9. /\ s \in Scans(m) /\ s.size = s.rm + n /\ s.size <= m /\ Len(v) = n
        /\ \A j \in Slots(s.size) : s.rm <= j => s.buffer[j] = v[j + 1 - s.rm]
    <3>1. N - N = 0
      BY <2>2
    <3>2. s \in Scans(m) /\ s.rm \in Nat /\ s.keep \in Nat
      BY DEF Scanned, Scans
    <3>3. /\ s.size = (N - N) + s.rm + s.keep /\ s.size <= m /\ Len(v) = s.keep
          /\ \A j \in Slots(s.size) :
               (N - N) + s.rm <= j => s.buffer[j] = v[j + 1 - ((N - N) + s.rm)]
      BY <2>4 DEF Scanned
    <3>4. (N - N) + s.rm = s.rm
      BY <3>1, <3>2
    <3> HIDE DEF N
    <3> QED
      BY <3>2, <3>3, <3>4
  <2>10. s.rm \in Nat /\ n \in Nat /\ n <= N
    BY <2>6, <2>9 DEF Scans
  <2>11. /\ z \in Scans(m) /\ z.size = n
         /\ \A j \in Slots(m) : 0 <= j /\ j < n => b[j] = s.buffer[j + s.rm]
    <3> DEFINE i == 0
    <3>1. i \in Nat /\ s.size = i + s.rm + n /\ i + n = n
      BY <2>9, <2>10
    <3>2. Tidy(s, i) = z
      OBVIOUS
    <3> HIDE DEF i, z
    <3>3. LET y == Tidy(s, i)
          IN  /\ y \in Scans(m) /\ y.size = i + s.keep
              /\ \A j \in Slots(m) :
                   y.buffer[j] = IF i <= j /\ j < i + s.keep THEN s.buffer[j + s.rm]
                                 ELSE s.buffer[j]
      BY <2>2, <2>9, <3>1, TidyFacts
    <3> QED
      BY <3>1, <3>2, <3>3 DEF i
  <2> HIDE DEF z, n
  <2>12. ASSUME NEW j \in Slots(n) PROVE b[j] = v[j + 1]
    <3> DEFINE q == j + s.rm
    <3>1. /\ j \in Slots(m) /\ 0 <= j /\ j < n /\ q \in Slots(s.size) /\ s.rm <= q
          /\ q + 1 - s.rm = j + 1
      BY <2>2, <2>9, <2>10 DEF Slots
    <3>2. b[j] = s.buffer[q]
      BY <2>11, <3>1
    <3> HIDE DEF q
    <3>3. s.buffer[q] = v[q + 1 - s.rm]
      BY <2>9, <3>1
    <3> QED
      BY <3>1, <3>2, <3>3
  <2>13. b \in Buffers(DOMAIN array.buffer)
    BY <2>2, <2>11 DEF Scans
  <2>14. Filled(b, n)
    <3> SUFFICES ASSUME NEW j \in Slots(n) PROVE b[j] \in Elements
      BY DEF Filled
    <3> DEFINE k == j + 1
    <3>1. k \in 1..Len(v)
      BY <2>9, <2>10 DEF Slots
    <3> HIDE DEF k
    <3>2. v[k] \in Elements
      BY <2>6, <3>1
    <3> QED
      BY <2>12, <3>2 DEF k
  <2>15. [j \in 1..n |-> b[j - 1]] = v
    <3>1. ASSUME NEW j \in 1..n PROVE b[j - 1] = v[j]
      <4>1. j - 1 \in Slots(n) /\ j - 1 + 1 = j
        BY <2>10 DEF Slots
      <4> QED
        BY <2>12, <4>1
    <3>2. v = [j \in 1..n |-> v[j]]
      BY <2>6, <2>9
    <3> QED
      BY <3>1, <3>2
  <2>16. Commit(With(array, b, n), slots, Done)
    BY <1>2, <2>8, <2>11 DEF Update, z
  <2>17. n \in 0..array.size /\ slots \subseteq DOMAIN array.buffer
    BY <2>2, <2>10
  <2> HIDE DEF b, slots
  <2>18. Stays /\ fault' = FALSE /\ ret' = Done /\ Contents(array)' = v
    BY <2>13, <2>14, <2>15, <2>16, <2>17, Rearranged
  <2>19. Contents(array) # <<>> /\ Abs!Done = Done
    BY <1>2, EmptyContents, SameResults
  <2>20. Abs!Selected(Contents(array), pred) = v
    BY DEF Abs!Selected, Selected, v, c
  <2> QED
    BY <2>18, <2>19, <2>20 DEF Abs!Filter
<1> QED
  BY <1>1, <1>2 DEF FilterMut

-----------------------------------------------------------------------------
\* The iterator

\* A call after which no element is at hand.
Ended == fresh' = FALSE /\ iter' \in [index : Nat, last_removed : BOOLEAN]

LEMMA Continued ==
  ASSUME Stays, Ended, kept' = TRUE
  PROVE  ArrayInv'
BY DEF Stays, Ended, ArrayInv, IterInv

LEMMA Walked ==
  ASSUME IterInv
  PROVE  /\ EndWalk => Ended
         /\ NewIter /\ Stale => Ended
<1>1. EndWalk => Ended
  BY DEF IterInv, EndWalk, Stale, Ended
<1>2. NewIter /\ Stale => Ended
  BY DEF NewIter, Stale, Ended
<1> QED
  BY <1>1, <1>2

LEMMA IterInitStays ==
  ASSUME ArrayInv, fault = FALSE, IterInit
  PROVE  Stays /\ Ended /\ Abs!Keep
<1>1. array' = array /\ refused' = refused /\ fault' = FALSE /\ ret' = Done
  BY DEF IterInit, Return
<1>2. Stays
  BY <1>1 DEF ArrayInv, BufferInv, WellFormed, Roomy, Stays, NoStrayAccess
<1>3. Abs!Keep
  BY <1>1, SameResults DEF Abs!Keep, Abs!Same
<1> QED
  BY <1>2, <1>3, Walked DEF IterInit, ArrayInv

LEMMA IterNextStays ==
  ASSUME ArrayInv, fault = FALSE, IterNext
  PROVE  /\ Stays /\ IterInv' /\ fault' = FALSE
         /\ IF iter.index < array.size THEN Abs!GetAt(iter.index) ELSE Abs!WalkOver
<1> DEFINE i == iter.index
<1>1. /\ BufferInv /\ IterInv /\ i \in Nat /\ i \in Int /\ array.size \in Nat
  BY ArrayFacts DEF ArrayInv, IterInv
<1>2. CASE i >= array.size /\ Reject(CC_ITER_END) /\ Stale /\ UNCHANGED iter
  <2>1. Stays /\ fault' = FALSE /\ Abs!WalkOver
    BY <1>1, <1>2, RejectStays
  <2>2. IterInv'
    BY <1>1, <1>2 DEF IterInv, Stale
  <2>3. ~(i < array.size)
    BY <1>1, <1>2
  <2> QED
    BY <2>1, <2>2, <2>3
<1>3. CASE /\ i < array.size /\ Commit(array, {i}, Got(array.buffer[i]))
           /\ iter' = [index |-> i + 1, last_removed |-> FALSE] /\ fresh' = TRUE
  <2> DEFINE slots == {i}
             r == Got(array.buffer[i])
  <2> HIDE DEF i
  <2>1. InRange(i)
    BY <1>1, <1>3 DEF InRange
  <2>2. /\ i < Len(Contents(array)) /\ slots \subseteq DOMAIN array.buffer
        /\ Contents(array)[i + 1] = array.buffer[i]
    BY <1>1, <2>1, Inside
  <2>3. Commit(array, slots, r)
    BY <1>3
  <2>4. array' = array
    BY <2>2, <2>3 DEF Commit
  <2> HIDE DEF slots
  <2>5. Stays /\ fault' = FALSE /\ ret' = r /\ Contents(array)' = Contents(array)
    <3> HIDE DEF r
    <3> QED
      BY <1>1, <2>2, <2>3, Unmoved
  <2>6. Abs!GetAt(i)
    BY <2>2, <2>5, SameResults DEF Abs!GetAt
  <2>7. /\ i + 1 \in 1..array.size /\ (i + 1) - 1 = i /\ i + 1 \in Nat
    BY <1>1, <1>3
  <2>8. IterInv'
    <3>1. iter'.index = i + 1 /\ iter'.last_removed = FALSE
      BY <1>3
    <3>2. iter' \in [index : Nat, last_removed : BOOLEAN]
      BY <1>3, <2>7
    <3>3. ret' = Got(array'.buffer[iter'.index - 1])
      BY <2>4, <2>5, <2>7, <3>1
    <3>4. iter'.index \in 1..array'.size
      BY <2>4, <2>7, <3>1
    <3> QED
      BY <3>1, <3>2, <3>3, <3>4 DEF IterInv
  <2> QED
    BY <1>3, <2>5, <2>6, <2>8 DEF i
<1> QED
  BY <1>2, <1>3 DEF IterNext

\* Where the iterator stands after it returned an element.
LEMMA Returned ==
  ASSUME ArrayInv
  PROVE  /\ iter.index \in Nat /\ iter.index - 1 \in Int /\ iter.last_removed \in BOOLEAN
         /\ InRange(iter.index - 1) => iter.index > 0
         /\ fresh => /\ ~iter.last_removed /\ InRange(iter.index - 1)
                     /\ ret = Got(array.buffer[iter.index - 1])
<1> DEFINE i == iter.index
<1>1. IterInv /\ i \in Nat /\ iter.last_removed \in BOOLEAN /\ array.size \in Nat
  BY ArrayFacts DEF ArrayInv, IterInv
<1>2. fresh => /\ ~iter.last_removed /\ i \in 1..array.size
               /\ ret = Got(array.buffer[i - 1])
  BY <1>1 DEF IterInv
<1> HIDE DEF i
<1>3. InRange(i - 1) => i > 0
  BY <1>1 DEF InRange
<1>4. i \in 1..array.size => InRange(i - 1)
  BY <1>1 DEF InRange
<1> QED
  BY <1>1, <1>2, <1>3, <1>4 DEF i

LEMMA IterRemoveStays ==
  ASSUME ArrayInv, fault = FALSE, IterRemove
  PROVE  Stays /\ Ended /\ AtHand(Abs!RemoveAt(iter.index - 1))
<1> DEFINE i == iter.index - 1
<1>1. /\ BufferInv /\ i \in Int /\ iter \in [index : Nat, last_removed : BOOLEAN]
  BY Returned DEF ArrayInv, IterInv
<1>2. CASE iter.last_removed /\ Reject(CC_ERR_VALUE_NOT_FOUND) /\ UNCHANGED iter
  <2>1. Stays /\ fault' = FALSE /\ Abs!NotThere
    BY <1>1, <1>2, RejectStays
  <2>2. ~fresh
    BY <1>2, Returned
  <2>3. Ended
    BY <1>1, <1>2 DEF Ended, IterRemove, Stale
  <2> QED
    BY <2>1, <2>2, <2>3 DEF AtHand
<1>3. CASE /\ ~iter.last_removed /\ RemoveChecked(i)
           /\ iter' = [iter EXCEPT !.last_removed = (ret'.stat = CC_OK)]
  <2>1. Ended
    <3>1. (ret'.stat = CC_OK) \in BOOLEAN
      OBVIOUS
    <3> QED
      BY <1>1, <1>3, <3>1 DEF Ended, IterRemove, Stale
  <2>2. /\ Stays
        /\ InRange(i) => Abs!RemoveAt(i) /\ ret' = Got(array.buffer[i])
        /\ ~InRange(i) => Abs!NotThere
    <3> HIDE DEF i
    <3> QED
      BY <1>1, <1>3, RemoveStays
  <2>3. CASE InRange(i)
    BY <2>1, <2>2, <2>3, Returned DEF AtHand
  <2>4. CASE ~InRange(i)
    BY <2>1, <2>2, <2>4, Returned DEF AtHand
  <2> QED
    BY <2>3, <2>4
<1> QED
  BY <1>2, <1>3 DEF IterRemove

LEMMA IterReplaceStays ==
  ASSUME ArrayInv, fault = FALSE, NEW e \in Elements, IterReplace(e)
  PROVE  Stays /\ Ended /\ AtHand(Abs!ReplaceAt(e, iter.index - 1))
<1> DEFINE i == iter.index - 1
<1>1. /\ BufferInv /\ i \in Int /\ iter \in [index : Nat, last_removed : BOOLEAN]
      /\ ReplaceChecked(e, i)
  BY Returned DEF ArrayInv, IterInv, IterReplace
<1>2. Ended
  BY <1>1 DEF Ended, IterReplace, Stale
<1>3. /\ Stays
      /\ InRange(i) => Abs!ReplaceAt(e, i) /\ ret' = Got(array.buffer[i])
      /\ ~InRange(i) => Abs!NotThere
  <2> HIDE DEF i
  <2> QED
    BY <1>1, ReplaceStays
<1>4. CASE InRange(i)
  BY <1>2, <1>3, <1>4, Returned DEF AtHand
<1>5. CASE ~InRange(i)
  BY <1>2, <1>3, <1>5, Returned DEF AtHand
<1> QED
  BY <1>4, <1>5

LEMMA IterAddStays ==
  ASSUME ArrayInv, fault = FALSE, NEW e \in Elements, IterAdd(e)
  PROVE  Stays /\ Ended /\ (fault' \/ Abs!AddAt(e, iter.index))
<1> DEFINE i == iter.index
<1>1. /\ BufferInv /\ i \in Nat /\ iter \in [index : Nat, last_removed : BOOLEAN]
      /\ InsertChecked(e, i)
  BY DEF ArrayInv, IterInv, IterAdd
<1>2. Ended
  BY <1>1 DEF Ended, IterAdd, Stale
<1> HIDE DEF i
<1>3. Stays /\ (fault' \/ Abs!AddAt(e, i))
  BY <1>1, InsertCheckedStays
<1> QED
  BY <1>2, <1>3 DEF i

-----------------------------------------------------------------------------
\* Every step

\* A call of the client with an index.
LEMMA Indexed ==
  ASSUME BufferInv, NEW i \in Indices
  PROVE  i \in Nat /\ i \in Int /\ (~InRange(i) => i >= Len(Contents(array)))
<1>1. i \in Nat /\ i \in Int
  BY ArrayConstants DEF Indices
<1>2. ~InRange(i) => i >= Len(Contents(array))
  BY <1>1, ArrayFacts DEF InRange
<1> QED
  BY <1>1, <1>2

LEMMA EndsStep ==
  ASSUME ArrayInv, fault = FALSE, Ends
  PROVE  ArrayInv'
<1>1. BufferInv /\ IterInv /\ kept = TRUE /\ (EndWalk => Ended) /\ 0 \in Nat
  BY Walked DEF ArrayInv
<1>2. ASSUME NEW e \in Elements, Keeping(Add(e), Abs!AddLast(e)) PROVE ArrayInv'
  <2> DEFINE n == array.size
  <2>1. n \in 0..array.size /\ n = Len(Contents(array)) /\ Insert(e, n) /\ EndWalk
    <3>1. array.size \in Nat /\ Len(Contents(array)) = array.size
      BY <1>1, ArrayFacts
    <3> QED
      BY <1>2, <3>1 DEF Keeping, Add
  <2> HIDE DEF n
  <2>2. Stays /\ (fault' \/ Abs!Insert(e, n) \/ Abs!NoMemory)
    BY <1>1, <2>1, InsertStays
  <2>3. fault' \/ Abs!AddLast(e)
    BY <2>1, <2>2 DEF Abs!AddLast
  <2>4. kept' = TRUE
    BY <1>1, <1>2, <2>3 DEF Keeping
  <2> QED
    BY <1>1, <2>1, <2>2, <2>4, Continued
<1>3. CASE Keeping(RemoveLast, Abs!RemoveLast)
  <2>1. RemoveLast /\ EndWalk
    BY <1>3 DEF Keeping, RemoveLast, RemoveAt
  <2>2. Stays /\ Abs!RemoveLast
    BY <1>1, <2>1, RemoveLastStays
  <2>3. kept' = TRUE
    BY <1>1, <1>3, <2>2 DEF Keeping
  <2> QED
    BY <1>1, <2>1, <2>2, <2>3, Continued
<1>4. CASE Keeping(GetLast, Abs!GetLast)
  <2>1. GetLast /\ EndWalk
    BY <1>4 DEF Keeping, GetLast, GetAt, Refuse, Update
  <2>2. Stays /\ Abs!GetLast
    BY <1>1, <2>1, GetLastStays
  <2>3. kept' = TRUE
    BY <1>1, <1>4, <2>2 DEF Keeping
  <2> QED
    BY <1>1, <2>1, <2>2, <2>3, Continued
<1>5. CASE Keeping(RemoveAll, Abs!RemoveAll)
  <2>1. RemoveAll /\ EndWalk
    BY <1>5 DEF Keeping, RemoveAll, Update
  <2>2. Stays /\ Abs!RemoveAll
    BY <1>1, <2>1, RemoveAllStays
  <2>3. kept' = TRUE
    BY <1>1, <1>5, <2>2 DEF Keeping
  <2> QED
    BY <1>1, <2>1, <2>2, <2>3, Continued
<1> QED
  BY <1>2, <1>3, <1>4, <1>5 DEF Ends

LEMMA MiddleStep ==
  ASSUME ArrayInv, fault = FALSE, Middle
  PROVE  ArrayInv'
<1>1. BufferInv /\ IterInv /\ kept = TRUE /\ (EndWalk => Ended)
      /\ (NewIter /\ Stale => Ended)
  BY Walked DEF ArrayInv
<1>2. ASSUME NEW e \in Elements, NEW i \in Indices, Keeping(AddAt(e, i), Abs!AddAt(e, i))
      PROVE  ArrayInv'
  <2>1. InsertChecked(e, i) /\ EndWalk /\ i \in Nat
    BY <1>1, <1>2, Indexed DEF Keeping, AddAt
  <2>2. Stays /\ (fault' \/ Abs!AddAt(e, i))
    BY <1>1, <2>1, InsertCheckedStays
  <2>3. kept' = TRUE
    BY <1>1, <1>2, <2>2 DEF Keeping
  <2> QED
    BY <1>1, <2>1, <2>2, <2>3, Continued
<1>3. ASSUME NEW e \in Elements, NEW i \in Indices,
             Keeping(ReplaceAt(e, i), Abs!ReplaceAt(e, i))
      PROVE  ArrayInv'
  <2>1. /\ ReplaceChecked(e, i) /\ EndWalk /\ i \in Int
        /\ ~InRange(i) => i >= Len(Contents(array))
    BY <1>1, <1>3, Indexed DEF Keeping, ReplaceAt
  <2>2. /\ Stays /\ (InRange(i) => Abs!ReplaceAt(e, i)) /\ (~InRange(i) => Abs!NotThere)
    BY <1>1, <2>1, ReplaceStays
  <2>3. Abs!ReplaceAt(e, i)
    BY <2>1, <2>2 DEF Abs!ReplaceAt
  <2>4. kept' = TRUE
    BY <1>1, <1>3, <2>3 DEF Keeping
  <2> QED
    BY <1>1, <2>1, <2>2, <2>4, Continued
<1>4. ASSUME NEW i \in Indices, Keeping(RemoveAt(i), Abs!RemoveAt(i))
      PROVE  ArrayInv'
  <2>1. /\ RemoveChecked(i) /\ EndWalk /\ i \in Int
        /\ ~InRange(i) => i >= Len(Contents(array))
    BY <1>1, <1>4, Indexed DEF Keeping, RemoveAt
  <2>2. /\ Stays /\ (InRange(i) => Abs!RemoveAt(i)) /\ (~InRange(i) => Abs!NotThere)
    BY <1>1, <2>1, RemoveStays
  <2>3. Abs!RemoveAt(i)
    BY <2>1, <2>2 DEF Abs!RemoveAt
  <2>4. kept' = TRUE
    BY <1>1, <1>4, <2>3 DEF Keeping
  <2> QED
    BY <1>1, <2>1, <2>2, <2>4, Continued
<1>5. ASSUME NEW i \in Indices, Keeping(GetAt(i), Abs!GetAt(i))
      PROVE  ArrayInv'
  <2>1. /\ GetAt(i) /\ i \in Int /\ (~InRange(i) => i >= Len(Contents(array)))
    BY <1>1, <1>5, Indexed DEF Keeping
  <2>2. EndWalk
    BY <2>1 DEF GetAt, Refuse, Update
  <2>3. /\ Stays /\ (InRange(i) => Abs!GetAt(i)) /\ (~InRange(i) => Abs!NotThere)
    BY <1>1, <2>1, GetAtStays
  <2>4. Abs!GetAt(i)
    BY <2>1, <2>3 DEF Abs!GetAt
  <2>5. kept' = TRUE
    BY <1>1, <1>5, <2>4 DEF Keeping
  <2> QED
    BY <1>1, <2>2, <2>3, <2>5, Continued
<1>6. ASSUME NEW i \in Indices, NEW j \in Indices,
             Keeping(SwapAt(i, j), Abs!SwapAt(i, j))
      PROVE  ArrayInv'
  <2>1. SwapAt(i, j) /\ i \in Nat /\ j \in Nat
    BY <1>1, <1>6, Indexed DEF Keeping
  <2>2. EndWalk
    BY <2>1 DEF SwapAt, Refuse, Update
  <2>3. Stays /\ Abs!SwapAt(i, j)
    BY <1>1, <2>1, SwapStays
  <2>4. kept' = TRUE
    BY <1>1, <1>6, <2>3 DEF Keeping
  <2> QED
    BY <1>1, <2>2, <2>3, <2>4, Continued
<1>7. ASSUME NEW i \in Indices, NEW j \in Indices,
             Keeping(Subarray(i, j), Abs!Subarray(i, j))
      PROVE  ArrayInv'
  <2>1. Subarray(i, j) /\ i \in Nat /\ j \in Nat
    BY <1>1, <1>7, Indexed DEF Keeping
  <2>2. EndWalk \/ (NewIter /\ Stale)
    BY <2>1 DEF Subarray, Refuse, Adopt
  <2>3. Stays /\ Abs!Subarray(i, j)
    BY <1>1, <2>1, SubarrayStays
  <2>4. kept' = TRUE
    BY <1>1, <1>7, <2>3 DEF Keeping
  <2> QED
    BY <1>1, <2>2, <2>3, <2>4, Continued
<1>8. ASSUME NEW e \in Elements, Keeping(Remove(e), Abs!Remove(e))
      PROVE  ArrayInv'
  <2>1. Remove(e)
    BY <1>8 DEF Keeping
  <2>2. EndWalk
    BY <2>1 DEF Remove, Refuse, Update
  <2>3. Stays /\ Abs!Remove(e)
    BY <1>1, <2>1, RemoveElementStays
  <2>4. kept' = TRUE
    BY <1>1, <1>8, <2>3 DEF Keeping
  <2> QED
    BY <1>1, <2>2, <2>3, <2>4, Continued
<1> QED
  BY <1>2, <1>3, <1>4, <1>5, <1>6, <1>7, <1>8 DEF Middle

LEMMA AllOfItStep ==
  ASSUME ArrayInv, fault = FALSE, AllOfIt
  PROVE  ArrayInv'
<1>1. BufferInv /\ IterInv /\ kept = TRUE /\ (EndWalk => Ended)
      /\ (NewIter /\ Stale => Ended)
  BY Walked DEF ArrayInv
<1>2. CASE Keeping(Reverse, Abs!Reverse)
  <2>1. Reverse /\ EndWalk
    BY <1>2 DEF Keeping, Reverse, Update
  <2>2. Stays /\ Abs!Reverse
    BY <1>1, <2>1, ReverseStays
  <2>3. kept' = TRUE
    BY <1>1, <1>2, <2>2 DEF Keeping
  <2> QED
    BY <1>1, <2>1, <2>2, <2>3, Continued
<1>3. CASE Keeping(Sort, Abs!Sort(Key))
  <2>1. Sort /\ EndWalk
    BY <1>3 DEF Keeping, Sort, Update
  <2>2. Stays /\ Abs!Sort(Key)
    BY <1>1, <2>1, SortStays
  <2>3. kept' = TRUE
    BY <1>1, <1>3, <2>2 DEF Keeping
  <2> QED
    BY <1>1, <2>1, <2>2, <2>3, Continued
<1>4. ASSUME NEW pred \in SUBSET Elements, Keeping(FilterMut(pred), Abs!Filter(pred))
      PROVE  ArrayInv'
  <2>1. FilterMut(pred) /\ EndWalk
    BY <1>4 DEF Keeping, FilterMut, Refuse, Update
  <2>2. Stays /\ Abs!Filter(pred)
    BY <1>1, <2>1, FilterMutStays
  <2>3. kept' = TRUE
    BY <1>1, <1>4, <2>2 DEF Keeping
  <2> QED
    BY <1>1, <2>1, <2>2, <2>3, Continued
<1>5. ASSUME NEW pred \in SUBSET Elements, Keeping(Filter(pred), Abs!Filter(pred))
      PROVE  ArrayInv'
  <2>1. Filter(pred) /\ (EndWalk \/ (NewIter /\ Stale))
    BY <1>5 DEF Keeping, Filter, Refuse, Adopt
  <2>2. Stays /\ Abs!Filter(pred)
    BY <1>1, <2>1, FilterStays
  <2>3. kept' = TRUE
    BY <1>1, <1>5, <2>2 DEF Keeping
  <2> QED
    BY <1>1, <2>1, <2>2, <2>3, Continued
<1>6. ASSUME NEW cp \in [Elements -> Elements], Keeping(CopyDeep(cp), Abs!CopyDeep(cp))
      PROVE  ArrayInv'
  <2>1. CopyDeep(cp) /\ (EndWalk \/ (NewIter /\ Stale))
    BY <1>6 DEF Keeping, CopyDeep, Refuse, Adopt
  <2>2. Stays /\ Abs!CopyDeep(cp)
    BY <1>1, <2>1, CopyDeepStays
  <2>3. kept' = TRUE
    BY <1>1, <1>6, <2>2 DEF Keeping
  <2> QED
    BY <1>1, <2>1, <2>2, <2>3, Continued
<1>7. CASE Keeping(CopyShallow, Abs!Copy)
  <2>1. CopyShallow /\ (EndWalk \/ (NewIter /\ Stale))
    BY <1>7 DEF Keeping, CopyShallow, Refuse, Adopt
  <2>2. Stays /\ Abs!Copy
    BY <1>1, <2>1, CopyShallowStays
  <2>3. kept' = TRUE
    BY <1>1, <1>7, <2>2 DEF Keeping
  <2> QED
    BY <1>1, <2>1, <2>2, <2>3, Continued
<1>8. CASE Keeping(TrimCapacity, Abs!Copy)
  <2>1. TrimCapacity /\ EndWalk
    BY <1>8 DEF Keeping, TrimCapacity, Refuse, Update
  <2>2. Stays /\ (fault' \/ Abs!Copy)
    BY <1>1, <2>1, TrimStays
  <2>3. kept' = TRUE
    BY <1>1, <1>8, <2>2 DEF Keeping
  <2> QED
    BY <1>1, <2>1, <2>2, <2>3, Continued
<1> QED
  BY <1>2, <1>3, <1>4, <1>5, <1>6, <1>7, <1>8 DEF AllOfIt

LEMMA IterateStep ==
  ASSUME ArrayInv, fault = FALSE, Iterate
  PROVE  ArrayInv'
<1>1. kept = TRUE
  BY DEF ArrayInv
<1>2. CASE Keeping(IterInit, Abs!Keep)
  <2>1. Stays /\ Ended /\ Abs!Keep
    BY <1>2, IterInitStays DEF Keeping
  <2>2. kept' = TRUE
    BY <1>1, <1>2, <2>1 DEF Keeping
  <2> QED
    BY <2>1, <2>2, Continued
<1>3. CASE Keeping(IterNext, IF iter.index < array.size THEN Abs!GetAt(iter.index)
                             ELSE Abs!WalkOver)
  <2>1. /\ Stays /\ IterInv'
        /\ IF iter.index < array.size THEN Abs!GetAt(iter.index) ELSE Abs!WalkOver
    BY <1>3, IterNextStays DEF Keeping
  <2>2. kept' = TRUE
    BY <1>1, <1>3, <2>1 DEF Keeping
  <2> QED
    BY <2>1, <2>2 DEF ArrayInv, Stays
<1>4. CASE Keeping(IterRemove, AtHand(Abs!RemoveAt(iter.index - 1)))
  <2>1. Stays /\ Ended /\ AtHand(Abs!RemoveAt(iter.index - 1))
    BY <1>4, IterRemoveStays DEF Keeping
  <2>2. kept' = TRUE
    BY <1>1, <1>4, <2>1 DEF Keeping
  <2> QED
    BY <2>1, <2>2, Continued
<1>5. ASSUME NEW e \in Elements, Keeping(IterAdd(e), Abs!AddAt(e, iter.index))
      PROVE  ArrayInv'
  <2>1. Stays /\ Ended /\ (fault' \/ Abs!AddAt(e, iter.index))
    BY <1>5, IterAddStays DEF Keeping
  <2>2. kept' = TRUE
    BY <1>1, <1>5, <2>1 DEF Keeping
  <2> QED
    BY <2>1, <2>2, Continued
<1>6. ASSUME NEW e \in Elements,
             Keeping(IterReplace(e), AtHand(Abs!ReplaceAt(e, iter.index - 1)))
      PROVE  ArrayInv'
  <2>1. Stays /\ Ended /\ AtHand(Abs!ReplaceAt(e, iter.index - 1))
    BY <1>6, IterReplaceStays DEF Keeping
  <2>2. kept' = TRUE
    BY <1>1, <1>6, <2>1 DEF Keeping
  <2> QED
    BY <2>1, <2>2, Continued
<1> QED
  BY <1>2, <1>3, <1>4, <1>5, <1>6 DEF Iterate

LEMMA NextKeepsInv ==
  ASSUME ArrayInv, [Next]_vars
  PROVE  ArrayInv'
<1>1. CASE Next
  <2>1. fault = FALSE
    BY <1>1 DEF Next, ArrayInv
  <2> QED
    BY <1>1, <2>1, EndsStep, MiddleStep, AllOfItStep, IterateStep DEF Next
<1>2. CASE UNCHANGED vars
  BY <1>2 DEF vars, ArrayInv, BufferInv, WellFormed, Roomy, IterInv, NoStrayAccess
<1> QED
  BY <1>1, <1>2

LEMMA NewIsGood ==
  ASSUME array = NewArray
  PROVE  BufferInv
<1> DEFINE k == InitCapacity
           b == Copied(<<>>, 0, k)
<1>1. k \in Nat /\ k \in 0..MemLimit /\ 0 \in 0..k /\ ExpNum \in Nat
  BY ArrayConstants
<1>2. b \in [Slots(k) -> Elements \cup {NoElement}]
  <2>1. \A s \in Slots(k) : ~(s < 0)
    BY <1>1 DEF Slots
  <2> QED
    BY <2>1 DEF Copied
<1> HIDE DEF b
<1>3. array = [size |-> 0, capacity |-> k, exp |-> ExpNum, buffer |-> b]
  BY DEF NewArray, b
<1>4. array \in Array(k)
  BY <1>1, <1>2, <1>3 DEF Array
<1>5. Holds(array, k)
  <2>1. Slots(0) = {}
    BY DEF Slots
  <2> QED
    BY <1>1, <1>3, <1>4, <2>1 DEF Holds
<1>6. WellFormed(array)
  BY <1>1, <1>5 DEF WellFormed
<1>7. Roomy(array)
  BY <1>2, <1>3 DEF Roomy
<1> QED
  BY <1>6, <1>7 DEF BufferInv

LEMMA InitIsGood ==
  ASSUME Init
  PROVE  ArrayInv
<1>1. BufferInv
  BY NewIsGood DEF Init
<1>2. IterInv /\ fault \in BOOLEAN /\ NoStrayAccess /\ kept = TRUE
  BY DEF Init, IterInv, NoStrayAccess
<1> QED
  BY <1>1, <1>2 DEF ArrayInv

\* Every state of every run: the array is a well-formed buffer, big enough for the
\* capacity it believes in unless an expansion was refused, and the iterator is
\* behind the element it has just returned.
THEOREM ArrayStaysSound == Spec => []ArrayInv
<1>1. Init => ArrayInv
  BY InitIsGood
<1>2. ArrayInv /\ [Next]_vars => ArrayInv'
  BY NextKeepsInv
<1> QED
  BY <1>1, <1>2, PTL DEF Spec

\* The calls of cc_array.c touch no memory outside the buffer as long as no
\* expansion was refused and no empty array is trimmed.
THEOREM ArrayStaysInside == Spec => []NoStrayAccess
<1>1. ArrayInv => NoStrayAccess
  BY DEF ArrayInv
<1> QED
  BY <1>1, ArrayStaysSound, PTL

\* Every call of cc_array.c and of its iterator does what SeqSpec says of the call of
\* its name, growing, filtering in place and removing while iterating included.
THEOREM ArrayIsASequence == Spec => []IsASequence
<1>1. ArrayInv => IsASequence
  BY DEF ArrayInv, IsASequence
<1> QED
  BY <1>1, ArrayStaysSound, PTL

-----------------------------------------------------------------------------
\* The stack over the array: its instance of the array is the array.

LEMMA SameCodes ==
  /\ Stack!A!Done = Done /\ Stack!Done = Done /\ Stack!Abs!Done = Done
  /\ \A e : Stack!A!Got(e) = Got(e) /\ Stack!Abs!Got(e) = Got(e)
  /\ \A st : Stack!A!Refused(st) = Refused(st) /\ Stack!Abs!Refused(st) = Refused(st)
BY DEF Stack!A!Done, Stack!Done, Stack!Abs!Done, Stack!A!Got, Stack!Abs!Got,
       Stack!A!Refused, Stack!Abs!Refused, Stack!A!Result, Stack!Result,
       Stack!Abs!Result, Stack!A!CC_OK, Stack!CC_OK, Stack!Abs!CC_OK, Done, Got, Refused,
       Result, CC_OK

LEMMA SameBuffers ==
  /\ \A a : Stack!A!Contents(a) = Contents(a)
  /\ \A b, n, c : Stack!A!Copied(b, n, c) = Copied(b, n, c)
  /\ \A a : Stack!A!MakeRoom(a) = MakeRoom(a)
  /\ \A a, e, i : Stack!A!InsertAt(a, e, i) = InsertAt(a, e, i)
  /\ \A a, i : Stack!A!DeleteAt(a, i) = DeleteAt(a, i)
<1>1. \A n : Stack!A!Slots(n) = Slots(n)
  BY DEF Stack!A!Slots, Slots
<1>2. \A b, n, c : Stack!A!Copied(b, n, c) = Copied(b, n, c)
  BY <1>1 DEF Stack!A!Copied, Copied
<1>3. \A st, a : Stack!A!Outcome(st, a) = Outcome(st, a)
  BY DEF Stack!A!Outcome, Outcome
<1>4. \A a : Stack!A!Expanded(a) = Expanded(a)
  BY <1>2, <1>3
     DEF Stack!A!Expanded, Expanded, Stack!A!CC_ERR_MAX_CAPACITY, CC_ERR_MAX_CAPACITY,
         Stack!A!CC_ERR_ALLOC, CC_ERR_ALLOC, Stack!A!CC_OK, CC_OK
<1>5. \A a : Stack!A!MakeRoom(a) = MakeRoom(a)
  BY <1>3, <1>4 DEF Stack!A!MakeRoom, MakeRoom, Stack!A!CC_OK, CC_OK
<1>6. \A b, d, s, n : Stack!A!Move(b, d, s, n) = Move(b, d, s, n)
  BY DEF Stack!A!Move, Move
<1>7. /\ \A a, e, i : Stack!A!InsertAt(a, e, i) = InsertAt(a, e, i)
      /\ \A a, i : Stack!A!DeleteAt(a, i) = DeleteAt(a, i)
  BY <1>6 DEF Stack!A!InsertAt, InsertAt, Stack!A!DeleteAt, DeleteAt
<1> QED
  BY <1>2, <1>5, <1>7 DEF Stack!A!Contents, Contents

LEMMA SameScan ==
  ASSUME NEW a, NEW pred
  PROVE  Stack!A!FilteredInPlace(a, pred) = FilteredInPlace(a, pred)
<1> DEFINE C(s, i, j) == [s EXCEPT !.buffer = Move(@, i, j, s.keep),
                                    !.size = @ - s.rm, !.rm = 0]
           K(s, i, j) == [s EXCEPT !.buffer = Stack!A!Move(@, i, j, s.keep),
                                    !.size = @ - s.rm, !.rm = 0]
           L(f) ==
             [n \in 0..a.size |->
                IF n = 0
                THEN [buffer |-> a.buffer, size |-> a.size, rm |-> 0, keep |-> 0]
                ELSE IF f[n - 1].buffer[a.size - n] \notin pred
                     THEN [f[n - 1] EXCEPT !.rm = @ + 1]
                     ELSE [(IF f[n - 1].rm > 0
                            THEN C(f[n - 1], a.size - n + 1, a.size - n + 1 + f[n - 1].rm)
                            ELSE f[n - 1]) EXCEPT !.keep = @ + 1]]
           S(f) ==
             [n \in 0..a.size |->
                IF n = 0
                THEN [buffer |-> a.buffer, size |-> a.size, rm |-> 0, keep |-> 0]
                ELSE IF f[n - 1].buffer[a.size - n] \notin pred
                     THEN [f[n - 1] EXCEPT !.rm = @ + 1]
                     ELSE [(IF f[n - 1].rm > 0
                            THEN K(f[n - 1], a.size - n + 1, a.size - n + 1 + f[n - 1].rm)
                            ELSE f[n - 1]) EXCEPT !.keep = @ + 1]]
           W(s) == LET z == IF s.rm > 0 THEN C(s, 0, 0 + s.rm) ELSE s
                   IN  [a EXCEPT !.buffer = z.buffer, !.size = z.size]
           Z(s) == LET z == IF s.rm > 0 THEN K(s, 0, 0 + s.rm) ELSE s
                   IN  [a EXCEPT !.buffer = z.buffer, !.size = z.size]
<1>1. \A b, d, s, n : Stack!A!Move(b, d, s, n) = Move(b, d, s, n)
  BY DEF Stack!A!Move, Move
<1>2. \A s, i, j : K(s, i, j) = C(s, i, j)
  BY <1>1
<1>3. FilteredInPlace(a, pred) = W((CHOOSE f : f = L(f))[a.size])
  BY DEF FilteredInPlace
<1>4. Stack!A!FilteredInPlace(a, pred) = Z((CHOOSE f : f = S(f))[a.size])
  BY DEF Stack!A!FilteredInPlace
<1> HIDE DEF C, K
<1>5. \A s : Z(s) = W(s)
  BY <1>2
<1>6. \A f : S(f) = L(f)
  BY <1>2
<1> HIDE DEF L, S, W, Z
<1>7. \A f : f = S(f) <=> f = L(f)
  BY <1>6
<1>8. (CHOOSE f : f = S(f)) = (CHOOSE f : f = L(f))
  BY <1>7, Zenon
<1> QED
  BY <1>3, <1>4, <1>5, <1>8

LEMMA SameSelection ==
  \A s, keep : Stack!Selected(s, keep) = Selected(s, keep)
               /\ Stack!Abs!Selected(s, keep) = Selected(s, keep)
BY Zenon DEF Stack!Selected, Stack!Abs!Selected, Selected

LEMMA SameWays ==
  /\ \A st : Stack!A!Reject(st) <=> Reject(st)
  /\ \A st : Stack!A!Refuse(st) <=> Refuse(st)
  /\ \A a, slots, r : Stack!A!Commit(a, slots, r) <=> Commit(a, slots, r)
  /\ \A a, slots, r : Stack!A!Update(a, slots, r) <=> Update(a, slots, r)
  /\ \A i : Stack!A!InRange(i) <=> InRange(i)
  /\ \A r : Stack!A!Return(r) <=> Return(r)
  /\ Stack!A!NewIter <=> NewIter
  /\ Stack!A!Stale <=> Stale
  /\ Stack!A!EndWalk <=> EndWalk
  /\ Stack!A!Crash <=> Crash
BY SameCodes
   DEF Stack!A!Reject, Stack!A!Refuse, Stack!A!Commit, Stack!A!Update, Stack!A!InRange,
       Stack!A!Return, Stack!A!NewIter, Stack!A!Stale, Stack!A!EndWalk, Stack!A!Crash,
       Reject, Refuse, Commit, Update, InRange, Return, NewIter, Stale, EndWalk, Crash

LEMMA SameCalls ==
  /\ \A e : Stack!Push(e) <=> Add(e)
  /\ Stack!Pop <=> RemoveLast
  /\ Stack!Peek <=> GetLast
  /\ \A pred : Stack!FilterMut(pred) <=> FilterMut(pred)
  /\ Stack!IterInit <=> IterInit
  /\ Stack!IterNext <=> IterNext
  /\ \A e : Stack!IterReplace(e) <=> IterReplace(e)
<1> USE SameCodes, SameBuffers, SameWays
<1>1. \A e : Stack!Push(e) <=> Add(e)
  BY DEF Stack!Push, Stack!A!Add, Stack!A!Insert, Add, Insert, Stack!A!CC_OK, CC_OK
<1>2. Stack!Pop <=> RemoveLast
  BY DEF Stack!Pop, Stack!A!RemoveLast, Stack!A!RemoveAt, Stack!A!RemoveChecked,
         RemoveLast, RemoveAt, RemoveChecked, Stack!A!CC_ERR_OUT_OF_RANGE,
         CC_ERR_OUT_OF_RANGE
<1>3. Stack!Peek <=> GetLast
  BY DEF Stack!Peek, Stack!A!GetLast, Stack!A!GetAt, GetLast, GetAt,
         Stack!A!CC_ERR_OUT_OF_RANGE, CC_ERR_OUT_OF_RANGE,
         Stack!A!CC_ERR_VALUE_NOT_FOUND, CC_ERR_VALUE_NOT_FOUND
<1>4. \A pred : Stack!FilterMut(pred) <=> FilterMut(pred)
  BY SameScan, SMTT(30) DEF Stack!FilterMut, Stack!A!FilterMut, FilterMut,
         Stack!A!CC_ERR_OUT_OF_RANGE, CC_ERR_OUT_OF_RANGE
<1>5. Stack!IterInit <=> IterInit
  BY DEF Stack!IterInit, Stack!A!IterInit, IterInit
<1>6. Stack!IterNext <=> IterNext
  BY DEF Stack!IterNext, Stack!A!IterNext, IterNext, Stack!A!CC_ITER_END, CC_ITER_END
<1>7. \A e : Stack!IterReplace(e) <=> IterReplace(e)
  BY DEF Stack!IterReplace, Stack!A!IterReplace, Stack!A!ReplaceChecked, IterReplace,
         ReplaceChecked, Stack!A!CC_ERR_OUT_OF_RANGE, CC_ERR_OUT_OF_RANGE
<1> QED
  BY <1>1, <1>2, <1>3, <1>4, <1>5, <1>6, <1>7

-----------------------------------------------------------------------------
\* The pushes of filter

\* The buffer is as large as the array believes.
Exact(a) == DOMAIN a.buffer = Slots(a.capacity)

\* An expansion was refused: the array believes in a slot that is not there.
Stuck(a) == a.size < a.capacity /\ a.size \notin DOMAIN a.buffer

LEMMA ExactRoom ==
  ASSUME NEW a, WellFormed(a), Exact(a), NEW o \in MakeRoom(a)
  PROVE  IF o.stat = CC_OK THEN Exact(o.array) ELSE Stuck(o.array)
<1>1. PICK m \in 0..MemLimit : Holds(a, m)
  BY DEF WellFormed
<1>2. /\ a.size \in Nat /\ a.capacity \in Nat /\ a.exp \in Nat /\ m \in Nat
      /\ MemLimit \in Nat /\ MaxElements \in Nat /\ MemLimit < MaxElements
      /\ ExpDen \in Nat \ {0} /\ a.size <= m /\ m <= MemLimit /\ a.size <= a.capacity
      /\ DOMAIN a.buffer = Slots(m) /\ a \in Array(m)
  BY <1>1, ArrayConstants DEF Holds, Array
<1>3. CASE o = Outcome(CC_OK, a)
  BY <1>3 DEF Outcome
<1>4. CASE a.size >= a.capacity /\ o \in Expanded(a)
  <2> DEFINE n == (a.capacity * a.exp) \div ExpDen
             c == IF n <= a.capacity THEN MaxElements ELSE n
             refusal == [a EXCEPT !.capacity = c]
             granted == [a EXCEPT !.capacity = c, !.buffer = Copied(@, a.size, c)]
  <2>1. n \in Nat
    <3> DEFINE x == a.capacity * a.exp
    <3>1. x \in Nat
      BY <1>2
    <3> HIDE DEF x
    <3>2. x \div ExpDen \in Nat
      BY <1>2, <3>1
    <3> QED
      BY <3>2 DEF x
  <2>2. a.size = a.capacity
    BY <1>2, <1>4
  <2> HIDE DEF n
  <2>3. c \in Nat /\ c > a.size
    BY <1>2, <2>1, <2>2
  <2>4. a.capacity # MaxElements
    BY <1>2, <2>2
  <2>5. \/ o = Outcome(CC_ERR_ALLOC, refusal)
        \/ c <= MemLimit /\ o = Outcome(CC_OK, granted)
    BY <1>4, <2>4 DEF Expanded, n
  <2> HIDE DEF c
  <2>6. CASE o = Outcome(CC_ERR_ALLOC, refusal)
    <3>1. o.stat # CC_OK /\ o.array = refusal
      BY <2>6 DEF Outcome, CC_ERR_ALLOC, CC_OK
    <3>2. refusal.size = a.size /\ refusal.capacity = c /\ refusal.buffer = a.buffer
      BY <1>2 DEF Array
    <3>3. a.size \notin Slots(a.capacity)
      BY <1>2, <2>2 DEF Slots
    <3> QED
      BY <2>3, <3>1, <3>2, <3>3 DEF Exact, Stuck
  <2>7. CASE c <= MemLimit /\ o = Outcome(CC_OK, granted)
    <3>1. o.stat = CC_OK /\ o.array = granted
      BY <2>7 DEF Outcome
    <3>2. granted.capacity = c /\ granted.buffer = Copied(a.buffer, a.size, c)
      BY <1>2 DEF Array
    <3>3. DOMAIN Copied(a.buffer, a.size, c) = Slots(c)
      BY DEF Copied
    <3> HIDE DEF granted
    <3> QED
      BY <3>1, <3>2, <3>3 DEF Exact
  <2> QED
    BY <2>5, <2>6, <2>7
<1> QED
  BY <1>3, <1>4 DEF MakeRoom

\* The arrays that one push whose status nobody reads makes of a.
Pushes(a, e) ==
  {IF o.stat = CC_OK THEN InsertAt(o.array, e, a.size) ELSE o.array :
     o \in {r \in MakeRoom(a) : a.size \in DOMAIN r.array.buffer \/ r.stat # CC_OK}}

\* What n pushes can make of an empty array: all n elements, or, if an expansion
\* was refused, all but the last.
Made(k, n) ==
  {a \in UNION {Array(m) : m \in 0..MemLimit} :
     /\ WellFormed(a)
     /\ \/ Exact(a) /\ Contents(a) = SubSeq(k, 1, n)
        \/ n > 0 /\ Stuck(a) /\ Contents(a) = SubSeq(k, 1, n - 1)}

LEMMA PutLast ==
  ASSUME NEW c \in Seq(Elements), NEW e \in Elements
  PROVE  LET w == OneMore(c, e, Len(c))
         IN  /\ w \in Seq(Elements) /\ Len(w) = Len(c) + 1 /\ w[Len(c) + 1] = e
             /\ \A j \in 1..Len(c) : w[j] = c[j]
<1> DEFINE N == Len(c)
           w == OneMore(c, e, N)
           b == c \o <<e>>
           r == SubSeq(c, N + 1, N)
<1>1. N \in Nat /\ SubSeq(c, 1, N) = c /\ r \in Seq(Elements) /\ Len(r) = 0
      /\ <<e>> \in Seq(Elements) /\ Len(<<e>>) = 1
  OBVIOUS
<1>2. b \in Seq(Elements) /\ Len(b) = N + 1
  BY <1>1, Concatenation
<1>3. b[N + 1] = e
  BY JoinedOne
<1>4. ASSUME NEW j \in 1..N PROVE b[j] = c[j]
  BY <1>1, JoinedFirst
<1>5. w = b \o r
  BY <1>1 DEF OneMore
<1> HIDE DEF b, r, w
<1>6. w \in Seq(Elements) /\ Len(w) = N + 1
  <2>1. w \in Seq(Elements) /\ Len(w) = Len(b) + Len(r)
    BY <1>1, <1>2, <1>5, Concatenation
  <2> QED
    BY <1>1, <1>2, <2>1
<1>7. ASSUME NEW j \in 1..(N + 1) PROVE w[j] = b[j]
  BY <1>1, <1>2, <1>5, JoinedFirst
<1>8. N + 1 \in 1..(N + 1) /\ \A j \in 1..N : j \in 1..(N + 1)
  BY <1>1
<1> QED
  BY <1>3, <1>4, <1>6, <1>7, <1>8 DEF w

LEMMA OneLonger ==
  ASSUME NEW k \in Seq(Elements), NEW n \in 1..Len(k), NEW c, c = SubSeq(k, 1, n - 1)
  PROVE  OneMore(c, k[n], Len(c)) = SubSeq(k, 1, n)
<1> DEFINE e == k[n]
           s == SubSeq(k, 1, n)
           N == Len(c)
           w == OneMore(c, e, N)
<1>1. /\ c \in Seq(Elements) /\ N = n - 1 /\ n \in Nat /\ e \in Elements
      /\ \A j \in 1..(n - 1) : c[j] = k[j]
  OBVIOUS
<1>2. /\ s \in Seq(Elements) /\ Len(s) = n /\ \A j \in 1..n : s[j] = k[j]
  OBVIOUS
<1>3. N = Len(c)
  OBVIOUS
<1> HIDE DEF e, s
<1>4. /\ w \in Seq(Elements) /\ Len(w) = N + 1 /\ w[N + 1] = e
      /\ \A j \in 1..N : w[j] = c[j]
  <2>1. c \in Seq(Elements) /\ e \in Elements
    BY <1>1
  <2> QED
    BY ONLY <2>1, PutLast
<1> HIDE DEF N
<1> HIDE DEF w
<1>5. ASSUME NEW j \in 1..n PROVE w[j] = s[j]
  <2>1. j \in 1..(n - 1) \/ j = n
    BY <1>1
  <2>2. CASE j \in 1..(n - 1)
    BY <1>1, <1>2, <1>4, <2>2
  <2>3. CASE j = n
    BY <1>1, <1>2, <1>4, <2>3 DEF e
  <2> QED
    BY <2>1, <2>2, <2>3
<1>6. w = s
  <2>1. Len(w) = n
    BY <1>1, <1>4
  <2> QED
    BY <1>2, <1>4, <1>5, <2>1, SameSequence
<1> QED
  BY <1>3, <1>6 DEF w, s, e, N

LEMMA OnePush ==
  ASSUME NEW k \in Seq(Elements), NEW n \in 1..Len(k), NEW a \in Made(k, n - 1)
  PROVE  Pushes(a, k[n]) \subseteq Made(k, n)
<1>1. /\ WellFormed(a) /\ n \in Nat /\ n > 0 /\ k[n] \in Elements
      /\ \/ Exact(a) /\ Contents(a) = SubSeq(k, 1, n - 1)
         \/ Stuck(a)
  BY DEF Made
<1>2. a.size \in Nat /\ Len(Contents(a)) = a.size
  BY <1>1, ContentsFacts
<1>3. \A z : WellFormed(z) => z \in UNION {Array(m) : m \in 0..MemLimit}
  BY DEF WellFormed, Holds
<1>4. SUFFICES ASSUME NEW o \in MakeRoom(a),
                      a.size \in DOMAIN o.array.buffer \/ o.stat # CC_OK
               PROVE  (IF o.stat = CC_OK THEN InsertAt(o.array, k[n], a.size) ELSE o.array)
                        \in Made(k, n)
  BY DEF Pushes
<1> DEFINE b == o.array
           e == k[n]
           z == InsertAt(b, e, a.size)
           c == Contents(a)
<1>5. /\ WellFormed(b) /\ Contents(b) = c /\ b.size = a.size
      /\ o.stat = CC_OK => b.size < b.capacity
  BY <1>1, RoomMade
<1>6. CASE Exact(a) /\ c = SubSeq(k, 1, n - 1)
  <2>1. IF o.stat = CC_OK THEN Exact(b) ELSE Stuck(b)
    BY <1>1, <1>6, ExactRoom
  <2>2. CASE o.stat # CC_OK
    BY <1>1, <1>3, <1>5, <1>6, <2>1, <2>2 DEF Made
  <2>3. CASE o.stat = CC_OK
    <3> DEFINE i == a.size
    <3>1. i \in 0..b.size /\ i..b.size = {i} /\ i..b.size \subseteq DOMAIN b.buffer
          /\ b.size < b.capacity
      BY <1>2, <1>4, <1>5, <2>3
    <3>2. DOMAIN z.buffer = DOMAIN b.buffer
      BY <1>5, SlotsKept
    <3>3. z.capacity = b.capacity
      <4>1. PICK m \in 0..MemLimit : b \in Array(m)
        BY <1>5 DEF WellFormed, Holds
      <4> QED
        BY <4>1 DEF InsertAt, Array
    <3> HIDE DEF b, c
    <3>4. WellFormed(z) /\ Contents(z) = SubSeq(c, 1, i) \o <<e>> \o SubSeq(c, i + 1, Len(c))
      <4> HIDE DEF i, e
      <4>1. WellFormed(z)
        BY <1>1, <1>5, <3>1, InsertedAt DEF e, i
      <4>2. Contents(z) = SubSeq(c, 1, i) \o <<e>> \o SubSeq(c, i + 1, Len(c))
        BY <1>1, <1>5, <3>1, InsertedAt DEF e, i
      <4> QED
        BY <4>1, <4>2
    <3>5. Contents(z) = SubSeq(k, 1, n)
      <4>1. Len(c) = i
        BY <1>2 DEF c
      <4> QED
        BY <1>6, <3>4, <4>1, OneLonger DEF OneMore, e
    <3>6. Exact(z)
      BY <2>1, <2>3, <3>2, <3>3 DEF Exact
    <3> HIDE DEF z
    <3>7. z \in Made(k, n)
      BY <1>3, <3>4, <3>5, <3>6 DEF Made
    <3> QED
      BY <2>3, <3>7 DEF z, b, e
  <2> QED
    BY <2>2, <2>3
<1>7. CASE Stuck(a)
  <2>1. a.capacity \in Nat
    BY <1>1 DEF WellFormed, Holds, Array
  <2>2. ~(a.size >= a.capacity)
    BY <1>2, <1>7, <2>1 DEF Stuck
  <2>3. o = Outcome(CC_OK, a)
    BY <2>2 DEF MakeRoom
  <2>4. b = a /\ o.stat = CC_OK
    BY <2>3 DEF Outcome
  <2> QED
    BY <1>4, <1>7, <2>4 DEF Stuck
<1> QED
  BY <1>1, <1>6, <1>7

LEMMA AllPushed ==
  ASSUME NEW k \in Seq(Elements), NEW a \in Made(k, 0)
  PROVE  Stack!Pushed(k, a) \subseteq Made(k, Len(k))
<1> DEFINE N == Len(k)
           P(z, e) ==
             {IF o.stat = Stack!CC_OK THEN Stack!A!InsertAt(o.array, e, z.size) ELSE o.array :
                o \in {r \in Stack!A!MakeRoom(z) : z.size \in DOMAIN r.array.buffer
                                                   \/ r.stat # Stack!CC_OK}}
           S(f) == [n \in 0..Len(k) |->
                      IF n = 0 THEN {a} ELSE UNION {P(z, k[n]) : z \in f[n - 1]}]
           L(f) == [n \in 0..N |->
                      IF n = 0 THEN {a} ELSE UNION {Pushes(z, k[n]) : z \in f[n - 1]}]
           made == CHOOSE f : f = L(f)
           R(n, T) == UNION {Pushes(z, k[n]) : z \in T}
           M == SUBSET UNION {Array(m) : m \in 0..MemLimit}
           h == [p \in (1..N) \X M |-> R(p[1], p[2])]
           G == [n \in 0..N |-> SUBSET Made(k, n)]
<1>1. Stack!Pushed(k, a) = made[N]
  <2>1. Stack!Pushed(k, a) = (CHOOSE f : f = S(f))[N]
    BY DEF Stack!Pushed
  <2>2. \A z, e : P(z, e) = Pushes(z, e)
    BY SameBuffers DEF Pushes, Stack!CC_OK, CC_OK
  <2> HIDE DEF P
  <2>3. \A f : S(f) = L(f)
    BY <2>2
  <2> HIDE DEF S, L
  <2>4. \A f : f = S(f) <=> f = L(f)
    BY <2>3
  <2>5. (CHOOSE f : f = S(f)) = (CHOOSE f : f = L(f))
    BY <2>4, Zenon
  <2> QED
    BY <2>1, <2>5
<1>2. N \in Nat /\ 0 \in 0..N /\ N \in 0..N
  OBVIOUS
<1>3. \A f : L(f) = [n \in 0..N |-> IF n = 0 THEN {a} ELSE R(n, f[n - 1])]
  OBVIOUS
<1>4. ASSUME NEW n \in 1..N, NEW T \in M PROVE h[<<n, T>>] = R(n, T)
  <2> HIDE DEF R, M
  <2> QED
    OBVIOUS
<1>5. \A n \in 0..N : G[n] = SUBSET Made(k, n)
  OBVIOUS
<1>6. ASSUME NEW n \in 1..N, NEW T \in SUBSET Made(k, n - 1)
      PROVE  T \in M /\ R(n, T) \in SUBSET Made(k, n)
  <2>1. Made(k, n - 1) \in M
    BY DEF Made
  <2>2. T \in M
    BY <2>1
  <2>3. \A z \in T : Pushes(z, k[n]) \subseteq Made(k, n)
    BY OnePush
  <2> QED
    BY <2>2, <2>3
<1> HIDE DEF N, S, L, R, M, h, G
<1>7. Leads(h, N, G)
  <2> SUFFICES ASSUME NEW n \in 1..N, NEW y \in G[n - 1] PROVE h[<<n, y>>] \in G[n]
    BY DEF Leads
  <2>1. n \in 0..N /\ n - 1 \in 0..N
    BY <1>2
  <2>2. y \in SUBSET Made(k, n - 1)
    BY <1>5, <2>1
  <2>3. y \in M /\ R(n, y) \in SUBSET Made(k, n)
    BY <1>6, <2>2
  <2> QED
    BY <1>4, <1>5, <2>1, <2>3
<1>8. {a} \in G[0]
  BY <1>2, <1>5
<1>9. PICK f : Iterates(f, N, G, {a}, h)
  BY <1>2, <1>7, <1>8, Recursion
<1>10. f = L(f)
  <2>1. ASSUME NEW n \in 1..N PROVE f[n] = R(n, f[n - 1])
    <3>1. n - 1 \in 0..N
      BY <1>2
    <3>2. f[n] = h[<<n, f[n - 1]>>] /\ f[n - 1] \in G[n - 1]
      BY <1>9, <3>1 DEF Iterates
    <3>3. f[n - 1] \in SUBSET Made(k, n - 1)
      BY <1>5, <3>1, <3>2
    <3>4. f[n - 1] \in M
      BY <1>6, <3>3
    <3> QED
      BY <1>4, <3>2, <3>4
  <2>2. \A n \in 0..N : f[n] = IF n = 0 THEN {a} ELSE R(n, f[n - 1])
    <3>1. f[0] = {a}
      BY <1>9 DEF Iterates
    <3>2. \A n \in 0..N : n # 0 => n \in 1..N
      BY <1>2
    <3> QED
      BY <2>1, <3>1, <3>2
  <2>3. f = [n \in 0..N |-> f[n]]
    BY <1>9 DEF Iterates
  <2> QED
    BY <1>3, <2>2, <2>3
<1>11. made = L(made)
  BY <1>10
<1> HIDE DEF made
<1>12. made = [n \in 0..N |-> IF n = 0 THEN {a} ELSE R(n, made[n - 1])]
  BY <1>3, <1>11
<1>13. made[0] = {a} /\ \A n \in 1..N : made[n] = R(n, made[n - 1])
  BY <1>2, <1>12
<1> DEFINE B == {n \in 0..N : made[n] \in SUBSET Made(k, n)}
<1>14. 0 \in B
  BY <1>2, <1>13
<1>15. ASSUME NEW n \in 1..N, n - 1 \in B PROVE n \in B
  <2>1. n \in 0..N /\ made[n - 1] \in SUBSET Made(k, n - 1)
    BY <1>2, <1>15
  <2>2. made[n] \in SUBSET Made(k, n)
    BY <1>6, <1>13, <2>1
  <2> QED
    BY <2>1, <2>2
<1> HIDE DEF B
<1>16. 0..N \subseteq B
  BY <1>2, <1>14, <1>15, Induction
<1>17. made[N] \in SUBSET Made(k, N)
  BY <1>2, <1>16 DEF B
<1> QED
  BY <1>1, <1>17 DEF N

-----------------------------------------------------------------------------
\* Each call of the stack

StackInv ==
  /\ BufferInv /\ fault \in BOOLEAN
  /\ iter \in [index : Nat, last_removed : BOOLEAN]

\* What a call of the stack leaves behind.
StackStays == StackInv' /\ (fault' => UNCHANGED Stack!Abs!vars)

LEMMA SameInside ==
  /\ Stack!A!Contents(array) = Contents(array)
  /\ Stack!A!Contents(array)' = Contents(array)'
BY SameBuffers

LEMMA StackRefuses ==
  ASSUME NEW st, Reject(st)
  PROVE  /\ ret' = Stack!Abs!Refused(st) /\ array' = array
         /\ Stack!A!Contents(array)' = Stack!A!Contents(array)
BY SameCodes DEF Reject, Return

\* A call that ends the walk, or begins one.
LEMMA WalkStays ==
  ASSUME StackInv, EndWalk \/ NewIter \/ UNCHANGED iter
  PROVE  iter' \in [index : Nat, last_removed : BOOLEAN]
<1>1. CASE NewIter
  BY <1>1 DEF NewIter
<1>2. CASE EndWalk \/ UNCHANGED iter
  BY <1>2 DEF EndWalk, StackInv
<1> QED
  BY <1>1, <1>2

LEMMA CrashStops ==
  ASSUME Crash
  PROVE  UNCHANGED Stack!Abs!vars
BY DEF Crash, Stack!Abs!vars

LEMMA PushKept ==
  ASSUME StackInv, fault = FALSE, NEW e \in Elements, Add(e)
  PROVE  StackStays /\ (fault' \/ Stack!Abs!Push(e))
<1> DEFINE c == Contents(array)
           n == array.size
<1>1. /\ BufferInv /\ Insert(e, n) /\ EndWalk /\ n \in 0..n
      /\ c \in Seq(Elements) /\ Len(c) = n
  BY ArrayFacts DEF StackInv, Add
<1>2. Stays /\ (fault' \/ Abs!Insert(e, n) \/ Abs!NoMemory)
  BY <1>1, InsertStays
<1>3. StackInv'
  BY <1>1, <1>2, WalkStays DEF StackInv, Stays
<1>4. fault' => UNCHANGED Stack!Abs!vars
  <2>1. fault' => Crash
    BY DEF Add, Insert, Commit, Return
  <2> QED
    BY <2>1, CrashStops
<1>5. CASE Abs!Insert(e, n)
  <2>1. ret' = Done /\ Contents(array)' = OneMore(c, e, Len(c))
    BY <1>1, <1>5, SameResults DEF Abs!Insert, Abs!Inserted, OneMore
  <2>2. OneMore(c, e, Len(c)) = Append(c, e)
    <3> DEFINE w == OneMore(c, e, Len(c))
               z == Append(c, e)
    <3> HIDE DEF c
    <3>1. /\ w \in Seq(Elements) /\ Len(w) = Len(c) + 1 /\ w[Len(c) + 1] = e
          /\ \A j \in 1..Len(c) : w[j] = c[j]
      BY ONLY <1>1, e \in Elements, PutLast
    <3>2. /\ z \in Seq(Elements) /\ Len(z) = Len(c) + 1 /\ z[Len(c) + 1] = e
          /\ \A j \in 1..Len(c) : z[j] = c[j]
      BY <1>1, Appended
    <3> HIDE DEF w, z
    <3>3. \A j \in 1..(Len(c) + 1) : j \in 1..Len(c) \/ j = Len(c) + 1
      BY <1>1
    <3>4. w = z
      BY <3>1, <3>2, <3>3, SameSequence
    <3> QED
      BY <3>4 DEF w, z
  <2> QED
    BY <1>3, <1>4, <2>1, <2>2, SameInside, SameCodes DEF StackStays, Stack!Abs!Push
<1>6. CASE Abs!NoMemory
  <2>1. PICK st \in {CC_ERR_ALLOC, CC_ERR_MAX_CAPACITY} :
          ret' = Refused(st) /\ Contents(array)' = c
    BY <1>6, SameResults
       DEF Abs!NoMemory, Abs!Refuse, Abs!CC_ERR_ALLOC, Abs!CC_ERR_MAX_CAPACITY,
           CC_ERR_ALLOC, CC_ERR_MAX_CAPACITY
  <2> QED
    BY <1>3, <1>4, <2>1, SameInside, SameCodes
       DEF StackStays, Stack!Abs!Push, Stack!Abs!Refuse, Stack!Abs!CC_ERR_ALLOC,
           Stack!Abs!CC_ERR_MAX_CAPACITY, CC_ERR_ALLOC, CC_ERR_MAX_CAPACITY
<1> QED
  BY <1>2, <1>3, <1>4, <1>5, <1>6 DEF StackStays

LEMMA PopKept ==
  ASSUME StackInv, fault = FALSE, RemoveLast
  PROVE  StackStays /\ Stack!Abs!Pop
<1> DEFINE c == Contents(array)
           n == array.size
           i == n - 1
<1>1. BufferInv /\ EndWalk /\ n \in Nat /\ c \in Seq(Elements) /\ Len(c) = n
  BY ArrayFacts DEF StackInv, RemoveLast, RemoveAt
<1>2. Stays /\ fault' = FALSE /\ Abs!RemoveLast
  BY <1>1, RemoveLastStays
<1>3. StackStays
  BY <1>1, <1>2, WalkStays DEF StackInv, Stays, StackStays
<1>4. CASE n = 0
  <2>1. ~InRange(array.size - 1)
    BY <1>1, <1>4 DEF InRange
  <2>2. Reject(CC_ERR_OUT_OF_RANGE)
    BY <2>1 DEF RemoveLast, RemoveAt, RemoveChecked
  <2>3. c = <<>>
    BY <1>1, <1>4
  <2> QED
    BY <1>3, <2>2, <2>3, StackRefuses, SameInside
       DEF Stack!Abs!Pop, Stack!Abs!Refuse, Stack!Abs!CC_ERR_OUT_OF_RANGE,
           CC_ERR_OUT_OF_RANGE
<1>5. CASE n # 0
  <2>1. c # <<>> /\ i < Len(c) /\ ~(i >= Len(c)) /\ i + 1 = n /\ Len(c) - 1 = i
    BY <1>1, <1>5
  <2>2. Abs!RemoveAt(i)
    BY <1>2, <2>1 DEF Abs!RemoveLast
  <2>3. ret' = Got(c[n]) /\ Contents(array)' = SubSeq(c, 1, i) \o SubSeq(c, i + 2, Len(c))
    BY <2>1, <2>2, SameResults DEF Abs!RemoveAt, Abs!Without
  <2>4. SubSeq(c, 1, i) \o SubSeq(c, i + 2, Len(c)) = SubSeq(c, 1, Len(c) - 1)
    <3> HIDE DEF c
    <3>1. SubSeq(c, i + 2, Len(c)) = <<>> /\ SubSeq(c, 1, i) \in Seq(Elements)
      BY <1>1, <1>5
    <3> DEFINE t == SubSeq(c, 1, i)
    <3> HIDE DEF t
    <3>2. t \in Seq(Elements) => t \o <<>> = t
      OBVIOUS
    <3> QED
      BY <2>1, <3>1, <3>2 DEF t
  <2> HIDE DEF c, n, i
  <2>5. Contents(array)' = SubSeq(c, 1, Len(c) - 1) /\ ret' = Got(c[Len(c)])
    BY <1>1, <2>3, <2>4
  <2> QED
    BY <1>3, <2>1, <2>5, SameInside, SameCodes DEF Stack!Abs!Pop, Stack!Abs!Last, c
<1> QED
  BY <1>4, <1>5

LEMMA PeekKept ==
  ASSUME StackInv, fault = FALSE, GetLast
  PROVE  StackStays /\ Stack!Abs!Peek
<1> DEFINE c == Contents(array)
           n == array.size
           i == n - 1
<1>1. BufferInv /\ n \in Nat /\ c \in Seq(Elements) /\ Len(c) = n
  BY ArrayFacts DEF StackInv
<1>2. Stays /\ fault' = FALSE /\ Abs!GetLast /\ EndWalk
  <2>1. EndWalk
    BY DEF GetLast, GetAt, Refuse, Update
  <2> QED
    BY <1>1, <2>1, GetLastStays
<1>3. StackStays
  BY <1>1, <1>2, WalkStays DEF StackInv, Stays, StackStays
<1>4. CASE n = 0
  <2>1. Reject(CC_ERR_VALUE_NOT_FOUND)
    BY <1>4 DEF GetLast, Refuse
  <2>2. c = <<>>
    BY <1>1, <1>4
  <2> QED
    BY <1>3, <2>1, <2>2, StackRefuses, SameInside
       DEF Stack!Abs!Peek, Stack!Abs!Refuse, Stack!Abs!CC_ERR_VALUE_NOT_FOUND,
           CC_ERR_VALUE_NOT_FOUND
<1>5. CASE n # 0
  <2>1. c # <<>> /\ i < Len(c) /\ ~(i >= Len(c)) /\ i + 1 = n /\ Len(c) - 1 = i
    BY <1>1, <1>5
  <2>2. Abs!GetAt(i)
    BY <1>2, <2>1 DEF Abs!GetLast
  <2>3. ret' = Got(c[n]) /\ Contents(array)' = c
    BY <2>1, <2>2, SameResults DEF Abs!GetAt
  <2> HIDE DEF c, n, i
  <2>4. ret' = Got(c[Len(c)])
    BY <1>1, <2>3
  <2> QED
    BY <1>3, <2>1, <2>3, <2>4, SameInside, SameCodes DEF Stack!Abs!Peek, Stack!Abs!Last, c
<1> QED
  BY <1>4, <1>5

LEMMA FilterMutKept ==
  ASSUME StackInv, fault = FALSE, NEW pred, FilterMut(pred)
  PROVE  StackStays /\ Stack!Abs!Filter(pred)
<1> DEFINE c == Contents(array)
           v == Selected(c, pred)
<1>1. /\ BufferInv /\ c \in Seq(Elements) /\ (c = <<>> <=> array.size = 0)
  BY ArrayFacts, EmptyContents DEF StackInv
<1>2. EndWalk
  BY DEF FilterMut, Refuse, Update
<1>3. Stays /\ fault' = FALSE /\ Abs!Filter(pred)
  BY <1>1, FilterMutStays
<1>4. StackStays
  BY <1>2, <1>3, WalkStays DEF StackInv, Stays, StackStays
<1>5. v \in Seq(Elements)
  BY <1>1, SelectedShort
<1>6. CASE array.size = 0
  <2>1. Reject(CC_ERR_OUT_OF_RANGE)
    BY <1>6 DEF FilterMut, Refuse
  <2> QED
    BY <1>1, <1>4, <1>6, <2>1, StackRefuses, SameInside
       DEF Stack!Abs!Filter, Stack!Abs!Refuse, Stack!Abs!CC_ERR_OUT_OF_RANGE,
           CC_ERR_OUT_OF_RANGE
<1>7. CASE array.size # 0
  <2>1. ret' = Done
    BY <1>7 DEF FilterMut, Update, Commit, Return
  <2>2. ~Abs!NoMemory /\ c # <<>>
    BY <1>1, <1>7, <2>1, SameResults
       DEF Abs!NoMemory, Abs!Refuse, Done, Refused, Result, CC_OK, Abs!CC_ERR_ALLOC,
           Abs!CC_ERR_MAX_CAPACITY
  <2>3. Contents(array)' = Abs!Selected(c, pred)
    BY <1>3, <2>2 DEF Abs!Filter
  <2>4. Abs!Selected(c, pred) = v
    BY Zenon DEF Abs!Selected, Selected
  <2> HIDE DEF v
  <2>5. Len(v) \in 0..Len(v) /\ SubSeq(v, 1, Len(v)) = v
    BY <1>5
  <2> QED
    BY <1>4, <2>1, <2>2, <2>3, <2>4, <2>5, SameInside, SameCodes, SameSelection
       DEF Stack!Abs!Filter, v
<1> QED
  BY <1>6, <1>7

NewStack == [size |-> 0, capacity |-> DefaultCapacity, exp |-> ExpNum,
             buffer |-> Copied(<<>>, 0, DefaultCapacity)]

LEMMA StackIsNew ==
  ASSUME DefaultCapacity \in 0..MemLimit, NEW k \in Seq(Elements)
  PROVE  NewStack \in Made(k, 0)
<1> DEFINE d == DefaultCapacity
           b == Copied(<<>>, 0, d)
<1>1. d \in Nat /\ 0 \in 0..d /\ ExpNum \in Nat
  BY ArrayConstants
<1>2. b \in [Slots(d) -> Elements \cup {NoElement}]
  <2>1. \A s \in Slots(d) : ~(s < 0)
    BY <1>1 DEF Slots
  <2> QED
    BY <2>1 DEF Copied
<1> HIDE DEF b
<1>3. NewStack = [size |-> 0, capacity |-> d, exp |-> ExpNum, buffer |-> b]
  BY DEF NewStack, b
<1>4. NewStack \in Array(d)
  BY <1>1, <1>2, <1>3 DEF Array
<1>5. Holds(NewStack, d)
  <2>1. Slots(0) = {}
    BY DEF Slots
  <2> QED
    BY <1>1, <1>3, <1>4, <2>1 DEF Holds
<1>6. WellFormed(NewStack) /\ Exact(NewStack) /\ NewStack.size = 0
  BY <1>2, <1>3, <1>5 DEF WellFormed, Exact
<1>7. Contents(NewStack) = SubSeq(k, 1, 0)
  <2>1. SubSeq(k, 1, 0) = <<>>
    OBVIOUS
  <2>2. Contents(NewStack) \in Seq(Elements) /\ Len(Contents(NewStack)) = 0
    BY <1>6, ContentsFacts
  <2> QED
    BY <2>1, <2>2
<1> QED
  BY <1>4, <1>6, <1>7 DEF Made

\* What filter makes of the selected elements.
LEMMA MadeIs ==
  ASSUME NEW k \in Seq(Elements), NEW a \in Made(k, Len(k))
  PROVE  /\ \E n \in 0..Len(k) : Contents(a) = SubSeq(k, 1, n)
         /\ WellFormed(a)
         /\ a.capacity > Cardinality(DOMAIN a.buffer) \/ Roomy(a)
<1>1. WellFormed(a)
  BY DEF Made
<1>2. \E n \in 0..Len(k) : Contents(a) = SubSeq(k, 1, n)
  <2>1. Len(k) \in 0..Len(k) /\ (Len(k) > 0 => Len(k) - 1 \in 0..Len(k))
    OBVIOUS
  <2> QED
    BY <2>1 DEF Made
<1>3. PICK m \in 0..MemLimit : Holds(a, m)
  BY <1>1 DEF WellFormed
<1>4. m \in Nat /\ DOMAIN a.buffer = 0..(m - 1) /\ a.capacity \in Nat
  BY <1>3, ArrayConstants DEF Holds, Array, Slots
<1>5. Cardinality(0..(m - 1)) = m
  <2>1. 0 \in Int /\ m - 1 \in Int
    BY <1>4
  <2>2. Cardinality(0..(m - 1)) = IF 0 > m - 1 THEN 0 ELSE (m - 1) - 0 + 1
    BY <2>1, FS_Interval
  <2> QED
    BY <1>4, <2>2
<1>6. a.capacity <= m => Roomy(a)
  BY <1>4 DEF Roomy, Slots
<1> QED
  BY <1>1, <1>2, <1>4, <1>5, <1>6

LEMMA FilterKept ==
  ASSUME StackInv, fault = FALSE, DefaultCapacity \in 0..MemLimit, NEW pred,
         Stack!Filter(pred)
  PROVE  StackStays /\ (fault' \/ Stack!Abs!Filter(pred))
<1> DEFINE c == Contents(array)
           k == Selected(c, pred)
<1>1. /\ BufferInv /\ c \in Seq(Elements) /\ (c = <<>> <=> array.size = 0)
      /\ k \in Seq(Elements)
  <2>1. BufferInv /\ c \in Seq(Elements) /\ (c = <<>> <=> array.size = 0)
    BY ArrayFacts, EmptyContents DEF StackInv
  <2> QED
    BY <2>1, SelectedShort
<1>2. \/ array.size = 0 /\ Refuse(CC_ERR_OUT_OF_RANGE)
      \/ array.size # 0 /\ Crash /\ EndWalk
      \/ /\ array.size # 0
         /\ \E s \in Stack!Pushed(k, NewStack) :
              /\ array' = s
              /\ refused' = (s.capacity > Cardinality(DOMAIN s.buffer))
         /\ ret' = Done /\ NewIter /\ UNCHANGED fault
  <2>1. Stack!Selected(Stack!A!Contents(array), pred) = k
    BY SameBuffers, SameSelection
  <2>2. [size |-> 0, capacity |-> DefaultCapacity, exp |-> ExpNum,
         buffer |-> Stack!A!Copied(<<>>, 0, DefaultCapacity)] = NewStack
    BY SameBuffers DEF NewStack
  <2>3. \A S : Stack!Cardinality(S) = Cardinality(S)
    BY Zenon DEF Stack!Cardinality, Cardinality
  <2> HIDE DEF k
  <2> QED
    BY <2>1, <2>2, <2>3, SameWays, SameCodes
       DEF Stack!Filter, Stack!CC_ERR_OUT_OF_RANGE, CC_ERR_OUT_OF_RANGE, Return
<1>3. CASE array.size = 0 /\ Refuse(CC_ERR_OUT_OF_RANGE)
  <2>1. Reject(CC_ERR_OUT_OF_RANGE) /\ EndWalk
    BY <1>3 DEF Refuse
  <2>2. Stays /\ fault' = FALSE
    BY <1>1, <2>1, RejectStays
  <2>3. StackStays
    BY <2>1, <2>2, WalkStays DEF StackInv, Stays, StackStays
  <2> QED
    BY <1>1, <1>3, <2>1, <2>3, StackRefuses, SameInside
       DEF Stack!Abs!Filter, Stack!Abs!Refuse, Stack!Abs!CC_ERR_OUT_OF_RANGE,
           CC_ERR_OUT_OF_RANGE
<1>4. CASE Crash /\ EndWalk
  <2>1. fault' = TRUE /\ BufferInv'
    BY <1>1, <1>4 DEF Crash, BufferInv, WellFormed, Roomy
  <2> QED
    BY <1>4, <2>1, WalkStays, CrashStops DEF StackStays, StackInv
<1>5. CASE /\ array.size # 0 /\ ret' = Done /\ NewIter /\ UNCHANGED fault
           /\ \E s \in Stack!Pushed(k, NewStack) :
                /\ array' = s
                /\ refused' = (s.capacity > Cardinality(DOMAIN s.buffer))
  <2>1. PICK s \in Stack!Pushed(k, NewStack) :
          array' = s /\ refused' = (s.capacity > Cardinality(DOMAIN s.buffer))
    BY <1>5
  <2> HIDE DEF k
  <2>2. s \in Made(k, Len(k))
    BY <1>1, StackIsNew, AllPushed
  <2>3. /\ \E n \in 0..Len(k) : Contents(s) = SubSeq(k, 1, n)
        /\ WellFormed(s)
        /\ s.capacity > Cardinality(DOMAIN s.buffer) \/ Roomy(s)
    BY <1>1, <2>2, MadeIs
  <2>4. BufferInv' /\ fault' = FALSE
    BY <1>5, <2>1, <2>3 DEF BufferInv
  <2>5. StackStays
    BY <1>5, <2>4, WalkStays DEF StackStays, StackInv
  <2>6. PICK n \in 0..Len(k) : Contents(array)' = SubSeq(k, 1, n)
    BY <2>1, <2>3
  <2> QED
    BY <1>1, <1>5, <2>5, <2>6, SameInside, SameCodes, SameSelection
       DEF Stack!Abs!Filter, k
<1> QED
  BY <1>2, <1>3, <1>4, <1>5

LEMMA IterInitKept ==
  ASSUME StackInv, fault = FALSE, IterInit
  PROVE  StackStays /\ Stack!Abs!StartWalk
<1>1. array' = array /\ refused' = refused /\ fault' = FALSE /\ ret' = Done
  BY DEF IterInit, Return
<1>2. StackStays
  BY <1>1, WalkStays DEF IterInit, StackInv, BufferInv, WellFormed, Roomy, StackStays
<1>3. Contents(array)' = Contents(array)
  BY <1>1
<1> QED
  BY <1>1, <1>2, <1>3, SameInside, SameCodes DEF Stack!Abs!StartWalk

LEMMA IterNextKept ==
  ASSUME StackInv, fault = FALSE, IterNext
  PROVE  StackStays /\ Stack!Abs!Walk
<1> DEFINE i == iter.index
           c == Contents(array)
<1>1. BufferInv /\ i \in Nat /\ i \in Int /\ array.size \in Nat /\ Len(c) = array.size
  BY ArrayFacts DEF StackInv
<1>2. CASE i >= array.size /\ Reject(CC_ITER_END) /\ UNCHANGED iter
  <2>1. Stays /\ fault' = FALSE
    BY <1>1, <1>2, RejectStays
  <2>2. StackStays
    BY <1>2, <2>1, WalkStays DEF StackInv, Stays, StackStays
  <2> QED
    BY <1>2, <2>2, StackRefuses
       DEF Stack!Abs!Walk, Stack!Abs!Refuse, Stack!Abs!CC_ITER_END, CC_ITER_END
<1>3. CASE /\ i < array.size /\ Commit(array, {i}, Got(array.buffer[i]))
           /\ iter' = [index |-> i + 1, last_removed |-> FALSE]
  <2> DEFINE slots == {i}
             r == Got(array.buffer[i])
             j == i + 1
  <2>1. InRange(i)
    BY <1>1, <1>3 DEF InRange
  <2>2. iter' \in [index : Nat, last_removed : BOOLEAN] /\ j \in 1..Len(c)
    BY <1>1, <1>3
  <2> HIDE DEF i
  <2>3. slots \subseteq DOMAIN array.buffer /\ c[j] = array.buffer[i]
    BY <1>1, <2>1, Inside
  <2>4. Commit(array, slots, r)
    BY <1>3
  <2> HIDE DEF slots
  <2>5. Stays /\ fault' = FALSE /\ ret' = r /\ Contents(array)' = c
    <3> HIDE DEF r
    <3> QED
      BY <1>1, <2>3, <2>4, Unmoved
  <2>6. StackStays
    BY <2>2, <2>5 DEF StackInv, Stays, StackStays
  <2>7. ret' = Got(c[j])
    BY <2>3, <2>5
  <2> HIDE DEF j, c
  <2> QED
    BY <2>2, <2>5, <2>6, <2>7, SameInside, SameCodes DEF Stack!Abs!Walk, c
<1> QED
  BY <1>2, <1>3 DEF IterNext

LEMMA IterReplaceKept ==
  ASSUME StackInv, fault = FALSE, NEW e \in Elements, IterReplace(e)
  PROVE  StackStays /\ Stack!Abs!Replace(e)
<1> DEFINE i == iter.index - 1
           c == Contents(array)
<1>1. /\ BufferInv /\ i \in Int /\ ReplaceChecked(e, i) /\ UNCHANGED iter
      /\ array.size \in Nat /\ Len(c) = array.size
  BY ArrayFacts DEF StackInv, IterReplace
<1> HIDE DEF i
<1>2. /\ Stays /\ fault' = FALSE /\ (InRange(i) => Abs!ReplaceAt(e, i))
  BY <1>1, ReplaceStays
<1>3. StackStays
  BY <1>1, <1>2, WalkStays DEF StackInv, Stays, StackStays
<1>4. CASE ~InRange(i)
  <2>1. Reject(CC_ERR_OUT_OF_RANGE)
    BY <1>1, <1>4 DEF ReplaceChecked
  <2> QED
    BY <1>3, <2>1, StackRefuses
       DEF Stack!Abs!Replace, Stack!Abs!Refuse, Stack!Abs!CC_ERR_OUT_OF_RANGE,
           CC_ERR_OUT_OF_RANGE
<1>5. CASE InRange(i)
  <2> DEFINE j == i + 1
  <2>1. i < Len(c) /\ ~(i >= Len(c)) /\ j \in 1..Len(c)
    BY <1>1, <1>5 DEF InRange
  <2>2. ret' = Got(c[j]) /\ Contents(array)' = [c EXCEPT ![j] = e]
    BY <1>2, <1>5, <2>1, SameResults DEF Abs!ReplaceAt
  <2> HIDE DEF j, c
  <2> QED
    BY <1>3, <2>1, <2>2, SameInside, SameCodes DEF Stack!Abs!Replace, c
<1> QED
  BY <1>4, <1>5

-----------------------------------------------------------------------------
LEMMA StackGoesOn ==
  ASSUME StackInv, DefaultCapacity \in 0..MemLimit, [Stack!Next]_(Stack!vars)
  PROVE  /\ StackInv' /\ [Stack!Abs!Next]_(Stack!Abs!vars)
         /\ [fault' \/ Stack!CallsKeepPromise]_(Stack!vars)
<1>1. CASE UNCHANGED Stack!vars
  <2>1. /\ array' = array /\ iter' = iter /\ refused' = refused /\ ret' = ret
        /\ fault' = fault
    BY <1>1 DEF Stack!vars
  <2>2. StackInv'
    BY <2>1 DEF StackInv, BufferInv, WellFormed, Roomy
  <2>3. UNCHANGED Stack!Abs!vars
    BY <2>1, SameInside DEF Stack!Abs!vars
  <2> QED
    BY <1>1, <2>2, <2>3
<1>2. CASE Stack!Next
  <2>1. fault = FALSE
    BY <1>2 DEF Stack!Next, StackInv
  <2>2. fault' \/ Stack!CallsKeepPromise
    BY <2>1, SameCalls, PushKept, PopKept, PeekKept, FilterKept
       DEF Stack!CallsKeepPromise
  <2>3. ASSUME NEW e \in Elements, Stack!Push(e) \/ Stack!IterReplace(e)
        PROVE  StackInv' /\ [Stack!Abs!Next]_(Stack!Abs!vars)
    <3>1. StackStays /\ (fault' \/ Stack!Abs!Push(e) \/ Stack!Abs!Replace(e))
      BY <2>1, <2>3, SameCalls, PushKept, IterReplaceKept
    <3> QED
      BY <3>1 DEF StackStays, Stack!Abs!Next
  <2>4. ASSUME NEW pred \in SUBSET Elements, Stack!FilterMut(pred) \/ Stack!Filter(pred)
        PROVE  StackInv' /\ [Stack!Abs!Next]_(Stack!Abs!vars)
    <3>1. StackStays /\ (fault' \/ Stack!Abs!Filter(pred))
      BY <2>1, <2>4, SameCalls, FilterMutKept, FilterKept
    <3> QED
      BY <3>1 DEF StackStays, Stack!Abs!Next
  <2>5. ASSUME Stack!Pop \/ Stack!Peek \/ Stack!IterInit \/ Stack!IterNext
        PROVE  StackInv' /\ [Stack!Abs!Next]_(Stack!Abs!vars)
    <3>1. StackStays /\ (Stack!Abs!Pop \/ Stack!Abs!Peek \/ Stack!Abs!StartWalk
                         \/ Stack!Abs!Walk)
      BY <2>1, <2>5, SameCalls, PopKept, PeekKept, IterInitKept, IterNextKept
    <3> QED
      BY <3>1 DEF StackStays, Stack!Abs!Next
  <2> QED
    BY <1>2, <2>2, <2>3, <2>4, <2>5 DEF Stack!Next
<1> QED
  BY <1>1, <1>2

LEMMA StackStarts ==
  ASSUME Stack!Init
  PROVE  StackInv /\ Stack!Abs!Init
<1>1. /\ array = NewArray /\ iter = [index |-> 0, last_removed |-> FALSE]
      /\ ret = Done /\ fault = FALSE /\ fresh = FALSE /\ refused = FALSE
  BY SameCodes, SameBuffers
     DEF Stack!Init, Stack!A!Init, Stack!A!NewArray, NewArray
<1>2. BufferInv
  BY <1>1, NewIsGood
<1>3. StackInv
  BY <1>1, <1>2 DEF StackInv
<1>4. Contents(array) = <<>>
  BY <1>1, <1>2, EmptyContents DEF NewArray
<1> QED
  BY <1>1, <1>3, <1>4, SameInside, SameCodes DEF Stack!Abs!Init

\* A stack over the array never loses, repeats or reorders what it was given: pop and
\* peek give the element pushed last of those not yet popped, whatever the growth,
\* whichever expansions are refused, and also on the stack that filter made, which
\* holds what the predicate selects, in order, down from some element on.
THEOREM StackIsLifo == Stack!Spec => IsLifo
<1> USE ArrayConstants, ValuesConstants
<1>1. Stack!Init => StackInv /\ Stack!Abs!Init
  BY StackStarts
<1>2. StackInv /\ [Stack!Next]_(Stack!vars)
        => /\ StackInv' /\ [Stack!Abs!Next]_(Stack!Abs!vars)
           /\ [fault' \/ Stack!CallsKeepPromise]_(Stack!vars)
  <2>1. DefaultCapacity \in 0..MemLimit
    OBVIOUS
  <2> QED
    BY <2>1, StackGoesOn
<1>3. [fault' \/ Stack!CallsKeepPromise]_(Stack!vars)
        => [UNCHANGED Stack!vars \/ fault' \/ Stack!CallsKeepPromise]_(Stack!vars)
  OBVIOUS
<1> QED
  BY <1>1, <1>2, <1>3, PTL DEF Stack!Spec, IsLifo, Stack!IsLifo, Stack!Abs!Spec

-----------------------------------------------------------------------------
\* The arrays of blocks.  What a buffer has room for is its length in blocks.

IsBuffer(b, m) == b = [j \in Sized!Slots(m) |-> b[j]]

Shaped(a, m) ==
  /\ a = [size |-> a.size, capacity |-> a.capacity, exp |-> a.exp, buffer |-> a.buffer]
  /\ a.size \in Nat /\ a.capacity \in Nat /\ a.exp \in Nat
  /\ IsBuffer(a.buffer, m)

\* An array with room for m blocks.
HasRoom(a, m) == Shaped(a, m) /\ a.size <= m /\ a.size <= a.capacity

\* What an array believes it has, it has, unless it was refused.
Believes(a, refusals, l) ==
  \E m \in 0..MemLimit : HasRoom(a, m) /\ (l \in refusals \/ a.capacity <= m)

BothBelieve(as, refusals) ==
  as = [l \in {1, 2} |-> as[l]] /\ \A l \in {1, 2} : Believes(as[l], refusals, l)

CursorInv ==
  \/ cursor = Sized!NoIter
  \/ cursor \in [on : {{1}, {1, 2}}, index : Nat, last_removed : BOOLEAN]

BlockInv == BothBelieve(ars, denied) /\ CursorInv /\ StraysOnlyWhenRefused

LEMMA LengthInBlocks ==
  ASSUME NEW m \in Nat, NEW k \in Nat \ {0}
  PROVE  (m * k) \div k = m
<1>1. m * k \in Nat /\ m * k = k * m
  OBVIOUS
<1>2. \A q \in Int : q = (m * k) \div k <=> k * q <= m * k /\ m * k < k * q + k
  BY <1>1, SMTT(30)
<1> QED
  BY <1>1, <1>2

LEMMA RoomInBlocks ==
  ASSUME NEW m \in Nat, NEW a, DOMAIN a.buffer = Sized!Slots(m)
  PROVE  Sized!Room(a) = m
<1> USE ValuesConstants
<1> DEFINE n == m * DataLength
<1>1. n \in Nat
  OBVIOUS
<1>2. Cardinality(0..(n - 1)) = n
  <2> HIDE DEF n
  <2>1. IsFiniteSet(0..(n - 1))
    BY <1>1, FS_Interval
  <2>2. Cardinality(0..(n - 1)) = IF 0 > n - 1 THEN 0 ELSE (n - 1) - 0 + 1
    BY <1>1, FS_Interval
  <2> QED
    BY <1>1, <2>2
<1>3. \A S : Sized!Cardinality(S) = Cardinality(S)
  BY Zenon DEF Sized!Cardinality, Cardinality
<1>4. n \div DataLength = m
  BY LengthInBlocks
<1>5. DOMAIN a.buffer = 0..(n - 1)
  BY DEF Sized!Slots
<1> HIDE DEF n
<1> QED
  BY <1>2, <1>3, <1>4, <1>5 DEF Sized!Room

\* An array whose fields are given, on the buffer of another one or a new one.
LEMMA RoomAfter ==
  ASSUME NEW m \in Nat, NEW n \in Nat, NEW c \in Nat, NEW x \in Nat, NEW b, NEW refusals, NEW l,
         IsBuffer(b, m), m <= MemLimit, n <= m, n <= c,
         l \in refusals \/ c <= m
  PROVE  Believes([size |-> n, capacity |-> c, exp |-> x, buffer |-> b], refusals, l)
<1> DEFINE a == [size |-> n, capacity |-> c, exp |-> x, buffer |-> b]
<1>1. a.size = n /\ a.capacity = c /\ a.exp = x /\ a.buffer = b
  OBVIOUS
<1>2. a = [size |-> a.size, capacity |-> a.capacity, exp |-> a.exp, buffer |-> a.buffer]
  OBVIOUS
<1> HIDE DEF a
<1>3. HasRoom(a, m)
  BY <1>1, <1>2 DEF HasRoom, Shaped
<1>4. m \in 0..MemLimit
  BY ArrayConstants
<1>5. Believes(a, refusals, l)
  BY <1>1, <1>3, <1>4 DEF Believes
<1> QED
  BY <1>5 DEF a

\* What an array that believes can be taken to be.
LEMMA WhatItHas ==
  ASSUME NEW a, NEW refusals, NEW l, Believes(a, refusals, l)
  PROVE  \E m \in Nat :
           /\ a = [size |-> a.size, capacity |-> a.capacity, exp |-> a.exp, buffer |-> a.buffer]
           /\ a.size \in Nat /\ a.capacity \in Nat /\ a.exp \in Nat
           /\ IsBuffer(a.buffer, m) /\ DOMAIN a.buffer = Sized!Slots(m) /\ m <= MemLimit
           /\ a.size <= m /\ a.size <= a.capacity /\ Sized!Room(a) = m
           /\ l \in refusals \/ a.capacity <= m
<1>1. PICK m \in 0..MemLimit : HasRoom(a, m) /\ (l \in refusals \/ a.capacity <= m)
  BY DEF Believes
<1>2. m \in Nat /\ m <= MemLimit
  BY ArrayConstants
<1>4. DOMAIN a.buffer = Sized!Slots(m)
  BY <1>1 DEF HasRoom, Shaped, IsBuffer
<1>3. Sized!Room(a) = m
  BY <1>2, <1>4, RoomInBlocks
<1> QED
  BY <1>1, <1>2, <1>3, <1>4 DEF HasRoom, Shaped

\* One array is exchanged for another one.
LEMMA OneExchanged ==
  ASSUME NEW as, NEW refusals, BothBelieve(as, refusals), NEW l \in {1, 2},
         NEW a, NEW others, Believes(a, others, l), refusals \ {l} \subseteq others
  PROVE  BothBelieve([as EXCEPT ![l] = a], others)
<1> DEFINE bs == [as EXCEPT ![l] = a]
<1>1. bs = [k \in {1, 2} |-> bs[k]] /\ bs[l] = a /\ \A k \in {1, 2} : k # l => bs[k] = as[k]
  BY DEF BothBelieve
<1>2. ASSUME NEW k \in {1, 2}, k # l PROVE Believes(bs[k], others, k)
  <2>1. bs[k] = as[k] /\ Believes(as[k], refusals, k)
    BY <1>1, <1>2 DEF BothBelieve
  <2>2. k \in refusals => k \in others
    BY <1>2
  <2> QED
    BY <2>1, <2>2 DEF Believes
<1> HIDE DEF bs
<1>3. BothBelieve(bs, others)
  BY <1>1, <1>2 DEF BothBelieve
<1> QED
  BY <1>3 DEF bs

-----------------------------------------------------------------------------
\* Worlds: both arrays, what was refused, where the call strayed, and the status.

Told(as, refusals, stray, st) ==
  [ars |-> as, refused |-> refusals, fault |-> stray, stat |-> st]

Spare(a) == a.size < a.capacity

\* There is a place for one more in array l, or the call was refused.
HasPlace(w, l) ==
  \E as, refusals, st :
    /\ st # CC_OK \/ Spare(as[l])
    /\ w = Told(as, refusals, <<>>, st) /\ BothBelieve(as, refusals)

LEMMA Denied ==
  ASSUME NEW as, NEW refusals, NEW st, NEW l, BothBelieve(as, refusals), st # CC_OK
  PROVE  HasPlace(Told(as, refusals, <<>>, st), l)
BY DEF HasPlace

\* Growth: what is granted is more than what there was.
LEMMA BlocksExpanded ==
  ASSUME NEW as, NEW refusals, NEW st, BothBelieve(as, refusals), NEW l \in {1, 2},
         NEW x \in Sized!Expanded(Told(as, refusals, <<>>, st), l)
  PROVE  HasPlace(x, l)
<1> DEFINE w == Told(as, refusals, <<>>, st)
           a == w.ars[l]
           n == (a.capacity * a.exp) \div ExpDen
           c == IF n <= a.capacity THEN MaxElements ELSE n
           larger == [a EXCEPT !.capacity = c]
           granted == [a EXCEPT !.capacity = c, !.buffer = Sized!Buffer(c, @, 0, a.size)]
<1>1. PICK m \in Nat :
        /\ a = [size |-> a.size, capacity |-> a.capacity, exp |-> a.exp, buffer |-> a.buffer]
        /\ a.size \in Nat /\ a.capacity \in Nat /\ a.exp \in Nat
        /\ IsBuffer(a.buffer, m) /\ DOMAIN a.buffer = Sized!Slots(m) /\ m <= MemLimit
        /\ a.size <= m /\ a.size <= a.capacity
  <2>1. Believes(a, refusals, l)
    BY DEF BothBelieve, Told
  <2> HIDE DEF a
  <2> QED
    BY <2>1, WhatItHas
<1>5. \/ x = Sized!Failed(w, Sized!CC_ERR_MAX_CAPACITY)
      \/ x = [Sized!Failed(w, Sized!CC_ERR_ALLOC) EXCEPT !.ars[l].capacity = c,
                                                        !.refused = @ \cup {l}]
      \/ /\ ~(c + Sized!Room(w.ars[3 - l]) > MemLimit)
         /\ x = [Sized!With(w, l, granted) EXCEPT !.refused = @ \ {l}]
  <2> HIDE DEF w
  <2>1. x \in Sized!Expanded(w, l)
    BY DEF w
  <2> QED
    BY <2>1, Zenon DEF Sized!Expanded, Sized!Other, a, n, c, granted
<1>4. w.ars = as /\ a = as[l]
  BY DEF Told
<1> HIDE DEF a
<1>2. n \in Nat
  <2> DEFINE p == a.capacity * a.exp
  <2>1. p \in Nat
    BY <1>1
  <2> HIDE DEF p
  <2>2. p \div ExpDen \in Nat
    BY <2>1, ArrayConstants
  <2> QED
    BY <2>2 DEF p
<1> HIDE DEF n
<1>3. c \in Nat /\ a.size <= c
  BY <1>1, <1>2, ArrayConstants
<1>30. c = MaxElements \/ c > a.capacity
  BY <1>1, <1>2
<1> HIDE DEF c
<1>6. CASE x = Sized!Failed(w, Sized!CC_ERR_MAX_CAPACITY)
  <2>1. x = Told(as, refusals, <<>>, Sized!CC_ERR_MAX_CAPACITY)
    BY <1>6 DEF Sized!Failed, Told
  <2>2. Sized!CC_ERR_MAX_CAPACITY # CC_OK
    BY DEF Sized!CC_ERR_MAX_CAPACITY, CC_OK
  <2> HIDE DEF w, larger, granted
  <2> QED
    BY <2>1, <2>2, Denied
<1>7. CASE x = [Sized!Failed(w, Sized!CC_ERR_ALLOC) EXCEPT !.ars[l].capacity = c,
                                                        !.refused = @ \cup {l}]
  <2>1. x = Told([as EXCEPT ![l].capacity = c], refusals \cup {l}, <<>>, Sized!CC_ERR_ALLOC)
    BY <1>7 DEF Sized!Failed, Told
  <2>2. [as EXCEPT ![l].capacity = c] = [as EXCEPT ![l] = larger]
    BY <1>4
  <2>3. larger = [size |-> a.size, capacity |-> c, exp |-> a.exp, buffer |-> a.buffer]
    BY <1>1
  <2> HIDE DEF larger
  <2>4. Believes(larger, refusals \cup {l}, l)
    BY <1>1, <1>3, <2>3, RoomAfter
  <2>5. BothBelieve([as EXCEPT ![l] = larger], refusals \cup {l})
    <3> DEFINE others == refusals \cup {l}
    <3>1. Believes(larger, others, l) /\ refusals \ {l} \subseteq others
      BY <2>4
    <3> HIDE DEF others, w
    <3>2. BothBelieve([as EXCEPT ![l] = larger], others)
      BY <3>1, OneExchanged
    <3> QED
      BY <3>2 DEF others
  <2>6. Sized!CC_ERR_ALLOC # CC_OK
    BY DEF Sized!CC_ERR_ALLOC, CC_OK
  <2> QED
    BY <2>1, <2>2, <2>5, <2>6 DEF HasPlace
<1>8. CASE /\ ~(c + Sized!Room(w.ars[3 - l]) > MemLimit)
           /\ x = [Sized!With(w, l, granted) EXCEPT !.refused = @ \ {l}]
  <2>1. c <= MemLimit /\ c > a.capacity
    <3>1. 3 - l \in {1, 2}
      OBVIOUS
    <3>2. Believes(as[3 - l], refusals, 3 - l)
      BY <3>1 DEF BothBelieve
    <3> DEFINE r == Sized!Room(w.ars[3 - l])
    <3>3. r \in Nat
      BY <1>4, <3>2, WhatItHas
    <3>4. ~(c + r > MemLimit)
      BY <1>8
    <3> HIDE DEF r
    <3>5. c <= MemLimit
      BY <1>3, <3>3, <3>4, ArrayConstants
    <3> QED
      BY <1>3, <1>30, <3>5, ArrayConstants
  <2>2. x = Told([as EXCEPT ![l] = granted], refusals \ {l}, <<>>, st)
    <3> HIDE DEF granted
    <3> QED
      BY <1>8 DEF Sized!With, Told
  <2> DEFINE b == Sized!Buffer(c, a.buffer, 0, a.size)
  <2>4. IsBuffer(b, c)
    BY DEF Sized!Buffer, IsBuffer
  <2>30. granted = [a EXCEPT !.capacity = c, !.buffer = b]
    OBVIOUS
  <2> HIDE DEF b, granted
  <2>3. granted = [size |-> a.size, capacity |-> c, exp |-> a.exp, buffer |-> b]
    BY <1>1, <2>30
  <2>5. Believes(granted, refusals \ {l}, l)
    BY <1>1, <1>3, <2>1, <2>3, <2>4, RoomAfter
  <2>6. granted.size = a.size /\ granted.capacity = c
    BY <2>3
  <2>7. BothBelieve([as EXCEPT ![l] = granted], refusals \ {l})
    BY <2>5, OneExchanged
  <2>8. [as EXCEPT ![l] = granted][l] = granted
    BY DEF BothBelieve
  <2>9. granted.size < granted.capacity
    BY <1>1, <1>3, <2>1, <2>6
  <2> QED
    BY <2>2, <2>7, <2>8, <2>9 DEF HasPlace, Spare
<1> QED
  BY <1>5, <1>6, <1>7, <1>8

LEMMA RoomMadeFor ==
  ASSUME NEW as, NEW refusals, NEW st, BothBelieve(as, refusals), NEW l \in {1, 2},
         NEW x \in Sized!MakeRoom(Told(as, refusals, <<>>, st), l)
  PROVE  HasPlace(x, l)
<1> DEFINE w == Told(as, refusals, <<>>, st)
<1>1. w.ars = as
  BY DEF Told
<1>2. x \in (IF as[l].size >= as[l].capacity THEN Sized!Expanded(w, l) ELSE {w})
  BY <1>1 DEF Sized!MakeRoom
<1>3. as[l].size \in Nat /\ as[l].capacity \in Nat
  <2>1. Believes(as[l], refusals, l)
    BY DEF BothBelieve
  <2> QED
    BY <2>1, WhatItHas
<1>4. CASE as[l].size >= as[l].capacity
  <2>1. x \in Sized!Expanded(Told(as, refusals, <<>>, st), l)
    BY <1>2, <1>4
  <2> HIDE DEF w
  <2> QED
    BY <2>1, BlocksExpanded
<1>5. CASE ~(as[l].size >= as[l].capacity)
  <2>1. x = w
    BY <1>2, <1>5
  <2> DEFINE n == as[l].size
             c == as[l].capacity
  <2>2. n < c
    <3> ~(n >= c) /\ n \in Nat /\ c \in Nat
      BY <1>3, <1>5
    <3> HIDE DEF n, c
    <3> QED
      OBVIOUS
  <2> QED
    BY <2>1, <2>2, Zenon DEF HasPlace, Spare
<1> QED
  BY <1>4, <1>5

\* A call that strayed was refused.
StraysWhereRefused(w) ==
  \E as, refusals, stray, st :
    /\ w = Told(as, refusals, stray, st) /\ BothBelieve(as, refusals)
    /\ stray = <<>> \/ stray[1] = "trim" \/ stray[2] \in refusals

LEMMA Unstrayed ==
  ASSUME NEW as, NEW refusals, NEW st, BothBelieve(as, refusals)
  PROVE  StraysWhereRefused(Told(as, refusals, <<>>, st))
BY Zenon DEF StraysWhereRefused

\* A buffer with room keeps its length, whatever is moved and written.
LEMMA SameLength ==
  ASSUME NEW m \in Nat, NEW b, IsBuffer(b, m)
  PROVE  /\ \A i, j, n : IsBuffer(Sized!Move(b, i, j, n), m)
         /\ \A i, e : IsBuffer(Sized!Write(b, i, e), m)
<1>1. DOMAIN b = Sized!Slots(m)
  BY DEF IsBuffer
<1> QED
  BY <1>1 DEF Sized!Move, Sized!Write, IsBuffer

LEMMA OneMoreBlock ==
  ASSUME NEW a, NEW refusals, NEW l, Believes(a, refusals, l), NEW e, NEW i,
         a.size < a.capacity, ~(a.size >= Sized!Room(a))
  PROVE  Believes(Sized!InsertAt(a, e, i), refusals, l)
<1>1. PICK m \in Nat :
        /\ a = [size |-> a.size, capacity |-> a.capacity, exp |-> a.exp, buffer |-> a.buffer]
        /\ a.size \in Nat /\ a.capacity \in Nat /\ a.exp \in Nat
        /\ IsBuffer(a.buffer, m) /\ DOMAIN a.buffer = Sized!Slots(m) /\ m <= MemLimit
        /\ a.size <= m /\ a.size <= a.capacity /\ Sized!Room(a) = m
        /\ l \in refusals \/ a.capacity <= m
  BY WhatItHas
<1> DEFINE b == Sized!Write(Sized!Move(a.buffer, i + 1, i, a.size - i), i, e)
           n == a.size + 1
<1>2. IsBuffer(b, m)
  <2>1. IsBuffer(Sized!Move(a.buffer, i + 1, i, a.size - i), m)
    BY <1>1, SameLength
  <2> QED
    BY <2>1, SameLength
<1>3. n \in Nat /\ n <= m /\ n <= a.capacity
  BY <1>1
<1>4. Sized!InsertAt(a, e, i) = [a EXCEPT !.buffer = b, !.size = n]
  BY DEF Sized!InsertAt
<1> HIDE DEF b, n
<1>5. Sized!InsertAt(a, e, i) = [size |-> n, capacity |-> a.capacity, exp |-> a.exp, buffer |-> b]
  BY <1>1, <1>4
<1> QED
  BY <1>1, <1>2, <1>3, <1>5, RoomAfter

\* An array that grows by one: where there is room, it stays in its buffer; where
\* there is none, it was refused.
LEMMA BlocksAdded ==
  ASSUME NEW as, NEW refusals, NEW st, BothBelieve(as, refusals), NEW l \in {1, 2},
         NEW e, NEW i, NEW x \in Sized!Added(Told(as, refusals, <<>>, st), l, e, i)
  PROVE  StraysWhereRefused(x)
<1> DEFINE w == Told(as, refusals, <<>>, st)
           put(y) == IF y.stat # Sized!CC_OK THEN y
                     ELSE IF y.ars[l].size >= Sized!Room(y.ars[l]) THEN Sized!Strayed(y, l)
                     ELSE Sized!With(y, l, Sized!InsertAt(y.ars[l], e, i))
<1>1. \/ x = Sized!Failed(w, Sized!CC_ERR_OUT_OF_RANGE)
      \/ \E y \in Sized!MakeRoom(w, l) : x = put(y)
  <2>1. x \in Sized!Added(w, l, e, i)
    OBVIOUS
  <2> HIDE DEF w
  <2> QED
    BY <2>1, Zenon DEF Sized!Added, put
<1>2. CASE x = Sized!Failed(w, Sized!CC_ERR_OUT_OF_RANGE)
  <2>1. x = Told(as, refusals, <<>>, Sized!CC_ERR_OUT_OF_RANGE)
    BY <1>2 DEF Sized!Failed, Told
  <2> HIDE DEF w
  <2> QED
    BY <2>1, Unstrayed
<1>3. ASSUME NEW y \in Sized!MakeRoom(w, l), x = put(y) PROVE StraysWhereRefused(x)
  <2>1. HasPlace(y, l)
    <3>1. y \in Sized!MakeRoom(Told(as, refusals, <<>>, st), l)
      OBVIOUS
    <3> HIDE DEF w, put
    <3> QED
      BY <3>1, RoomMadeFor
  <2>2. PICK bs, others, u :
          /\ y = Told(bs, others, <<>>, u) /\ BothBelieve(bs, others)
          /\ u # CC_OK \/ Spare(bs[l])
    <3> HIDE DEF w, put
    <3> QED
      BY <2>1, Zenon DEF HasPlace
  <2>3. y.ars = bs /\ y.refused = others /\ y.fault = <<>> /\ y.stat = u
    BY <2>2 DEF Told
  <2> HIDE DEF w
  <2> DEFINE a == bs[l]
  <2>4. Believes(a, others, l)
    BY <2>2 DEF BothBelieve
  <2>5. CASE y.stat # Sized!CC_OK
    BY <1>3, <2>2, <2>5, Unstrayed
  <2>6. CASE y.stat = Sized!CC_OK /\ a.size >= Sized!Room(a)
    <3>1. u = CC_OK
      BY <2>3, <2>6 DEF Sized!CC_OK, CC_OK
    <3>2. a.size < a.capacity
      BY <2>2, <3>1 DEF Spare
    <3>3. x = Told(bs, others, <<"add", l>>, u)
      BY <1>3, <2>2, <2>3, <2>6 DEF Sized!Strayed, Told
    <3> HIDE DEF a
    <3>4. l \in others
      BY <2>4, <2>6, <3>2, WhatItHas
    <3>5. <<"add", l>>[2] = l
      OBVIOUS
    <3> QED
      BY <2>2, <3>3, <3>4, <3>5 DEF StraysWhereRefused
  <2>7. CASE y.stat = Sized!CC_OK /\ ~(a.size >= Sized!Room(a))
    <3>1. u = CC_OK
      BY <2>3, <2>7 DEF Sized!CC_OK, CC_OK
    <3>2. a.size < a.capacity
      BY <2>2, <3>1 DEF Spare
    <3> DEFINE z == Sized!InsertAt(a, e, i)
    <3>3. x = Sized!With(y, l, z)
      BY <1>3, <2>3, <2>7
    <3>4. Believes(z, others, l)
      <4> HIDE DEF a
      <4> QED
        BY <2>4, <2>7, <3>2, OneMoreBlock
    <3> HIDE DEF z
    <3>5. x = Told([bs EXCEPT ![l] = z], others, <<>>, u)
      BY <2>2, <3>3 DEF Sized!With, Told
    <3>6. BothBelieve([bs EXCEPT ![l] = z], others)
      <4> HIDE DEF put, a
      <4> QED
        BY <2>2, <3>4, OneExchanged
    <3> QED
      BY <3>5, <3>6, Unstrayed
  <2> QED
    BY <2>3, <2>5, <2>6, <2>7
<1> HIDE DEF w, put
<1> QED
  BY <1>1, <1>2, <1>3

-----------------------------------------------------------------------------
\* Filtering blocks in place: the loop stays in the buffer.

LEMMA BlocksAhead ==
  ASSUME NEW m \in Nat, NEW i \in Nat, NEW r \in Nat, NEW n \in Nat, i + r + n <= m,
         NEW j \in Sized!Slots(m), Sized!Within(j, i, n)
  PROVE  j + ((i + r) - i) * DataLength \in Sized!Slots(m)
<1> DEFINE D == DataLength
<1>1. D \in Nat
  BY ValuesConstants
<1>2. (i + r) - i = r
  OBVIOUS
<1>3. j \in Int /\ 0 <= j /\ j < (i + n) * D
  <2>1. j \in 0..(m * D - 1) /\ j < (i + n) * D
    BY DEF Sized!Slots, Sized!Within
  <2>2. m * D \in Int
    BY <1>1
  <2> DEFINE p == m * D
  <2> HIDE DEF p
  <2>3. j \in 0..(p - 1) /\ p \in Int
    BY <2>1, <2>2 DEF p
  <2> QED
    BY <2>1, <2>3
<1> DEFINE p == (i + n) * D
           q == r * D
           t == (i + r + n) * D
           u == m * D
<1>4. p \in Nat /\ q \in Nat /\ t \in Nat /\ u \in Nat
  BY <1>1
<1>5. t = p + q
  BY <1>1
<1>6. t <= u
  <2> HIDE DEF D
  <2>1. \A x, y \in Nat : x <= y => x * D <= y * D
    BY <1>1
  <2> QED
    BY <2>1
<1>7. 0 <= j + q /\ j + q < u
  <2> j < p
    BY <1>3
  <2> HIDE DEF p, q, t, u
  <2> QED
    BY <1>3, <1>4, <1>5, <1>6
<1>8. j + q \in 0..(u - 1)
  <2> HIDE DEF q, u
  <2> QED
    BY <1>3, <1>4, <1>7
<1> QED
  BY <1>2, <1>8 DEF Sized!Slots

\* A scan that has looked at k of the N blocks.
Reading(m, V, N, k) ==
  {s \in [buffer : [Sized!Slots(m) -> V], size : Nat, rm : Nat, keep : Nat] :
     s.size = (N - k) + s.rm + s.keep /\ s.size <= N}

BlocksClosed(s, i) ==
  [s EXCEPT !.buffer = Sized!Move(@, i, i + s.rm, s.keep), !.size = @ - s.rm, !.rm = 0]
BlocksTidy(s, i) == IF s.rm > 0 THEN BlocksClosed(s, i) ELSE s
FirstRead(a) == [buffer |-> a.buffer, size |-> a.size, rm |-> 0, keep |-> 0]
NextRead(a, pred, n, s) ==
  IF Sized!Block(s.buffer, a.size - n) \notin pred THEN [s EXCEPT !.rm = @ + 1]
  ELSE [BlocksTidy(s, a.size - n + 1) EXCEPT !.keep = @ + 1]

IsClosed(s, m, V, i, k) ==
  \E b \in [Sized!Slots(m) -> V] : s = [buffer |-> b, size |-> i + k, rm |-> 0, keep |-> k]

LEMMA ClosedBlocks ==
  ASSUME NEW m \in Nat, NEW V, NEW N \in 0..m, NEW k \in 0..N, NEW s \in Reading(m, V, N, k)
  PROVE  IsClosed(BlocksClosed(s, N - k), m, V, N - k, s.keep)
<1> DEFINE i == N - k
           b == Sized!Move(s.buffer, i, i + s.rm, s.keep)
<1>1. /\ s.rm \in Nat /\ s.keep \in Nat /\ s.size \in Nat /\ i \in Nat
      /\ s.buffer \in [Sized!Slots(m) -> V]
      /\ s = [buffer |-> s.buffer, size |-> s.size, rm |-> s.rm, keep |-> s.keep]
      /\ s.size = i + s.rm + s.keep /\ s.size <= N
  BY DEF Reading
<1> HIDE DEF i
<1>2. i + s.rm + s.keep <= m
  BY <1>1
<1>3. ASSUME NEW j \in Sized!Slots(m) PROVE b[j] \in V
  <2>1. b[j] = IF Sized!Within(j, i, s.keep) THEN s.buffer[j + ((i + s.rm) - i) * DataLength]
               ELSE s.buffer[j]
    BY <1>1 DEF Sized!Move
  <2>2. Sized!Within(j, i, s.keep) => j + ((i + s.rm) - i) * DataLength \in Sized!Slots(m)
    BY <1>1, <1>2, BlocksAhead
  <2> QED
    BY <1>1, <2>1, <2>2
<1>4. b = [j \in Sized!Slots(m) |-> b[j]]
  BY <1>1 DEF Sized!Move
<1>5. BlocksClosed(s, i) = [s EXCEPT !.buffer = b, !.size = s.size - s.rm, !.rm = 0]
  BY DEF BlocksClosed
<1> HIDE DEF b
<1>6. b \in [Sized!Slots(m) -> V]
  BY <1>3, <1>4
<1>7. s.size - s.rm = i + s.keep
  BY <1>1
<1>8. BlocksClosed(s, i) = [buffer |-> b, size |-> i + s.keep, rm |-> 0, keep |-> s.keep]
  BY <1>1, <1>5, <1>7
<1> QED
  BY <1>6, <1>8 DEF i, IsClosed

LEMMA ReadingGoesOn ==
  ASSUME NEW m \in Nat, NEW V, NEW a, a.size \in 0..m, NEW pred, NEW n \in 1..a.size,
         NEW s \in Reading(m, V, a.size, n - 1)
  PROVE  NextRead(a, pred, n, s) \in Reading(m, V, a.size, n)
<1> DEFINE N == a.size
           z == NextRead(a, pred, n, s)
           p == N - (n - 1)
<1>0. N \in Nat /\ n - 1 \in 0..N /\ p \in Nat /\ N - n + 1 = p /\ N - n = p - 1 /\ N \in 0..m
  OBVIOUS
<1>1. /\ s.rm \in Nat /\ s.keep \in Nat /\ s.size \in Nat
      /\ s.buffer \in [Sized!Slots(m) -> V]
      /\ s = [buffer |-> s.buffer, size |-> s.size, rm |-> s.rm, keep |-> s.keep]
      /\ s.size = p + s.rm + s.keep /\ s.size <= N
  BY DEF Reading
<1>2. CASE z = [s EXCEPT !.rm = @ + 1]
  <2> DEFINE r == s.rm + 1
  <2>1. z = [s EXCEPT !.rm = r]
    BY <1>2
  <2>3. r \in Nat /\ s.size = (N - n) + r + s.keep
    BY <1>0, <1>1
  <2> HIDE DEF r, z, N
  <2>2. z = [buffer |-> s.buffer, size |-> s.size, rm |-> r, keep |-> s.keep]
    BY <1>1, <2>1
  <2>4. z \in Reading(m, V, N, n)
    BY <1>1, <2>2, <2>3 DEF Reading
  <2> QED
    BY <2>4 DEF N, z
<1>3. CASE z = [BlocksTidy(s, N - n + 1) EXCEPT !.keep = @ + 1]
  <2> DEFINE y == BlocksTidy(s, p)
             k == s.keep + 1
             t == p + s.keep
  <2>1. PICK b \in [Sized!Slots(m) -> V] :
          BlocksClosed(s, p) = [buffer |-> b, size |-> t, rm |-> 0, keep |-> s.keep]
    <3> DEFINE o == n - 1
    <3>1. s \in Reading(m, V, N, o) /\ N \in 0..m /\ o \in 0..N /\ p = N - o
      BY <1>0
    <3> HIDE DEF N, o, p
    <3>2. IsClosed(BlocksClosed(s, N - o), m, V, N - o, s.keep)
      BY <3>1, ClosedBlocks
    <3> QED
      BY <3>1, <3>2 DEF IsClosed
  <2>2. \E c \in [Sized!Slots(m) -> V] :
          y = [buffer |-> c, size |-> t, rm |-> 0, keep |-> s.keep]
    <3>1. CASE s.rm > 0
      BY <2>1, <3>1 DEF BlocksTidy
    <3>2. CASE ~(s.rm > 0)
      <4>1. s.rm = 0 /\ s.size = t
        BY <1>0, <1>1, <3>2
      <4>2. y = s
        BY <3>2 DEF BlocksTidy
      <4> QED
        BY <1>1, <4>1, <4>2
    <3> QED
      BY <3>1, <3>2
  <2>3. z = [y EXCEPT !.keep = y.keep + 1]
    BY <1>0, <1>3
  <2>4. k \in Nat /\ t \in Nat /\ t = (N - n) + 0 + k /\ t <= N
    <3>1. N - n = p - 1 /\ N \in Nat /\ p \in Nat /\ s.size = p + s.rm + s.keep /\ s.size <= N
      BY <1>0, <1>1
    <3> DEFINE d == N - n
    <3>2. d = p - 1
      BY <3>1
    <3> HIDE DEF N, p, d
    <3>3. s.keep + 1 \in Nat /\ p + s.keep \in Nat /\ p + s.keep = d + 0 + (s.keep + 1)
          /\ p + s.keep <= N
      BY <1>1, <3>1, <3>2
    <3> QED
      BY <3>3 DEF d
  <2>5. PICK c \in [Sized!Slots(m) -> V] :
          y = [buffer |-> c, size |-> t, rm |-> 0, keep |-> s.keep]
    BY <2>2
  <2>6. y.keep = s.keep
    BY <2>5
  <2>7. z = [y EXCEPT !.keep = k]
    BY <2>3, <2>6
  <2> HIDE DEF y, z, k, t, N
  <2>8. z = [buffer |-> c, size |-> t, rm |-> 0, keep |-> k]
    BY <2>5, <2>7
  <2>9. z \in Reading(m, V, N, n)
    BY <2>4, <2>8 DEF Reading
  <2> QED
    BY <2>9 DEF N, z
<1> QED
  BY <1>2, <1>3 DEF NextRead

LeftOver(a, s) == [a EXCEPT !.buffer = s.buffer, !.size = s.size]

LEMMA ReadToTheFront ==
  ASSUME NEW m \in Nat, NEW V, NEW a, a.size \in 0..m, a.buffer \in [Sized!Slots(m) -> V],
         NEW pred
  PROVE  \E s \in Reading(m, V, a.size, a.size) :
           Sized!FilteredInPlace(a, pred) = LeftOver(a, BlocksClosed(s, 0))
<1> DEFINE N == a.size
           L(f) ==
             [n \in 0..N |->
                IF n = 0
                THEN [buffer |-> a.buffer, size |-> a.size, rm |-> 0, keep |-> 0]
                ELSE IF Sized!Block(f[n - 1].buffer, a.size - n) \notin pred
                     THEN [f[n - 1] EXCEPT !.rm = @ + 1]
                     ELSE [(IF f[n - 1].rm > 0
                            THEN [f[n - 1] EXCEPT
                                    !.buffer = Sized!Move(@, a.size - n + 1,
                                                          a.size - n + 1 + f[n - 1].rm,
                                                          f[n - 1].keep),
                                    !.size = @ - f[n - 1].rm, !.rm = 0]
                            ELSE f[n - 1]) EXCEPT !.keep = @ + 1]]
           scan == CHOOSE f : f = L(f)
           S == [buffer : [Sized!Slots(m) -> V], size : Nat, rm : Nat, keep : Nat]
           h == [p \in (1..N) \X S |-> NextRead(a, pred, p[1], p[2])]
           G == [n \in 0..N |-> Reading(m, V, N, n)]
<1>1. Sized!FilteredInPlace(a, pred) = LeftOver(a, BlocksClosed(scan[a.size], 0))
  BY DEF Sized!FilteredInPlace, BlocksClosed, LeftOver
<1>2. N \in Nat /\ N \in 0..m
  OBVIOUS
<1>3. \A f : L(f) = [n \in 0..N |-> IF n = 0 THEN FirstRead(a)
                                    ELSE NextRead(a, pred, n, f[n - 1])]
  BY DEF FirstRead, NextRead, BlocksTidy, BlocksClosed
<1>4. ASSUME NEW n \in 1..N, NEW s \in S
      PROVE  h[<<n, s>>] = NextRead(a, pred, n, s)
  OBVIOUS
<1>5. \A n \in 0..N : G[n] = Reading(m, V, N, n)
  OBVIOUS
<1>6. ASSUME NEW n \in 1..N, NEW s \in Reading(m, V, N, n - 1)
      PROVE  s \in S /\ NextRead(a, pred, n, s) \in Reading(m, V, N, n)
  <2>1. s \in S
    BY DEF Reading
  <2>2. NextRead(a, pred, n, s) \in Reading(m, V, N, n)
    BY ReadingGoesOn
  <2> QED
    BY <2>1, <2>2
<1>16. FirstRead(a) \in Reading(m, V, N, 0)
  BY <1>2 DEF FirstRead, Reading
<1> HIDE DEF L, h, G, N
<1>7. Leads(h, N, G)
  <2> SUFFICES ASSUME NEW n \in 1..N, NEW y \in G[n - 1] PROVE h[<<n, y>>] \in G[n]
    BY DEF Leads
  <2>1. n \in 0..N /\ n - 1 \in 0..N
    BY <1>2
  <2>2. y \in Reading(m, V, N, n - 1)
    BY <1>5, <2>1
  <2>3. y \in S /\ NextRead(a, pred, n, y) \in Reading(m, V, N, n)
    BY <1>6, <2>2
  <2> QED
    BY <1>4, <1>5, <2>1, <2>3
<1>8. 0 \in 0..N /\ N \in 0..N /\ FirstRead(a) \in G[0]
  <2>1. 0 \in 0..N /\ N \in 0..N
    BY <1>2
  <2> QED
    BY <1>5, <1>16, <2>1
<1>9. PICK f : Iterates(f, N, G, FirstRead(a), h)
  BY <1>2, <1>7, <1>8, Recursion
<1>10. f = L(f)
  <2>1. ASSUME NEW n \in 1..N PROVE f[n] = NextRead(a, pred, n, f[n - 1])
    <3>1. n - 1 \in 0..N
      BY <1>2
    <3>2. f[n] = h[<<n, f[n - 1]>>] /\ f[n - 1] \in G[n - 1]
      BY <1>9, <3>1 DEF Iterates
    <3>3. f[n - 1] \in S
      BY <1>5, <1>6, <3>1, <3>2
    <3> QED
      BY <1>4, <3>2, <3>3
  <2>2. \A n \in 0..N : f[n] = IF n = 0 THEN FirstRead(a)
                               ELSE NextRead(a, pred, n, f[n - 1])
    <3>1. f[0] = FirstRead(a)
      BY <1>9 DEF Iterates
    <3>2. \A n \in 0..N : n # 0 => n \in 1..N
      BY <1>2
    <3> QED
      BY <2>1, <3>1, <3>2
  <2>3. f = [n \in 0..N |-> f[n]]
    BY <1>9 DEF Iterates
  <2> QED
    BY <1>3, <2>2, <2>3
<1>11. scan = L(scan)
  BY <1>10
<1> HIDE DEF scan
<1>12. scan = [n \in 0..N |-> IF n = 0 THEN FirstRead(a)
                              ELSE NextRead(a, pred, n, scan[n - 1])]
  BY <1>3, <1>11
<1>13. scan[0] = FirstRead(a) /\ \A n \in 1..N : scan[n] = NextRead(a, pred, n, scan[n - 1])
  BY <1>2, <1>12
<1> DEFINE A == {n \in 0..N : scan[n] \in Reading(m, V, N, n)}
<1>14. 0 \in A
  BY <1>8, <1>13, <1>16
<1>15. ASSUME NEW n \in 1..N, n - 1 \in A PROVE n \in A
  <2>1. n \in 0..N /\ scan[n - 1] \in Reading(m, V, N, n - 1)
    BY <1>2, <1>15
  <2>2. scan[n] \in Reading(m, V, N, n)
    BY <1>6, <1>13, <2>1
  <2> QED
    BY <2>1, <2>2
<1> HIDE DEF A
<1>17. 0..N \subseteq A
  BY <1>2, <1>14, <1>15, Induction
<1>18. scan[a.size] \in Reading(m, V, a.size, a.size)
  BY <1>8, <1>17 DEF A, N
<1> QED
  BY <1>1, <1>18

-----------------------------------------------------------------------------
\* What calls make of one array.

\* A buffer of the same length, and no more elements than before.
AsLong(b, c) == \A m \in Nat : IsBuffer(c, m) => IsBuffer(b, m)

LEMMA BlocksChanged ==
  ASSUME NEW a, NEW refusals, NEW l, Believes(a, refusals, l), NEW n \in Nat, n <= a.size,
         NEW b, AsLong(b, a.buffer)
  PROVE  Believes([a EXCEPT !.buffer = b, !.size = n], refusals, l)
<1>1. PICK m \in Nat :
        /\ a = [size |-> a.size, capacity |-> a.capacity, exp |-> a.exp, buffer |-> a.buffer]
        /\ a.size \in Nat /\ a.capacity \in Nat /\ a.exp \in Nat
        /\ IsBuffer(a.buffer, m) /\ m <= MemLimit
        /\ a.size <= m /\ a.size <= a.capacity
        /\ l \in refusals \/ a.capacity <= m
  BY WhatItHas
<1>2. [a EXCEPT !.buffer = b, !.size = n]
        = [size |-> n, capacity |-> a.capacity, exp |-> a.exp, buffer |-> b]
  <2> DEFINE y == [a EXCEPT !.buffer = b]
  <2>1. y = [size |-> a.size, capacity |-> a.capacity, exp |-> a.exp, buffer |-> b]
    BY <1>1
  <2>2. [a EXCEPT !.buffer = b, !.size = n] = [y EXCEPT !.size = n]
    OBVIOUS
  <2> HIDE DEF y
  <2>3. [y EXCEPT !.size = n]
          = [size |-> n, capacity |-> a.capacity, exp |-> a.exp, buffer |-> b]
    BY <2>1
  <2> QED
    BY <2>2, <2>3
<1>3. n <= m /\ n <= a.capacity /\ IsBuffer(b, m)
  BY <1>1 DEF AsLong
<1> QED
  BY <1>1, <1>2, <1>3, RoomAfter

\* Fields that are written to with what they hold.
LEMMA BlocksRewritten ==
  ASSUME NEW a, NEW refusals, NEW l, Believes(a, refusals, l)
  PROVE  /\ a.size \in Nat
         /\ \A b : [a EXCEPT !.buffer = b] = [a EXCEPT !.buffer = b, !.size = a.size]
         /\ \A n : [a EXCEPT !.size = n] = [a EXCEPT !.buffer = a.buffer, !.size = n]
<1>1. /\ a = [size |-> a.size, capacity |-> a.capacity, exp |-> a.exp, buffer |-> a.buffer]
      /\ a.size \in Nat
  BY WhatItHas
<1> QED
  BY <1>1

LEMMA BlocksFiltered ==
  ASSUME NEW a, NEW refusals, NEW l, Believes(a, refusals, l), NEW pred
  PROVE  Believes(Sized!FilteredInPlace(a, pred), refusals, l)
<1>1. PICK m \in Nat :
        /\ a.size \in Nat /\ IsBuffer(a.buffer, m) /\ DOMAIN a.buffer = Sized!Slots(m)
        /\ a.size <= m
  BY WhatItHas
<1> DEFINE V == {a.buffer[j] : j \in Sized!Slots(m)}
           N == a.size
<1>2. a.buffer \in [Sized!Slots(m) -> V]
  BY <1>1 DEF IsBuffer
<1>3. N \in 0..m /\ N \in 0..N /\ N - N = 0
  BY <1>1
<1> HIDE DEF V
<1>4. PICK s \in Reading(m, V, a.size, a.size) :
        Sized!FilteredInPlace(a, pred) = LeftOver(a, BlocksClosed(s, 0))
  BY <1>2, <1>3, ReadToTheFront
<1> DEFINE z == BlocksClosed(s, 0)
<1>5. IsClosed(z, m, V, 0, s.keep)
  <2>1. s \in Reading(m, V, N, N)
    OBVIOUS
  <2> HIDE DEF N
  <2>2. IsClosed(BlocksClosed(s, N - N), m, V, N - N, s.keep)
    BY <1>3, <2>1, ClosedBlocks
  <2> QED
    BY <1>3, <2>2
<1> HIDE DEF z
<1>6. PICK b \in [Sized!Slots(m) -> V] : z = [buffer |-> b, size |-> 0 + s.keep, rm |-> 0, keep |-> s.keep]
  BY <1>5 DEF IsClosed
<1>7. z.buffer = b /\ z.size = 0 + s.keep
  BY <1>6
<1>8. s.keep \in Nat /\ 0 + s.keep <= a.size /\ 0 + s.keep \in Nat
  <2>1. s.keep \in Nat /\ s.rm \in Nat /\ s.size = (N - N) + s.rm + s.keep /\ s.size <= N
    BY DEF Reading
  <2> QED
    BY <1>3, <2>1
<1>9. AsLong(b, a.buffer)
  <2> SUFFICES ASSUME NEW k \in Nat, IsBuffer(a.buffer, k) PROVE IsBuffer(b, k)
    BY DEF AsLong
  <2>1. DOMAIN a.buffer = Sized!Slots(k)
    BY DEF IsBuffer
  <2>2. b \in [Sized!Slots(k) -> V]
    BY <1>1, <2>1
  <2> QED
    BY <2>2 DEF IsBuffer
<1> DEFINE n == 0 + s.keep
<1>10. Sized!FilteredInPlace(a, pred) = [a EXCEPT !.buffer = b, !.size = n]
  BY <1>4, <1>7 DEF z, LeftOver
<1>11. n \in Nat /\ n <= a.size
  BY <1>8
<1> HIDE DEF n, N
<1>12. Believes([a EXCEPT !.buffer = b, !.size = n], refusals, l)
  BY <1>9, <1>11, BlocksChanged
<1> QED
  BY <1>10, <1>12

-----------------------------------------------------------------------------
\* Calls

Sane == BothBelieve(ars, denied) /\ StraysOnlyWhenRefused

\* Where a call begins.
Ready == BothBelieve(ars, denied) /\ strayed = <<>>

LEMMA BlocksEntered ==
  ASSUME NEW w, StraysWhereRefused(w), Sized!Enter(w)
  PROVE  Sane'
<1>1. PICK as, refusals, stray, st :
        /\ w = Told(as, refusals, stray, st) /\ BothBelieve(as, refusals)
        /\ stray = <<>> \/ stray[1] = "trim" \/ stray[2] \in refusals
  BY DEF StraysWhereRefused
<1>2. ars' = as /\ denied' = refusals /\ strayed' = stray
  BY <1>1 DEF Sized!Enter, Told
<1> QED
  BY <1>1, <1>2 DEF Sane, StraysOnlyWhenRefused, Sized!StraysOnlyWhenRefused

LEMMA BlocksLeft ==
  ASSUME Ready, UNCHANGED <<ars, denied, strayed>>
  PROVE  Sane'
BY DEF Ready, Sane, StraysOnlyWhenRefused, Sized!StraysOnlyWhenRefused

LEMMA NowTold ==
  /\ Sized!World = Told(ars, denied, strayed, Sized!CC_OK)
  /\ \A as, refusals, stray, st, l, a :
       Sized!With(Told(as, refusals, stray, st), l, a) = Told([as EXCEPT ![l] = a], refusals, stray, st)
BY DEF Sized!World, Sized!With, Told

LEMMA BlocksCommitted ==
  ASSUME Ready, NEW l \in {1, 2}, NEW a, Believes(a, denied, l), NEW r, Sized!Commit(l, a, r)
  PROVE  Sane'
<1> DEFINE as == [ars EXCEPT ![l] = a]
<1>1. BothBelieve(as, denied)
  BY OneExchanged DEF Ready
<1>2. Sized!Enter(Told(as, denied, <<>>, Sized!CC_OK))
  BY NowTold DEF Sized!Commit, Ready
<1> HIDE DEF as
<1>3. StraysWhereRefused(Told(as, denied, <<>>, Sized!CC_OK))
  BY <1>1, Unstrayed
<1> QED
  BY <1>2, <1>3, BlocksEntered

LEMMA BlocksAnswered ==
  ASSUME Ready, NEW r, Sized!Answer(r)
  PROVE  Sane'
BY BlocksLeft DEF Sized!Answer

LEMMA BlocksRejected ==
  ASSUME Ready, NEW st, Sized!Reject(st)
  PROVE  Sane'
BY BlocksAnswered DEF Sized!Reject

LEMMA AddAtSane ==
  ASSUME Ready, NEW l \in {1, 2}, NEW e, NEW i, Sized!AddAt(l, e, i)
  PROVE  Sane'
<1>1. PICK w \in Sized!Added(Sized!World, l, e, i) : Sized!Enter(w)
  BY DEF Sized!AddAt
<1>2. w \in Sized!Added(Told(ars, denied, <<>>, Sized!CC_OK), l, e, i)
  BY NowTold DEF Ready
<1>3. StraysWhereRefused(w)
  BY <1>2, BlocksAdded DEF Ready
<1> QED
  BY <1>1, <1>3, BlocksEntered

\* What a client may have one of the arrays be.
LEMMA OneOfBoth ==
  ASSUME Ready, NEW l \in {1, 2}
  PROVE  Believes(ars[l], denied, l)
BY DEF Ready, BothBelieve

LEMMA BlocksReplaced ==
  ASSUME NEW a, NEW refusals, NEW l, Believes(a, refusals, l), NEW e, NEW i
  PROVE  Believes(Sized!ReplacedAt(a, e, i), refusals, l)
<1> DEFINE b == Sized!Write(a.buffer, i, e)
<1>1. AsLong(b, a.buffer)
  BY SameLength DEF AsLong
<1>2. Sized!ReplacedAt(a, e, i) = [a EXCEPT !.buffer = b, !.size = a.size] /\ a.size \in Nat
  <2>1. Sized!ReplacedAt(a, e, i) = [a EXCEPT !.buffer = b]
    BY DEF Sized!ReplacedAt
  <2> HIDE DEF b
  <2> QED
    BY <2>1, BlocksRewritten
<1> DEFINE n == a.size
<1>3. n \in Nat /\ n <= a.size
  BY <1>2
<1> HIDE DEF b, n
<1>4. Believes([a EXCEPT !.buffer = b, !.size = n], refusals, l)
  BY <1>1, <1>3, BlocksChanged
<1> QED
  BY <1>2, <1>4 DEF n

LEMMA BlocksDeleted ==
  ASSUME NEW a, NEW refusals, NEW l, Believes(a, refusals, l), a.size > 0, NEW i
  PROVE  Believes(Sized!DeleteAt(a, i), refusals, l)
<1> DEFINE b == Sized!Move(a.buffer, i, i + 1, a.size - 1 - i)
           n == a.size - 1
<1>1. AsLong(b, a.buffer)
  BY SameLength DEF AsLong
<1>2. n \in Nat /\ n <= a.size
  <2>1. a.size \in Nat
    BY BlocksRewritten
  <2> QED
    BY <2>1
<1>3. Sized!DeleteAt(a, i) = [a EXCEPT !.buffer = b, !.size = n]
  BY DEF Sized!DeleteAt
<1> HIDE DEF b, n
<1>4. Believes([a EXCEPT !.buffer = b, !.size = n], refusals, l)
  BY <1>1, <1>2, BlocksChanged
<1> QED
  BY <1>3, <1>4

LEMMA BlocksOrdered ==
  ASSUME NEW a, NEW refusals, NEW l, Believes(a, refusals, l), NEW es
  PROVE  Believes(Sized!WithBlocks(a, es), refusals, l)
<1> DEFINE b == [s \in DOMAIN a.buffer |->
                   IF Sized!Within(s, 0, a.size)
                   THEN es[(s \div DataLength) + 1][(s % DataLength) + 1] ELSE a.buffer[s]]
<1>1. AsLong(b, a.buffer)
  BY DEF AsLong, IsBuffer
<1>2. Sized!WithBlocks(a, es) = [a EXCEPT !.buffer = b, !.size = a.size] /\ a.size \in Nat
  <2>1. Sized!WithBlocks(a, es) = [a EXCEPT !.buffer = b]
    BY DEF Sized!WithBlocks
  <2> HIDE DEF b
  <2> QED
    BY <2>1, BlocksRewritten
<1> DEFINE n == a.size
<1>3. n \in Nat /\ n <= a.size
  BY <1>2
<1> HIDE DEF b, n
<1>4. Believes([a EXCEPT !.buffer = b, !.size = n], refusals, l)
  BY <1>1, <1>3, BlocksChanged
<1> QED
  BY <1>2, <1>4 DEF n

LEMMA BlocksDropped ==
  ASSUME NEW a, NEW refusals, NEW l, Believes(a, refusals, l)
  PROVE  Believes([a EXCEPT !.size = 0], refusals, l)
<1>1. a.size \in Nat /\ [a EXCEPT !.size = 0] = [a EXCEPT !.buffer = a.buffer, !.size = 0]
  BY BlocksRewritten
<1>2. AsLong(a.buffer, a.buffer)
  BY DEF AsLong
<1>3. 0 \in Nat /\ 0 <= a.size
  BY <1>1
<1> QED
  BY <1>1, <1>2, <1>3, BlocksChanged

\* Every call that begins where it may leaves things sane.

LEMMA ReplaceAtSane ==
  ASSUME Ready, NEW l \in {1, 2}, NEW e, NEW i, Sized!ReplaceAt(l, e, i)
  PROVE  Sane'
<1>1. Believes(Sized!ReplacedAt(ars[l], e, i), denied, l)
  BY OneOfBoth, BlocksReplaced
<1> QED
  BY <1>1, BlocksCommitted, BlocksRejected DEF Sized!ReplaceAt

LEMMA SwapAtSane ==
  ASSUME Ready, NEW l \in {1, 2}, NEW i, NEW j, Sized!SwapAt(l, i, j)
  PROVE  Sane'
<1> DEFINE b == ars[l].buffer
           a == Sized!ReplacedAt(ars[l], Sized!Block(b, j), i)
           z == Sized!ReplacedAt(a, Sized!Block(b, i), j)
<1>1. Believes(a, denied, l)
  BY OneOfBoth, BlocksReplaced
<1>2. \/ Sized!Reject(Sized!CC_ERR_OUT_OF_RANGE)
      \/ Sized!Commit(l, z, Sized!Done)
  BY Zenon DEF Sized!SwapAt
<1> HIDE DEF a
<1>3. Believes(z, denied, l)
  BY <1>1, BlocksReplaced
<1> HIDE DEF z
<1> QED
  BY <1>2, <1>3, BlocksCommitted, BlocksRejected

LEMMA RemoveAtSane ==
  ASSUME Ready, NEW l \in {1, 2}, NEW i \in Nat, Sized!RemoveAt(l, i)
  PROVE  Sane'
<1> DEFINE a == ars[l]
<1>1. Believes(a, denied, l)
  BY OneOfBoth
<1>2. CASE i < a.size
  <2>1. a.size > 0
    <3> DEFINE n == a.size
    <3>1. n \in Nat
      BY <1>1, BlocksRewritten
    <3> HIDE DEF n
    <3>2. n > 0
      BY <1>2, <3>1 DEF n
    <3> QED
      BY <3>2 DEF n
  <2>2. Believes(Sized!DeleteAt(a, i), denied, l)
    <3> HIDE DEF a
    <3> QED
      BY <1>1, <2>1, BlocksDeleted
  <2> QED
    BY <2>2, BlocksCommitted, BlocksRejected DEF Sized!RemoveAt
<1>3. CASE ~(i < a.size)
  BY <1>3, BlocksRejected DEF Sized!RemoveAt
<1> QED
  BY <1>2, <1>3

LEMMA RemoveSane ==
  ASSUME Ready, NEW l \in {1, 2}, NEW e, Sized!Remove(l, e)
  PROVE  Sane'
<1> DEFINE a == ars[l]
<1>1. Believes(a, denied, l)
  BY OneOfBoth
<1>2. a.size \in Nat
  BY <1>1, BlocksRewritten
<1>3. CASE Sized!Reject(Sized!CC_ERR_VALUE_NOT_FOUND)
  BY <1>3, BlocksRejected
<1>4. ASSUME NEW i \in Sized!IndexOf(a, e), Sized!Commit(l, Sized!DeleteAt(a, i), Sized!Got(e))
      PROVE  Sane'
  <2> DEFINE n == a.size
  <2>1. i \in 0..(n - 1)
    BY DEF Sized!IndexOf, Sized!Matches
  <2> HIDE DEF n
  <2>2. n > 0
    BY <1>2, <2>1 DEF n
  <2>3. Believes(Sized!DeleteAt(a, i), denied, l)
    <3> HIDE DEF a
    <3> QED
      BY <1>1, <2>2, BlocksDeleted DEF n
  <2> QED
    BY <1>4, <2>3, BlocksCommitted
<1> QED
  BY <1>3, <1>4 DEF Sized!Remove

LEMMA RemoveLastSane ==
  ASSUME Ready, NEW l \in {1, 2}, Sized!RemoveLast(l)
  PROVE  Sane'
<1> DEFINE n == ars[l].size
<1>1. n \in Nat
  BY OneOfBoth, BlocksRewritten
<1>2. CASE n = 0 /\ Sized!Reject(Sized!CC_ERR_OUT_OF_RANGE)
  BY <1>2, BlocksRejected
<1>3. CASE n > 0 /\ Sized!RemoveAt(l, n - 1)
  <2>1. n - 1 \in Nat
    <3> HIDE DEF n
    <3> QED
      BY <1>1, <1>3
  <2> HIDE DEF n
  <2> QED
    BY <1>3, <2>1, RemoveAtSane
<1> QED
  BY <1>2, <1>3 DEF Sized!RemoveLast

LEMMA RemoveAllSane ==
  ASSUME Ready, NEW l \in {1, 2}, Sized!RemoveAll(l)
  PROVE  Sane'
<1>1. Believes([ars[l] EXCEPT !.size = 0], denied, l)
  BY OneOfBoth, BlocksDropped
<1> QED
  BY <1>1, BlocksCommitted DEF Sized!RemoveAll

LEMMA ReverseSane ==
  ASSUME Ready, NEW l \in {1, 2}, Sized!Reverse(l)
  PROVE  Sane'
<1>1. Believes(Sized!Reversed(ars[l]), denied, l)
  BY OneOfBoth, BlocksOrdered DEF Sized!Reversed
<1> QED
  BY <1>1, BlocksCommitted DEF Sized!Reverse

LEMMA SortSane ==
  ASSUME Ready, NEW l \in {1, 2}, Sized!Sort(l)
  PROVE  Sane'
<1>1. PICK a \in Sized!Sorted(ars[l]) : Sized!Commit(l, a, Sized!Done)
  BY DEF Sized!Sort
<1>2. \E es : a = Sized!WithBlocks(ars[l], es)
  BY DEF Sized!Sorted
<1>3. Believes(a, denied, l)
  BY <1>2, OneOfBoth, BlocksOrdered
<1> QED
  BY <1>1, <1>3, BlocksCommitted

LEMMA FilterMutSane ==
  ASSUME Ready, NEW l \in {1, 2}, NEW pred, Sized!FilterMut(l, pred)
  PROVE  Sane'
<1>1. Believes(Sized!FilteredInPlace(ars[l], pred), denied, l)
  BY OneOfBoth, BlocksFiltered
<1> QED
  BY <1>1, BlocksCommitted, BlocksRejected DEF Sized!FilterMut

\* The array that gets a buffer of its own gets one that is as long as it thinks.
LEMMA BlocksGranted ==
  ASSUME Ready, NEW l \in {1, 2}, NEW a, Believes(a, denied \ {l}, l), NEW w,
         w = [Sized!With(Sized!World, l, a) EXCEPT !.refused = @ \ {l}], Sized!Enter(w)
  PROVE  Sane'
<1> DEFINE as == [ars EXCEPT ![l] = a]
           others == denied \ {l}
<1>1. BothBelieve(as, others)
  <2>1. denied \ {l} \subseteq others
    OBVIOUS
  <2>2. BothBelieve(ars, denied) /\ Believes(a, others, l)
    BY DEF Ready
  <2> HIDE DEF others
  <2> QED
    BY <2>1, <2>2, OneExchanged
<1> DEFINE y == Sized!With(Sized!World, l, a)
<1>2. y = Told(as, denied, <<>>, Sized!CC_OK)
  BY NowTold DEF Ready
<1> HIDE DEF y, as
<1>3. w = [y EXCEPT !.refused = @ \ {l}]
  BY DEF y
<1>4. w = Told(as, others, <<>>, Sized!CC_OK)
  BY ONLY <1>2, <1>3 DEF Told, others
<1> HIDE DEF others
<1>5. StraysWhereRefused(Told(as, others, <<>>, Sized!CC_OK))
  BY ONLY <1>1, Unstrayed
<1>6. StraysWhereRefused(w)
  BY ONLY <1>4, <1>5
<1> QED
  BY <1>6, BlocksEntered

LEMMA TrimCapacitySane ==
  ASSUME Ready, NEW l \in {1, 2}, Sized!TrimCapacity(l)
  PROVE  Sane'
<1> DEFINE a == ars[l]
           b == Sized!Buffer(a.size, a.buffer, 0, a.size)
           trimmed == [a EXCEPT !.capacity = a.size, !.buffer = Sized!Buffer(a.size, @, 0, a.size)]
<1>1. \/ Sized!Answer(Sized!Done)
      \/ Sized!Reject(Sized!CC_ERR_ALLOC)
      \/ Sized!Enter(IF a.size = 0 THEN [Sized!World EXCEPT !.fault = <<"trim", l>>]
                     ELSE [Sized!With(Sized!World, l, trimmed) EXCEPT !.refused = @ \ {l}])
  BY Zenon DEF Sized!TrimCapacity
<1>2. CASE a.size = 0 /\ Sized!Enter([Sized!World EXCEPT !.fault = <<"trim", l>>])
  <2> DEFINE w == [Sized!World EXCEPT !.fault = <<"trim", l>>]
  <2>1. w = Told(ars, denied, <<"trim", l>>, Sized!CC_OK)
    BY NowTold DEF Told
  <2>2. <<"trim", l>>[1] = "trim"
    OBVIOUS
  <2>3. BothBelieve(ars, denied)
    BY DEF Ready
  <2>4. StraysWhereRefused(w)
    BY <2>1, <2>2, <2>3 DEF StraysWhereRefused
  <2> HIDE DEF w
  <2>5. Sized!Enter(w)
    BY <1>2 DEF w
  <2> QED
    BY <2>4, <2>5, BlocksEntered
<1>3. CASE Sized!Enter([Sized!With(Sized!World, l, trimmed) EXCEPT !.refused = @ \ {l}])
  <2>1. PICK m \in Nat :
          /\ a = [size |-> a.size, capacity |-> a.capacity, exp |-> a.exp, buffer |-> a.buffer]
          /\ a.size \in Nat /\ a.exp \in Nat /\ m <= MemLimit /\ a.size <= m
    BY OneOfBoth, WhatItHas
  <2>2. IsBuffer(b, a.size)
    BY DEF Sized!Buffer, IsBuffer
  <2>3. trimmed = [a EXCEPT !.capacity = a.size, !.buffer = b]
    OBVIOUS
  <2> DEFINE n == a.size
  <2> HIDE DEF b, trimmed
  <2>4. trimmed = [size |-> n, capacity |-> n, exp |-> a.exp, buffer |-> b]
    <3> DEFINE y == [a EXCEPT !.capacity = n]
    <3>1. y = [size |-> n, capacity |-> n, exp |-> a.exp, buffer |-> a.buffer]
      BY <2>1
    <3>2. trimmed = [y EXCEPT !.buffer = b]
      BY <2>3
    <3> HIDE DEF y, n
    <3> QED
      BY <3>1, <3>2
  <2>5. n \in Nat /\ n <= MemLimit /\ n <= n
    BY <2>1, ArrayConstants
  <2>6. Believes(trimmed, denied \ {l}, l)
    <3> HIDE DEF n, a
    <3> QED
      BY <2>1, <2>2, <2>4, <2>5, RoomAfter DEF n
  <2> DEFINE w == [Sized!With(Sized!World, l, trimmed) EXCEPT !.refused = @ \ {l}]
  <2> HIDE DEF a, n
  <2> QED
    BY <1>3, <2>6, BlocksGranted
<1> QED
  BY <1>1, <1>2, <1>3, BlocksAnswered, BlocksRejected

-----------------------------------------------------------------------------
\* What the calls on both make: the second array.

LEMMA SecondSane ==
  ASSUME Ready, NEW a, Sized!MakeSecond(a),
         ars[1].capacity <= MemLimit => Believes(a, denied \ {2}, 2)
  PROVE  Sane'
<1>1. CASE Sized!Reject(Sized!CC_ERR_ALLOC)
  BY <1>1, BlocksRejected
<1>2. CASE /\ ars[1].capacity + Sized!Room(ars[1]) + Sized!Room(ars[2]) <= MemLimit
           /\ Sized!Enter([Sized!With(Sized!World, 2, a) EXCEPT !.refused = @ \ {2}])
  <2> DEFINE c == ars[1].capacity
             r == Sized!Room(ars[1])
             s == Sized!Room(ars[2])
             w == [Sized!With(Sized!World, 2, a) EXCEPT !.refused = @ \ {2}]
  <2>1. c \in Nat /\ r \in Nat
    <3>1. Believes(ars[1], denied, 1)
      BY OneOfBoth
    <3> QED
      BY <3>1, WhatItHas
  <2>2. s \in Nat
    <3>1. Believes(ars[2], denied, 2)
      BY OneOfBoth
    <3> QED
      BY <3>1, WhatItHas
  <2>3. c + r + s <= MemLimit
    BY <1>2
  <2>4. c <= MemLimit
    <3> HIDE DEF c, r, s
    <3> QED
      BY <2>1, <2>2, <2>3, ArrayConstants
  <2>5. Believes(a, denied \ {2}, 2)
    BY <2>4
  <2>6. Sized!Enter(w) /\ w = [Sized!With(Sized!World, 2, a) EXCEPT !.refused = @ \ {2}]
    BY <1>2
  <2> HIDE DEF c, r, s, w
  <2> QED
    BY <2>5, <2>6, BlocksGranted
<1> QED
  BY <1>1, <1>2 DEF Sized!MakeSecond

\* An array of n elements in a buffer as long as the first one thinks its own is.
LEMMA SecondBelieves ==
  ASSUME Ready, ars[1].capacity <= MemLimit, NEW n \in Nat, n <= ars[1].size,
         NEW c \in Nat, n <= c, c <= ars[1].capacity, NEW x \in Nat, NEW i, NEW k
  PROVE  Believes([size |-> n, capacity |-> c, exp |-> x,
                   buffer |-> Sized!Buffer(ars[1].capacity, ars[1].buffer, i, k)],
                  denied \ {2}, 2)
<1> DEFINE m == ars[1].capacity
           b == Sized!Buffer(m, ars[1].buffer, i, k)
           N == ars[1].size
<1>1. m \in Nat /\ N \in Nat /\ N <= m
  <2>1. Believes(ars[1], denied, 1)
    BY OneOfBoth
  <2> QED
    BY <2>1, WhatItHas
<1>2. IsBuffer(b, m)
  BY DEF Sized!Buffer, IsBuffer
<1>3. m <= MemLimit /\ n <= N /\ c <= m
  OBVIOUS
<1> HIDE DEF b, m, N
<1>4. n <= m
  BY <1>1, <1>3
<1> QED
  BY <1>1, <1>2, <1>3, <1>4, RoomAfter DEF b, m

LEMMA FirstOfBoth ==
  ASSUME Ready
  PROVE  /\ ars[1] = [size |-> ars[1].size, capacity |-> ars[1].capacity,
                      exp |-> ars[1].exp, buffer |-> ars[1].buffer]
         /\ ars[1].size \in Nat /\ ars[1].capacity \in Nat /\ ars[1].exp \in Nat
         /\ ars[1].size <= ars[1].capacity
<1>1. Believes(ars[1], denied, 1)
  BY OneOfBoth
<1> QED
  BY <1>1, WhatItHas

LEMMA SubarraySane ==
  ASSUME Ready, NEW b \in Nat, NEW e \in Nat, Sized!Subarray(b, e)
  PROVE  Sane'
<1> DEFINE n == e - b + 1
           a == [size |-> n, capacity |-> n, exp |-> 0,
                 buffer |-> Sized!Buffer(ars[1].capacity, ars[1].buffer, b, n)]
<1>1. \/ Sized!Reject(Sized!CC_ERR_INVALID_RANGE)
      \/ b <= e /\ e < ars[1].size /\ Sized!MakeSecond(a)
  BY Zenon DEF Sized!Subarray
<1>2. ASSUME b <= e, e < ars[1].size, Sized!MakeSecond(a), ars[1].capacity <= MemLimit
      PROVE  Believes(a, denied \ {2}, 2)
  <2>1. n \in Nat /\ n <= ars[1].size /\ n <= n /\ n <= ars[1].capacity
    <3> DEFINE N == ars[1].size
               c == ars[1].capacity
    <3>1. N \in Nat /\ c \in Nat /\ N <= c /\ e < N
      BY <1>2, FirstOfBoth
    <3> HIDE DEF N, c
    <3>2. n \in Nat /\ n <= N /\ n <= n /\ n <= c
      BY <1>2, <3>1
    <3> QED
      BY <3>2 DEF N, c
  <2> HIDE DEF n
  <2> QED
    BY <1>2, <2>1, SecondBelieves
<1> HIDE DEF a
<1> QED
  BY <1>1, <1>2, SecondSane, BlocksRejected

LEMMA CopySane ==
  ASSUME Ready, Sized!Copy
  PROVE  Sane'
<1> DEFINE a == Sized!CopyOf(ars[1])
           b == Sized!Buffer(ars[1].capacity, ars[1].buffer, 0, ars[1].size)
<1>1. Sized!MakeSecond(a)
  BY DEF Sized!Copy
<1>2. a = [size |-> ars[1].size, capacity |-> ars[1].capacity, exp |-> ars[1].exp, buffer |-> b]
  <2>1. a = [ars[1] EXCEPT !.buffer = b]
    BY DEF Sized!CopyOf
  <2> HIDE DEF a, b
  <2> QED
    BY <2>1, FirstOfBoth
<1>3. ASSUME ars[1].capacity <= MemLimit PROVE Believes(a, denied \ {2}, 2)
  <2> DEFINE n == ars[1].size
             c == ars[1].capacity
             x == ars[1].exp
  <2>1. n \in Nat /\ c \in Nat /\ x \in Nat /\ n <= c /\ n <= ars[1].size /\ c <= ars[1].capacity
    BY FirstOfBoth
  <2>2. a = [size |-> n, capacity |-> c, exp |-> x,
             buffer |-> Sized!Buffer(ars[1].capacity, ars[1].buffer, 0, ars[1].size)]
    BY <1>2
  <2> HIDE DEF a, n, c, x
  <2>3. Believes([size |-> n, capacity |-> c, exp |-> x,
                  buffer |-> Sized!Buffer(ars[1].capacity, ars[1].buffer, 0, ars[1].size)],
                 denied \ {2}, 2)
    BY <1>3, <2>1, SecondBelieves
  <2> QED
    BY <2>2, <2>3
<1> HIDE DEF a
<1> QED
  BY <1>1, <1>3, SecondSane

LEMMA FilterSane ==
  ASSUME Ready, NEW pred, Sized!Filter(pred)
  PROVE  Sane'
<1> DEFINE es == Sized!Selected(Sized!Contents(ars[1]), pred)
           n == Len(es)
           b == Sized!Buffer(ars[1].capacity, ars[1].buffer, 0, n)
           full == [ars[1] EXCEPT !.size = n,
                                  !.buffer = Sized!Buffer(ars[1].capacity, @, 0, n)]
<1>1. \/ Sized!Reject(Sized!CC_ERR_OUT_OF_RANGE)
      \/ Sized!MakeSecond(Sized!WithBlocks(full, es))
  BY Zenon DEF Sized!Filter
<1>2. n \in Nat /\ n <= ars[1].size
  <2> DEFINE v == Sized!Contents(ars[1])
             N == ars[1].size
  <2>1. N \in Nat
    BY FirstOfBoth
  <2>2. v = [k \in 1..N |-> v[k]]
    BY DEF Sized!Contents, Sized!Blocks
  <2> HIDE DEF v, N
  <2> DEFINE V == {v[k] : k \in 1..N}
  <2>3. v \in Seq(V) /\ Len(v) = N
    BY <2>1, <2>2
  <2>4. Sized!Selected(v, pred) = Selected(v, pred)
    BY Zenon DEF Sized!Selected, Selected
  <2> HIDE DEF V
  <2>5. Selected(v, pred) \in Seq(V) /\ Len(Selected(v, pred)) <= Len(v)
    BY <2>3, SelectedShort
  <2>6. Len(Selected(v, pred)) \in Nat
    BY <2>5
  <2>7. n = Len(Selected(v, pred))
    BY <2>4 DEF v
  <2> QED
    BY <2>3, <2>5, <2>6, <2>7 DEF N
<1> HIDE DEF es, n
<1>3. full = [size |-> n, capacity |-> ars[1].capacity, exp |-> ars[1].exp, buffer |-> b]
  <2> DEFINE y == [ars[1] EXCEPT !.size = n]
  <2>1. full = [y EXCEPT !.buffer = b]
    OBVIOUS
  <2>2. y = [size |-> n, capacity |-> ars[1].capacity, exp |-> ars[1].exp, buffer |-> ars[1].buffer]
    BY FirstOfBoth
  <2> HIDE DEF full, y, b
  <2> QED
    BY <2>1, <2>2
<1>4. ASSUME ars[1].capacity <= MemLimit PROVE Believes(Sized!WithBlocks(full, es), denied \ {2}, 2)
  <2> DEFINE c == ars[1].capacity
             x == ars[1].exp
  <2>1. c \in Nat /\ x \in Nat /\ n <= c /\ c <= ars[1].capacity
    <3> DEFINE N == ars[1].size
    <3>1. c \in Nat /\ x \in Nat /\ N \in Nat /\ N <= c /\ n <= N /\ n \in Nat
      BY <1>2, FirstOfBoth
    <3>2. c <= ars[1].capacity
      BY <3>1
    <3> HIDE DEF N, c
    <3> QED
      BY <3>1, <3>2
  <2> HIDE DEF full, c, x
  <2>2. full = [size |-> n, capacity |-> c, exp |-> x,
                buffer |-> Sized!Buffer(ars[1].capacity, ars[1].buffer, 0, n)]
    BY <1>3 DEF c, x
  <2>3. Believes([size |-> n, capacity |-> c, exp |-> x,
                  buffer |-> Sized!Buffer(ars[1].capacity, ars[1].buffer, 0, n)],
                 denied \ {2}, 2)
    BY <1>2, <1>4, <2>1, SecondBelieves
  <2>4. Believes(full, denied \ {2}, 2)
    BY <2>2, <2>3
  <2> QED
    BY <2>4, BlocksOrdered
<1> HIDE DEF full
<1> QED
  BY <1>1, <1>4, SecondSane, BlocksRejected

-----------------------------------------------------------------------------
\* The iterators

Walking == cursor \in [on : {{1}, {1, 2}}, index : Nat, last_removed : BOOLEAN]

LEMMA WalkingFields ==
  ASSUME Walking
  PROVE  /\ cursor = [on |-> cursor.on, index |-> cursor.index,
                      last_removed |-> cursor.last_removed]
         /\ cursor.on \in {{1}, {1, 2}} /\ cursor.index \in Nat
         /\ cursor.last_removed \in BOOLEAN
         /\ Sized!At = cursor.index
BY DEF Walking, Sized!At

LEMMA MovedOn ==
  ASSUME Walking, NEW r \in BOOLEAN
  PROVE  /\ cursor' = [cursor EXCEPT !.index = @ + 1] => Walking'
         /\ cursor' = [cursor EXCEPT !.index = @ + 1, !.last_removed = r] => Walking'
         /\ cursor' = [cursor EXCEPT !.last_removed = r] => Walking'
         /\ cursor' = cursor => Walking'
<1> DEFINE n == cursor.index + 1
<1>1. n \in Nat
  BY WalkingFields
<1> HIDE DEF n
<1>2. ASSUME cursor' = [cursor EXCEPT !.index = n] PROVE Walking'
  <2>1. cursor' = [on |-> cursor.on, index |-> n, last_removed |-> cursor.last_removed]
    BY <1>2, WalkingFields
  <2> QED
    BY <1>1, <2>1, WalkingFields DEF Walking
<1>3. ASSUME cursor' = [cursor EXCEPT !.index = n, !.last_removed = r] PROVE Walking'
  <2> DEFINE y == [cursor EXCEPT !.index = n]
  <2>1. y = [on |-> cursor.on, index |-> n, last_removed |-> cursor.last_removed]
    BY WalkingFields
  <2>2. cursor' = [y EXCEPT !.last_removed = r]
    BY <1>3
  <2> HIDE DEF y
  <2>3. cursor' = [on |-> cursor.on, index |-> n, last_removed |-> r]
    BY <2>1, <2>2
  <2> QED
    BY <1>1, <2>3, WalkingFields DEF Walking
<1>4. ASSUME cursor' = [cursor EXCEPT !.last_removed = r] PROVE Walking'
  <2>1. cursor' = [on |-> cursor.on, index |-> cursor.index, last_removed |-> r]
    BY <1>4, WalkingFields
  <2> QED
    BY <2>1, WalkingFields DEF Walking
<1> QED
  BY <1>2, <1>3, <1>4 DEF n, Walking

LEMMA IterNextSane ==
  ASSUME Ready, Walking, Sized!IterNext
  PROVE  Sane' /\ Walking'
BY MovedOn, BlocksAnswered, BlocksRejected DEF Sized!IterNext

LEMMA IterRemoveSane ==
  ASSUME Ready, Walking, Sized!IterRemove
  PROVE  Sane' /\ Walking'
<1> DEFINE del(l) == Sized!DeleteAt(ars[l], Sized!At - 1)
           as == [l \in {1, 2} |-> IF l \in cursor.on THEN del(l) ELSE ars[l]]
<1>1. \/ (\E st : Sized!Reject(st)) /\ cursor' = cursor
      \/ /\ Sized!InHand /\ ars' = as /\ UNCHANGED <<denied, strayed>>
         /\ cursor' = [cursor EXCEPT !.last_removed = TRUE]
  BY Zenon DEF Sized!IterRemove, Sized!Pair
<1>2. CASE (\E st : Sized!Reject(st)) /\ cursor' = cursor
  BY <1>2, BlocksRejected, MovedOn
<1>3. CASE /\ Sized!InHand /\ ars' = as /\ UNCHANGED <<denied, strayed>>
           /\ cursor' = [cursor EXCEPT !.last_removed = TRUE]
  <2>1. ASSUME NEW l \in {1, 2} PROVE Believes(as[l], denied, l)
    <3>1. Believes(ars[l], denied, l)
      BY OneOfBoth
    <3>2. CASE l \in cursor.on
      <4> DEFINE a == ars[l]
                 n == a.size
                 h == Sized!At - 1
      <4>1. n \in Nat
        BY <3>1, BlocksRewritten
      <4>2. h \in Nat /\ h < n
        <5>1. Sized!At > 0 /\ Sized!At - 1 < ars[l].size
          BY <1>3, <3>2 DEF Sized!InHand, Sized!Reaches
        <5>2. Sized!At \in Nat
          BY WalkingFields
        <5> HIDE DEF n
        <5> QED
          BY <5>1, <5>2 DEF n
      <4> HIDE DEF h, n
      <4>3. n > 0
        BY <4>1, <4>2
      <4>4. Believes(Sized!DeleteAt(a, h), denied, l)
        <5> HIDE DEF a
        <5>1. Believes(a, denied, l) /\ a.size > 0
          BY <3>1, <4>3 DEF a, n
        <5> QED
          BY <5>1, BlocksDeleted
      <4>5. as[l] = Sized!DeleteAt(a, h)
        BY <3>2 DEF h
      <4> QED
        BY <4>4, <4>5
    <3>3. CASE l \notin cursor.on
      BY <3>1, <3>3
    <3> QED
      BY <3>2, <3>3
  <2>2. as = [l \in {1, 2} |-> as[l]]
    OBVIOUS
  <2> HIDE DEF as
  <2>3. BothBelieve(as, denied)
    BY <2>1, <2>2 DEF BothBelieve
  <2>4. Sane'
    BY <1>3, <2>3 DEF Sane, Ready, StraysOnlyWhenRefused, Sized!StraysOnlyWhenRefused
  <2> QED
    BY <1>3, <2>4, MovedOn
<1> QED
  BY <1>1, <1>2, <1>3

LEMMA IterReplaceSane ==
  ASSUME Ready, Walking, NEW e, Sized!IterReplace(e)
  PROVE  Sane' /\ Walking'
<1>1. Believes(Sized!ReplacedAt(ars[1], e, Sized!At - 1), denied, 1)
  <2>1. Believes(ars[1], denied, 1)
    BY OneOfBoth
  <2> QED
    BY <2>1, BlocksReplaced
<1>2. /\ cursor' = cursor
      /\ \/ Sized!Reject(Sized!CC_ERR_OUT_OF_RANGE)
         \/ Sized!Commit(1, Sized!ReplacedAt(ars[1], e, Sized!At - 1), Sized!Handed(Sized!At - 1))
  BY Zenon DEF Sized!IterReplace
<1>3. Sane'
  BY <1>1, <1>2, BlocksCommitted, BlocksRejected
<1> QED
  BY <1>2, <1>3, MovedOn

LEMMA ZipIterReplaceSane ==
  ASSUME Ready, Walking, NEW e, NEW f, Sized!ZipIterReplace(e, f)
  PROVE  Sane' /\ Walking'
<1> DEFINE a == Sized!ReplacedAt(ars[1], e, Sized!At - 1)
           b == Sized!ReplacedAt(ars[2], f, Sized!At - 1)
<1>1. Believes(a, denied, 1)
  <2>1. Believes(ars[1], denied, 1)
    BY OneOfBoth
  <2> QED
    BY <2>1, BlocksReplaced
<1>2. Believes(b, denied, 2)
  <2>1. Believes(ars[2], denied, 2)
    BY OneOfBoth
  <2> QED
    BY <2>1, BlocksReplaced
<1>3. /\ cursor' = cursor
      /\ \/ Sized!Reject(Sized!CC_ERR_OUT_OF_RANGE)
         \/ UNCHANGED <<denied, strayed>> /\ ars' = <<a, b>>
  BY Zenon DEF Sized!ZipIterReplace
<1> HIDE DEF a, b
<1>4. BothBelieve(<<a, b>>, denied)
  <2> DEFINE as == <<a, b>>
  <2>1. as = [l \in {1, 2} |-> as[l]] /\ as[1] = a /\ as[2] = b
    OBVIOUS
  <2> HIDE DEF as
  <2>2. \A l \in {1, 2} : Believes(as[l], denied, l)
    BY <1>1, <1>2, <2>1
  <2>3. BothBelieve(as, denied)
    BY <2>1, <2>2 DEF BothBelieve
  <2> QED
    BY <2>3 DEF as
<1>5. Sane'
  BY <1>3, <1>4, BlocksRejected
     DEF Sane, Ready, StraysOnlyWhenRefused, Sized!StraysOnlyWhenRefused
<1> QED
  BY <1>3, <1>5, MovedOn

LEMMA IterAddSane ==
  ASSUME Ready, Walking, NEW e, Sized!IterAdd(e)
  PROVE  Sane' /\ Walking'
<1>1. Sane'
  BY AddAtSane DEF Sized!IterAdd
<1>2. Walking'
  BY MovedOn DEF Sized!IterAdd, Sized!Moved
<1> QED
  BY <1>1, <1>2

\* Both arrays, after what was made of them without straying.
Unstraying(w) ==
  \E as, refusals, st : w = Told(as, refusals, <<>>, st) /\ BothBelieve(as, refusals)

LEMMA ZipIterAddSane ==
  ASSUME Ready, Walking, NEW e, NEW f, Sized!ZipIterAdd(e, f)
  PROVE  Sane' /\ Walking'
<1>1. PICK w \in Sized!MakeRoom(Sized!World, 1) :
        \E x \in (IF w.stat = Sized!CC_OK THEN Sized!MakeRoom(w, 2) ELSE {w}) :
          IF x.stat # Sized!CC_OK THEN Sized!Enter(x)
          ELSE \E y \in Sized!Added(x, 1, e, Sized!At) :
                 \E z \in Sized!Added([y EXCEPT !.stat = Sized!CC_OK], 2, f, Sized!At) :
                   Sized!Enter(IF y.fault # <<>> THEN y ELSE z)
  BY DEF Sized!ZipIterAdd
<1>2. Unstraying(w)
  <2>1. w \in Sized!MakeRoom(Told(ars, denied, <<>>, Sized!CC_OK), 1)
    BY NowTold DEF Ready
  <2>2. HasPlace(w, 1)
    BY <2>1, RoomMadeFor DEF Ready
  <2> QED
    BY <2>2 DEF HasPlace, Unstraying
<1>3. PICK x \in (IF w.stat = Sized!CC_OK THEN Sized!MakeRoom(w, 2) ELSE {w}) :
        IF x.stat # Sized!CC_OK THEN Sized!Enter(x)
        ELSE \E y \in Sized!Added(x, 1, e, Sized!At) :
               \E z \in Sized!Added([y EXCEPT !.stat = Sized!CC_OK], 2, f, Sized!At) :
                 Sized!Enter(IF y.fault # <<>> THEN y ELSE z)
  BY <1>1
<1>4. Unstraying(x)
  <2>1. CASE x \in Sized!MakeRoom(w, 2)
    <3>1. PICK as, refusals, st : w = Told(as, refusals, <<>>, st) /\ BothBelieve(as, refusals)
      BY <1>2 DEF Unstraying
    <3>2. x \in Sized!MakeRoom(Told(as, refusals, <<>>, st), 2)
      BY <2>1, <3>1
    <3>3. HasPlace(x, 2)
      BY <3>1, <3>2, RoomMadeFor
    <3> QED
      BY <3>3 DEF HasPlace, Unstraying
  <2>2. CASE x = w
    BY <1>2, <2>2
  <2> QED
    BY <1>3, <2>1, <2>2
<1>5. PICK as, refusals, st : x = Told(as, refusals, <<>>, st) /\ BothBelieve(as, refusals)
  BY <1>4 DEF Unstraying
<1>6. CASE Sized!Enter(x)
  <2>1. Sane'
    <3>1. StraysWhereRefused(x)
      BY <1>5, Unstrayed
    <3> QED
      BY <1>6, <3>1, BlocksEntered
  <2>2. Walking'
    BY MovedOn DEF Sized!ZipIterAdd, Sized!Moved
  <2> QED
    BY <2>1, <2>2
<1>7. ASSUME NEW y \in Sized!Added(x, 1, e, Sized!At),
             NEW z \in Sized!Added([y EXCEPT !.stat = Sized!CC_OK], 2, f, Sized!At),
             Sized!Enter(IF y.fault # <<>> THEN y ELSE z)
      PROVE  Sane'
  <2>1. y \in Sized!Added(Told(as, refusals, <<>>, st), 1, e, Sized!At)
    BY <1>5
  <2>2. StraysWhereRefused(y)
    BY <1>5, <2>1, BlocksAdded
  <2>3. CASE y.fault # <<>>
    BY <1>7, <2>2, <2>3, BlocksEntered
  <2>4. CASE y.fault = <<>>
    <3>1. PICK bs, others, stray, u : y = Told(bs, others, stray, u) /\ BothBelieve(bs, others)
      BY <2>2 DEF StraysWhereRefused
    <3>2. stray = <<>>
      BY <2>4, <3>1 DEF Told
    <3>3. [y EXCEPT !.stat = Sized!CC_OK] = Told(bs, others, <<>>, Sized!CC_OK)
      BY <3>1, <3>2 DEF Told
    <3>4. z \in Sized!Added(Told(bs, others, <<>>, Sized!CC_OK), 2, f, Sized!At)
      BY <3>3
    <3>5. StraysWhereRefused(z)
      BY <3>1, <3>4, BlocksAdded
    <3>6. Sized!Enter(z)
      BY <1>7, <2>4
    <3> QED
      BY <3>5, <3>6, BlocksEntered
  <2> QED
    BY <2>3, <2>4
<1>8. Walking'
  BY MovedOn DEF Sized!ZipIterAdd, Sized!Moved
<1> QED
  BY <1>3, <1>6, <1>7, <1>8

-----------------------------------------------------------------------------
\* All calls

LEMMA IndicesAreNat ==
  ASSUME Ready, NEW l \in {1, 2}
  PROVE  Sized!Indices(l) \subseteq Nat
<1> DEFINE n == ars[l].size
<1>1. n \in Nat
  <2>1. Believes(ars[l], denied, l)
    BY OneOfBoth
  <2> QED
    BY <2>1, BlocksRewritten
<1>2. Sized!Indices(l) = 0..(n + 1)
  BY DEF Sized!Indices
<1> HIDE DEF n
<1> QED
  BY <1>1, <1>2

LEMMA ChangeSane ==
  ASSUME Ready, NEW l \in {1, 2}, Sized!Change(l)
  PROVE  Sane'
<1>1. \/ \E e : \/ Sized!Add(l, e)
                \/ Sized!Remove(l, e)
                \/ \E i \in Sized!Indices(l) : Sized!AddAt(l, e, i) \/ Sized!ReplaceAt(l, e, i)
      \/ \E i \in Sized!Indices(l) :
           Sized!RemoveAt(l, i) \/ \E j \in Sized!Indices(l) : Sized!SwapAt(l, i, j)
      \/ Sized!RemoveLast(l)
      \/ Sized!RemoveAll(l)
      \/ Sized!Reverse(l)
      \/ Sized!Sort(l)
      \/ Sized!TrimCapacity(l)
      \/ \E pred : Sized!FilterMut(l, pred)
  BY Zenon DEF Sized!Change, Sized!On, Sized!Keeping
<1>2. Sized!Indices(l) \subseteq Nat
  BY IndicesAreNat
<1>3. CASE \E e : \/ Sized!Add(l, e)
                  \/ Sized!Remove(l, e)
                  \/ \E i \in Sized!Indices(l) : Sized!AddAt(l, e, i) \/ Sized!ReplaceAt(l, e, i)
  BY <1>3, AddAtSane, RemoveSane, ReplaceAtSane DEF Sized!Add
<1>4. CASE \E i \in Sized!Indices(l) :
             Sized!RemoveAt(l, i) \/ \E j \in Sized!Indices(l) : Sized!SwapAt(l, i, j)
  BY <1>2, <1>4, RemoveAtSane, SwapAtSane
<1>5. CASE \/ Sized!RemoveLast(l)
           \/ Sized!RemoveAll(l)
           \/ Sized!Reverse(l)
           \/ Sized!Sort(l)
           \/ Sized!TrimCapacity(l)
           \/ \E pred : Sized!FilterMut(l, pred)
  BY <1>5, RemoveLastSane, RemoveAllSane, ReverseSane, SortSane, TrimCapacitySane, FilterMutSane
<1> QED
  BY <1>1, <1>3, <1>4, <1>5

LEMMA FillSane ==
  ASSUME Ready, NEW l \in {1, 2}, Sized!Fill(l)
  PROVE  Sane'
<1>1. (\E e : Sized!Add(l, e)) \/ Sized!RemoveAll(l) \/ Sized!TrimCapacity(l)
  BY Zenon DEF Sized!Fill, Sized!On, Sized!Keeping
<1> QED
  BY <1>1, AddAtSane, RemoveAllSane, TrimCapacitySane DEF Sized!Add

LEMMA MakeSane ==
  ASSUME Ready, Sized!Make
  PROVE  Sane'
<1>1. \/ \E b, e \in Sized!Indices(1) : Sized!Subarray(b, e)
      \/ Sized!Copy
      \/ \E pred : Sized!Filter(pred)
  BY Zenon DEF Sized!Make, Sized!Keeping
<1>2. Sized!Indices(1) \subseteq Nat
  BY IndicesAreNat
<1> QED
  BY <1>1, <1>2, SubarraySane, CopySane, FilterSane

LEMMA IterateSane ==
  ASSUME Ready, Walking, Sized!Iterate
  PROVE  Sane' /\ Walking'
<1>1. \/ Sized!IterNext
      \/ Sized!IterRemove
      \/ \E e : Sized!IterReplace(e) \/ Sized!IterAdd(e)
      \/ \E e, f : Sized!ZipIterReplace(e, f) \/ Sized!ZipIterAdd(e, f)
  BY Zenon DEF Sized!Iterate, Sized!On, Sized!Keeping
<1> QED
  BY <1>1, IterNextSane, IterRemoveSane, IterReplaceSane, IterAddSane, ZipIterReplaceSane,
     ZipIterAddSane

LEMMA BlockStep ==
  ASSUME BlockInv, Sized!Next
  PROVE  BlockInv'
<1>1. Ready
  BY DEF BlockInv, Ready, Sized!Next, Sized!NextAlone, Sized!NextTogether
<1>2. \/ Sized!Change(1) /\ cursor' = Sized!NoIter
      \/ Sized!Ask(1) /\ cursor' = Sized!NoIter
      \/ Sized!IterInit
      \/ (\E l \in {1, 2} : Sized!Fill(l)) /\ cursor' = Sized!NoIter
      \/ Sized!Make /\ cursor' = Sized!NoIter
      \/ Sized!ZipIterInit
      \/ cursor # Sized!NoIter /\ Sized!Iterate
  BY Zenon DEF Sized!Next, Sized!NextAlone, Sized!NextTogether, Sized!Calls, Sized!Keeping,
               Sized!Pair
<1>3. CASE /\ \/ Sized!Change(1)
              \/ \E l \in {1, 2} : Sized!Fill(l)
              \/ Sized!Make
           /\ cursor' = Sized!NoIter
  <2>1. Sane'
    BY <1>1, <1>3, ChangeSane, FillSane, MakeSane
  <2> QED
    BY <1>3, <2>1 DEF BlockInv, Sane, CursorInv, Sized!NoIter
<1>4. CASE Sized!Ask(1) /\ cursor' = Sized!NoIter
  <2>1. Sane'
    BY <1>1, <1>4, BlocksAnswered DEF Sized!Ask, Sized!Keeping
  <2> QED
    BY <1>4, <2>1 DEF BlockInv, Sane, CursorInv, Sized!NoIter
<1>5. CASE Sized!IterInit \/ Sized!ZipIterInit
  <2>1. Sane'
    BY <1>1, <1>5, BlocksAnswered DEF Sized!IterInit, Sized!ZipIterInit
  <2>2. \E on \in {{1}, {1, 2}} : cursor' = [on |-> on, index |-> 0, last_removed |-> FALSE]
    BY <1>5 DEF Sized!IterInit, Sized!ZipIterInit, Sized!Pair
  <2>3. Walking'
    BY <2>2 DEF Walking
  <2> QED
    BY <2>1, <2>3 DEF BlockInv, Sane, CursorInv, Walking
<1>6. CASE cursor # Sized!NoIter /\ Sized!Iterate
  <2>1. Walking
    BY <1>6 DEF BlockInv, CursorInv, Walking
  <2>2. Sane' /\ Walking'
    BY <1>1, <1>6, <2>1, IterateSane
  <2> QED
    BY <2>2 DEF BlockInv, Sane, CursorInv, Walking
<1> QED
  BY <1>2, <1>3, <1>4, <1>5, <1>6

LEMMA BlockBegins ==
  ASSUME Sized!Init
  PROVE  BlockInv
<1>1. Believes(Sized!NewArray, {}, 1) /\ Believes(Sized!NewArray, {}, 2)
  <2> DEFINE b == [s \in Sized!Slots(InitCapacity) |-> NoElement]
  <2>1. IsBuffer(b, InitCapacity)
    BY DEF IsBuffer
  <2>2. Sized!NewArray = [size |-> 0, capacity |-> InitCapacity, exp |-> ExpNum, buffer |-> b]
    BY DEF Sized!NewArray
  <2> HIDE DEF b
  <2>3. 0 \in Nat /\ InitCapacity \in Nat /\ ExpNum \in Nat /\ InitCapacity <= MemLimit
        /\ 0 <= InitCapacity /\ InitCapacity <= InitCapacity
    BY ArrayConstants
  <2> QED
    BY <2>1, <2>2, <2>3, RoomAfter
<1>2. BothBelieve(ars, denied)
  BY <1>1 DEF Sized!Init, BothBelieve, Sized!Pair
<1> QED
  BY <1>2 DEF BlockInv, CursorInv, Sized!Init, StraysOnlyWhenRefused, Sized!StraysOnlyWhenRefused

\* Whatever the client does to an array of blocks, or to two of them, no call reads
\* or writes a byte outside the buffer, but for an addition to an array that was
\* refused the memory to expand and has got none since, and the trimming of an empty
\* array (src/src/sized/cc_array_sized.c: expand_capacity, trim_capacity).
THEOREM BlocksStayInside == Sized!Spec => []StraysOnlyWhenRefused
<1>1. Sized!Init => BlockInv
  BY BlockBegins
<1>2. BlockInv /\ [Sized!Next]_(Sized!vars) => BlockInv'
  <2> SUFFICES ASSUME BlockInv, [Sized!Next]_(Sized!vars) PROVE BlockInv'
    OBVIOUS
  <2>1. CASE Sized!Next
    BY <2>1, BlockStep
  <2>2. CASE UNCHANGED Sized!vars
    BY <2>2 DEF Sized!vars, BlockInv, BothBelieve, CursorInv, StraysOnlyWhenRefused,
                Sized!StraysOnlyWhenRefused
  <2> QED
    BY <2>1, <2>2
<1>3. BlockInv => StraysOnlyWhenRefused
  BY DEF BlockInv
<1> QED
  BY <1>1, <1>2, <1>3, PTL DEF Sized!Spec
=============================================================================
