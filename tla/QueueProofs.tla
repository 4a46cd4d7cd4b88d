----------------------------- MODULE QueueProofs -----------------------------
(***************************************************************************)
(* The queue is first in, first out, for every set of elements and every   *)
(* capacity, from what DequeProofs says of the deque beneath; and the heap *)
(* is a priority queue, for any ranks and any growth of its buffer.        *)
(***************************************************************************)
EXTENDS DequeProofs, MCAdapters

-----------------------------------------------------------------------------
\* The queue's instance of the deque is the deque.

LEMMA SameCodes ==
  /\ Queue!D!Done = Done
  /\ \A e : Queue!D!Got(e) = Got(e)
  /\ \A st : Queue!D!Refused(st) = Refused(st)
  /\ Queue!D!CC_ERR_ALLOC = CC_ERR_ALLOC
  /\ Queue!D!CC_ERR_OUT_OF_RANGE = CC_ERR_OUT_OF_RANGE
  /\ Queue!D!CC_ITER_END = CC_ITER_END
BY DEF Queue!D!Done, Queue!D!Got, Queue!D!Refused, Queue!D!Result, Queue!D!CC_OK,
       Done, Got, Refused, Result, CC_OK, Queue!D!CC_ERR_ALLOC, CC_ERR_ALLOC,
       Queue!D!CC_ERR_OUT_OF_RANGE, CC_ERR_OUT_OF_RANGE, Queue!D!CC_ITER_END, CC_ITER_END

LEMMA SamePlaces ==
  /\ \A d, i : Queue!D!Mask(d, i) = Mask(d, i)
  /\ \A d, i : Queue!D!Slot(d, i) = Slot(d, i)
  /\ \A d : Queue!D!Contents(d) = Contents(d)
  /\ \A i : Queue!D!Element(i) = Element(i)
  /\ \A i : Queue!D!InRange(i) <=> InRange(i)
  /\ Queue!D!Whole <=> Whole
  /\ Queue!D!AtEnd <=> AtEnd
BY DEF Queue!D!Mask, Queue!D!Slot, Queue!D!Contents, Queue!D!Element, Queue!D!InRange,
       Queue!D!Whole, Queue!D!AtEnd, Mask, Slot, Contents, Element, InRange, Whole, AtEnd

LEMMA SameRings ==
  /\ \A d : Queue!D!MakeRoom(d) = MakeRoom(d)
  /\ \A d, e : Queue!D!PushFront(d, e) = PushFront(d, e)
  /\ \A d : Queue!D!PopBack(d) = PopBack(d)
<1>1. \A d : Queue!D!MakeRoom(d) = MakeRoom(d)
  BY DEF Queue!D!MakeRoom, Queue!D!ExpandCapacity, Queue!D!Realigned, Queue!D!CopyBuffer,
         Queue!D!CopiedSlots, MakeRoom, ExpandCapacity, Realigned, CopyBuffer, CopiedSlots
<1>2. \A d, e : Queue!D!PushFront(d, e) = PushFront(d, e)
  BY DEF Queue!D!PushFront, PushFront, Queue!D!Mask, Mask
<1>3. \A d : Queue!D!PopBack(d) = PopBack(d)
  BY DEF Queue!D!PopBack, PopBack, Queue!D!Mask, Mask
<1> QED
  BY <1>1, <1>2, <1>3

LEMMA SameWays ==
  /\ \A d, slots, r : Queue!D!Update(d, slots, r) <=> Update(d, slots, r)
  /\ \A d, slots, r : Queue!D!Commit(d, slots, r) <=> Commit(d, slots, r)
  /\ \A st : Queue!D!Refuse(st) <=> Refuse(st)
  /\ \A st : Queue!D!Reject(st) <=> Reject(st)
  /\ \A r : Queue!D!Return(r) <=> Return(r)
  /\ Queue!D!NewIter <=> NewIter
BY SameCodes
   DEF Queue!D!Update, Queue!D!Commit, Queue!D!Refuse, Queue!D!Reject, Queue!D!Return,
       Queue!D!EndWalk, Queue!D!NoWalk, Queue!D!NewIter, Update, Commit, Refuse, Reject,
       Return, EndWalk, NoWalk, NewIter

LEMMA SameCalls ==
  /\ \A e : Queue!Enqueue(e) <=> AddFirst(e)
  /\ Queue!Poll <=> RemoveLast
  /\ Queue!Peek <=> GetLast
  /\ Queue!IterInit <=> IterInit
  /\ Queue!IterNext <=> IterNext
  /\ \A e : Queue!IterReplace(e) <=> IterReplace(e)
<1>1. \A e : Queue!Enqueue(e) <=> AddFirst(e)
  BY SameCodes, SamePlaces, SameRings, SameWays
     DEF Queue!Enqueue, Queue!D!AddFirst, AddFirst
<1>2. Queue!Poll <=> RemoveLast
  BY SameCodes, SamePlaces, SameRings, SameWays
     DEF Queue!Poll, Queue!D!RemoveLast, RemoveLast
<1>3. Queue!Peek <=> GetLast
  BY SameCodes, SamePlaces, SameRings, SameWays
     DEF Queue!Peek, Queue!D!GetLast, GetLast
<1>4. Queue!IterInit <=> IterInit
  BY SameCodes, SamePlaces, SameRings, SameWays
     DEF Queue!IterInit, Queue!D!IterInit, IterInit
<1>5. Queue!IterNext <=> IterNext
  BY SameCodes, SamePlaces, SameRings, SameWays
     DEF Queue!IterNext, Queue!D!IterNext, IterNext, Queue!D!Pause, Pause
<1>6. \A e : Queue!IterReplace(e) <=> IterReplace(e)
  BY SameCodes, SamePlaces, SameRings, SameWays
     DEF Queue!IterReplace, Queue!D!IterReplace, IterReplace, Queue!D!ReplaceMiddle,
         ReplaceMiddle, Queue!D!Pause, Pause
<1> QED
  BY <1>1, <1>2, <1>3, <1>4, <1>5, <1>6

LEMMA SameStart == Queue!Init <=> Init
<1>1. Queue!D!RoundUp(InitCapacity) = RoundUp(InitCapacity)
  BY DEF Queue!D!RoundUp, RoundUp, Queue!D!UpperPowTwo, UpperPowTwo,
         Queue!D!IsPowerOfTwo, IsPowerOfTwo
<1>2. Queue!D!Buffer(InitCapacity) = Buffer(InitCapacity)
  BY DEF Queue!D!Buffer, Buffer
<1> QED
  BY <1>1, <1>2, SameCodes DEF Queue!Init, Queue!D!Init, Init, Queue!D!NoWalk, NoWalk

-----------------------------------------------------------------------------
\* The queue is the deque from its back to its front.

Backwards(s) == [i \in 1..Len(s) |-> s[Len(s) + 1 - i]]

LEMMA InsideIs ==
  ASSUME NEW d, Holding(d)
  PROVE  [i \in 1..d.size |-> Queue!D!Contents(d)[d.size + 1 - i]] = Backwards(Contents(d))
<1>1. Len(Contents(d)) = d.size
  BY ContentsFacts
<1> QED
  BY <1>1, SamePlaces DEF Backwards

LEMMA TurnedAround ==
  ASSUME NEW s \in Seq(Elements)
  PROVE  /\ Backwards(s) \in Seq(Elements) /\ Len(Backwards(s)) = Len(s)
         /\ \A i \in 1..Len(s) : Backwards(s)[i] = s[Len(s) + 1 - i]
<1>1. \A i \in 1..Len(s) : s[Len(s) + 1 - i] \in Elements
  OBVIOUS
<1> QED
  BY <1>1 DEF Backwards

\* What is put in front of the deque is behind the queue.
LEMMA PutBehind ==
  ASSUME NEW s \in Seq(Elements), NEW e \in Elements
  PROVE  Backwards(OneMore(s, e, 0)) = Append(Backwards(s), e)
<1> DEFINE k == 0
           N == Len(s)
           w == OneMore(s, e, k)
           b == Backwards(s)
           x == Backwards(w)
           y == Append(b, e)
<1>1. N \in Nat /\ k \in 0..N
  OBVIOUS
<1>2. b \in Seq(Elements) /\ Len(b) = N /\ \A i \in 1..N : b[i] = s[N + 1 - i]
  BY TurnedAround
<1>3. k = 0
  OBVIOUS
<1> HIDE DEF k
<1>4. w \in Seq(Elements) /\ Len(w) = N + 1
  BY <1>1, WithOneMore
<1>5. \A j \in 1..(N + 1) : w[j] = IF j <= k THEN s[j] ELSE IF j = k + 1 THEN e ELSE s[j - 1]
  BY <1>1, WithOneMore
<1> HIDE DEF w, b
<1>6. x \in Seq(Elements) /\ Len(x) = N + 1 /\ \A i \in 1..(N + 1) : x[i] = w[N + 2 - i]
  <2>1. \A i \in 1..(N + 1) : Len(w) + 1 - i = N + 2 - i
    BY <1>1, <1>4
  <2> QED
    BY <1>4, <2>1, TurnedAround
<1>7. y \in Seq(Elements) /\ Len(y) = N + 1 /\ y[N + 1] = e /\ \A i \in 1..N : y[i] = b[i]
  BY <1>2
<1> HIDE DEF x, y, N
<1>8. ASSUME NEW i \in 1..(N + 1) PROVE x[i] = y[i]
  <2>1. CASE i = N + 1
    <3>1. N + 2 - i = 1 /\ 1 \in 1..(N + 1)
      BY <1>1, <2>1
    <3> QED
      BY <1>3, <1>5, <1>6, <1>7, <2>1, <3>1
  <2>2. CASE i # N + 1
    <3> DEFINE j == N + 2 - i
    <3>1. i \in 1..N /\ j \in 1..(N + 1) /\ j > 1 /\ j - 1 = N + 1 - i
      BY <1>1, <2>2
    <3> HIDE DEF j
    <3>2. w[j] = s[j - 1]
      BY <1>3, <1>5, <3>1
    <3>3. x[i] = w[j]
      BY <1>6 DEF j
    <3> QED
      BY <1>2, <1>7, <3>1, <3>2, <3>3
  <2> QED
    BY <2>1, <2>2
<1>9. x = y
  BY <1>6, <1>7, <1>8, SameSequence
<1> QED
  BY <1>3, <1>9 DEF w, x, y, b

\* What is at the back of the deque is at the front of the queue.
LEMMA TakenFromFront ==
  ASSUME NEW s \in Seq(Elements), s # <<>>
  PROVE  /\ Backwards(s) # <<>> /\ Head(Backwards(s)) = s[Len(s)]
         /\ Backwards(Removed(s, Len(s) - 1)) = Tail(Backwards(s))
<1> DEFINE N == Len(s)
           k == N - 1
           w == Removed(s, k)
           b == Backwards(s)
           x == Backwards(w)
           y == Tail(b)
<1>1. N \in Nat /\ N > 0 /\ k \in 0..(N - 1) /\ k = N - 1
  OBVIOUS
<1>2. b \in Seq(Elements) /\ Len(b) = N /\ \A i \in 1..N : b[i] = s[N + 1 - i]
  BY TurnedAround
<1>3. w \in Seq(Elements) /\ Len(w) = N - 1
  <2> HIDE DEF k
  <2> QED
    BY <1>1, RemovedPlaces
<1>4. \A j \in 1..(N - 1) : w[j] = s[j]
  <2> HIDE DEF k
  <2>1. \A j \in 1..(N - 1) : w[j] = IF j <= k THEN s[j] ELSE s[j + 1]
    BY <1>1, RemovedPlaces
  <2> HIDE DEF w
  <2> QED
    BY <1>1, <2>1
<1> HIDE DEF w, b, k
<1>5. x \in Seq(Elements) /\ Len(x) = N - 1 /\ \A i \in 1..(N - 1) : x[i] = w[N - i]
  <2>1. \A i \in 1..(N - 1) : Len(w) + 1 - i = N - i
    BY <1>1, <1>3
  <2> QED
    BY <1>3, <2>1, TurnedAround
<1>6. b # <<>> /\ Head(b) = s[N]
  <2>1. Len(b) # 0 /\ Head(b) = b[1] /\ 1 \in 1..N /\ N + 1 - 1 = N
    BY <1>1, <1>2
  <2> QED
    BY <1>2, <2>1
<1>7. y \in Seq(Elements) /\ Len(y) = N - 1 /\ \A i \in 1..(N - 1) : y[i] = b[i + 1]
  BY <1>1, <1>2, <1>6
<1> HIDE DEF x, y, N
<1>8. ASSUME NEW i \in 1..(N - 1) PROVE x[i] = y[i]
  <2>1. i + 1 \in 1..N /\ N + 1 - (i + 1) = N - i /\ N - i \in 1..(N - 1)
    BY <1>1
  <2> QED
    BY <1>2, <1>4, <1>5, <1>7, <2>1
<1>9. x = y
  BY <1>5, <1>7, <1>8, SameSequence
<1> QED
  BY <1>6, <1>9 DEF w, x, y, b, k, N

-----------------------------------------------------------------------------
\* Each call

LEMMA SameAnswers ==
  /\ Queue!Abs!Done = Done
  /\ \A e : Queue!Abs!Got(e) = Got(e)
  /\ \A st : Queue!Abs!Refused(st) = Refused(st)
  /\ Queue!Abs!CC_ERR_ALLOC = CC_ERR_ALLOC
  /\ Queue!Abs!CC_ERR_OUT_OF_RANGE = CC_ERR_OUT_OF_RANGE
  /\ Queue!Abs!CC_ITER_END = CC_ITER_END
BY DEF Queue!Abs!Done, Queue!Abs!Got, Queue!Abs!Refused, Queue!Abs!Result,
       Queue!Abs!CC_OK, Done, Got, Refused, Result, CC_OK, Queue!Abs!CC_ERR_ALLOC,
       CC_ERR_ALLOC, Queue!Abs!CC_ERR_OUT_OF_RANGE, CC_ERR_OUT_OF_RANGE,
       Queue!Abs!CC_ITER_END, CC_ITER_END

LEMMA InsideNow ==
  /\ Holding(deque) => Queue!Inside = Backwards(Contents(deque))
  /\ Holding(deque') => Queue!Inside' = Backwards(Contents(deque'))
BY InsideIs DEF Queue!Inside

\* A call that leaves the deque leaves the queue.
LEMMA QueueRefuses ==
  ASSUME NEW st, Reject(st)
  PROVE  ret' = Queue!Abs!Refused(st) /\ Queue!Inside' = Queue!Inside
<1>1. deque' = deque /\ ret' = Refused(st)
  BY DEF Reject, Return
<1> QED
  BY <1>1, SameAnswers DEF Queue!Inside

LEMMA EnqueueKept ==
  ASSUME Sound, NEW e \in Elements, AddFirst(e)
  PROVE  Sound' /\ Queue!Abs!Enqueue(e)
<1>1. Holding(deque') /\ (Abs!Insert(e, 0) \/ Refuse(CC_ERR_ALLOC))
  BY AddFirstDoes
<1>2. Sound'
  BY <1>1, AddFirstStep DEF Sound
<1>3. CASE Abs!Insert(e, 0)
  <2> DEFINE c == Contents(deque)
  <2>1. Contents(deque)' = OneMore(c, e, 0) /\ ret' = Done
    BY <1>3, SameResults DEF Abs!Insert, Abs!Inserted, OneMore
  <2>2. c \in Seq(Elements) /\ Holding(deque)
    BY HeldIs
  <2>3. Queue!Inside = Backwards(c) /\ Queue!Inside' = Backwards(OneMore(c, e, 0))
    BY <1>1, <2>1, <2>2, InsideNow
  <2> HIDE DEF c
  <2>4. Queue!Inside' = Append(Queue!Inside, e)
    BY <2>2, <2>3, PutBehind
  <2> QED
    BY <1>2, <2>1, <2>4, SameAnswers DEF Queue!Abs!Enqueue
<1>4. CASE Refuse(CC_ERR_ALLOC)
  BY <1>2, <1>4, QueueRefuses, SameAnswers
     DEF Refuse, Queue!Abs!Enqueue, Queue!Abs!Refuse
<1> QED
  BY <1>1, <1>2, <1>3, <1>4

\* Both calls at the front of the queue, when it is not empty.
LEMMA FrontIs ==
  ASSUME Sound, deque.size # 0
  PROVE  LET c == Contents(deque)
         IN  /\ c \in Seq(Elements) /\ c # <<>> /\ Queue!Inside # <<>>
             /\ Head(Queue!Inside) = c[Len(c)]
             /\ Backwards(Removed(c, Len(c) - 1)) = Tail(Queue!Inside)
<1> DEFINE c == Contents(deque)
<1>1. c \in Seq(Elements) /\ c # <<>> /\ Holding(deque)
  BY HeldIs
<1>2. Queue!Inside = Backwards(c)
  BY <1>1, InsideNow
<1> HIDE DEF c
<1>3. /\ c # <<>> /\ Queue!Inside # <<>> /\ Head(Queue!Inside) = c[Len(c)]
      /\ Backwards(Removed(c, Len(c) - 1)) = Tail(Queue!Inside)
  BY <1>1, <1>2, TakenFromFront
<1> QED
  BY <1>1, <1>3 DEF c

LEMMA NobodyWaits ==
  ASSUME Sound, deque.size = 0
  PROVE  Queue!Inside = <<>>
BY DEF Queue!Inside

LEMMA PollKept ==
  ASSUME Sound, RemoveLast
  PROVE  Sound' /\ Queue!Abs!Poll
<1>1. Holding(deque') /\ Abs!RemoveLast
  BY BackKept
<1>2. Sound'
  BY <1>1, RemoveLastStep DEF Sound
<1>3. CASE deque.size = 0
  <2>1. Refuse(CC_ERR_OUT_OF_RANGE)
    BY <1>3 DEF RemoveLast
  <2> QED
    BY <1>2, <1>3, <2>1, NobodyWaits, QueueRefuses, SameAnswers
       DEF Refuse, Queue!Abs!Poll, Queue!Abs!Refuse
<1>4. CASE deque.size # 0
  <2> DEFINE c == Contents(deque)
             i == Len(c) - 1
  <2>1. /\ c \in Seq(Elements) /\ c # <<>> /\ Queue!Inside # <<>>
        /\ Head(Queue!Inside) = c[Len(c)]
        /\ Backwards(Removed(c, i)) = Tail(Queue!Inside)
    BY <1>4, FrontIs
  <2>2. i < Len(c) /\ ~(i >= Len(c)) /\ i + 1 = Len(c)
    <3> HIDE DEF c
    <3> QED
      BY <2>1
  <2>3. Abs!RemoveAt(i)
    BY <1>1, <2>1 DEF Abs!RemoveLast
  <2>4. ret' = Got(c[Len(c)]) /\ Contents(deque)' = Removed(c, i)
    BY <2>2, <2>3, SameResults DEF Abs!RemoveAt, Abs!Without, Removed
  <2>5. Queue!Inside' = Backwards(Removed(c, i))
    BY <1>1, <2>4, InsideNow
  <2> HIDE DEF c, i
  <2> QED
    BY <1>2, <2>1, <2>4, <2>5, SameAnswers DEF Queue!Abs!Poll
<1> QED
  BY <1>2, <1>3, <1>4

LEMMA PeekKept ==
  ASSUME Sound, GetLast
  PROVE  Sound' /\ Queue!Abs!Peek
<1>1. Holding(deque') /\ Abs!GetLast
  BY BackKept
<1>2. Sound'
  BY <1>1, GetLastStep DEF Sound
<1>3. CASE deque.size = 0
  <2>1. Refuse(CC_ERR_OUT_OF_RANGE)
    BY <1>3 DEF GetLast
  <2> QED
    BY <1>2, <1>3, <2>1, NobodyWaits, QueueRefuses, SameAnswers
       DEF Refuse, Queue!Abs!Peek, Queue!Abs!Refuse
<1>4. CASE deque.size # 0
  <2> DEFINE c == Contents(deque)
             i == Len(c) - 1
  <2>1. /\ c \in Seq(Elements) /\ c # <<>> /\ Queue!Inside # <<>>
        /\ Head(Queue!Inside) = c[Len(c)]
    BY <1>4, FrontIs
  <2>2. i < Len(c) /\ ~(i >= Len(c)) /\ i + 1 = Len(c)
    <3> HIDE DEF c
    <3> QED
      BY <2>1
  <2>3. Abs!GetAt(i)
    BY <1>1, <2>1 DEF Abs!GetLast
  <2>4. ret' = Got(c[Len(c)]) /\ Contents(deque)' = c
    BY <2>2, <2>3, SameResults DEF Abs!GetAt
  <2>5. Holding(deque) /\ Queue!Inside' = Queue!Inside
    BY <1>1, <2>4, HeldIs, InsideNow
  <2> HIDE DEF c, i
  <2> QED
    BY <1>2, <2>1, <2>4, <2>5, SameAnswers DEF Queue!Abs!Peek
<1> QED
  BY <1>2, <1>3, <1>4

\* What a place of the deque is in the queue.
LEMMA PlaceInside ==
  ASSUME Sound, NEW i \in Nat, InRange(i)
  PROVE  LET k == deque.size - i
         IN  k \in 1..Len(Queue!Inside) /\ Queue!Inside[k] = Element(i)
<1> DEFINE c == Contents(deque)
           n == deque.size
           k == n - i
<1>1. c \in Seq(Elements) /\ Len(c) = n /\ n \in Nat /\ Holding(deque) /\ i < n
      /\ \A j \in 1..n : c[j] = At(deque, j - 1)
  BY HeldIs DEF InRange
<1>2. Queue!Inside = Backwards(c)
  BY <1>1, InsideNow
<1>3. c[i + 1] = Element(i)
  <2>1. i + 1 \in 1..n /\ i + 1 - 1 = i
    BY <1>1
  <2> QED
    BY <1>1, <2>1 DEF At, Element
<1> HIDE DEF c
<1>4. k \in 1..n /\ n + 1 - k = i + 1
  BY <1>1
<1>5. Queue!Inside[k] = c[n + 1 - k] /\ Len(Queue!Inside) = n
  <2> HIDE DEF k, n
  <2> QED
    BY <1>1, <1>2, <1>4, TurnedAround
<1> QED
  BY <1>3, <1>4, <1>5

LEMMA ReplacedInside ==
  ASSUME NEW s \in Seq(Elements), NEW j \in 1..Len(s), NEW e \in Elements
  PROVE  Backwards([s EXCEPT ![j] = e]) = [Backwards(s) EXCEPT ![Len(s) + 1 - j] = e]
<1> DEFINE N == Len(s)
           w == [s EXCEPT ![j] = e]
           x == Backwards(w)
           b == Backwards(s)
           y == [b EXCEPT ![N + 1 - j] = e]
<1>1. N \in Nat /\ w \in Seq(Elements) /\ Len(w) = N /\ w[j] = e
      /\ \A i \in 1..N : i # j => w[i] = s[i]
  OBVIOUS
<1>2. b \in Seq(Elements) /\ Len(b) = N /\ \A i \in 1..N : b[i] = s[N + 1 - i]
  BY TurnedAround
<1> HIDE DEF w, b
<1>3. x \in Seq(Elements) /\ Len(x) = N /\ \A i \in 1..N : x[i] = w[N + 1 - i]
  BY <1>1, TurnedAround
<1>4. /\ y \in Seq(Elements) /\ Len(y) = N
      /\ \A i \in 1..N : y[i] = IF i = N + 1 - j THEN e ELSE b[i]
  BY <1>2
<1>5. j \in 1..N
  OBVIOUS
<1> HIDE DEF x, y, N
<1>6. ASSUME NEW i \in 1..N PROVE x[i] = y[i]
  <2>1. N + 1 - i \in 1..N /\ (i = N + 1 - j <=> N + 1 - i = j)
    BY <1>1, <1>5
  <2> QED
    BY <1>1, <1>2, <1>3, <1>4, <2>1
<1>7. x = y
  BY <1>3, <1>4, <1>6, SameSequence
<1> QED
  BY <1>7 DEF w, x, y, b, N

LEMMA WalkBegins ==
  ASSUME Sound, IterInit
  PROVE  Sound' /\ Queue!Abs!StartWalk
<1>1. deque' = deque /\ ret' = Done
  BY DEF IterInit, Return
<1>2. Sound'
  BY <1>1, IterInitStep DEF Sound
<1>3. Queue!Inside' = Queue!Inside
  BY <1>1 DEF Queue!Inside
<1> QED
  BY <1>1, <1>2, <1>3, SameAnswers DEF Queue!Abs!StartWalk

LEMMA WalkGoesOn ==
  ASSUME Sound, IterNext
  PROVE  Sound' /\ Queue!Abs!Walk
<1>1. deque' = deque /\ iter.index \in Nat
  BY DEF IterNext, Sound, DequeInv, Iters
<1>2. Sound'
  BY <1>1, IterNextStep DEF Sound
<1>3. Queue!Inside' = Queue!Inside
  BY <1>1 DEF Queue!Inside
<1>4. CASE ret' = Refused(CC_ITER_END)
  BY <1>2, <1>3, <1>4, SameAnswers DEF Queue!Abs!Walk, Queue!Abs!Refuse
<1>5. CASE ~AtEnd /\ ret' = Got(Element(iter.index))
  <2> DEFINE i == iter.index
             k == deque.size - i
  <2>1. InRange(i) /\ i \in Nat
    <3>1. deque.size \in Nat
      BY HeldIs
    <3> QED
      BY <1>1, <1>5, <3>1 DEF AtEnd, InRange
  <2> HIDE DEF i
  <2>2. k \in 1..Len(Queue!Inside) /\ Queue!Inside[k] = Element(i)
    BY <2>1, PlaceInside
  <2>3. ret' = Queue!Abs!Got(Queue!Inside[k])
    BY <1>5, <2>2, SameAnswers DEF i
  <2> HIDE DEF k
  <2> QED
    BY <1>2, <1>3, <2>2, <2>3 DEF Queue!Abs!Walk
<1> QED
  BY <1>4, <1>5 DEF IterNext, Return

LEMMA QueueReplaceKept ==
  ASSUME Sound, NEW e \in Elements, IterReplace(e)
  PROVE  Sound' /\ Queue!Abs!Replace(e)
<1> DEFINE i == iter.index
<1>1. i \in Nat /\ ReplaceMiddle(e, i)
  BY DEF IterReplace, Sound, DequeInv, Iters
<1> HIDE DEF i
<1>2. Holding(deque') /\ Abs!ReplaceAt(e, i)
  BY <1>1, ReplaceMiddleKept
<1>3. Sound'
  BY <1>2, IterReplaceStep DEF Sound
<1>4. CASE ~InRange(i)
  <2>1. Reject(CC_ERR_OUT_OF_RANGE)
    BY <1>1, <1>4 DEF ReplaceMiddle
  <2> QED
    BY <1>3, <2>1, QueueRefuses, SameAnswers DEF Queue!Abs!Replace, Queue!Abs!Refuse
<1>5. CASE InRange(i)
  <2> DEFINE c == Contents(deque)
             n == deque.size
             k == n - i
             j == i + 1
  <2>1. /\ c \in Seq(Elements) /\ Len(c) = n /\ n \in Nat /\ Holding(deque)
        /\ i < n /\ j \in 1..n /\ n + 1 - j = k /\ ~(i >= n)
    BY <1>1, <1>5, HeldIs DEF InRange
  <2>2. k \in 1..Len(Queue!Inside) /\ Queue!Inside[k] = Element(i)
    BY <1>1, <1>5, PlaceInside
  <2>3. c[j] = Element(i)
    <3>1. j - 1 = i
      BY <1>1
    <3> QED
      BY <2>1, <3>1, HeldIs DEF At, Element
  <2>4. ret' = Got(Element(i)) /\ Contents(deque)' = [c EXCEPT ![j] = e]
    BY <1>2, <2>1, <2>3, SameResults DEF Abs!ReplaceAt
  <2>5. Queue!Inside = Backwards(c) /\ Queue!Inside' = Backwards([c EXCEPT ![j] = e])
    BY <1>2, <2>1, <2>4, InsideNow
  <2> HIDE DEF c, n, j
  <2>6. Backwards([c EXCEPT ![j] = e]) = [Backwards(c) EXCEPT ![n + 1 - j] = e]
    BY <2>1, ReplacedInside
  <2> HIDE DEF k
  <2>7. Queue!Inside' = [Queue!Inside EXCEPT ![k] = e]
    BY <2>1, <2>5, <2>6
  <2>8. ret' = Queue!Abs!Got(Queue!Inside[k])
    BY <2>2, <2>4, SameAnswers
  <2> QED
    BY <1>3, <2>2, <2>7, <2>8 DEF Queue!Abs!Replace
<1> QED
  BY <1>4, <1>5

-----------------------------------------------------------------------------
LEMMA QueueGoesOn ==
  ASSUME Sound, [Queue!Next]_(Queue!vars)
  PROVE  /\ Sound' /\ [Queue!Abs!Next]_(Queue!Abs!vars)
         /\ [Queue!CallsKeepPromise]_(Queue!vars)
<1>1. Queue!CallsKeepPromise
  BY SameCalls, EnqueueKept, PollKept, PeekKept DEF Queue!CallsKeepPromise
<1>2. CASE UNCHANGED Queue!vars
  <2>1. deque' = deque /\ iter' = iter /\ ret' = ret /\ fault' = fault
    BY <1>2 DEF Queue!vars
  <2>2. Sound'
    BY <2>1 DEF Sound, DequeInv, Tight
  <2>3. UNCHANGED Queue!Abs!vars
    BY <2>1 DEF Queue!Abs!vars, Queue!Inside
  <2> QED
    BY <1>1, <2>2, <2>3
<1>3. CASE Queue!Next
  <2>1. ASSUME NEW e \in Elements, Queue!Enqueue(e) \/ Queue!IterReplace(e)
        PROVE  Sound' /\ Queue!Abs!Next
    BY <2>1, SameCalls, EnqueueKept, QueueReplaceKept DEF Queue!Abs!Next
  <2>2. ASSUME Queue!Poll \/ Queue!Peek \/ Queue!IterInit \/ Queue!IterNext
        PROVE  Sound' /\ Queue!Abs!Next
    BY <2>2, SameCalls, PollKept, PeekKept, WalkBegins, WalkGoesOn DEF Queue!Abs!Next
  <2>3. Sound' /\ Queue!Abs!Next
    BY <1>3, <2>1, <2>2 DEF Queue!Next
  <2> QED
    BY <1>1, <2>3
<1> QED
  BY <1>2, <1>3

LEMMA QueueStarts ==
  ASSUME IsPowerOfTwo(InitCapacity), Queue!Init
  PROVE  Sound /\ Queue!Abs!Init
<1>1. Init
  BY SameStart
<1>2. Sound
  BY <1>1, SeqInvStarts DEF SeqInv
<1>3. deque.size = 0 /\ ret = Done
  BY <1>1 DEF Init
<1>4. Queue!Inside = <<>>
  BY <1>2, <1>3, NobodyWaits
<1> QED
  BY <1>2, <1>3, <1>4, SameAnswers DEF Queue!Abs!Init

\* A queue over the deque never loses, repeats or reorders what it was given: poll
\* and peek give the element that was enqueued first of those not yet polled, for
\* any capacity, across every wrap and expansion, and also after elements were
\* replaced through the iterator.
THEOREM QueueIsFifo ==
  ASSUME IsPowerOfTwo(InitCapacity)
  PROVE  Queue!Spec => IsFifo
<1>1. Queue!Init => Sound /\ Queue!Abs!Init
  BY QueueStarts
<1>2. Sound /\ [Queue!Next]_(Queue!vars)
        => /\ Sound' /\ [Queue!Abs!Next]_(Queue!Abs!vars)
           /\ [Queue!CallsKeepPromise]_(Queue!vars)
  BY QueueGoesOn
<1> QED
  BY <1>1, <1>2, PTL DEF Queue!Spec, IsFifo, Queue!IsFifo, Queue!Abs!Spec
-----------------------------------------------------------------------------
\* The heap.  Both ways through it, up from a new leaf and down from the root, are
\* ways on which next[j] comes behind j until it is j, and on which rk falls.

Falls(next, P, rk, N) ==
  /\ next \in [P -> P] /\ rk \in [P -> 0..N]
  /\ \A j \in P : next[j] = j \/ rk[next[j]] < rk[j]

WaysFrom(y, next, P) == [j \in P |-> IF next[j] = j THEN <<j>> ELSE <<j>> \o y[next[j]]]

\* p is the way from j.
IsWay(p, next, P, j) ==
  /\ p \in Seq(P) /\ Len(p) \in Nat /\ Len(p) > 0 /\ p[1] = j
  /\ \A k \in 1..(Len(p) - 1) : next[p[k]] # p[k] /\ p[k + 1] = next[p[k]]
  /\ next[p[Len(p)]] = p[Len(p)]

LEMMA WaysExist ==
  ASSUME NEW N \in Nat, NEW P, NEW next, NEW rk, Falls(next, P, rk, N)
  PROVE  \E y : y = WaysFrom(y, next, P)
<1> DEFINE Y == [P -> Seq(P)]
           E(y) == WaysFrom(y, next, P)
           G == [n \in 0..N |-> {y \in Y : \A j \in P : rk[j] <= n => y[j] = E(y)[j]}]
           Z(y, n) == [j \in P |-> IF rk[j] = n THEN E(y)[j] ELSE y[j]]
           h == [q \in (1..N) \X Y |-> Z(q[2], q[1])]
           x == [j \in P |-> <<j>>]
<1>1. \A j \in P : next[j] \in P /\ rk[j] \in Nat /\ rk[j] <= N
                   /\ (next[j] = j \/ rk[next[j]] < rk[j])
  BY DEF Falls
<1>2. \A y : \A j \in P : E(y)[j] = IF next[j] = j THEN <<j>> ELSE <<j>> \o y[next[j]]
  BY DEF WaysFrom
<1>3. ASSUME NEW y \in Y, NEW j \in P PROVE E(y)[j] \in Seq(P)
  <2>1. y[next[j]] \in Seq(P)
    BY <1>1
  <2>2. <<j>> \in Seq(P) /\ <<j>> \o y[next[j]] \in Seq(P)
    BY <2>1, OnePut
  <2> HIDE DEF E
  <2> QED
    BY <1>2, <2>2
<1>4. x \in G[0]
  <2>1. 0 \in 0..N
    OBVIOUS
  <2>2. x \in Y
    <3>1. \A j \in P : <<j>> \in Seq(P)
      OBVIOUS
    <3> QED
      BY <3>1
  <2>3. ASSUME NEW j \in P, rk[j] <= 0 PROVE x[j] = E(x)[j]
    <3>1. next[j] = j
      BY <1>1, <2>3
    <3> HIDE DEF E
    <3> QED
      BY <1>2, <3>1
  <2> HIDE DEF x, Y, E
  <2> QED
    BY <2>1, <2>2, <2>3
<1>5. ASSUME NEW n \in 1..N, NEW y \in G[n - 1] PROVE h[<<n, y>>] \in G[n]
  <2>1. n - 1 \in 0..N /\ n \in 0..N
    OBVIOUS
  <2>2. y \in Y /\ \A j \in P : rk[j] <= n - 1 => y[j] = E(y)[j]
    <3> HIDE DEF Y, E
    <3> QED
      BY <2>1
  <2> DEFINE z == Z(y, n)
  <2>3. h[<<n, y>>] = z
    <3> HIDE DEF Y, E
    <3> QED
      BY <2>2
  <2>4. z \in Y
    <3> HIDE DEF E
    <3> QED
      BY <1>3, <2>2
  <2>5. \A j \in P : z[j] = IF rk[j] = n THEN E(y)[j] ELSE y[j]
    <3> HIDE DEF E
    <3> QED
      OBVIOUS
  <2> HIDE DEF z, E, Y
  <2>6. ASSUME NEW j \in P, rk[j] <= n PROVE z[j] = E(z)[j]
    <3>1. z[j] = E(y)[j]
      <4>1. rk[j] = n \/ rk[j] <= n - 1
        BY <1>1, <2>6
      <4> QED
        BY <2>2, <2>5, <4>1
    <3>2. /\ E(y)[j] = IF next[j] = j THEN <<j>> ELSE <<j>> \o y[next[j]]
          /\ E(z)[j] = IF next[j] = j THEN <<j>> ELSE <<j>> \o z[next[j]]
      BY <1>2
    <3>3. next[j] = j \/ z[next[j]] = y[next[j]]
      <4>1. next[j] = j \/ (next[j] \in P /\ rk[next[j]] # n)
        BY <1>1, <2>6
      <4> QED
        BY <2>5, <4>1
    <3> QED
      BY <3>1, <3>2, <3>3
  <2>7. z \in G[n]
    BY <2>1, <2>4, <2>6
  <2> QED
    BY <2>3, <2>7
<1> HIDE DEF h, x
<1>6. Leads(h, N, G)
  <2> HIDE DEF G
  <2> QED
    BY <1>5 DEF Leads
<1>7. PICK f : Iterates(f, N, G, x, h)
  <2> HIDE DEF G
  <2> QED
    BY <1>4, <1>6, Recursion
<1> DEFINE w == f[N]
<1>8. w \in G[N]
  <2> HIDE DEF G
  <2>1. N \in 0..N
    OBVIOUS
  <2> QED
    BY <1>7, <2>1 DEF Iterates
<1>9. w \in Y /\ \A j \in P : w[j] = E(w)[j]
  <2>1. N \in 0..N
    OBVIOUS
  <2> HIDE DEF E, Y, w
  <2>2. w \in Y /\ \A j \in P : rk[j] <= N => w[j] = E(w)[j]
    BY <1>8, <2>1
  <2> QED
    BY <1>1, <2>2
<1> HIDE DEF w
<1>10. w = E(w)
  <2>1. w = [j \in P |-> w[j]]
    BY <1>9
  <2>2. E(w) = [j \in P |-> E(w)[j]]
    BY DEF WaysFrom
  <2> HIDE DEF E
  <2> QED
    BY <1>9, <2>1, <2>2
<1> QED
  BY <1>10

LEMMA WayGrows ==
  ASSUME NEW P, NEW next \in [P -> P], NEW j \in P, next[j] # j,
         NEW p, IsWay(p, next, P, next[j])
  PROVE  IsWay(<<j>> \o p, next, P, j)
<1> DEFINE w == <<j>> \o p
           n == Len(p)
<1>1. /\ p \in Seq(P) /\ n \in Nat /\ n > 0 /\ p[1] = next[j]
      /\ \A k \in 1..(n - 1) : next[p[k]] # p[k] /\ p[k + 1] = next[p[k]]
      /\ next[p[n]] = p[n]
  BY DEF IsWay
<1>2. /\ w \in Seq(P) /\ Len(w) = n + 1 /\ w[1] = j
      /\ \A k \in 1..n : w[k + 1] = p[k]
  BY <1>1, OnePut
<1> HIDE DEF w, n
<1>3. ASSUME NEW k \in 1..n PROVE next[w[k]] # w[k] /\ w[k + 1] = next[w[k]]
  <2>1. w[k + 1] = p[k]
    BY <1>2
  <2>2. CASE k = 1
    BY <1>1, <1>2, <2>1, <2>2
  <2>3. CASE k # 1
    <3>1. k - 1 \in 1..(n - 1) /\ k - 1 \in 1..n /\ (k - 1) + 1 = k
      BY <1>1, <2>3
    <3>2. w[k] = p[k - 1]
      BY <1>2, <3>1
    <3>3. next[p[k - 1]] # p[k - 1] /\ p[k] = next[p[k - 1]]
      BY <1>1, <3>1
    <3> QED
      BY <2>1, <3>2, <3>3
  <2> QED
    BY <2>2, <2>3
<1>4. w[n + 1] = p[n]
  <2>1. n \in 1..n
    BY <1>1
  <2> QED
    BY <1>2, <2>1
<1>5. Len(w) - 1 = n /\ Len(w) \in Nat /\ Len(w) > 0
  BY <1>1, <1>2
<1>6. IsWay(w, next, P, j)
  BY <1>1, <1>2, <1>3, <1>4, <1>5 DEF IsWay
<1> QED
  BY <1>6 DEF w

LEMMA WaysAreWays ==
  ASSUME NEW N \in Nat, NEW P, NEW next, NEW rk, Falls(next, P, rk, N),
         NEW y, y = WaysFrom(y, next, P), NEW j \in P
  PROVE  IsWay(y[j], next, P, j)
<1>1. \A i \in P : next[i] \in P /\ rk[i] \in Nat /\ rk[i] <= N
                   /\ (next[i] = i \/ rk[next[i]] < rk[i])
  BY DEF Falls
<1>2. \A i \in P : y[i] = IF next[i] = i THEN <<i>> ELSE <<i>> \o y[next[i]]
  BY DEF WaysFrom
<1>3. ASSUME NEW i \in P, next[i] = i PROVE IsWay(y[i], next, P, i)
  <2>1. y[i] = <<i>>
    BY <1>2, <1>3
  <2>2. <<i>> \in Seq(P) /\ Len(<<i>>) = 1 /\ <<i>>[1] = i
    OBVIOUS
  <2> QED
    BY <1>3, <2>1, <2>2 DEF IsWay
<1> DEFINE A == {n \in 0..N : \A i \in P : rk[i] <= n => IsWay(y[i], next, P, i)}
<1>4. 0 \in A
  <2>1. \A i \in P : rk[i] <= 0 => next[i] = i
    BY <1>1
  <2> QED
    BY <1>3, <2>1
<1>5. ASSUME NEW n \in 1..N, n - 1 \in A PROVE n \in A
  <2>1. ASSUME NEW i \in P, rk[i] <= n, next[i] # i PROVE IsWay(y[i], next, P, i)
    <3>1. next[i] \in P /\ rk[next[i]] <= n - 1
      BY <1>1, <2>1
    <3>2. IsWay(y[next[i]], next, P, next[i])
      BY <1>5, <3>1
    <3>3. y[i] = <<i>> \o y[next[i]]
      BY <1>2, <2>1
    <3>4. next \in [P -> P]
      BY DEF Falls
    <3> DEFINE p == y[next[i]]
    <3> HIDE DEF p, A
    <3>5. IsWay(<<i>> \o p, next, P, i)
      BY <2>1, <3>2, <3>4, WayGrows DEF p
    <3> QED
      BY <3>3, <3>5 DEF p
  <2> QED
    BY <1>3, <2>1
<1> HIDE DEF A
<1>6. 0..N \subseteq A
  BY <1>4, <1>5, Induction
<1>7. N \in A
  BY <1>6
<1> QED
  BY <1>1, <1>7 DEF A

\* No place is passed twice.
NoReturn(p) == \A k, l \in 1..Len(p) : p[k] = p[l] => k = l

LEMMA WayFalls ==
  ASSUME NEW N \in Nat, NEW P, NEW next, NEW rk, Falls(next, P, rk, N),
         NEW j \in P, NEW p, IsWay(p, next, P, j)
  PROVE  /\ NoReturn(p)
         /\ \A k, l \in 1..Len(p) : k < l => rk[p[l]] < rk[p[k]]
<1> DEFINE n == Len(p)
<1>1. \A i \in P : next[i] \in P /\ rk[i] \in Nat
                   /\ (next[i] = i \/ rk[next[i]] < rk[i])
  BY DEF Falls
<1>2. /\ n \in Nat /\ n > 0 /\ \A k \in 1..n : p[k] \in P
      /\ \A k \in 1..(n - 1) : next[p[k]] # p[k] /\ p[k + 1] = next[p[k]]
  BY DEF IsWay
<1> HIDE DEF n
<1> DEFINE A == {m \in 0..(n - 1) : \A k, l \in 1..n : k < l /\ l <= m + 1 => rk[p[l]] < rk[p[k]]}
<1>3. 0 \in A
  BY <1>2
<1>4. ASSUME NEW m \in 1..(n - 1), m - 1 \in A PROVE m \in A
  <2>1. m \in 1..n /\ m + 1 \in 1..n /\ m \in 0..(n - 1)
    BY <1>2
  <2>2. rk[p[m + 1]] < rk[p[m]]
    BY <1>1, <1>2, <2>1
  <2>3. \A k, l \in 1..n : k < l /\ l <= m => rk[p[l]] < rk[p[k]]
    BY <1>4
  <2>4. ASSUME NEW k \in 1..n, NEW l \in 1..n, k < l, l <= m + 1 PROVE rk[p[l]] < rk[p[k]]
    <3>1. CASE l <= m
      BY <2>3, <2>4, <3>1
    <3>2. CASE l = m + 1 /\ k = m
      BY <2>2, <3>2
    <3>3. CASE l = m + 1 /\ k # m
      <4>1. k < m
        BY <2>1, <2>4, <3>3
      <4>2. rk[p[m]] < rk[p[k]]
        BY <2>1, <2>3, <4>1
      <4>3. rk[p[m]] \in Nat /\ rk[p[k]] \in Nat /\ rk[p[l]] \in Nat
        BY <1>1, <1>2, <2>1
      <4> QED
        BY <2>2, <3>3, <4>2, <4>3
    <3> QED
      BY <2>1, <2>4, <3>1, <3>2, <3>3
  <2> QED
    BY <2>1, <2>4
<1> HIDE DEF A
<1>5. n - 1 \in Nat /\ n - 1 \in 0..(n - 1)
  BY <1>2
<1>6. 0..(n - 1) \subseteq A
  <2> DEFINE d == n - 1
  <2>1. d \in Nat /\ 0 \in A /\ \A m \in 1..d : m - 1 \in A => m \in A
    BY <1>3, <1>4, <1>5
  <2> HIDE DEF d
  <2>2. 0..d \subseteq A
    BY <2>1, Induction
  <2> QED
    BY <2>2 DEF d
<1>7. ASSUME NEW k \in 1..n, NEW l \in 1..n, k < l PROVE rk[p[l]] < rk[p[k]]
  <2>1. n - 1 \in A
    BY <1>5, <1>6
  <2>2. l <= (n - 1) + 1
    BY <1>2
  <2> QED
    BY <1>7, <2>1, <2>2 DEF A
<1>8. ASSUME NEW k \in 1..n, NEW l \in 1..n, p[k] = p[l] PROVE k = l
  <2>1. rk[p[k]] \in Nat
    BY <1>1, <1>2
  <2>2. ~(k < l) /\ ~(l < k)
    BY <1>7, <1>8, <2>1
  <2> QED
    BY <2>2
<1> QED
  BY <1>7, <1>8 DEF NoReturn, n

-----------------------------------------------------------------------------
\* What moves along a way, and what is counted

\* c is b after the first element of the way went to its end.
Shifted(c, b, p) ==
  /\ c = [s \in DOMAIN b |-> c[s]]
  /\ c[p[Len(p)]] = b[p[1]]
  /\ \A k \in 1..(Len(p) - 1) : c[p[k]] = b[p[k + 1]]
  /\ \A s \in DOMAIN b : (\A k \in 1..Len(p) : p[k] # s) => c[s] = b[s]

LEMMA AlongShifts ==
  ASSUME NEW P, NEW p \in Seq(P), Len(p) > 0, NoReturn(p), NEW b, P \subseteq DOMAIN b
  PROVE  Shifted(PQueue!Along(b, p), b, p)
<1> DEFINE n == Len(p)
           c == PQueue!Along(b, p)
           on(s) == {k \in 1..(n - 1) : p[k] = s}
<1>1. n \in Nat /\ n > 0 /\ n \in 1..n /\ \A k \in 1..n : p[k] \in DOMAIN b
  OBVIOUS
<1>2. /\ c = [s \in DOMAIN b |-> c[s]]
      /\ \A s \in DOMAIN b :
           c[s] = IF s = p[n] THEN b[p[1]]
                  ELSE IF on(s) = {} THEN b[s] ELSE b[p[(CHOOSE k \in on(s) : TRUE) + 1]]
  BY DEF PQueue!Along
<1>3. \A k, l \in 1..n : p[k] = p[l] => k = l
  BY DEF NoReturn
<1> HIDE DEF c, n
<1>4. c[p[n]] = b[p[1]]
  BY <1>1, <1>2
<1>5. ASSUME NEW k \in 1..(n - 1) PROVE c[p[k]] = b[p[k + 1]]
  <2>1. k \in 1..n /\ p[k] # p[n]
    BY <1>1, <1>3
  <2>2. on(p[k]) = {k}
    <3>1. \A l \in 1..(n - 1) : l \in 1..n
      BY <1>1
    <3> QED
      BY <1>3, <2>1, <3>1
  <2> HIDE DEF on
  <2>3. (CHOOSE l \in on(p[k]) : TRUE) = k
    BY <2>2
  <2> QED
    BY <1>1, <1>2, <2>1, <2>2, <2>3
<1>6. ASSUME NEW s \in DOMAIN b, \A k \in 1..n : p[k] # s PROVE c[s] = b[s]
  <2>1. on(s) = {} /\ s # p[n]
    <3>1. \A l \in 1..(n - 1) : l \in 1..n
      BY <1>1
    <3> QED
      BY <1>1, <1>6, <3>1
  <2> HIDE DEF on
  <2> QED
    BY <1>2, <2>1
<1> QED
  BY <1>2, <1>4, <1>5, <1>6 DEF Shifted, c, n

\* The first n places hold the same in b and in c, f[s] being where c[s] was.
Rearranges(f, c, b, n) ==
  /\ f \in [0..(n - 1) -> 0..(n - 1)]
  /\ \A s, t \in 0..(n - 1) : f[s] = f[t] => s = t
  /\ \A t \in 0..(n - 1) : \E s \in 0..(n - 1) : f[s] = t
  /\ \A s \in 0..(n - 1) : c[s] = b[f[s]]

LEMMA ShiftRearranges ==
  ASSUME NEW n \in Nat, NEW p \in Seq(0..(n - 1)), Len(p) > 0, NoReturn(p),
         NEW b, 0..(n - 1) \subseteq DOMAIN b, NEW c, Shifted(c, b, p)
  PROVE  \E f : Rearranges(f, c, b, n)
<1> DEFINE P == 0..(n - 1)
           m == Len(p)
           on(s) == {k \in 1..(m - 1) : p[k] = s}
           f == [s \in P |-> IF s = p[m] THEN p[1]
                             ELSE IF on(s) = {} THEN s ELSE p[(CHOOSE k \in on(s) : TRUE) + 1]]
<1>1. m \in Nat /\ m > 0 /\ m \in 1..m /\ 1 \in 1..m /\ \A k \in 1..m : p[k] \in P
  OBVIOUS
<1>2. \A k, l \in 1..m : p[k] = p[l] => k = l
  BY DEF NoReturn
<1>20. \A k \in 1..(m - 1) : k \in 1..m /\ k + 1 \in 1..m /\ k # m
  BY <1>1
<1> HIDE DEF m, P
<1>3. f[p[m]] = p[1]
  BY <1>1
<1>4. ASSUME NEW k \in 1..(m - 1) PROVE f[p[k]] = p[k + 1]
  <2>1. k \in 1..m /\ p[k] # p[m] /\ p[k] \in P
    BY <1>1, <1>2, <1>20
  <2>2. on(p[k]) = {k}
    BY <1>2, <1>20, <2>1
  <2> HIDE DEF on
  <2>3. (CHOOSE l \in on(p[k]) : TRUE) = k
    BY <2>2
  <2> QED
    BY <2>1, <2>2, <2>3
<1>5. ASSUME NEW s \in P, \A k \in 1..m : p[k] # s PROVE f[s] = s
  <2>1. on(s) = {} /\ s # p[m]
    BY <1>1, <1>5, <1>20
  <2> HIDE DEF on
  <2> QED
    BY <2>1
<1> HIDE DEF f
<1>6. f = [s \in P |-> f[s]]
  BY DEF f
<1>7. ASSUME NEW s \in P
      PROVE  \/ s = p[m] \/ (\E k \in 1..(m - 1) : s = p[k])
             \/ \A k \in 1..m : p[k] # s
  <2>1. \A k \in 1..m : k = m \/ k \in 1..(m - 1)
    BY <1>1
  <2> QED
    BY <2>1
<1>8. ASSUME NEW s \in P PROVE f[s] \in P
  <2>1. CASE s = p[m]
    BY <1>1, <1>3, <2>1
  <2>2. ASSUME NEW k \in 1..(m - 1), s = p[k] PROVE f[s] \in P
    BY <1>1, <1>4, <1>20, <2>2
  <2>3. CASE \A k \in 1..m : p[k] # s
    BY <1>5, <2>3
  <2> QED
    BY <1>7, <2>1, <2>2, <2>3
<1>9. ASSUME NEW s \in P, NEW t \in P, f[s] = f[t] PROVE s = t
  <2>1. ASSUME NEW k \in 1..m, s = p[k], NEW l \in 1..m, t = p[l] PROVE s = t
    <3>1. \A i \in 1..m : i = m \/ i \in 1..(m - 1)
      BY <1>1
    <3>2. CASE k = m /\ l = m
      BY <2>1, <3>2
    <3>3. CASE k = m /\ l \in 1..(m - 1)
      <4>1. p[1] = p[l + 1] /\ l + 1 \in 1..m /\ l + 1 # 1
        BY <1>3, <1>4, <1>9, <1>20, <2>1, <3>3
      <4> QED
        BY <1>1, <1>2, <4>1
    <3>4. CASE l = m /\ k \in 1..(m - 1)
      <4>1. p[1] = p[k + 1] /\ k + 1 \in 1..m /\ k + 1 # 1
        BY <1>3, <1>4, <1>9, <1>20, <2>1, <3>4
      <4> QED
        BY <1>1, <1>2, <4>1
    <3>5. CASE k \in 1..(m - 1) /\ l \in 1..(m - 1)
      <4>1. p[k + 1] = p[l + 1] /\ k + 1 \in 1..m /\ l + 1 \in 1..m
        BY <1>4, <1>9, <1>20, <2>1, <3>5
      <4>2. k + 1 = l + 1
        BY <1>2, <4>1
      <4>3. k = l
        BY <4>2
      <4> QED
        BY <2>1, <4>3
    <3> QED
      BY <3>1, <3>2, <3>3, <3>4, <3>5
  <2>2. ASSUME NEW k \in 1..m PROVE \E l \in 1..m : f[p[k]] = p[l]
    <3>1. k = m \/ k \in 1..(m - 1)
      BY <1>1
    <3> QED
      BY <1>1, <1>3, <1>4, <1>20, <3>1
  <2>3. CASE \A k \in 1..m : p[k] # s /\ p[k] # t
    BY <1>5, <1>9, <2>3
  <2>4. CASE (\E k \in 1..m : p[k] = s) /\ (\A k \in 1..m : p[k] # t)
    <3>1. f[t] = t
      BY <1>5, <2>4
    <3>2. \E l \in 1..m : f[s] = p[l]
      BY <2>2, <2>4
    <3> QED
      BY <1>9, <2>4, <3>1, <3>2
  <2>5. CASE (\E k \in 1..m : p[k] = t) /\ (\A k \in 1..m : p[k] # s)
    <3>1. f[s] = s
      BY <1>5, <2>5
    <3>2. \E l \in 1..m : f[t] = p[l]
      BY <2>2, <2>5
    <3> QED
      BY <1>9, <2>5, <3>1, <3>2
  <2> QED
    BY <2>1, <2>3, <2>4, <2>5
<1>10. ASSUME NEW t \in P PROVE \E s \in P : f[s] = t
  <2>1. CASE \A k \in 1..m : p[k] # t
    BY <1>5, <2>1
  <2>2. ASSUME NEW k \in 1..m, p[k] = t PROVE \E s \in P : f[s] = t
    <3>1. CASE k = 1
      BY <1>1, <1>3, <2>2, <3>1
    <3>2. CASE k # 1
      <4>1. k - 1 \in 1..(m - 1) /\ (k - 1) + 1 = k
        BY <1>1, <3>2
      <4>2. f[p[k - 1]] = p[k] /\ p[k - 1] \in P
        BY <1>1, <1>4, <1>20, <4>1
      <4> QED
        BY <2>2, <4>2
    <3> QED
      BY <3>1, <3>2
  <2> QED
    BY <2>1, <2>2
<1>11. ASSUME NEW s \in P PROVE c[s] = b[f[s]]
  <2>1. /\ c[p[m]] = b[p[1]] /\ \A k \in 1..(m - 1) : c[p[k]] = b[p[k + 1]]
        /\ \A x \in P : (\A k \in 1..m : p[k] # x) => c[x] = b[x]
    BY DEF Shifted, m, P
  <2>2. CASE s = p[m]
    BY <1>3, <2>1, <2>2
  <2>3. ASSUME NEW k \in 1..(m - 1), s = p[k] PROVE c[s] = b[f[s]]
    BY <1>4, <2>1, <2>3
  <2>4. CASE \A k \in 1..m : p[k] # s
    BY <1>5, <2>1, <2>4
  <2> QED
    BY <1>7, <2>2, <2>3, <2>4
<1>12. Rearranges(f, c, b, n)
  BY <1>6, <1>8, <1>9, <1>10, <1>11 DEF Rearranges, P
<1> QED
  BY <1>12

Count(b, n, e) == Cardinality({s \in 0..(n - 1) : b[s] = e})

LEMMA CountKept ==
  ASSUME NEW n \in Nat, NEW f, NEW b, NEW c, Rearranges(f, c, b, n), NEW e
  PROVE  Count(c, n, e) = Count(b, n, e)
<1> DEFINE P == 0..(n - 1)
           T == {s \in P : c[s] = e}
           U == {s \in P : b[s] = e}
           g == [s \in T |-> f[s]]
<1>1. /\ f \in [P -> P] /\ \A s, t \in P : f[s] = f[t] => s = t
      /\ \A t \in P : \E s \in P : f[s] = t
      /\ \A s \in P : c[s] = b[f[s]]
  BY DEF Rearranges
<1>2. IsFiniteSet(P)
  BY FS_Interval
<1> HIDE DEF P
<1>3. IsFiniteSet(T)
  BY <1>2, FS_Subset
<1>4. \A s \in T : s \in P /\ f[s] \in U /\ g[s] = f[s]
  BY <1>1
<1>5. g \in [T -> U]
  BY <1>4
<1>6. \A s, t \in T : g[s] = g[t] => s = t
  BY <1>1, <1>4
<1>7. ASSUME NEW u \in U PROVE \E s \in T : g[s] = u
  <2>1. PICK s \in P : f[s] = u
    BY <1>1
  <2>2. s \in T
    BY <1>1, <2>1
  <2> QED
    BY <1>4, <2>1, <2>2
<1> HIDE DEF T, U, g
<1>8. Cardinality(U) = Cardinality(T)
  BY <1>3, <1>5, <1>6, <1>7, SameCount
<1> QED
  BY <1>8 DEF Count, T, U, P

LEMMA CountIsNat ==
  ASSUME NEW n \in Nat, NEW b, NEW e
  PROVE  /\ Count(b, n, e) \in Nat
         /\ Count(b, n, e) = 0 <=> \A s \in 0..(n - 1) : b[s] # e
<1> DEFINE P == 0..(n - 1)
           T == {s \in P : b[s] = e}
<1>1. IsFiniteSet(P)
  BY FS_Interval
<1> HIDE DEF P
<1>2. IsFiniteSet(T)
  BY <1>1, FS_Subset
<1>3. T = {} <=> \A s \in P : b[s] # e
  OBVIOUS
<1> HIDE DEF T
<1>4. Cardinality(T) \in Nat /\ (Cardinality(T) = 0 <=> T = {})
  BY <1>2, FS_CardinalityType, FS_EmptySet
<1> QED
  BY <1>3, <1>4 DEF Count, T, P

LEMMA CountOneMore ==
  ASSUME NEW n \in Nat, NEW b, NEW e
  PROVE  Count(b, n + 1, e) = IF b[n] = e THEN Count(b, n, e) + 1 ELSE Count(b, n, e)
<1> DEFINE P == 0..(n - 1)
           T == {s \in P : b[s] = e}
           U == {s \in 0..((n + 1) - 1) : b[s] = e}
<1>1. IsFiniteSet(P) /\ n \notin P /\ 0..((n + 1) - 1) = P \cup {n}
  BY FS_Interval
<1> HIDE DEF P
<1>2. IsFiniteSet(T) /\ n \notin T
  BY <1>1, FS_Subset
<1>3. U = IF b[n] = e THEN T \cup {n} ELSE T
  BY <1>1
<1> HIDE DEF T, U
<1>4. Cardinality(T \cup {n}) = Cardinality(T) + 1
  BY <1>2, FS_AddElement
<1>5. Cardinality(U) = IF b[n] = e THEN Cardinality(T) + 1 ELSE Cardinality(T)
  BY <1>3, <1>4
<1> QED
  BY <1>5 DEF Count, T, U, P

-----------------------------------------------------------------------------
\* Order in the heap

Above(s) == PQueue!CC_PARENT(s)

LEMMA Parents ==
  /\ Above(0) = 0
  /\ \A s \in Nat \ {0} : Above(s) \in Nat /\ Above(s) < s
  /\ \A s \in Nat \ {0} : \A q \in Nat : Above(s) = q <=> s = 2 * q + 1 \/ s = 2 * q + 2
<1>1. \A s \in Nat \ {0} : Above(s) = (s - 1) \div 2
  BY DEF Above, PQueue!CC_PARENT
<1>2. \A r \in Nat : r \div 2 \in Nat /\ r \div 2 <= r
                     /\ \A q \in Nat : r \div 2 = q <=> r = 2 * q \/ r = 2 * q + 1
  OBVIOUS
<1>3. ASSUME NEW s \in Nat \ {0}
      PROVE  /\ Above(s) \in Nat /\ Above(s) < s
             /\ \A q \in Nat : Above(s) = q <=> s = 2 * q + 1 \/ s = 2 * q + 2
  <2> DEFINE r == s - 1
  <2>1. r \in Nat /\ s = r + 1
    OBVIOUS
  <2>2. Above(s) = r \div 2
    BY <1>1
  <2> HIDE DEF r
  <2> DEFINE h == r \div 2
  <2>3. /\ h \in Nat /\ h <= r
        /\ \A q \in Nat : h = q <=> r = 2 * q \/ r = 2 * q + 1
    BY <1>2, <2>1
  <2>4. Above(s) = h
    BY <2>2
  <2> HIDE DEF h
  <2>5. ASSUME NEW q \in Nat PROVE h = q <=> s = 2 * q + 1 \/ s = 2 * q + 2
    <3>1. h = q <=> r = 2 * q \/ r = 2 * q + 1
      BY <2>3
    <3>2. r = 2 * q <=> s = 2 * q + 1
      BY <2>1
    <3>3. r = 2 * q + 1 <=> s = 2 * q + 2
      BY <2>1
    <3> QED
      BY <3>1, <3>2, <3>3
  <2>6. h < s
    BY <2>1, <2>3
  <2> QED
    BY <2>3, <2>4, <2>5, <2>6
<1>4. Above(0) = 0
  BY DEF Above, PQueue!CC_PARENT
<1> QED
  BY <1>3, <1>4

\* The first n places hold elements, none of which outranks the one above it.
Ordered(b, n) == \A s \in 1..(n - 1) : Rank[b[s]] <= Rank[b[Above(s)]]
Filled(b, n)  == \A s \in 0..(n - 1) : b[s] \in Ranked

LEMMA RootIsGreatest ==
  ASSUME NEW n \in Nat, NEW b, Filled(b, n), Ordered(b, n), NEW s \in 0..(n - 1)
  PROVE  Rank[b[s]] <= Rank[b[0]]
<1> DEFINE N == n - 1
           A == {k \in 0..N : \A r \in 0..k : Rank[b[r]] <= Rank[b[0]]}
<1>1. N \in Nat /\ \A r \in 0..N : Rank[b[r]] \in Int
  BY HeapConstants DEF Filled
<1>2. \A r \in 1..N : Rank[b[r]] <= Rank[b[Above(r)]]
  BY DEF Ordered
<1> HIDE DEF N
<1>3. 0 \in A
  <2>1. 0 \in 0..N /\ 0..0 = {0}
    BY <1>1
  <2> QED
    BY <1>1, <2>1
<1>4. ASSUME NEW k \in 1..N, k - 1 \in A PROVE k \in A
  <2>1. k \in 0..N /\ \A r \in 0..(k - 1) : Rank[b[r]] <= Rank[b[0]]
    BY <1>1, <1>4
  <2>2. Above(k) \in 0..(k - 1)
    <3>1. Above(k) \in Nat /\ Above(k) < k
      BY <1>1, Parents
    <3> DEFINE q == Above(k)
    <3> HIDE DEF q
    <3>2. q \in 0..(k - 1)
      BY <1>1, <3>1 DEF q
    <3> QED
      BY <3>2 DEF q
  <2>3. Rank[b[Above(k)]] <= Rank[b[0]] /\ Rank[b[k]] <= Rank[b[Above(k)]]
    BY <1>2, <2>1, <2>2
  <2>4. Rank[b[Above(k)]] \in Int /\ Rank[b[k]] \in Int /\ Rank[b[0]] \in Int
    <3>1. Above(k) \in 0..N /\ 0 \in 0..N
      BY <1>1, <2>2
    <3> QED
      BY <1>1, <2>1, <3>1
  <2>5. Rank[b[k]] <= Rank[b[0]]
    BY <2>3, <2>4
  <2>6. \A r \in 0..k : r = k \/ r \in 0..(k - 1)
    BY <1>1
  <2> QED
    BY <2>1, <2>5, <2>6
<1> HIDE DEF A
<1>5. 0..N \subseteq A
  BY <1>1, <1>3, <1>4, Induction
<1>6. N \in A /\ s \in 0..N
  BY <1>1, <1>5 DEF N
<1> QED
  BY <1>6 DEF A

-----------------------------------------------------------------------------
\* The way up

UpWay(b, i) ==
  [j \in 0..i |-> IF j # 0 /\ Rank[b[i]] > Rank[b[Above(j)]] THEN Above(j) ELSE j]

LEMMA WayUpIs ==
  ASSUME NEW i \in Nat, NEW b
  PROVE  /\ Falls(UpWay(b, i), 0..i, [j \in 0..i |-> j], i)
         /\ IsWay(PQueue!WayUp(b, i), UpWay(b, i), 0..i, i)
<1> DEFINE P == 0..i
           next == UpWay(b, i)
           rk == [j \in P |-> j]
           L(f) == [j \in 0..i |->
                      IF j # 0 /\ PQueue!Outranks(b[i], b[PQueue!CC_PARENT(j)])
                      THEN <<j>> \o f[PQueue!CC_PARENT(j)] ELSE <<j>>]
           way == CHOOSE f : f = L(f)
<1>1. PQueue!WayUp(b, i) = way[i]
  BY DEF PQueue!WayUp
<1>2. ASSUME NEW j \in P, j # 0 PROVE Above(j) \in P /\ Above(j) < j /\ Above(j) # j
  <2>1. j \in Nat \ {0} /\ j <= i
    BY <1>2
  <2>2. Above(j) \in Nat /\ Above(j) < j
    BY <2>1, Parents
  <2> DEFINE q == Above(j)
  <2> HIDE DEF q
  <2>3. q \in P /\ q < j /\ q # j
    BY <2>1, <2>2 DEF q
  <2> QED
    BY <2>3 DEF q
<1>3. \A j \in P : next[j] = IF j # 0 /\ Rank[b[i]] > Rank[b[Above(j)]] THEN Above(j) ELSE j
  BY DEF UpWay
<1>4. DOMAIN next = P /\ next = [j \in P |-> next[j]]
  BY DEF UpWay
<1> HIDE DEF next
<1>5. Falls(next, P, rk, i)
  <2>1. \A j \in P : next[j] \in P /\ rk[j] = j /\ rk[j] \in 0..i
    BY <1>2, <1>3
  <2>2. ASSUME NEW j \in P PROVE next[j] = j \/ rk[next[j]] < rk[j]
    BY <1>2, <1>3, <2>1
  <2>3. next \in [P -> P] /\ rk \in [P -> 0..i]
    BY <1>4, <2>1
  <2> HIDE DEF rk, P
  <2> QED
    BY <2>2, <2>3 DEF Falls
<1>6. \A f : L(f) = WaysFrom(f, next, P)
  <2>1. ASSUME NEW f, NEW j \in P
        PROVE  L(f)[j] = IF next[j] = j THEN <<j>> ELSE <<j>> \o f[next[j]]
    <3>1. L(f)[j] = IF j # 0 /\ Rank[b[i]] > Rank[b[Above(j)]]
                    THEN <<j>> \o f[Above(j)] ELSE <<j>>
      BY DEF PQueue!Outranks, Above
    <3> HIDE DEF L
    <3> QED
      BY <1>2, <1>3, <3>1
  <2>2. \A f : L(f) = [j \in P |-> L(f)[j]]
    OBVIOUS
  <2> HIDE DEF L, P
  <2> QED
    BY <2>1, <2>2 DEF WaysFrom
<1> HIDE DEF L
<1>7. PICK y : y = WaysFrom(y, next, P)
  <2> HIDE DEF P, rk
  <2> QED
    BY <1>5, WaysExist
<1>8. y = L(y)
  BY <1>6, <1>7
<1>9. way = L(way)
  BY <1>8
<1> HIDE DEF way
<1>10. way = WaysFrom(way, next, P)
  BY <1>6, <1>9
<1>11. IsWay(way[i], next, P, i)
  <2>1. i \in P
    OBVIOUS
  <2> HIDE DEF P, rk
  <2> QED
    BY <1>5, <1>10, <2>1, WaysAreWays
<1> QED
  BY <1>1, <1>5, <1>11 DEF next

LEMMA PushedUp ==
  ASSUME NEW n \in Nat, NEW b, 0..n \subseteq DOMAIN b, Filled(b, n + 1), Ordered(b, n),
         NEW c, c = PQueue!Along(b, PQueue!WayUp(b, n))
  PROVE  /\ Ordered(c, n + 1) /\ c = [s \in DOMAIN b |-> c[s]]
         /\ \E f : Rearranges(f, c, b, n + 1)
<1> DEFINE p == PQueue!WayUp(b, n)
           P == 0..n
           m == Len(p)
           e == b[n]
<1>1. Falls(UpWay(b, n), P, [j \in P |-> j], n) /\ IsWay(p, UpWay(b, n), P, n)
  BY WayUpIs
<1>2. /\ NoReturn(p)
      /\ \A k, l \in 1..m : k < l => p[l] < p[k]
  <2> DEFINE rk == [j \in P |-> j]
  <2>1. n \in P /\ \A k \in 1..m : p[k] \in P /\ rk[p[k]] = p[k]
    <3>1. p \in Seq(P)
      BY <1>1 DEF IsWay
    <3> QED
      BY <3>1
  <2> HIDE DEF p, P, rk
  <2>2. /\ NoReturn(p)
        /\ \A k, l \in 1..m : k < l => rk[p[l]] < rk[p[k]]
    BY <1>1, <2>1, WayFalls DEF rk
  <2> QED
    BY <2>1, <2>2
<1>3. /\ p \in Seq(P) /\ m \in Nat /\ m > 0 /\ p[1] = n
      /\ \A k \in 1..(m - 1) : UpWay(b, n)[p[k]] # p[k] /\ p[k + 1] = UpWay(b, n)[p[k]]
      /\ UpWay(b, n)[p[m]] = p[m]
  BY <1>1 DEF IsWay
<1>4. \A k \in 1..m : p[k] \in P
  BY <1>3
<1>5. \A j \in P : UpWay(b, n)[j] = IF j # 0 /\ Rank[e] > Rank[b[Above(j)]] THEN Above(j) ELSE j
  BY DEF UpWay
<1>6. Shifted(c, b, p)
  <2>1. p \in Seq(P) /\ Len(p) > 0 /\ NoReturn(p) /\ P \subseteq DOMAIN b
    BY <1>2, <1>3
  <2> HIDE DEF p, P
  <2>2. Shifted(PQueue!Along(b, p), b, p)
    BY <2>1, AlongShifts
  <2> QED
    BY <2>2 DEF p
<1>7. \E f : Rearranges(f, c, b, n + 1)
  <2>1. n + 1 \in Nat /\ (n + 1) - 1 = n
    OBVIOUS
  <2> HIDE DEF p
  <2>2. p \in Seq(0..((n + 1) - 1)) /\ Len(p) > 0 /\ 0..((n + 1) - 1) \subseteq DOMAIN b
    BY <1>3, <2>1
  <2> QED
    BY <1>2, <1>6, <2>1, <2>2, ShiftRearranges
<1> HIDE DEF p, m
<1>8. \A s \in P : b[s] \in Ranked /\ Rank[b[s]] \in Int
  <2>1. (n + 1) - 1 = n
    OBVIOUS
  <2> QED
    BY <2>1, HeapConstants DEF Filled
<1>9. \A s \in 1..(n - 1) : Rank[b[s]] <= Rank[b[Above(s)]]
  BY DEF Ordered
<1>10. ASSUME NEW s \in P, s # 0 PROVE Above(s) \in P /\ Above(s) < s
  <2>1. s \in Nat \ {0} /\ s <= n
    BY <1>10
  <2> DEFINE q == Above(s)
  <2>2. q \in Nat /\ q < s
    BY <2>1, Parents
  <2> HIDE DEF q
  <2>3. q \in P /\ q < s
    BY <2>1, <2>2
  <2> QED
    BY <2>3 DEF q
<1>11. ASSUME NEW k \in 1..(m - 1)
       PROVE  /\ p[k] # 0 /\ p[k + 1] = Above(p[k]) /\ Rank[e] > Rank[b[p[k + 1]]]
              /\ k \in 1..m /\ k + 1 \in 1..m
  <2>1. k \in 1..m /\ k + 1 \in 1..m
    BY <1>3
  <2>2. UpWay(b, n)[p[k]] # p[k] /\ p[k + 1] = UpWay(b, n)[p[k]] /\ p[k] \in P
    BY <1>3, <1>4, <2>1
  <2> QED
    BY <1>5, <2>1, <2>2
<1>12. m \in 1..m /\ p[m] \in P /\ (p[m] = 0 \/ ~(Rank[e] > Rank[b[Above(p[m])]]))
  <2>1. m \in 1..m /\ p[m] \in P
    BY <1>3, <1>4
  <2>2. p[m] # 0 => Above(p[m]) # p[m]
    BY <1>10, <2>1
  <2> QED
    BY <1>3, <1>5, <2>1, <2>2
<1>13. /\ c[p[m]] = e
       /\ \A k \in 1..(m - 1) : c[p[k]] = b[p[k + 1]]
       /\ \A s \in P : (\A k \in 1..m : p[k] # s) => c[s] = b[s]
  BY <1>3, <1>6 DEF Shifted, m
<1>14. ASSUME NEW s \in 1..n PROVE Rank[c[s]] <= Rank[c[Above(s)]]
  <2> DEFINE q == Above(s)
  <2>1. s \in P /\ s # 0 /\ q \in P /\ q < s
    <3>1. s \in P /\ s # 0
      OBVIOUS
    <3> QED
      BY <1>10, <3>1
  <2>2. q \in 0..(n - 1) /\ q # n
    <3> HIDE DEF q
    <3> QED
      BY <2>1
  <2>3. CASE s = p[m]
    \* The place of the new element: above it there is one that it does not outrank.
    <3>1. ASSUME NEW k \in 1..m PROVE p[k] # q
      <4>1. k = m \/ k < m
        BY <1>3
      <4>2. k < m => p[m] < p[k]
        BY <1>2, <1>12
      <4>3. p[k] \in Int /\ s \in Int /\ q \in Int
        BY <1>4, <2>1
      <4> HIDE DEF q
      <4> QED
        BY <2>1, <2>3, <4>1, <4>2, <4>3
    <3>2. c[q] = b[q] /\ c[s] = e
      BY <1>13, <2>1, <2>3, <3>1
    <3>3. ~(Rank[e] > Rank[b[q]])
      BY <1>12, <2>1, <2>3
    <3>4. Rank[e] \in Int /\ Rank[b[q]] \in Int
      BY <1>8, <2>1
    <3> HIDE DEF q
    <3> QED
      BY <3>2, <3>3, <3>4 DEF q
  <2>4. ASSUME NEW k \in 1..(m - 1), s = p[k] PROVE Rank[c[s]] <= Rank[c[q]]
    <3>1. q = p[k + 1] /\ Rank[e] > Rank[b[q]] /\ c[s] = b[q] /\ k + 1 \in 1..m
      BY <1>11, <1>13, <2>4
    <3>2. Rank[e] \in Int /\ Rank[b[q]] \in Int
      BY <1>8, <2>1
    <3>3. CASE k + 1 = m
      <4>1. c[q] = e
        BY <1>13, <3>1, <3>3
      <4> QED
        BY <3>1, <3>2, <4>1
    <3>4. CASE k + 1 # m
      <4>1. k + 1 \in 1..(m - 1)
        BY <1>3, <3>1, <3>4
      <4>2. q # 0 /\ c[q] = b[Above(q)]
        BY <1>11, <1>13, <3>1, <4>1
      <4>3. q \in 1..(n - 1)
        BY <2>2, <4>2
      <4> QED
        BY <1>9, <3>1, <4>2, <4>3
    <3> QED
      BY <3>3, <3>4
  <2>5. CASE \A k \in 1..m : p[k] # s
    <3>1. s \in 1..(n - 1)
      <4>1. 1 \in 1..m
        BY <1>3
      <4>2. s # n
        BY <1>3, <2>5, <4>1
      <4> QED
        BY <4>2
    <3>2. c[s] = b[s] /\ Rank[b[s]] <= Rank[b[q]]
      BY <1>9, <1>13, <2>1, <2>5, <3>1
    <3>3. Rank[b[s]] \in Int /\ Rank[b[q]] \in Int /\ Rank[e] \in Int
      BY <1>8, <2>1
    <3>4. CASE \A k \in 1..m : p[k] # q
      BY <1>13, <2>1, <3>2, <3>4
    <3>5. CASE q = p[m]
      <4>1. m - 1 \in 1..(m - 1) /\ (m - 1) + 1 = m
        <5>1. m # 1
          BY <1>3, <2>2, <3>5
        <5> QED
          BY <1>3, <5>1
      <4>2. Rank[e] > Rank[b[q]]
        BY <1>11, <3>5, <4>1
      <4>3. c[q] = e
        BY <1>13, <3>5
      <4> HIDE DEF q
      <4>4. Rank[b[s]] <= Rank[e]
        BY <3>2, <3>3, <4>2
      <4> QED
        BY <3>2, <4>3, <4>4 DEF q
    <3>6. ASSUME NEW k \in 1..(m - 1), q = p[k] PROVE Rank[c[s]] <= Rank[c[q]]
      <4>1. q # 0 /\ c[q] = b[Above(q)]
        BY <1>11, <1>13, <3>6
      <4>2. q \in 1..(n - 1)
        BY <2>2, <4>1
      <4>3. Rank[b[q]] <= Rank[b[Above(q)]]
        BY <1>9, <4>2
      <4>4. Rank[b[Above(q)]] \in Int
        BY <1>8, <1>10, <2>1, <4>1
      <4> DEFINE r == Rank[b[Above(q)]]
      <4> HIDE DEF q, r
      <4>5. Rank[b[s]] <= r
        BY <3>2, <3>3, <4>3, <4>4 DEF r
      <4> QED
        BY <3>2, <4>1, <4>5 DEF r
    <3>7. \A k \in 1..m : k = m \/ k \in 1..(m - 1)
      BY <1>3
    <3> QED
      BY <3>4, <3>5, <3>6, <3>7
  <2>6. \A k \in 1..m : k = m \/ k \in 1..(m - 1)
    BY <1>3
  <2> QED
    BY <2>3, <2>4, <2>5, <2>6
<1>15. Ordered(c, n + 1)
  <2>1. (n + 1) - 1 = n
    OBVIOUS
  <2> QED
    BY <1>14, <2>1 DEF Ordered
<1>16. c = [s \in DOMAIN b |-> c[s]]
  BY <1>6 DEF Shifted
<1> QED
  BY <1>7, <1>15, <1>16

-----------------------------------------------------------------------------
\* The way down

LEMMA LargerIs ==
  ASSUME NEW n \in Nat, NEW b, Filled(b, n), NEW j \in 0..(n - 1), NEW e \in Ranked,
         NEW r, r = PQueue!Larger(b, n, e, j)
  PROVE  \/ /\ r = j
            /\ \A t \in 1..(n - 1) : Above(t) = j => Rank[b[t]] <= Rank[e]
         \/ /\ r \in 1..(n - 1) /\ Above(r) = j /\ r > j /\ Rank[b[r]] > Rank[e]
            /\ \A t \in 1..(n - 1) : Above(t) = j => Rank[b[t]] <= Rank[b[r]]
<1> DEFINE x == 2 * j + 1
           y == 2 * j + 2
           goLeft == x < n /\ Rank[b[x]] > Rank[e]
           best == IF goLeft THEN b[x] ELSE e
<1>1. /\ x \in Nat /\ y \in Nat /\ x > j /\ y > j /\ x # 0 /\ y # 0
      /\ j \in Nat
  OBVIOUS
<1>2. r = IF y < n /\ Rank[b[y]] > Rank[best] THEN y ELSE IF goLeft THEN x ELSE j
  BY DEF PQueue!Larger, PQueue!CC_LEFT, PQueue!CC_RIGHT, PQueue!Outranks
<1>3. ASSUME NEW t \in 1..(n - 1) PROVE Above(t) = j <=> t = x \/ t = y
  <2>1. t \in Nat \ {0}
    OBVIOUS
  <2> QED
    BY <1>1, <2>1, Parents
<1>4. ASSUME NEW t \in {x, y}, t < n PROVE t \in 1..(n - 1) /\ Above(t) = j /\ t > j
  <2>1. t \in 1..(n - 1) /\ t > j
    BY <1>1, <1>4
  <2> QED
    BY <1>3, <2>1
<1>5. \A t \in 1..(n - 1) : t < n /\ Rank[b[t]] \in Int
  BY HeapConstants DEF Filled
<1>6. Rank[e] \in Int
  BY HeapConstants
<1> HIDE DEF x, y
<1>7. (x < n => Rank[b[x]] \in Int) /\ (y < n => Rank[b[y]] \in Int)
  BY <1>4, <1>5
<1>8. Rank[best] = (IF goLeft THEN Rank[b[x]] ELSE Rank[e])
  OBVIOUS
<1> HIDE DEF best
<1>9. CASE y < n /\ Rank[b[y]] > Rank[best]
  <2>1. r = y
    BY <1>2, <1>9
  <2>2. Rank[b[y]] > Rank[e] /\ (x < n => Rank[b[x]] <= Rank[b[y]])
    BY <1>6, <1>7, <1>8, <1>9
  <2>3. \A t \in 1..(n - 1) : Above(t) = j => Rank[b[t]] <= Rank[b[y]]
    BY <1>3, <1>5, <1>7, <1>9, <2>2
  <2> QED
    BY <1>4, <1>9, <2>1, <2>2, <2>3
<1>10. CASE ~(y < n /\ Rank[b[y]] > Rank[best]) /\ goLeft
  <2>1. r = x
    BY <1>2, <1>10
  <2>2. y < n => Rank[b[y]] <= Rank[b[x]]
    BY <1>7, <1>8, <1>10
  <2>3. \A t \in 1..(n - 1) : Above(t) = j => Rank[b[t]] <= Rank[b[x]]
    BY <1>3, <1>5, <1>7, <1>10, <2>2
  <2> QED
    BY <1>4, <1>10, <2>1, <2>3
<1>11. CASE ~(y < n /\ Rank[b[y]] > Rank[best]) /\ ~goLeft
  <2>1. r = j
    BY <1>2, <1>11
  <2>2. (x < n => Rank[b[x]] <= Rank[e]) /\ (y < n => Rank[b[y]] <= Rank[e])
    BY <1>6, <1>7, <1>8, <1>11
  <2>3. \A t \in 1..(n - 1) : Above(t) = j => Rank[b[t]] <= Rank[e]
    BY <1>3, <1>5, <2>2
  <2> QED
    BY <2>1, <2>3
<1> QED
  BY <1>9, <1>10, <1>11

DownWay(b, n) == [j \in 0..(n - 1) |-> PQueue!Larger(b, n, b[0], j)]

LEMMA WayDownIs ==
  ASSUME NEW n \in Nat, n > 1, NEW b, Filled(b, n)
  PROVE  /\ Falls(DownWay(b, n), 0..(n - 1), [j \in 0..(n - 1) |-> n - 1 - j], n - 1)
         /\ IsWay(PQueue!WayDown(b, n), DownWay(b, n), 0..(n - 1), 0)
<1> DEFINE N == n - 1
           P == 0..N
           next == DownWay(b, n)
           rk == [j \in P |-> n - 1 - j]
           L(f) == [j \in PQueue!Slots(n) |->
                      LET k == PQueue!Larger(b, n, b[0], j)
                      IN  IF k = j THEN <<j>> ELSE <<j>> \o f[k]]
           way == CHOOSE f : f = L(f)
<1>1. PQueue!WayDown(b, n) = way[0]
  BY DEF PQueue!WayDown
<1>2. N \in Nat /\ 0 \in P /\ b[0] \in Ranked
  BY DEF Filled
<1>3. ASSUME NEW j \in P
      PROVE  /\ next[j] = PQueue!Larger(b, n, b[0], j)
             /\ next[j] \in P /\ (next[j] = j \/ next[j] > j)
  <2>1. next[j] = PQueue!Larger(b, n, b[0], j)
    BY DEF DownWay
  <2> DEFINE r == next[j]
  <2>2. r = PQueue!Larger(b, n, b[0], j) /\ j \in 0..(n - 1)
    BY <2>1
  <2> HIDE DEF r, P, N
  <2>3. r = j \/ (r \in 1..(n - 1) /\ r > j)
    BY <1>2, <2>2, LargerIs
  <2>4. r \in P
    BY <2>3 DEF P, N
  <2> QED
    BY <2>1, <2>3, <2>4 DEF r
<1>4. DOMAIN next = P /\ next = [j \in P |-> next[j]]
  BY DEF DownWay
<1> HIDE DEF next
<1>5. Falls(next, P, rk, N)
  <2>1. \A j \in P : next[j] \in P /\ rk[j] = n - 1 - j /\ rk[j] \in 0..N
    BY <1>3
  <2>2. ASSUME NEW j \in P PROVE next[j] = j \/ rk[next[j]] < rk[j]
    BY <1>3, <2>1
  <2>3. next \in [P -> P] /\ rk \in [P -> 0..N]
    BY <1>4, <2>1
  <2> HIDE DEF rk, P
  <2> QED
    BY <2>2, <2>3 DEF Falls
<1>6. \A f : L(f) = WaysFrom(f, next, P)
  <2>1. ASSUME NEW f, NEW j \in P
        PROVE  L(f)[j] = IF next[j] = j THEN <<j>> ELSE <<j>> \o f[next[j]]
    <3>1. L(f)[j] = LET k == PQueue!Larger(b, n, b[0], j)
                    IN  IF k = j THEN <<j>> ELSE <<j>> \o f[k]
      BY DEF PQueue!Slots
    <3> HIDE DEF L
    <3> QED
      BY <1>3, <3>1
  <2>2. \A f : L(f) = [j \in P |-> L(f)[j]]
    BY DEF PQueue!Slots
  <2> HIDE DEF L, P
  <2> QED
    BY <2>1, <2>2 DEF WaysFrom
<1> HIDE DEF L
<1>7. PICK y : y = WaysFrom(y, next, P)
  <2> HIDE DEF P, rk, N
  <2> QED
    BY <1>2, <1>5, WaysExist
<1>8. y = L(y)
  BY <1>6, <1>7
<1>9. way = L(way)
  BY <1>8
<1> HIDE DEF way
<1>10. way = WaysFrom(way, next, P)
  BY <1>6, <1>9
<1>11. IsWay(way[0], next, P, 0)
  <2> HIDE DEF P, rk, N
  <2> QED
    BY <1>2, <1>5, <1>10, WaysAreWays
<1> QED
  BY <1>1, <1>5, <1>11 DEF next

\* A heap but for its root.
Headless(b, n) == \A s \in 1..(n - 1) : Above(s) # 0 => Rank[b[s]] <= Rank[b[Above(s)]]

LEMMA SunkDown ==
  ASSUME NEW n \in Nat, n > 1, NEW b, 0..(n - 1) \subseteq DOMAIN b, Filled(b, n),
         Headless(b, n), NEW c, c = PQueue!Along(b, PQueue!WayDown(b, n))
  PROVE  /\ Ordered(c, n) /\ c = [s \in DOMAIN b |-> c[s]]
         /\ \A s \in DOMAIN b : s \notin 0..(n - 1) => c[s] = b[s]
         /\ \E f : Rearranges(f, c, b, n)
<1> DEFINE p == PQueue!WayDown(b, n)
           P == 0..(n - 1)
           N == n - 1
           m == Len(p)
           e == b[0]
           next == DownWay(b, n)
           rk == [j \in P |-> n - 1 - j]
<1>1. Falls(next, P, rk, N) /\ IsWay(p, next, P, 0)
  BY WayDownIs
<1>2. NoReturn(p)
  <2>1. 0 \in P /\ N \in Nat
    OBVIOUS
  <2> HIDE DEF p, P, rk, next, N
  <2> QED
    BY <1>1, <2>1, WayFalls
<1>3. /\ p \in Seq(P) /\ m \in Nat /\ m > 0 /\ p[1] = 0
      /\ \A k \in 1..(m - 1) : next[p[k]] # p[k] /\ p[k + 1] = next[p[k]]
      /\ next[p[m]] = p[m]
  BY <1>1 DEF IsWay
<1>4. \A k \in 1..m : p[k] \in P
  BY <1>3
<1>5. Shifted(c, b, p)
  <2>1. p \in Seq(P) /\ Len(p) > 0 /\ NoReturn(p) /\ P \subseteq DOMAIN b
    BY <1>2, <1>3
  <2> HIDE DEF p, P
  <2>2. Shifted(PQueue!Along(b, p), b, p)
    BY <2>1, AlongShifts
  <2> QED
    BY <2>2 DEF p
<1>6. \E f : Rearranges(f, c, b, n)
  <2> HIDE DEF p
  <2>1. p \in Seq(0..(n - 1)) /\ Len(p) > 0
    BY <1>3
  <2> QED
    BY <1>2, <1>5, <2>1, ShiftRearranges
<1>7. \A k, l \in 1..m : p[k] = p[l] => k = l
  BY <1>2 DEF NoReturn
<1>8. \A s \in P : b[s] \in Ranked /\ Rank[b[s]] \in Int
  BY HeapConstants DEF Filled
<1>9. e \in Ranked /\ Rank[e] \in Int
  <2>1. 0 \in P
    OBVIOUS
  <2> QED
    BY <1>8, <2>1
<1>10. \A j \in P : next[j] = PQueue!Larger(b, n, e, j)
  BY DEF DownWay
<1> HIDE DEF p, m, next, rk, e
<1>11. ASSUME NEW j \in P
       PROVE  \/ /\ next[j] = j
                 /\ \A t \in 1..N : Above(t) = j => Rank[b[t]] <= Rank[e]
              \/ /\ next[j] \in 1..N /\ Above(next[j]) = j /\ next[j] > j
                 /\ Rank[b[next[j]]] > Rank[e]
                 /\ \A t \in 1..N : Above(t) = j => Rank[b[t]] <= Rank[b[next[j]]]
  <2> DEFINE r == next[j]
  <2>1. r = PQueue!Larger(b, n, e, j)
    BY <1>10
  <2> HIDE DEF r
  <2>2. \/ /\ r = j
           /\ \A t \in 1..(n - 1) : Above(t) = j => Rank[b[t]] <= Rank[e]
        \/ /\ r \in 1..(n - 1) /\ Above(r) = j /\ r > j /\ Rank[b[r]] > Rank[e]
           /\ \A t \in 1..(n - 1) : Above(t) = j => Rank[b[t]] <= Rank[b[r]]
    BY <1>9, <2>1, LargerIs
  <2> QED
    BY <2>2 DEF r
<1>12. ASSUME NEW k \in 1..(m - 1)
       PROVE  /\ k \in 1..m /\ k + 1 \in 1..m /\ p[k + 1] \in 1..N /\ Above(p[k + 1]) = p[k]
              /\ Rank[b[p[k + 1]]] > Rank[e]
              /\ \A t \in 1..N : Above(t) = p[k] => Rank[b[t]] <= Rank[b[p[k + 1]]]
  <2>1. k \in 1..m /\ k + 1 \in 1..m
    BY <1>3
  <2>2. next[p[k]] # p[k] /\ p[k + 1] = next[p[k]] /\ p[k] \in P
    BY <1>3, <1>4, <2>1
  <2> HIDE DEF P, N
  <2> QED
    BY <1>11, <2>1, <2>2
<1>13. /\ m \in 1..m /\ p[m] \in P
       /\ \A t \in 1..N : Above(t) = p[m] => Rank[b[t]] <= Rank[e]
  <2>1. m \in 1..m /\ p[m] \in P /\ next[p[m]] = p[m]
    BY <1>3, <1>4
  <2>2. ~(next[p[m]] > p[m])
    BY <2>1
  <2> HIDE DEF P, N
  <2> QED
    BY <1>11, <2>1, <2>2
<1>14. /\ c[p[m]] = e
       /\ \A k \in 1..(m - 1) : c[p[k]] = b[p[k + 1]]
       /\ \A s \in DOMAIN b : (\A k \in 1..m : p[k] # s) => c[s] = b[s]
  BY <1>3, <1>5 DEF Shifted, m, e
<1>15. \A k \in 1..m : k = m \/ k \in 1..(m - 1)
  BY <1>3
<1>16. ASSUME NEW s \in 1..N PROVE s \in P /\ Above(s) \in P /\ s \in DOMAIN b /\ Above(s) \in DOMAIN b
  <2>1. s \in Nat \ {0} /\ s <= n - 1 /\ s \in P
    OBVIOUS
  <2> DEFINE q == Above(s)
  <2>2. q \in Nat /\ q < s
    BY <2>1, Parents
  <2> HIDE DEF q
  <2>3. q \in P
    BY <2>1, <2>2
  <2> QED
    BY <2>1, <2>3 DEF q
\* The way comes to a place only from the place above it.
<1>17. ASSUME NEW s \in 1..N, NEW l \in 1..m, p[l] = s
       PROVE  l - 1 \in 1..(m - 1) /\ p[l - 1] = Above(s) /\ l = (l - 1) + 1
  <2>1. l # 1
    <3>1. s # 0
      OBVIOUS
    <3> QED
      BY <1>3, <1>17, <3>1
  <2>2. l - 1 \in 1..(m - 1) /\ l = (l - 1) + 1
    BY <1>3, <2>1
  <2> QED
    BY <1>12, <1>17, <2>2
<1>18. ASSUME NEW s \in 1..N PROVE Rank[c[s]] <= Rank[c[Above(s)]]
  <2> DEFINE q == Above(s)
  <2>1. s \in P /\ q \in P /\ s \in DOMAIN b /\ q \in DOMAIN b
    BY <1>16
  <2> HIDE DEF P, N
  <2>2. CASE \A k \in 1..m : p[k] # q
    <3>1. \A k \in 1..m : p[k] # s
      <4>1. ASSUME NEW k \in 1..m, p[k] = s PROVE FALSE
        <5>1. k - 1 \in 1..(m - 1) /\ p[k - 1] = q
          BY <1>17, <4>1
        <5> QED
          BY <1>12, <2>2, <5>1
      <4> QED
        BY <4>1
    <3>2. c[s] = b[s] /\ c[q] = b[q]
      BY <1>14, <2>1, <2>2, <3>1
    <3>3. q # 0
      <4>1. 1 \in 1..m
        BY <1>3
      <4> QED
        BY <1>3, <2>2, <4>1
    <3> QED
      BY <3>2, <3>3 DEF Headless, N
  <2>3. CASE q = p[m]
    <3>1. \A k \in 1..m : p[k] # s
      <4>1. ASSUME NEW k \in 1..m, p[k] = s PROVE FALSE
        <5>1. k - 1 \in 1..(m - 1) /\ p[k - 1] = q /\ k - 1 \in 1..m
          BY <1>12, <1>17, <4>1
        <5>2. k - 1 = m
          BY <1>7, <1>13, <2>3, <5>1
        <5> QED
          BY <5>2
      <4> QED
        BY <4>1
    <3>2. c[s] = b[s] /\ c[q] = e
      BY <1>14, <2>1, <2>3, <3>1
    <3> QED
      BY <1>13, <2>3, <3>2
  <2>4. ASSUME NEW k \in 1..(m - 1), q = p[k] PROVE Rank[c[s]] <= Rank[c[q]]
    <3> DEFINE r == p[k + 1]
    <3>1. /\ k \in 1..m /\ k + 1 \in 1..m /\ r \in 1..N /\ Above(r) = q
          /\ Rank[b[r]] > Rank[e] /\ Rank[b[s]] <= Rank[b[r]] /\ c[q] = b[r]
      BY <1>12, <1>14, <2>4
    <3>2. Rank[b[r]] \in Int
      BY <1>8, <1>16, <3>1
    <3>3. CASE s = r /\ k + 1 = m
      <4>1. c[s] = e
        BY <1>14, <3>3
      <4> HIDE DEF r
      <4>2. Rank[e] <= Rank[b[r]]
        BY <1>9, <3>1, <3>2
      <4> QED
        BY <3>1, <4>1, <4>2
    <3>4. CASE s = r /\ k + 1 # m
      <4> DEFINE i == k + 1
                 t == p[i + 1]
      <4>1. i \in 1..(m - 1)
        BY <1>15, <3>1, <3>4
      <4>2. t \in 1..N /\ Above(t) = s /\ c[s] = b[t]
        BY <1>12, <1>14, <3>4, <4>1
      <4>3. s # 0
        BY DEF N
      <4> HIDE DEF t
      <4>4. Rank[b[t]] <= Rank[b[s]]
        BY <4>2, <4>3 DEF Headless, N
      <4> QED
        BY <3>1, <3>4, <4>2, <4>4
    <3>5. CASE s # r
      <4>1. ASSUME NEW l \in 1..m, p[l] = s PROVE FALSE
        <5>1. l - 1 \in 1..(m - 1) /\ p[l - 1] = q /\ l - 1 \in 1..m /\ l = (l - 1) + 1
          BY <1>12, <1>17, <4>1
        <5>2. l - 1 = k
          BY <1>7, <2>4, <3>1, <5>1
        <5>3. l = k + 1
          BY <5>1, <5>2
        <5> QED
          BY <3>5, <4>1, <5>3
      <4>2. c[s] = b[s]
        BY <1>14, <2>1, <4>1
      <4> QED
        BY <3>1, <4>2
    <3> QED
      BY <3>3, <3>4, <3>5
  <2> QED
    BY <1>15, <2>2, <2>3, <2>4
<1>19. \A s \in DOMAIN b : s \notin P => c[s] = b[s]
  BY <1>4, <1>14
<1>20. c = [s \in DOMAIN b |-> c[s]]
  BY <1>5 DEF Shifted
<1>21. Ordered(c, n)
  BY <1>18 DEF Ordered
<1> QED
  BY <1>6, <1>19, <1>20, <1>21

-----------------------------------------------------------------------------
\* The invariant of the heap

Heap(q) ==
  /\ q = [size |-> q.size, capacity |-> q.capacity, buffer |-> q.buffer]
  /\ q.size \in Nat /\ q.capacity \in Nat /\ q.size <= q.capacity
  /\ \E m \in Nat : /\ q.buffer = [s \in 0..(m - 1) |-> q.buffer[s]]
                     /\ q.size <= m /\ m <= MaxElements
  /\ Filled(q.buffer, q.size) /\ Ordered(q.buffer, q.size)

LEMMA SameHeapAnswers ==
  /\ PQueue!Done = PQueue!Abs!Done
  /\ \A e : PQueue!Got(e) = PQueue!Abs!Got(e)
  /\ \A st : PQueue!Refused(st) = PQueue!Abs!Refused(st)
  /\ PQueue!CC_ERR_ALLOC = PQueue!Abs!CC_ERR_ALLOC
  /\ PQueue!CC_ERR_MAX_CAPACITY = PQueue!Abs!CC_ERR_MAX_CAPACITY
  /\ PQueue!CC_ERR_OUT_OF_RANGE = PQueue!Abs!CC_ERR_OUT_OF_RANGE
BY DEF PQueue!Done, PQueue!Got, PQueue!Refused, PQueue!Result, PQueue!CC_OK,
       PQueue!Abs!Done, PQueue!Abs!Got, PQueue!Abs!Refused, PQueue!Abs!Result,
       PQueue!Abs!CC_OK, PQueue!CC_ERR_ALLOC, PQueue!Abs!CC_ERR_ALLOC,
       PQueue!CC_ERR_MAX_CAPACITY, PQueue!Abs!CC_ERR_MAX_CAPACITY,
       PQueue!CC_ERR_OUT_OF_RANGE, PQueue!Abs!CC_ERR_OUT_OF_RANGE

LEMMA SameCardinality == \A S : PQueue!Cardinality(S) = Cardinality(S)
BY Zenon DEF PQueue!Cardinality, Cardinality, PQueue!IsFiniteSet, IsFiniteSet

LEMMA HeapCounts ==
  /\ PQueue!Inside = [e \in Ranked |-> Count(pqueue.buffer, pqueue.size, e)]
  /\ PQueue!Inside' = [e \in Ranked |-> Count(pqueue'.buffer, pqueue'.size, e)]
<1> DEFINE I(n, b, e) == {s \in PQueue!Slots(n) : b[s] = e}
<1>1. \A n, b, e : PQueue!Cardinality(I(n, b, e)) = Count(b, n, e)
  BY SameCardinality DEF PQueue!Slots, Count
<1>2. PQueue!Inside = [e \in Ranked |-> PQueue!Cardinality(I(pqueue.size, pqueue.buffer, e))]
  BY DEF PQueue!Inside
<1>3. PQueue!Inside' = [e \in Ranked |-> PQueue!Cardinality(I(pqueue'.size, pqueue'.buffer, e))]
  BY DEF PQueue!Inside
<1> HIDE DEF I
<1> QED
  BY <1>1, <1>2, <1>3

\* The root holds one of those that no other outranks.
LEMMA GreatestIs ==
  ASSUME Heap(pqueue)
  PROVE  /\ pqueue.size = 0 => PQueue!Abs!Greatest = {}
         /\ pqueue.size # 0 => pqueue.buffer[0] \in PQueue!Abs!Greatest
<1> DEFINE n == pqueue.size
           b == pqueue.buffer
           K(e) == Count(b, n, e)
<1>1. n \in Nat /\ Filled(b, n) /\ Ordered(b, n)
  BY DEF Heap
<1> HIDE DEF n, b
<1>2. \A e : K(e) \in Nat /\ (K(e) = 0 <=> \A s \in 0..(n - 1) : b[s] # e)
  BY <1>1, CountIsNat
<1> HIDE DEF K
<1>3. PQueue!Abs!Greatest =
        {e \in Ranked : K(e) > 0 /\ \A f \in Ranked : K(f) > 0 => Rank[f] <= Rank[e]}
  <2>1. PQueue!Inside = [e \in Ranked |-> K(e)]
    BY HeapCounts DEF K, n, b
  <2> QED
    BY <2>1 DEF PQueue!Abs!Greatest
<1>4. CASE n = 0
  <2>1. \A e \in Ranked : ~(K(e) > 0)
    BY <1>2, <1>4
  <2> QED
    BY <1>3, <1>4, <2>1 DEF n
<1>5. CASE n # 0
  <2>1. 0 \in 0..(n - 1) /\ b[0] \in Ranked
    BY <1>1, <1>5 DEF Filled
  <2>2. K(b[0]) > 0
    BY <1>2, <2>1
  <2>3. ASSUME NEW f \in Ranked, K(f) > 0 PROVE Rank[f] <= Rank[b[0]]
    <3>1. PICK s \in 0..(n - 1) : b[s] = f
      BY <1>2, <2>3
    <3> QED
      BY <1>1, <3>1, RootIsGreatest
  <2> QED
    BY <1>3, <1>5, <2>1, <2>2, <2>3 DEF n, b
<1> QED
  BY <1>4, <1>5

LEMMA OrderStays ==
  ASSUME NEW n \in Nat, NEW b, NEW c, \A s \in 0..(n - 1) : b[s] = c[s], Ordered(b, n)
  PROVE  Ordered(c, n)
<1>1. ASSUME NEW s \in 1..(n - 1) PROVE Above(s) \in 0..(n - 1)
  <2>1. s \in Nat \ {0} /\ s <= n - 1
    OBVIOUS
  <2> DEFINE q == Above(s)
  <2>2. q \in Nat /\ q < s
    BY <2>1, Parents
  <2> HIDE DEF q
  <2>3. q \in 0..(n - 1)
    BY <2>1, <2>2
  <2> QED
    BY <2>3 DEF q
<1> QED
  BY <1>1 DEF Ordered

LEMMA StaysFilled ==
  ASSUME NEW n \in Nat, NEW f, NEW b, NEW c, Rearranges(f, c, b, n), Filled(b, n)
  PROVE  Filled(c, n)
BY DEF Rearranges, Filled

LEMMA StoreKept ==
  ASSUME Heap(pqueue), NEW e \in Ranked, NEW c \in Nat, pqueue.size < c,
         NEW m \in Nat, m <= MaxElements, NEW b, b = [s \in 0..(m - 1) |-> b[s]],
         \A s \in 0..(pqueue.size - 1) : b[s] = pqueue.buffer[s], PQueue!Store(e, c, b)
  PROVE  \/ strayed' = TRUE /\ UNCHANGED <<pqueue, top>>
         \/ /\ Heap(pqueue') /\ top' = PQueue!Done
            /\ PQueue!Inside' = [PQueue!Inside EXCEPT ![e] = @ + 1]
<1> DEFINE n == pqueue.size
           st == [b EXCEPT ![n] = e]
           w == PQueue!Along(st, PQueue!WayUp(st, n))
<1>1. /\ n \in Nat /\ Filled(pqueue.buffer, n) /\ Ordered(pqueue.buffer, n) /\ n < c
      /\ \A s \in 0..(n - 1) : b[s] = pqueue.buffer[s]
      /\ DOMAIN b = 0..(m - 1)
  BY DEF Heap
<1>2. CASE n \notin DOMAIN b
  BY <1>2 DEF PQueue!Store, PQueue!Crash
<1>3. CASE n \in DOMAIN b
  <2>1. /\ pqueue' = [size |-> n + 1, capacity |-> c, buffer |-> w]
        /\ top' = PQueue!Done
    BY <1>3 DEF PQueue!Store, PQueue!Return
  <2> HIDE DEF n, w
  <2>2. n \in 0..(m - 1) /\ 0..n \subseteq 0..(m - 1) /\ n + 1 <= m
    BY <1>1, <1>3
  <2>3. /\ DOMAIN st = 0..(m - 1) /\ st[n] = e
        /\ \A s \in 0..(n - 1) : st[s] = pqueue.buffer[s]
    <3>1. DOMAIN st = DOMAIN b /\ st[n] = e /\ \A s \in DOMAIN b : s # n => st[s] = b[s]
      BY <1>1, <2>2
    <3>2. \A s \in 0..(n - 1) : s \in 0..(m - 1) /\ s # n
      BY <1>1, <2>2
    <3> HIDE DEF st
    <3> QED
      BY <1>1, <3>1, <3>2
  <2> HIDE DEF st
  <2>4. Filled(st, n + 1) /\ Ordered(st, n)
    <3>1. \A s \in 0..((n + 1) - 1) : s = n \/ s \in 0..(n - 1)
      BY <1>1
    <3> QED
      BY <1>1, <2>3, <3>1, OrderStays DEF Filled
  <2>5. /\ Ordered(w, n + 1) /\ w = [s \in DOMAIN st |-> w[s]]
        /\ \E f : Rearranges(f, w, st, n + 1)
    <3>1. 0..n \subseteq DOMAIN st
      BY <2>2, <2>3
    <3> QED
      BY <1>1, <2>4, <3>1, PushedUp DEF w
  <2>6. PICK f : Rearranges(f, w, st, n + 1)
    BY <2>5
  <2>7. Filled(w, n + 1)
    <3>1. n + 1 \in Nat
      BY <1>1
    <3> QED
      BY ONLY <2>4, <2>6, <3>1, StaysFilled
  <2>8. Heap(pqueue')
    <3>1. pqueue'.size = n + 1 /\ pqueue'.capacity = c /\ pqueue'.buffer = w
      BY <2>1
    <3>2. w = [s \in 0..(m - 1) |-> w[s]]
      BY <2>3, <2>5
    <3>3. n + 1 \in Nat /\ n + 1 <= c
      BY <1>1
    <3> QED
      BY <2>1, <2>2, <2>5, <2>7, <3>1, <3>2, <3>3 DEF Heap
  <2>9. ASSUME NEW g \in Ranked
        PROVE  Count(w, n + 1, g) = IF g = e THEN Count(pqueue.buffer, n, g) + 1
                                    ELSE Count(pqueue.buffer, n, g)
    <3>1. Count(w, n + 1, g) = Count(st, n + 1, g)
      BY <1>1, <2>6, CountKept
    <3> DEFINE old == pqueue.buffer
    <3>2. \A s \in 0..(n - 1) : st[s] = old[s]
      BY <2>3
    <3> HIDE DEF old
    <3>3. Count(st, n, g) = Count(old, n, g)
      <4>1. {s \in 0..(n - 1) : st[s] = g} = {s \in 0..(n - 1) : old[s] = g}
        BY <3>2
      <4> QED
        BY <4>1 DEF Count
    <3> QED
      BY <1>1, <2>3, <3>1, <3>3, CountOneMore DEF old
  <2>10. PQueue!Inside' = [PQueue!Inside EXCEPT ![e] = @ + 1]
    <3>1. PQueue!Inside = [g \in Ranked |-> Count(pqueue.buffer, n, g)]
      BY HeapCounts DEF n
    <3>2. PQueue!Inside' = [g \in Ranked |-> Count(w, n + 1, g)]
      BY <2>1, HeapCounts
    <3> QED
      BY <2>9, <3>1, <3>2
  <2> QED
    BY <2>1, <2>8, <2>10
<1> QED
  BY <1>2, <1>3

LEMMA Grows ==
  ASSUME Heap(pqueue), pqueue.capacity # MaxElements
  PROVE  /\ PQueue!GreaterCapacity \in Nat
         /\ \/ PQueue!GreaterCapacity > pqueue.capacity
            \/ PQueue!GreaterCapacity = MaxElements
<1> DEFINE k == pqueue.capacity
           x == k * ExpNum
           n == x \div ExpDen
<1>1. k \in Nat /\ ExpNum \in Nat /\ ExpDen \in Nat \ {0} /\ MaxElements \in Nat
  BY HeapConstants DEF Heap
<1>2. PQueue!GreaterCapacity = IF n <= k THEN MaxElements ELSE n
  BY DEF PQueue!GreaterCapacity
<1> HIDE DEF k
<1>3. x \in Int
  BY <1>1
<1> HIDE DEF x
<1>4. n \in Int
  BY <1>1, <1>3
<1> HIDE DEF n
<1> QED
  BY <1>1, <1>2, <1>4 DEF k

\* What a call of the heap does to the heap, unless it strays.
Goes(A) == Heap(pqueue') /\ ((strayed' = TRUE /\ UNCHANGED <<pqueue, top>>) \/ A)

LEMMA HeapRefuses ==
  ASSUME NEW st, PQueue!Refuse(st)
  PROVE  /\ pqueue' = pqueue /\ PQueue!Inside' = PQueue!Inside
         /\ top' = PQueue!Refused(st)
<1>1. pqueue' = pqueue /\ top' = PQueue!Refused(st)
  BY DEF PQueue!Refuse, PQueue!Return
<1> QED
  BY <1>1 DEF PQueue!Inside

LEMMA HeapPushKept ==
  ASSUME Heap(pqueue), NEW e \in Ranked, PQueue!Push(e)
  PROVE  Goes(PQueue!Abs!Push(e))
<1> DEFINE n == pqueue.size
           k == pqueue.capacity
           G == PQueue!GreaterCapacity
           More == PQueue!Inside' = [PQueue!Inside EXCEPT ![e] = @ + 1] /\ top' = PQueue!Done
<1>1. /\ n \in Nat /\ k \in Nat /\ n <= k
      /\ pqueue = [size |-> n, capacity |-> k, buffer |-> pqueue.buffer]
      /\ \E m \in Nat : /\ pqueue.buffer = [s \in 0..(m - 1) |-> pqueue.buffer[s]]
                         /\ n <= m /\ m <= MaxElements
  BY DEF Heap
<1>2. More => PQueue!Abs!Push(e)
  BY SameHeapAnswers DEF PQueue!Abs!Push
<1> HIDE DEF More, n, k, G
<1>3. CASE n < k /\ PQueue!Store(e, k, pqueue.buffer)
  <2>1. PICK m \in Nat : /\ pqueue.buffer = [s \in 0..(m - 1) |-> pqueue.buffer[s]]
                          /\ m <= MaxElements
    BY <1>1
  <2> DEFINE b == pqueue.buffer
  <2>2. /\ b = [s \in 0..(m - 1) |-> b[s]] /\ \A s \in 0..(pqueue.size - 1) : b[s] = pqueue.buffer[s]
        /\ PQueue!Store(e, k, b) /\ pqueue.size < k /\ m <= MaxElements
    BY <1>3, <2>1 DEF n
  <2> HIDE DEF b
  <2>3. \/ strayed' = TRUE /\ UNCHANGED <<pqueue, top>>
        \/ Heap(pqueue') /\ More
    BY <1>1, <2>2, StoreKept DEF More
  <2>4. UNCHANGED <<pqueue, top>> => Heap(pqueue')
    OBVIOUS
  <2> QED
    BY <1>2, <2>3, <2>4 DEF Goes
<1>4. CASE PQueue!Refuse(PQueue!CC_ERR_MAX_CAPACITY)
  <2>1. pqueue' = pqueue /\ PQueue!Inside' = PQueue!Inside
        /\ top' = PQueue!Refused(PQueue!CC_ERR_MAX_CAPACITY)
    BY <1>4, HeapRefuses
  <2>2. PQueue!Abs!Push(e)
    BY <2>1, SameHeapAnswers DEF PQueue!Abs!Push, PQueue!Abs!Refuse
  <2> QED
    BY <2>1, <2>2 DEF Goes
\* The capacity of a refused expansion is one the buffer does not have.
<1>5. CASE /\ k # MaxElements /\ n >= k
           /\ pqueue' = [pqueue EXCEPT !.capacity = G]
           /\ top' = PQueue!Refused(PQueue!CC_ERR_ALLOC)
  <2>1. pqueue'.size = n /\ pqueue'.buffer = pqueue.buffer /\ pqueue'.capacity = G
    BY <1>1, <1>5 DEF n
  <2>2. PQueue!Inside' = PQueue!Inside
    BY <2>1, HeapCounts DEF n
  <2>3. PQueue!Abs!Push(e)
    BY <1>5, <2>2, SameHeapAnswers DEF PQueue!Abs!Push, PQueue!Abs!Refuse
  <2>4. pqueue' = [size |-> n, capacity |-> G, buffer |-> pqueue.buffer]
    BY <1>1, <1>5
  <2>5. G \in Nat /\ (G > k \/ G = MaxElements)
    BY <1>5, Grows DEF k, G
  <2>6. n <= G
    BY <1>1, <2>5, HeapConstants
  <2>7. Heap(pqueue')
    <3>1. /\ \E m \in Nat : /\ pqueue.buffer = [s \in 0..(m - 1) |-> pqueue.buffer[s]]
                             /\ n <= m /\ m <= MaxElements
          /\ Filled(pqueue.buffer, n) /\ Ordered(pqueue.buffer, n)
      BY DEF Heap, n
    <3> DEFINE x == pqueue'
               b == pqueue.buffer
    <3>2. x.size = n /\ x.buffer = b /\ x.capacity = G
      BY <2>1
    <3>3. x = [size |-> n, capacity |-> G, buffer |-> b]
      BY <2>4
    <3> HIDE DEF x
    <3>4. Heap(x)
      BY <1>1, <2>5, <2>6, <3>1, <3>2, <3>3 DEF Heap
    <3> QED
      BY <3>4 DEF x
  <2> QED
    BY <2>3, <2>7 DEF Goes
<1>6. CASE /\ k # MaxElements /\ G <= HeapLimit
           /\ PQueue!Store(e, G, [s \in PQueue!Slots(G) |->
                                    IF s < n THEN pqueue.buffer[s] ELSE NoElement])
  <2> DEFINE b == [s \in 0..(G - 1) |-> IF s < n THEN pqueue.buffer[s] ELSE NoElement]
  <2>1. G \in Nat /\ G > k /\ G <= MaxElements
    <3>1. G \in Nat /\ (G > k \/ G = MaxElements)
      BY <1>6, Grows DEF k, G
    <3> QED
      BY <1>6, <3>1, HeapConstants
  <2>2. PQueue!Store(e, G, b)
    BY <1>6 DEF PQueue!Slots
  <2>3. b = [s \in 0..(G - 1) |-> b[s]]
    OBVIOUS
  <2>4. \A s \in 0..(n - 1) : b[s] = pqueue.buffer[s]
    BY <1>1, <2>1
  <2> HIDE DEF b
  <2>5. pqueue.size < G /\ \A s \in 0..(pqueue.size - 1) : b[s] = pqueue.buffer[s]
    <3>1. n < G
      BY <1>1, <2>1
    <3> QED
      BY <2>4, <3>1 DEF n
  <2>6. \/ strayed' = TRUE /\ UNCHANGED <<pqueue, top>>
        \/ Heap(pqueue') /\ More
    BY <2>1, <2>2, <2>3, <2>5, StoreKept DEF More
  <2>7. UNCHANGED <<pqueue, top>> => Heap(pqueue')
    OBVIOUS
  <2> QED
    BY <1>2, <2>6, <2>7 DEF Goes
<1> QED
  BY <1>3, <1>4, <1>5, <1>6 DEF PQueue!Push, PQueue!Return, n, k, G

LEMMA HeapTopKept ==
  ASSUME Heap(pqueue), PQueue!Top
  PROVE  pqueue' = pqueue /\ PQueue!Abs!Top
<1>1. CASE pqueue.size = 0 /\ PQueue!Refuse(PQueue!CC_ERR_OUT_OF_RANGE)
  <2>1. pqueue' = pqueue /\ PQueue!Inside' = PQueue!Inside
        /\ top' = PQueue!Refused(PQueue!CC_ERR_OUT_OF_RANGE)
    BY <1>1, HeapRefuses
  <2>2. PQueue!Abs!Greatest = {}
    BY <1>1, GreatestIs
  <2> QED
    BY <2>1, <2>2, SameHeapAnswers DEF PQueue!Abs!Top, PQueue!Abs!Refuse
<1>2. CASE /\ pqueue.size # 0
           /\ PQueue!Return(PQueue!Got(pqueue.buffer[0])) /\ UNCHANGED <<pqueue, strayed>>
  <2>1. pqueue.buffer[0] \in PQueue!Abs!Greatest
    BY <1>2, GreatestIs
  <2>2. pqueue' = pqueue /\ top' = PQueue!Abs!Got(pqueue.buffer[0])
    BY <1>2, SameHeapAnswers DEF PQueue!Return
  <2>3. PQueue!Inside' = PQueue!Inside
    BY <2>2 DEF PQueue!Inside
  <2> QED
    BY <2>1, <2>2, <2>3 DEF PQueue!Abs!Top
<1> QED
  BY <1>1, <1>2 DEF PQueue!Top

\* What the buffer is once the element in the root has sunk.
Sunk(c, b, n, m) ==
  /\ Filled(c, n) /\ Ordered(c, n) /\ c = [s \in 0..(m - 1) |-> c[s]]
  /\ \A e : Count(c, n, e) = Count(b, n, e)

LEMMA SunkAtAnySize ==
  ASSUME NEW n \in Nat, NEW m \in Nat, n < m, NEW b, b = [s \in 0..(m - 1) |-> b[s]],
         Filled(b, n + 1), Headless(b, n), NEW c, c = PQueue!Along(b, PQueue!WayDown(b, n))
  PROVE  Sunk(c, b, n, m)
<1>1. DOMAIN b = 0..(m - 1) /\ 0..(n - 1) \subseteq DOMAIN b /\ Filled(b, n)
  <2>1. DOMAIN b = 0..(m - 1)
    OBVIOUS
  <2>2. \A s \in 0..(n - 1) : s \in 0..(m - 1) /\ s \in 0..((n + 1) - 1)
    OBVIOUS
  <2> QED
    BY <2>1, <2>2 DEF Filled
<1>2. CASE n > 1
  <2>1. /\ Ordered(c, n) /\ c = [s \in DOMAIN b |-> c[s]]
        /\ \E f : Rearranges(f, c, b, n)
    <3>1. /\ n \in Nat /\ n > 1 /\ 0..(n - 1) \subseteq DOMAIN b /\ Filled(b, n) /\ Headless(b, n)
          /\ c = PQueue!Along(b, PQueue!WayDown(b, n))
      BY <1>1, <1>2
    <3> QED
      BY ONLY <3>1, SunkDown
  <2>2. PICK f : Rearranges(f, c, b, n)
    BY <2>1
  <2>3. Filled(c, n)
    BY <1>1, <2>2, StaysFilled
  <2>4. \A e : Count(c, n, e) = Count(b, n, e)
    BY <2>2, CountKept
  <2> QED
    BY <1>1, <2>1, <2>3, <2>4 DEF Sunk
<1>3. CASE ~(n > 1)
  <2>1. PQueue!WayDown(b, n) = <<0>>
    <3>1. n <= 1
      BY <1>3
    <3> QED
      BY <3>1 DEF PQueue!WayDown
  <2>2. c = [s \in DOMAIN b |-> IF s = 0 THEN b[0] ELSE b[s]]
    <3> DEFINE p == <<0>>
               on(s) == {k \in 1..(Len(p) - 1) : p[k] = s}
    <3>1. Len(p) = 1 /\ p[1] = 0 /\ \A s : on(s) = {}
      OBVIOUS
    <3>2. c = [s \in DOMAIN b |->
                 IF s = p[Len(p)] THEN b[p[1]]
                 ELSE IF on(s) = {} THEN b[s] ELSE b[p[(CHOOSE k \in on(s) : TRUE) + 1]]]
      <4>1. c = PQueue!Along(b, p)
        BY <2>1
      <4> HIDE DEF p
      <4> QED
        BY <4>1 DEF PQueue!Along
    <3> HIDE DEF on, p
    <3> QED
      BY <3>1, <3>2
  <2>3. c = b
    BY <1>1, <2>2
  <2>4. Ordered(b, n)
    BY <1>3 DEF Ordered
  <2> QED
    BY <1>1, <2>3, <2>4 DEF Sunk
<1> QED
  BY <1>2, <1>3

LEMMA HeapPopKept ==
  ASSUME Heap(pqueue), PQueue!Pop
  PROVE  Goes(PQueue!Abs!Pop)
<1>1. CASE pqueue.size = 0 /\ PQueue!Refuse(PQueue!CC_ERR_OUT_OF_RANGE)
  <2>1. pqueue' = pqueue /\ PQueue!Inside' = PQueue!Inside
        /\ top' = PQueue!Refused(PQueue!CC_ERR_OUT_OF_RANGE)
    BY <1>1, HeapRefuses
  <2>2. PQueue!Abs!Greatest = {}
    BY <1>1, GreatestIs
  <2>3. PQueue!Abs!Pop
    BY <2>1, <2>2, SameHeapAnswers DEF PQueue!Abs!Pop, PQueue!Abs!Refuse
  <2> QED
    BY <2>1, <2>3 DEF Goes
<1> DEFINE n == pqueue.size - 1
           old == pqueue.buffer
           b == [old EXCEPT ![0] = old[n], ![n] = old[0]]
           c == PQueue!Along(b, PQueue!WayDown(b, n))
<1>2. CASE pqueue.size # 0 /\ pqueue' = [pqueue EXCEPT !.size = n, !.buffer = c]
           /\ top' = PQueue!Got(b[n])
  <2>1. PICK m \in Nat : /\ old = [s \in 0..(m - 1) |-> old[s]]
                          /\ pqueue.size <= m /\ m <= MaxElements
    BY DEF Heap
  <2> DEFINE k == pqueue.capacity
  <2>2. /\ n \in Nat /\ n < m /\ pqueue.size = n + 1 /\ k \in Nat /\ n + 1 <= k
        /\ Filled(old, n + 1) /\ Ordered(old, n + 1)
        /\ pqueue = [size |-> n + 1, capacity |-> k, buffer |-> old]
    <3>1. /\ pqueue.size \in Nat /\ pqueue.size = n + 1
          /\ pqueue = [size |-> pqueue.size, capacity |-> k, buffer |-> old]
          /\ Filled(old, pqueue.size) /\ Ordered(old, pqueue.size)
          /\ k \in Nat /\ pqueue.size <= k
      BY DEF Heap
    <3> HIDE DEF old, k
    <3>2. n \in Nat /\ n < m
      BY <1>2, <2>1, <3>1
    <3> HIDE DEF n
    <3> QED
      BY <3>1, <3>2
  <2>3. pqueue' = [size |-> n, capacity |-> k, buffer |-> c]
    <3> HIDE DEF n, old, k, c
    <3> QED
      BY <1>2, <2>2
  <2> HIDE DEF c, n, k
  <2>4. /\ b = [s \in 0..(m - 1) |-> b[s]] /\ b[n] = old[0]
        /\ \A s \in 0..n : b[s] = IF s = n THEN old[0] ELSE IF s = 0 THEN old[n] ELSE old[s]
    <3>1. 0 \in DOMAIN old /\ n \in DOMAIN old /\ \A s \in 0..n : s \in DOMAIN old
      BY <2>1, <2>2
    <3>2. DOMAIN old = 0..(m - 1)
      BY <2>1
    <3> HIDE DEF old
    <3> QED
      BY <3>1, <3>2
  <2> HIDE DEF b, old
  <2>5. 0 \in 0..n /\ n \in 0..n /\ (n + 1) - 1 = n /\ n + 1 \in Nat
    BY <2>2
  <2>6. Filled(b, n + 1)
    BY <2>2, <2>4, <2>5 DEF Filled
  <2>7. Headless(b, n)
    <3>1. ASSUME NEW s \in 1..(n - 1), Above(s) # 0 PROVE Rank[b[s]] <= Rank[b[Above(s)]]
      <4>1. s \in Nat \ {0} /\ s <= n - 1 /\ s \in 0..n /\ s # n /\ s # 0 /\ s \in 1..n
        BY <2>2
      <4> DEFINE q == Above(s)
      <4>2. q \in Nat /\ q < s /\ q # 0
        BY <3>1, <4>1, Parents
      <4>3. Rank[old[s]] <= Rank[old[q]]
        BY <2>2, <2>5, <4>1 DEF Ordered
      <4> HIDE DEF q
      <4>4. q \in 0..n /\ q # n
        BY <2>2, <4>1, <4>2
      <4>5. b[s] = old[s] /\ b[q] = old[q]
        BY <2>4, <4>1, <4>2, <4>4
      <4> QED
        BY <4>3, <4>5 DEF q
    <3> QED
      BY <3>1 DEF Headless
  <2>8. \A e : Count(b, n + 1, e) = Count(old, n + 1, e)
    <3> DEFINE f == [s \in 0..((n + 1) - 1) |-> IF s = n THEN 0 ELSE IF s = 0 THEN n ELSE s]
    <3>1. \A s \in 0..n : f[s] \in 0..n /\ f[f[s]] = s /\ b[s] = old[f[s]]
      BY <2>4, <2>5
    <3>2. f \in [0..n -> 0..n]
      BY <2>5
    <3> HIDE DEF f
    <3>3. Rearranges(f, b, old, n + 1)
      BY <2>5, <3>1, <3>2 DEF Rearranges
    <3> QED
      BY ONLY <2>5, <3>3, CountKept
  <2>9. Sunk(c, b, n, m)
    <3>1. /\ n \in Nat /\ m \in Nat /\ n < m /\ b = [s \in 0..(m - 1) |-> b[s]]
          /\ Filled(b, n + 1) /\ Headless(b, n) /\ c = PQueue!Along(b, PQueue!WayDown(b, n))
      BY <2>2, <2>4, <2>6, <2>7 DEF c
    <3> QED
      BY ONLY <3>1, SunkAtAnySize
  <2>10. Heap(pqueue')
    <3> DEFINE x == pqueue'
    <3>1. x = [size |-> n, capacity |-> k, buffer |-> c]
      BY <2>3
    <3> HIDE DEF x
    <3>2. x.size = n /\ x.capacity = k /\ x.buffer = c /\ n <= k /\ n <= m
      BY <2>2, <3>1
    <3>3. Heap(x)
      BY <2>1, <2>2, <2>9, <3>1, <3>2 DEF Heap, Sunk
    <3> QED
      BY <3>3 DEF x
  <2> DEFINE e == old[0]
  <2>11. e \in PQueue!Abs!Greatest /\ e \in Ranked
    <3>1. e \in PQueue!Abs!Greatest
      BY <1>2, GreatestIs DEF old
    <3> QED
      BY <3>1 DEF PQueue!Abs!Greatest
  <2>12. ASSUME NEW g \in Ranked
         PROVE  Count(c, n, g) = IF g = e THEN Count(old, n + 1, g) - 1 ELSE Count(old, n + 1, g)
    <3>1. Count(b, n + 1, g) = IF b[n] = g THEN Count(b, n, g) + 1 ELSE Count(b, n, g)
      BY <2>2, CountOneMore
    <3>2. Count(b, n, g) \in Nat
      BY <2>2, CountIsNat
    <3> QED
      BY <2>4, <2>8, <2>9, <3>1, <3>2 DEF Sunk
  <2>13. PQueue!Inside' = [PQueue!Inside EXCEPT ![e] = @ - 1]
    <3>1. PQueue!Inside = [g \in Ranked |-> Count(old, n + 1, g)]
      BY <2>2, HeapCounts DEF old
    <3>2. PQueue!Inside' = [g \in Ranked |-> Count(c, n, g)]
      BY <2>3, HeapCounts
    <3> HIDE DEF e
    <3> QED
      BY <2>11, <2>12, <3>1, <3>2
  <2>14. top' = PQueue!Abs!Got(e)
    BY <1>2, <2>4, SameHeapAnswers
  <2> HIDE DEF e
  <2>15. PQueue!Abs!Pop
    BY <2>11, <2>13, <2>14 DEF PQueue!Abs!Pop
  <2> QED
    BY <2>10, <2>15 DEF Goes
<1>3. CASE PQueue!Crash
  <2>1. strayed' = TRUE /\ UNCHANGED <<pqueue, top>>
    BY <1>3 DEF PQueue!Crash
  <2> QED
    BY <2>1 DEF Goes
<1> QED
  BY <1>1, <1>2, <1>3 DEF PQueue!Pop, PQueue!Return

LEMMA HeapGoesOn ==
  ASSUME Heap(pqueue), [PQueue!Next]_(PQueue!vars)
  PROVE  /\ Heap(pqueue') /\ [PQueue!Abs!Next]_(PQueue!Abs!vars)
         /\ [strayed' \/ PQueue!CallsKeepPromise]_(PQueue!vars)
<1>1. (strayed' = TRUE) \/ PQueue!CallsKeepPromise
  BY HeapPushKept, HeapPopKept, HeapTopKept DEF Goes, PQueue!CallsKeepPromise
<1>2. UNCHANGED <<pqueue, top>> => UNCHANGED PQueue!Abs!vars
  BY DEF PQueue!Abs!vars, PQueue!Inside
<1>3. CASE UNCHANGED PQueue!vars
  <2>1. pqueue' = pqueue /\ top' = top
    BY <1>3 DEF PQueue!vars
  <2> QED
    BY <1>1, <1>2, <2>1
<1>4. CASE PQueue!Next
  <2>1. ASSUME NEW e \in Ranked, PQueue!Push(e)
        PROVE  Heap(pqueue') /\ [PQueue!Abs!Next]_(PQueue!Abs!vars)
    <3>1. Heap(pqueue') /\ (UNCHANGED <<pqueue, top>> \/ PQueue!Abs!Push(e))
      BY <2>1, HeapPushKept DEF Goes
    <3> QED
      BY <1>2, <3>1 DEF PQueue!Abs!Next
  <2>2. ASSUME PQueue!Pop
        PROVE  Heap(pqueue') /\ [PQueue!Abs!Next]_(PQueue!Abs!vars)
    <3>1. Heap(pqueue') /\ (UNCHANGED <<pqueue, top>> \/ PQueue!Abs!Pop)
      BY <2>2, HeapPopKept DEF Goes
    <3> QED
      BY <1>2, <3>1 DEF PQueue!Abs!Next
  <2>3. ASSUME PQueue!Top
        PROVE  Heap(pqueue') /\ [PQueue!Abs!Next]_(PQueue!Abs!vars)
    <3>1. pqueue' = pqueue /\ PQueue!Abs!Top
      BY <2>3, HeapTopKept
    <3> QED
      BY <3>1 DEF PQueue!Abs!Next
  <2>4. Heap(pqueue') /\ [PQueue!Abs!Next]_(PQueue!Abs!vars)
    BY <1>4, <2>1, <2>2, <2>3 DEF PQueue!Next
  <2> QED
    BY <1>1, <2>4
<1> QED
  BY <1>3, <1>4

LEMMA HeapStarts ==
  ASSUME PQueue!Init
  PROVE  Heap(pqueue) /\ PQueue!Abs!Init
<1> DEFINE b == [s \in 0..(HeapCapacity - 1) |-> NoElement]
<1>1. pqueue = [size |-> 0, capacity |-> HeapCapacity, buffer |-> b] /\ top = PQueue!Done
  BY DEF PQueue!Init, PQueue!Slots
<1>2. b = [s \in 0..(HeapCapacity - 1) |-> b[s]]
  OBVIOUS
<1> HIDE DEF b
<1>3. pqueue.size = 0 /\ pqueue.capacity = HeapCapacity /\ pqueue.buffer = b
  BY <1>1
<1>4. Heap(pqueue)
  <2>1. Filled(b, 0) /\ Ordered(b, 0)
    BY DEF Filled, Ordered
  <2>2. HeapCapacity \in Nat /\ 0 <= HeapCapacity /\ HeapCapacity <= MaxElements /\ 0 \in Nat
    BY HeapConstants
  <2> QED
    BY <1>1, <1>2, <1>3, <2>1, <2>2 DEF Heap
<1>5. \A e : Count(b, 0, e) = 0
  <2>1. 0 \in Nat /\ \A e : \A s \in 0..(0 - 1) : b[s] # e
    OBVIOUS
  <2> QED
    BY <2>1, CountIsNat
<1>6. PQueue!Inside = [e \in Ranked |-> 0]
  BY <1>3, <1>5, HeapCounts
<1> QED
  BY <1>1, <1>4, <1>6, SameHeapAnswers DEF PQueue!Abs!Init

\* Whatever was pushed and popped before, and however often the buffer grew or an
\* expansion was refused, the heap loses no element and invents none, and top and
\* pop give one that no other outranks: for any elements, any ranks, any growth
\* factor and any capacity, as long as it stays in its buffer.
THEOREM HeapIsAPriorityQueue == PQueue!Spec => IsAPriorityQueue
<1>1. PQueue!Init => Heap(pqueue) /\ PQueue!Abs!Init
  BY HeapStarts
<1>2. Heap(pqueue) /\ [PQueue!Next]_(PQueue!vars)
        => /\ Heap(pqueue)' /\ [PQueue!Abs!Next]_(PQueue!Abs!vars)
           /\ [strayed' \/ PQueue!CallsKeepPromise]_(PQueue!vars)
  BY HeapGoesOn
<1> QED
  BY <1>1, <1>2, PTL DEF PQueue!Spec, IsAPriorityQueue, PQueue!IsAPriorityQueue, PQueue!Abs!Spec
=============================================================================
