------------------------------- MODULE CCDeque -------------------------------
(***************************************************************************)
(* CC_Deque (cc_deque.c): a sequence kept in a circular buffer whose      *)
(* capacity is a power of two.  `first' is the slot of element 0, `last'  *)
(* the slot after the final element, and every position is reduced by     *)
(* & (capacity - 1), which for a power of two is % capacity, also of a     *)
(* difference that wrapped below zero.                                     *)
(*                                                                         *)
(* The buffer is a function on the slots that were really allocated, so a *)
(* slot outside its domain is memory the deque does not own.  A call that *)
(* touches one sets `fault' and the program has no further behaviour.      *)
(***************************************************************************)
EXTENDS CCCommon, Sequences

CONSTANTS
  Elements,        \* the pointers clients store
  InitCapacity,    \* conf->capacity
  MaxCapacity,     \* MAX_POW_TWO, scaled down: the bound on every counter
  DefaultCapacity, \* DEFAULT_CAPACITY, of the deque that filter creates
  Calls            \* the functions this client calls

ASSUME DequeConstants ==
  /\ InitCapacity \in Nat
  /\ MaxCapacity \in Nat \ {0}
  /\ DefaultCapacity \in Nat \ {0}
  /\ InitCapacity <= MaxCapacity
  /\ DefaultCapacity <= MaxCapacity
  /\ NoElement \notin Elements
  /\ IsPowerOfTwo(MaxCapacity) /\ IsPowerOfTwo(DefaultCapacity)

VARIABLES
  deque,  \* struct cc_deque_s: size, capacity, first, last, buffer
  iter,   \* CC_DequeIter: index, last_removed
  walk,   \* history of the iteration: on while only iterator calls were made
          \* since iter_init and no removal tore (TearsAt), rest the elements
          \* it still owes the client, fresh while the latest call is an
          \* iter_next that returned one
  ret,    \* the result of the latest call
  fault   \* memory outside the buffer was touched

vars == <<deque, iter, walk, ret, fault>>

-----------------------------------------------------------------------------
\* Slots and buffers

Mask(d, x) == x % d.capacity
Slot(d, i) == Mask(d, d.first + i)

\* The elements in order, as every reader of the deque sees them.
Contents(d) == [i \in 1..d.size |-> d.buffer[Slot(d, i - 1)]]

Buffer(n) == [s \in 0..(n - 1) |-> NoElement]

RoundUp(n) == UpperPowTwo(n, MaxCapacity)

\* memmove(&b[dst], &b[src], n * sizeof(void*))
Move(b, dst, src, n) ==
  [s \in DOMAIN b |-> IF dst <= s /\ s < dst + n THEN b[s - dst + src] ELSE b[s]]

\* The shallow branch of copy_buffer: how many slots it writes at its
\* destination, and a new buffer of n slots after it.
CopiedSlots(d) ==
  IF d.last > d.first THEN d.size ELSE (d.capacity - d.first) + d.last

CopyBuffer(d, n) ==
  [s \in 0..(n - 1) |->
     IF s >= CopiedSlots(d) THEN NoElement
     ELSE IF d.last > d.first \/ s < d.capacity - d.first
          THEN d.buffer[d.first + s]
          ELSE d.buffer[s - (d.capacity - d.first)]]

\* Mutant of Realigned: the new buffer is as long as the old one.
RealignedShort(d, n) ==
  [size |-> d.size, capacity |-> n, first |-> 0, last |-> d.size,
   buffer |-> CopyBuffer(d, d.capacity)]

Realigned(d, n) ==
  [size |-> d.size, capacity |-> n, first |-> 0, last |-> d.size,
   buffer |-> CopyBuffer(d, n)]

\* Mutant of ExpandCapacity: one slot more.
ExpandByOne(d) ==
  IF d.capacity = MaxCapacity THEN {} ELSE {Realigned(d, d.capacity + 1)}

\* What the capacity check in front of an insertion can leave: the deque
\* itself, the deque on a buffer twice as large, or nothing at MAX_POW_TWO.
ExpandCapacity(d) ==
  IF d.capacity = MaxCapacity THEN {} ELSE {Realigned(d, 2 * d.capacity)}

\* Mutant of MakeRoom: > for >=.
MakeRoomLate(d) == IF d.size > d.capacity THEN ExpandCapacity(d) ELSE {d}

MakeRoom(d) == IF d.size >= d.capacity THEN ExpandCapacity(d) ELSE {d}

\* Its other branch: an element at a time, from its slot.  An unset slot is NULL.
CopyDeepBuffer(d, cp) ==
  [s \in 0..(d.capacity - 1) |->
     IF s >= d.size \/ d.buffer[Slot(d, s)] \notin Elements THEN NoElement
     ELSE cp[d.buffer[Slot(d, s)]]]

DeepCopy(d, cp) ==
  [size |-> d.size, capacity |-> d.capacity, first |-> 0, last |-> d.size,
   buffer |-> CopyDeepBuffer(d, cp)]

-----------------------------------------------------------------------------
\* The structure after each successful operation

\* Mutant of PushFront: writes before it moves first.
PushFrontEarly(d, e) ==
  [d EXCEPT !.first = Mask(d, @ - 1), !.buffer[d.first] = e, !.size = @ + 1]

PushFront(d, e) ==
  LET s == Mask(d, d.first - 1)
  IN  [d EXCEPT !.first = s, !.buffer[s] = e, !.size = @ + 1]

PushBack(d, e) ==
  [d EXCEPT !.buffer[d.last] = e, !.last = Mask(d, @ + 1), !.size = @ + 1]

PopFront(d) == [d EXCEPT !.first = Mask(d, @ + 1), !.size = @ - 1]
PopBack(d)  == [d EXCEPT !.last = Mask(d, @ - 1), !.size = @ - 1]

\* cc_deque_add_at once there is room, 0 < i < size: the half that is
\* shorter is moved by memmove, in two pieces and a saved slot when it wraps.
ShiftBack(d, i) ==
  LET b == d.buffer
      c == d.capacity - 1
      f == d.first
      p == Slot(d, i)
      tailMoved == IF f # 0 THEN Move(b, f - 1, f, c - f + 1) ELSE b
      bothMoved == IF p # 0 THEN Move(tailMoved, 0, 1, p) ELSE tailMoved
  IN  IF p < f \/ f = 0 THEN [bothMoved EXCEPT ![c] = b[0]]
                        ELSE Move(b, f - 1, f, i)

ShiftForth(d, i) ==
  LET b == d.buffer
      c == d.capacity - 1
      l == Mask(d, d.last)
      p == Slot(d, i)
      tailMoved == IF p # c THEN Move(b, p + 1, p, c - p) ELSE b
      bothMoved == IF l # c THEN Move(tailMoved, 1, 0, l + 1) ELSE tailMoved
  IN  IF p > l \/ l = c THEN [bothMoved EXCEPT ![0] = b[c]]
                        ELSE Move(b, p + 1, p, d.size - i)

InsertAt(d, e, i) ==
  LET p == Slot(d, i)
  IN  IF i = 0 THEN PushFront(d, e)
      ELSE IF i = d.capacity - 1 THEN PushBack(d, e)
      ELSE IF i <= (d.size \div 2) - 1
      THEN [d EXCEPT !.buffer = [ShiftBack(d, i) EXCEPT ![p] = e],
                     !.first = Mask(d, @ - 1), !.size = @ + 1]
      ELSE [d EXCEPT !.buffer = [ShiftForth(d, i) EXCEPT ![p] = e],
                     !.last = Mask(d, d.last + 1), !.size = @ + 1]

\* Mutant of CloseFront: the slot at the end of the buffer is not carried over.
CloseFrontUncarried(d, i) ==
  LET c == d.capacity - 1
      f == d.first
      p == Slot(d, i)
  IN  IF p < f THEN Move(Move(d.buffer, f + 1, f, c - f), 1, 0, p)
               ELSE Move(d.buffer, f + 1, f, i)

\* cc_deque_remove_at, i < size.
CloseFront(d, i) ==
  LET b == d.buffer
      c == d.capacity - 1
      f == d.first
      p == Slot(d, i)
      tailMoved == Move(b, f + 1, f, c - f)
      bothMoved == Move(tailMoved, 1, 0, p)
  IN  IF p < f THEN [bothMoved EXCEPT ![0] = b[c]]
               ELSE Move(b, f + 1, f, i)

\* Mutant of CloseBack: the slot at the start of the buffer is not carried over.
CloseBackUncarried(d, i) ==
  LET c == d.capacity - 1
      l == Mask(d, d.last)
      p == Slot(d, i)
      moved == Move(d.buffer, p, p + 1, c - p)
  IN  IF p > l THEN (IF p # 0 THEN Move(moved, 1, 0, l) ELSE moved)
               ELSE Move(d.buffer, p, p + 1, l - p)

\* The second memmove goes up, from slot 0 to slot 1, where the first and the
\* wrapped half of add_at go down.
CloseBack(d, i) ==
  LET b == d.buffer
      c == d.capacity - 1
      l == Mask(d, d.last)
      p == Slot(d, i)
      tailMoved == Move(b, p, p + 1, c - p)
      bothMoved == IF p # 0 THEN Move(tailMoved, 1, 0, l) ELSE tailMoved
  IN  IF p > l THEN [bothMoved EXCEPT ![c] = b[0]]
               ELSE Move(b, p, p + 1, l - p)

DeleteAt(d, i) ==
  IF i = 0 THEN PopFront(d)
  ELSE IF i = d.capacity - 1 THEN PopBack(d)
  ELSE IF i <= (d.size \div 2) - 1
  THEN [d EXCEPT !.buffer = CloseFront(d, i), !.first = Mask(d, @ + 1),
                 !.size = @ - 1]
  ELSE [d EXCEPT !.buffer = CloseBack(d, i), !.last = Mask(d, @ - 1),
                 !.size = @ - 1]

\* A removal that this spoils: behind the middle, in a buffer that wraps, with two
\* elements or more at its start.  With one, what the memmove writes is the free
\* slot behind it, unless the deque is full.
TearsAt(d, i) ==
  /\ i # 0 /\ i # d.capacity - 1 /\ i > (d.size \div 2) - 1
  /\ Slot(d, i) > Mask(d, d.last)
  /\ Mask(d, d.last) > (IF d.size = d.capacity THEN 0 ELSE 1)

\* The swap loop of cc_deque_reverse, as the permutation it performs.
Reversed(d) ==
  [d EXCEPT !.buffer = [s \in DOMAIN @ |->
     LET i == Mask(d, s - d.first)
     IN  IF i < d.size THEN @[Slot(d, d.size - 1 - i)] ELSE @[s]]]

\* The loop of cc_deque_filter_mut: the deque and the index after n elements
\* were looked at.
Scan(d, keep) ==
  LET scan[n \in 0..d.size] ==
        IF n = 0 THEN [d |-> d, i |-> 0]
        ELSE LET at == scan[n - 1]
             IN  IF at.d.buffer[Slot(at.d, at.i)] \in keep
                 THEN [at EXCEPT !.i = @ + 1]
                 ELSE [at EXCEPT !.d = DeleteAt(at.d, at.i)]
  IN  scan

Filtered(d, keep) == Scan(d, keep)[d.size].d

\* One of its removals is a spoilt one.
FilterTears(d, keep) ==
  \E n \in 1..d.size :
    LET at == Scan(d, keep)[n - 1]
    IN  at.d.buffer[Slot(at.d, at.i)] \notin keep /\ TearsAt(at.d, at.i)

\* The loop of cc_deque_filter into a new deque: the status of each
\* cc_deque_add is ignored, so an element whose expansion fails is dropped.
FilteredCopy(d, keep, granted) ==
  LET scan[n \in 0..d.size] ==
        IF n = 0 THEN [size |-> 0, capacity |-> DefaultCapacity, first |-> 0,
                       last |-> 0, buffer |-> Buffer(DefaultCapacity)]
        ELSE LET f == scan[n - 1]
                 e == Contents(d)[n]
             IN  IF e \notin keep THEN f
                 ELSE IF f.size < f.capacity THEN PushBack(f, e)
                 ELSE IF n \notin granted \/ f.capacity = MaxCapacity THEN f
                 ELSE PushBack(Realigned(f, 2 * f.capacity), e)
  IN  scan[d.size]

-----------------------------------------------------------------------------
\* A call other than the iterator's own ends the walk.

NoWalk     == [on |-> FALSE, rest |-> <<>>, fresh |-> FALSE]
EndWalk    == walk' = NoWalk /\ UNCHANGED iter
NewIter    == iter' = [index |-> 0, last_removed |-> FALSE]
Return(r)  == ret' = r
Reject(st) == Return(Refused(st)) /\ UNCHANGED <<deque, fault>>
Refuse(st) == Reject(st) /\ EndWalk

\* The deque becomes d and the call returns r, if the slots it used exist.
Commit(d, slots, r) ==
  \/ Return(r) /\ UNCHANGED fault /\ slots \subseteq DOMAIN d.buffer /\ deque' = d
  \/ fault' = TRUE /\ ~(slots \subseteq DOMAIN d.buffer) /\ UNCHANGED <<deque, ret>>

Update(d, slots, r) == Commit(d, slots, r) /\ EndWalk
Answer(r)           == Update(deque, {}, r)

InRange(i) == 0 <= i /\ i < deque.size
Element(i) == deque.buffer[Slot(deque, i)]

\* Calls in the middle are modelled for a buffer as long as the capacity; one
\* that a rounded capacity left short faults at its ends already.
Whole == DOMAIN deque.buffer = 0..(deque.capacity - 1)

Init ==
  /\ deque = [size |-> 0, capacity |-> RoundUp(InitCapacity),
              first |-> 0, last |-> 0, buffer |-> Buffer(InitCapacity)]
  /\ iter = [index |-> 0, last_removed |-> FALSE]
  /\ walk = NoWalk
  /\ ret = Done
  /\ fault = FALSE

\* Ends of the deque

AddFirst(e) ==
  \/ \E d \in MakeRoom(deque) :
       Update(PushFront(d, e), {Mask(d, d.first - 1)}, Done)
  \/ deque.size >= deque.capacity /\ Refuse(CC_ERR_ALLOC)

AddLast(e) ==
  \/ \E d \in MakeRoom(deque) : Update(PushBack(d, e), {d.last}, Done)
  \/ deque.size = deque.capacity /\ Refuse(CC_ERR_ALLOC)

RemoveFirst ==
  \/ deque.size = 0 /\ Refuse(CC_ERR_OUT_OF_RANGE)
  \/ /\ deque.size # 0
     /\ Update(PopFront(deque), {deque.first}, Got(deque.buffer[deque.first]))

RemoveLast ==
  LET s == Mask(deque, deque.last - 1)
  IN  \/ deque.size = 0 /\ Refuse(CC_ERR_OUT_OF_RANGE)
      \/ deque.size # 0 /\ Update(PopBack(deque), {s}, Got(deque.buffer[s]))

GetFirst ==
  \/ deque.size = 0 /\ Refuse(CC_ERR_OUT_OF_RANGE)
  \/ /\ deque.size # 0
     /\ Update(deque, {deque.first}, Got(deque.buffer[deque.first]))

GetLast ==
  LET s == Mask(deque, deque.last - 1)
  IN  \/ deque.size = 0 /\ Refuse(CC_ERR_OUT_OF_RANGE)
      \/ deque.size # 0 /\ Update(deque, {s}, Got(deque.buffer[s]))

\* Mutant of RemoveAll: last is not reset.
RemoveAllButLast == Update([deque EXCEPT !.first = 0, !.size = 0], {}, Done)

RemoveAll ==
  Update([deque EXCEPT !.first = 0, !.last = 0, !.size = 0], {}, Done)

\* The middle of the deque.  An index is a size_t: index - 1 at 0 wraps to
\* the largest one and is out of range, as -1 is here.

RemoveMiddle(i) ==
  Commit(DeleteAt(deque, i), {Slot(deque, i)}, Got(Element(i)))

InsertMiddle(e, i) ==
  \/ ~InRange(i) /\ Reject(CC_ERR_OUT_OF_RANGE)
  \/ /\ InRange(i)
     /\ \/ \E d \in MakeRoom(deque) :
             Commit(InsertAt(d, e, i), {Slot(d, i)}, Done)
        \/ deque.size = deque.capacity /\ Reject(CC_ERR_ALLOC)

ReplaceMiddle(e, i) ==
  \/ ~InRange(i) /\ Reject(CC_ERR_OUT_OF_RANGE)
  \/ /\ InRange(i)
     /\ Commit([deque EXCEPT !.buffer[Slot(deque, i)] = e],
               {Slot(deque, i)}, Got(Element(i)))

AddAt(e, i)     == Whole /\ InsertMiddle(e, i) /\ EndWalk
ReplaceAt(e, i) == ReplaceMiddle(e, i) /\ EndWalk

RemoveAt(i) ==
  /\ Whole
  /\ \/ ~InRange(i) /\ Refuse(CC_ERR_OUT_OF_RANGE)
     \/ InRange(i) /\ RemoveMiddle(i) /\ EndWalk

\* The index of the first occurrence, and what is returned without one.
IndexOf(e) == {i \in 0..(deque.size - 1) :
                 Element(i) = e /\ \A j \in 0..(i - 1) : Element(j) # e}

Remove(e) ==
  /\ Whole
  /\ \/ IndexOf(e) = {} /\ Refuse(CC_ERR_OUT_OF_RANGE)
     \/ \E i \in IndexOf(e) : RemoveMiddle(i) /\ EndWalk

\* The check lets index = size through.
GetAt(i) ==
  \/ i > deque.size /\ Refuse(CC_ERR_OUT_OF_RANGE)
  \/ i <= deque.size /\ Update(deque, {Slot(deque, i)}, Got(Element(i)))

\* The whole deque

Reverse == Update(Reversed(deque), {}, Done)

FilterMut(keep) ==
  /\ Whole
  /\ \/ deque.size = 0 /\ Refuse(CC_ERR_OUT_OF_RANGE)
     \/ deque.size # 0 /\ Update(Filtered(deque, keep), {}, Done)

\* filter and copy make a new deque, and the client goes on with that one
\* and an iterator on it.
Adopt(d) == Commit(d, {}, Done) /\ walk' = NoWalk /\ NewIter

\* granted are the elements whose expansion the allocator serves.
Filter(keep) ==
  \/ deque.size = 0 /\ Refuse(CC_ERR_OUT_OF_RANGE)
  \/ deque.size # 0 /\ Refuse(CC_ERR_ALLOC)
  \/ /\ deque.size # 0
     /\ \E granted \in SUBSET (1..deque.size) :
          Adopt(FilteredCopy(deque, keep, granted))

\* last of the copy is its size, unmasked.
CopyShallow ==
  /\ Whole
  /\ \/ Refuse(CC_ERR_ALLOC)
     \/ Adopt(Realigned(deque, deque.capacity))

CopyDeep(cp) ==
  /\ Whole
  /\ \/ Refuse(CC_ERR_ALLOC)
     \/ Adopt(DeepCopy(deque, cp))

\* Mutant of TrimCapacity: the capacity is set before the memory is there.
TrimCapacityEarly ==
  LET n == RoundUp(deque.size)
  IN  /\ Whole
      /\ IF deque.size = deque.capacity \/ n = deque.capacity
         THEN Answer(Done)
         ELSE \/ Update([deque EXCEPT !.capacity = n], {}, Refused(CC_ERR_ALLOC))
              \/ Update(Realigned(deque, n), 0..(CopiedSlots(deque) - 1), Done)

TrimCapacity ==
  LET n == RoundUp(deque.size)
  IN  /\ Whole
      /\ IF deque.size = deque.capacity \/ n = deque.capacity
         THEN Answer(Done)
         ELSE \/ Refuse(CC_ERR_ALLOC)
              \/ Update(Realigned(deque, n), 0..(CopiedSlots(deque) - 1), Done)

\* The iterator

Pause == walk' = [walk EXCEPT !.fresh = FALSE]

IterInit ==
  /\ NewIter
  /\ walk' = [on |-> TRUE, rest |-> Contents(deque), fresh |-> FALSE]
  /\ Return(Done)
  /\ UNCHANGED <<deque, fault>>

\* The first test takes a full deque for an empty one.
AtEnd == Mask(deque, deque.last) = Mask(deque, deque.first)
           \/ iter.index >= deque.size

IterNext ==
  /\ Whole
  /\ \/ /\ AtEnd
        /\ Return(Refused(CC_ITER_END))
        /\ Pause
        /\ UNCHANGED iter
     \/ /\ ~AtEnd
        /\ Return(Got(Element(iter.index)))
        /\ iter' = [index |-> iter.index + 1, last_removed |-> FALSE]
        /\ walk' = [walk EXCEPT !.fresh = TRUE,
                                !.rest = IF walk.on THEN Tail(@) ELSE @]
  /\ UNCHANGED <<deque, fault>>

\* Mutant of IterRemove: the index stays.
IterRemoveStaying ==
  /\ Whole /\ ~iter.last_removed /\ InRange(iter.index - 1)
  /\ RemoveMiddle(iter.index - 1)
  /\ iter' = [iter EXCEPT !.last_removed = TRUE]
  /\ IF TearsAt(deque, iter.index - 1) THEN walk' = NoWalk ELSE Pause

IterRemove ==
  /\ Whole
  /\ \/ /\ iter.last_removed
        /\ Reject(CC_ERR_VALUE_NOT_FOUND) /\ Pause /\ UNCHANGED iter
     \/ /\ ~iter.last_removed /\ ~InRange(iter.index - 1)
        /\ Reject(CC_ERR_OUT_OF_RANGE) /\ Pause /\ UNCHANGED iter
     \/ /\ ~iter.last_removed /\ InRange(iter.index - 1)
        /\ RemoveMiddle(iter.index - 1)
        /\ iter' = [index |-> iter.index - 1, last_removed |-> TRUE]
        /\ IF TearsAt(deque, iter.index - 1) THEN walk' = NoWalk ELSE Pause

IterAdd(e) ==
  /\ Whole
  /\ Pause
  /\ InsertMiddle(e, iter.index)
  /\ iter' = IF ret'.stat = CC_OK THEN [iter EXCEPT !.index = @ + 1] ELSE iter

IterReplace(e) ==
  /\ ReplaceMiddle(e, iter.index)
  /\ Pause
  /\ UNCHANGED iter

-----------------------------------------------------------------------------

Indices == 0..MaxCapacity

Ends ==
  \/ \E e \in Elements :
       \/ "add_first" \in Calls /\ AddFirst(e)
       \/ "add_last" \in Calls /\ AddLast(e)
  \/ "remove_first" \in Calls /\ RemoveFirst
  \/ "remove_last" \in Calls /\ RemoveLast
  \/ "get_first" \in Calls /\ GetFirst
  \/ "get_last" \in Calls /\ GetLast
  \/ "remove_all" \in Calls /\ RemoveAll

Middle ==
  \/ \E e \in Elements, i \in Indices :
       \/ "add_at" \in Calls /\ AddAt(e, i)
       \/ "replace_at" \in Calls /\ ReplaceAt(e, i)
  \/ \E i \in Indices :
       \/ "remove_at" \in Calls /\ RemoveAt(i)
       \/ "get_at" \in Calls /\ GetAt(i)
  \/ \E e \in Elements : "remove" \in Calls /\ Remove(e)

AllOfIt ==
  \/ "reverse" \in Calls /\ Reverse
  \/ \E keep \in SUBSET Elements :
       \/ "filter_mut" \in Calls /\ FilterMut(keep)
       \/ "filter" \in Calls /\ Filter(keep)
  \/ "copy_shallow" \in Calls /\ CopyShallow
  \/ \E cp \in [Elements -> Elements] : "copy_deep" \in Calls /\ CopyDeep(cp)
  \/ "trim_capacity" \in Calls /\ TrimCapacity

Iterate ==
  \/ "iter_init" \in Calls /\ IterInit
  \/ "iter_next" \in Calls /\ IterNext
  \/ "iter_remove" \in Calls /\ IterRemove
  \/ \E e \in Elements :
       \/ "iter_add" \in Calls /\ IterAdd(e)
       \/ "iter_replace" \in Calls /\ IterReplace(e)

Next == ~fault /\ (Ends \/ Middle \/ AllOfIt \/ Iterate)

Spec == Init /\ [][Next]_vars

-----------------------------------------------------------------------------
\* Properties

\* What the fields may hold.  last is the one field that may leave the
\* buffer: a copy or a trim of a full deque sets it to the capacity.
TypeOK ==
  /\ deque.capacity \in 1..MaxCapacity
  /\ deque.size \in 0..deque.capacity
  /\ deque.first \in 0..(deque.capacity - 1)
  /\ deque.last \in 0..deque.capacity
  /\ deque.buffer \in [DOMAIN deque.buffer -> Elements \cup {NoElement}]
  /\ iter \in [index : Nat, last_removed : BOOLEAN]
  /\ ret.stat \in Stats /\ ret.out \in Elements \cup {NoElement}

\* first, last and size are three fields for two facts: whatever calls were
\* made, last is (modulo the capacity) size slots after first; and the capacity,
\* through every expansion and trim, is one for which & is a remainder.
EndsAgree ==
  /\ Mask(deque, deque.last) = Slot(deque, deque.size)
  /\ IsPowerOfTwo(deque.capacity)

\* No call reads or writes outside the buffer.
NoFault == ~fault

\* Every element the deque counts is a pointer some client stored: no reader
\* meets a slot that was never written.
NoStraySlot == \A i \in 1..deque.size : Contents(deque)[i] \in Elements

\* The iteration visits what it promised at iter_init, in order, also when
\* elements are removed through the iterator on the way: until a removal tears.
WalkInOrder ==
  walk.on => walk.rest = SubSeq(Contents(deque), iter.index + 1, deque.size)

\* A call that returns an error has changed nothing a client can see.
FailureIsAtomic ==
  [][ret'.stat \in Errors => Contents(deque') = Contents(deque)]_vars

Abs == INSTANCE SeqSpec WITH seq <- Contents(deque)

\* What is left of the promise when a removal tears (README, section 5): the right
\* element is returned, and there is one less.
Torn(i) ==
  /\ InRange(i) /\ TearsAt(deque, i)
  /\ ret' = Got(Element(i)) /\ deque'.size = deque.size - 1
TornFilter(keep) == FilterTears(deque, keep) /\ ret' = Done

\* Every call that may be one of these does what SeqSpec says of that call.
EndsKeepPromise ==
  /\ \A e \in Elements : "add_first" \in Calls /\ AddFirst(e) => Abs!AddFirst(e)
  /\ \A e \in Elements : "add_last" \in Calls /\ AddLast(e) => Abs!AddLast(e)
  /\ "remove_first" \in Calls /\ RemoveFirst => Abs!RemoveFirst
  /\ "remove_last" \in Calls /\ RemoveLast => Abs!RemoveLast
  /\ "get_first" \in Calls /\ GetFirst => Abs!GetFirst
  /\ "get_last" \in Calls /\ GetLast => Abs!GetLast
  /\ "remove_all" \in Calls /\ RemoveAll => Abs!RemoveAll

MiddleKeepsPromise ==
  /\ \A e \in Elements, i \in Indices :
       "replace_at" \in Calls /\ ReplaceAt(e, i) => Abs!ReplaceAt(e, i)
  /\ \A i \in Indices :
       "remove_at" \in Calls /\ RemoveAt(i) => Abs!RemoveAt(i) \/ Torn(i)
  /\ \A e \in Elements :
       "remove" \in Calls /\ Remove(e) => Abs!Remove(e) \/ \E i \in IndexOf(e) : Torn(i)
  /\ "reverse" \in Calls /\ Reverse => Abs!Reverse
  /\ \A keep \in SUBSET Elements :
       "filter_mut" \in Calls /\ FilterMut(keep) => Abs!Filter(keep) \/ TornFilter(keep)

IterKeepsPromise ==
  /\ "iter_next" \in Calls /\ IterNext => Abs!WalkOver \/ Abs!GetAt(iter.index)
  /\ "iter_remove" \in Calls /\ IterRemove =>
       /\ ret'.stat = CC_OK => Abs!RemoveAt(iter.index - 1) \/ Torn(iter.index - 1)
       /\ walk.fresh => ret' = ret

\* A call of SeqSpec, or a removal that tears.
SeqStep ==
  \/ Abs!Next
  \/ \E i \in Indices : Torn(i)
  \/ \E keep \in SUBSET Elements : TornFilter(keep)

\* The deque is a sequence, call by call: AddFirst, RemoveAt, ... of SeqSpec are
\* what the functions of that name do to the elements in order, across wrap
\* and reallocation.  Only a removal that tears is no call of SeqSpec; what any
\* later call does to the elements it leaves is one again.
IsASequence ==
  /\ Abs!Init /\ [][SeqStep]_(Abs!vars)
  /\ [][EndsKeepPromise /\ MiddleKeepsPromise /\ IterKeepsPromise]_vars

\* remove_at: "Removes a CC_Deque element from the specified index", and the others
\* stay as they are.
RemoveAtRemoves ==
  [][\A i \in Indices :
       RemoveAt(i) /\ ret'.stat = CC_OK
         => Contents(deque') = SubSeq(Contents(deque), 1, i)
                                \o SubSeq(Contents(deque), i + 2, deque.size)]_vars

\* add_at: "Inserts a new element at the specified index within the deque."
AddAtInserts ==
  [][\A e \in Elements, i \in Indices :
       AddAt(e, i) /\ ret' = Done
         => Contents(deque') = SubSeq(Contents(deque), 1, i) \o <<e>>
                                \o SubSeq(Contents(deque), i + 1, deque.size)]_vars
=============================================================================
