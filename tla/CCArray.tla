------------------------------- MODULE CCArray -------------------------------
(***************************************************************************)
(* CC_Array (cc_array.c): a growing buffer whose first `size' slots are   *)
(* the elements.  The buffer is a function on the slots that were really  *)
(* allocated; `capacity' is only what the array believes.  A call that     *)
(* touches another slot sets `fault' and the program has no further        *)
(* behaviour.                                                              *)
(***************************************************************************)
EXTENDS CCCommon, FiniteSets

CONSTANTS
  Elements,
  Key,          \* what the comparison of sort compares
  InitCapacity, \* conf->capacity
  ExpNum,       \* exp_factor = ExpNum / ExpDen, more than 1
  ExpDen,
  MemLimit,     \* bound: the largest buffer the allocator ever grants, and
                \* how far iter_add may push the index
  MaxElements   \* CC_MAX_ELEMENTS, scaled down: a buffer that large never is

ASSUME ArrayConstants ==
  /\ InitCapacity \in Nat \ {0}
  /\ ExpDen \in Nat \ {0} /\ ExpNum \in Nat /\ ExpNum > ExpDen
  /\ MemLimit \in Nat /\ MaxElements \in Nat
  /\ InitCapacity <= MemLimit /\ MemLimit < MaxElements
  /\ NoElement \notin Elements
  /\ Key \in [Elements -> Int]

VARIABLES
  array,   \* struct cc_array_s: size, capacity, exp (exp_factor * ExpDen), buffer
  iter,    \* CC_ArrayIter: index, last_removed
  fresh,   \* history: the latest call is an iter_next that returned an element
  refused, \* history: an expansion of this array was refused
  kept,    \* history: every call kept its promise
  ret,
  fault

vars == <<array, iter, fresh, refused, kept, ret, fault>>

-----------------------------------------------------------------------------
\* The buffer

Contents(a) == [i \in 1..a.size |-> a.buffer[i - 1]]
Slots(n)    == 0..(n - 1)

\* The first n slots of b in a new buffer of c slots.
Copied(b, n, c) ==
  [s \in Slots(c) |-> IF s < n THEN b[s] ELSE NoElement]

\* memmove(&b[dst], &b[src], n * sizeof(void*)), within the slots there are.
Move(b, dst, src, n) ==
  [s \in DOMAIN b |-> IF dst <= s /\ s < dst + n THEN b[s - dst + src] ELSE b[s]]

Outcome(st, a) == [stat |-> st, array |-> a]

\* expand_capacity sets the capacity before it asks for the memory.
Expanded(a) ==
  LET n == (a.capacity * a.exp) \div ExpDen
      c == IF n <= a.capacity THEN MaxElements ELSE n
      granted == [a EXCEPT !.capacity = c, !.buffer = Copied(@, a.size, c)]
  IN  IF a.capacity = MaxElements THEN {Outcome(CC_ERR_MAX_CAPACITY, a)}
      ELSE {Outcome(CC_ERR_ALLOC, [a EXCEPT !.capacity = c])}
             \cup IF c <= MemLimit THEN {Outcome(CC_OK, granted)} ELSE {}

\* Mutant of MakeRoom: > for >=.
MakeRoomLate(a) ==
  IF a.size > a.capacity THEN Expanded(a) ELSE {Outcome(CC_OK, a)}

MakeRoom(a) == IF a.size >= a.capacity THEN Expanded(a) ELSE {Outcome(CC_OK, a)}

InsertAt(a, e, i) ==
  [a EXCEPT !.buffer = [Move(@, i + 1, i, a.size - i) EXCEPT ![i] = e],
            !.size = @ + 1]

\* Mutant of DeleteAt: one element too few is moved.
DeleteShort(a, i) ==
  [a EXCEPT !.buffer = Move(@, i, i + 1, a.size - 2 - i), !.size = @ - 1]

DeleteAt(a, i) ==
  [a EXCEPT !.buffer = Move(@, i, i + 1, a.size - 1 - i), !.size = @ - 1]

\* The loop of cc_array_filter_mut, from the last element to the first: a run
\* of rm rejected elements is closed when the next accepted one is met.
FilteredInPlace(a, pred) ==
  LET close(s, i) ==
        [s EXCEPT !.buffer = Move(@, i, i + s.rm, s.keep),
                  !.size = @ - s.rm, !.rm = 0]
      scan[n \in 0..a.size] ==
        IF n = 0 THEN [buffer |-> a.buffer, size |-> a.size, rm |-> 0, keep |-> 0]
        ELSE LET s == scan[n - 1]
                 i == a.size - n
             IN  IF s.buffer[i] \notin pred THEN [s EXCEPT !.rm = @ + 1]
                 ELSE [(IF s.rm > 0 THEN close(s, i + 1) ELSE s)
                         EXCEPT !.keep = @ + 1]
      last == scan[a.size]
      end  == IF last.rm > 0 THEN close(last, 0) ELSE last
  IN  [a EXCEPT !.buffer = end.buffer, !.size = end.size]

\* cc_array_filter fills a buffer as large as the parent's.
FilteredCopy(a, pred) ==
  LET chosen == Selected(Contents(a), pred)
  IN  [a EXCEPT !.size = Len(chosen),
                !.buffer = [s \in Slots(a.capacity) |->
                              IF s < Len(chosen) THEN chosen[s + 1] ELSE NoElement]]

\* cc_array_subarray: the parent's capacity is allocated, exp_factor is not set.
SubArray(a, b, e) ==
  LET n == e - b + 1
  IN  [size |-> n, capacity |-> n, exp |-> 0,
       buffer |-> [s \in Slots(a.capacity) |->
                     IF s < n THEN a.buffer[b + s] ELSE NoElement]]

-----------------------------------------------------------------------------
\* Calls

Stale      == fresh' = FALSE
EndWalk    == Stale /\ UNCHANGED iter
NewIter    == iter' = [index |-> 0, last_removed |-> FALSE]
Return(r)  == ret' = r
Reject(st) == Return(Refused(st)) /\ UNCHANGED <<array, refused, fault>>
Refuse(st) == Reject(st) /\ EndWalk

Crash == fault' = TRUE /\ UNCHANGED <<array, refused, ret>>

\* The array becomes a and the call returns r, if the slots it used exist.
Commit(a, slots, r) ==
  IF slots \subseteq DOMAIN a.buffer
  THEN Return(r) /\ array' = a /\ UNCHANGED <<refused, fault>>
  ELSE Crash

Update(a, slots, r) == Commit(a, slots, r) /\ EndWalk

\* The client goes on with a new array of n slots and an iterator on it.
Adopt(a, n) ==
  \/ Refuse(CC_ERR_ALLOC)
  \/ /\ n <= MemLimit
     /\ Return(Done) /\ NewIter /\ Stale
     /\ array' = a /\ refused' = FALSE /\ UNCHANGED fault

InRange(i) == 0 <= i /\ i < array.size

NewArray == [size |-> 0, capacity |-> InitCapacity, exp |-> ExpNum,
             buffer |-> Copied(<<>>, 0, InitCapacity)]

Init ==
  /\ array = NewArray
  /\ iter = [index |-> 0, last_removed |-> FALSE]
  /\ fresh = FALSE /\ refused = FALSE /\ kept = TRUE
  /\ ret = Done /\ fault = FALSE

\* cc_array_add is an insertion at index = size.
Insert(e, i) ==
  \E o \in MakeRoom(array) :
    \/ /\ o.stat # CC_OK
       /\ Return(Refused(o.stat)) /\ array' = o.array
       /\ refused' = TRUE /\ UNCHANGED fault
    \/ /\ o.stat = CC_OK
       /\ Commit(InsertAt(o.array, e, i), i..array.size, Done)

InsertChecked(e, i) ==
  \/ i > array.size /\ Reject(CC_ERR_OUT_OF_RANGE)
  \/ i <= array.size /\ Insert(e, i)

Add(e)      == Insert(e, array.size) /\ EndWalk
AddAt(e, i) == InsertChecked(e, i) /\ EndWalk

ReplaceChecked(e, i) ==
  \/ ~InRange(i) /\ Reject(CC_ERR_OUT_OF_RANGE)
  \/ /\ InRange(i)
     /\ Commit([array EXCEPT !.buffer[i] = e], {i}, Got(array.buffer[i]))

ReplaceAt(e, i) == ReplaceChecked(e, i) /\ EndWalk

SwapAt(i, j) ==
  \/ ~(InRange(i) /\ InRange(j)) /\ Refuse(CC_ERR_OUT_OF_RANGE)
  \/ /\ InRange(i) /\ InRange(j)
     /\ Update([array EXCEPT !.buffer[i] = array.buffer[j],
                             !.buffer[j] = array.buffer[i]], {i, j}, Done)

RemoveChecked(i) ==
  \/ ~InRange(i) /\ Reject(CC_ERR_OUT_OF_RANGE)
  \/ InRange(i) /\ Commit(DeleteAt(array, i), {i}, Got(array.buffer[i]))

RemoveAt(i) == RemoveChecked(i) /\ EndWalk
RemoveLast  == RemoveAt(array.size - 1)

IndexOf(e) == {i \in Slots(array.size) :
                 /\ array.buffer[i] = e
                 /\ \A j \in Slots(i) : array.buffer[j] # e}

Remove(e) ==
  \/ IndexOf(e) = {} /\ Refuse(CC_ERR_VALUE_NOT_FOUND)
  \/ \E i \in IndexOf(e) : Update(DeleteAt(array, i), {}, Got(e))

RemoveAll == Update([array EXCEPT !.size = 0], {}, Done)

GetAt(i) ==
  \/ ~InRange(i) /\ Refuse(CC_ERR_OUT_OF_RANGE)
  \/ InRange(i) /\ Update(array, {i}, Got(array.buffer[i]))

GetLast ==
  \/ array.size = 0 /\ Refuse(CC_ERR_VALUE_NOT_FOUND)
  \/ array.size # 0 /\ GetAt(array.size - 1)

Reverse ==
  Update([array EXCEPT !.buffer =
            [s \in DOMAIN @ |-> IF s < array.size THEN @[array.size - 1 - s]
                                                  ELSE @[s]]], {}, Done)

FilterMut(pred) ==
  \/ array.size = 0 /\ Refuse(CC_ERR_OUT_OF_RANGE)
  \/ array.size # 0 /\ Update(FilteredInPlace(array, pred), {}, Done)

Filter(pred) ==
  \/ array.size = 0 /\ Refuse(CC_ERR_OUT_OF_RANGE)
  \/ array.size # 0 /\ Adopt(FilteredCopy(array, pred), array.capacity)

Subarray(b, e) ==
  \/ (b > e \/ e >= array.size) /\ Refuse(CC_ERR_INVALID_RANGE)
  \/ b <= e /\ e < array.size /\ Adopt(SubArray(array, b, e), array.capacity)

CopyShallow ==
  Adopt([array EXCEPT !.buffer = Copied(@, array.size, array.capacity)],
        array.capacity)

CopyDeep(cp) ==
  Adopt([array EXCEPT !.buffer =
           [s \in Slots(array.capacity) |->
              IF s < array.size THEN cp[@[s]] ELSE NoElement]],
        array.capacity)

\* qsort: elements that compare equal are left in any order.
Sort ==
  \E s \in [1..array.size -> Elements] :
    /\ \A i \in 2..array.size : Key[s[i - 1]] <= Key[s[i]]
    /\ \A e \in Elements : Cardinality({i \in 1..array.size : s[i] = e})
                          = Cardinality({i \in Slots(array.size) : array.buffer[i] = e})
    /\ Update([array EXCEPT !.buffer =
                 [i \in DOMAIN @ |-> IF i < array.size THEN s[i + 1] ELSE @[i]]],
              {}, Done)

\* At size 0 one pointer is copied into a buffer of none.
TrimCapacity ==
  IF array.size = array.capacity THEN Update(array, {}, Done)
  ELSE \/ Refuse(CC_ERR_ALLOC)
       \/ array.size = 0 /\ Crash /\ EndWalk
       \/ /\ array.size # 0
          /\ Update([array EXCEPT !.capacity = array.size,
                                  !.buffer = Copied(@, array.size, array.size)],
                    {}, Done)

\* The iterator

IterInit ==
  /\ NewIter /\ Stale
  /\ Return(Done)
  /\ UNCHANGED <<array, refused, fault>>

IterNext ==
  \/ /\ iter.index >= array.size
     /\ Reject(CC_ITER_END) /\ Stale /\ UNCHANGED iter
  \/ /\ iter.index < array.size
     /\ Commit(array, {iter.index}, Got(array.buffer[iter.index]))
     /\ iter' = [index |-> iter.index + 1, last_removed |-> FALSE]
     /\ fresh' = TRUE

\* The index stays where it is, one past the element that takes the place of
\* the one removed.
IterRemove ==
  /\ Stale
  /\ \/ /\ iter.last_removed
        /\ Reject(CC_ERR_VALUE_NOT_FOUND) /\ UNCHANGED iter
     \/ /\ ~iter.last_removed
        /\ RemoveChecked(iter.index - 1)
        /\ iter' = [iter EXCEPT !.last_removed = (ret'.stat = CC_OK)]

\* The index moves on whether or not the element was added.
IterAdd(e) ==
  /\ iter.index <= MemLimit
  /\ InsertChecked(e, iter.index)
  /\ iter' = [iter EXCEPT !.index = @ + 1]
  /\ Stale

\* Mutant of IterReplace: the element after the one returned is replaced.
IterReplaceNext(e) == ReplaceChecked(e, iter.index) /\ Stale /\ UNCHANGED iter

IterReplace(e) == ReplaceChecked(e, iter.index - 1) /\ Stale /\ UNCHANGED iter

-----------------------------------------------------------------------------

\* What is promised of a call: SeqSpec's action of its name.

Abs == INSTANCE SeqSpec WITH seq <- Contents(array)

Keeping(call, promise) == call /\ kept' = (kept /\ (fault' \/ promise))

Indices == 0..MemLimit

Ends ==
  \/ \E e \in Elements : Keeping(Add(e), Abs!AddLast(e))
  \/ Keeping(RemoveLast, Abs!RemoveLast)
  \/ Keeping(GetLast, Abs!GetLast)
  \/ Keeping(RemoveAll, Abs!RemoveAll)

Middle ==
  \/ \E e \in Elements, i \in Indices :
       \/ Keeping(AddAt(e, i), Abs!AddAt(e, i))
       \/ Keeping(ReplaceAt(e, i), Abs!ReplaceAt(e, i))
  \/ \E i \in Indices :
       \/ Keeping(RemoveAt(i), Abs!RemoveAt(i))
       \/ Keeping(GetAt(i), Abs!GetAt(i))
       \/ \E j \in Indices : Keeping(SwapAt(i, j), Abs!SwapAt(i, j))
       \/ \E j \in Indices : Keeping(Subarray(i, j), Abs!Subarray(i, j))
  \/ \E e \in Elements : Keeping(Remove(e), Abs!Remove(e))

AllOfIt ==
  \/ Keeping(Reverse, Abs!Reverse)
  \/ Keeping(Sort, Abs!Sort(Key))
  \/ \E pred \in SUBSET Elements :
       \/ Keeping(FilterMut(pred), Abs!Filter(pred))
       \/ Keeping(Filter(pred), Abs!Filter(pred))
  \/ \E cp \in [Elements -> Elements] : Keeping(CopyDeep(cp), Abs!CopyDeep(cp))
  \/ Keeping(CopyShallow, Abs!Copy)
  \/ Keeping(TrimCapacity, Abs!Copy)

\* Right after iter_next returned an element, that element is the one meant; at
\* other times there may be none.
AtHand(promise) == \/ ~fresh /\ Abs!NotThere
                   \/ iter.index > 0 /\ promise /\ (fresh => ret' = ret)

Iterate ==
  \/ Keeping(IterInit, Abs!Keep)
  \/ Keeping(IterNext, IF iter.index < array.size THEN Abs!GetAt(iter.index)
                       ELSE Abs!WalkOver)
  \/ Keeping(IterRemove, AtHand(Abs!RemoveAt(iter.index - 1)))
  \/ \E e \in Elements :
       \/ Keeping(IterAdd(e), Abs!AddAt(e, iter.index))
       \/ Keeping(IterReplace(e), AtHand(Abs!ReplaceAt(e, iter.index - 1)))

Next == ~fault /\ (Ends \/ Middle \/ AllOfIt \/ Iterate)

Spec == Init /\ [][Next]_vars

-----------------------------------------------------------------------------
\* Properties

\* Memory outside the buffer is touched only by a client that goes on after an
\* expansion was refused, or that trims an empty array.
NoStrayAccess == fault => refused \/ array.size = 0

\* The array is a sequence, every call doing what SeqSpec says of the call of
\* its name, as long as it stays in its buffer; its iterator removes and replaces
\* the element it has just returned.
IsASequence == kept
=============================================================================
