---------------------------- MODULE CCArraySized ----------------------------
(***************************************************************************)
(* CC_ArraySized (sized/cc_array_sized.c): an array that holds elements of *)
(* data_length bytes by value, in a growing buffer of bytes.  The client   *)
(* has two of them, for the zip iterator and the calls that make another.  *)
(*                                                                         *)
(* As in CCArray the buffer is a function on the bytes that were really    *)
(* allocated and `capacity' is what the array believes; a call that        *)
(* touches another byte sets `fault' and the program has no further        *)
(* behaviour.  What a call writes to `out', or gives a pointer to, is the  *)
(* result; of remove, which only takes the element, it is that.            *)
(***************************************************************************)
EXTENDS CCCommon, FiniteSets

CONSTANTS
  Elements,     \* sequences of DataLength bytes
  DataLength,   \* data_length
  Key,          \* what cmp compares
  InitCapacity, \* conf->capacity
  ExpNum,       \* exp_factor = ExpNum / ExpDen, more than 1
  ExpDen,
  MemLimit,     \* bound: the elements the two buffers have room for together,
                \* and how far iter_add may push the index
  MaxElements   \* CC_MAX_ELEMENTS, scaled down: a buffer that large never is

VARIABLES
  ars,     \* struct cc_array_sized_s of both: size, capacity, exp (exp_factor *
           \* ExpDen), buffer
  iter,    \* the iterator: on, the arrays it goes over; index, last_removed
  fresh,   \* history: the latest call is an iter_next that returned something
  refused, \* history: the arrays that were refused the memory to expand, since
           \* they got some
  ret,
  kept,    \* history: every call so far did what SeqPairSpec says of it
  fault    \* <<>>, or the call that strayed and its array

vars == <<ars, iter, fresh, refused, ret, kept, fault>>

Pair     == {1, 2}
Other(l) == 3 - l

-----------------------------------------------------------------------------
\* Bytes

Slots(n) == 0..(n * DataLength - 1)
Within(byte, i, n) == i * DataLength <= byte /\ byte < (i + n) * DataLength

Block(b, i)   == [j \in 1..DataLength |-> b[DataLength * i + j - 1]]
Blocks(b, i, n) == [k \in 1..n |-> Block(b, i + k - 1)]
Contents(a)   == Blocks(a.buffer, 0, a.size)
Room(a)       == Cardinality(DOMAIN a.buffer) \div DataLength

\* A new buffer of c blocks that begins with n blocks of b, from block i on.
Buffer(c, b, i, n) ==
  [s \in Slots(c) |-> IF Within(s, 0, n) THEN b[s + i * DataLength] ELSE NoElement]

\* Mutant of Move: n bytes, not n blocks.
MoveBytes(b, dst, src, n) ==
  [s \in DOMAIN b |->
     IF dst * DataLength <= s /\ s < dst * DataLength + n
     THEN b[s + (src - dst) * DataLength] ELSE b[s]]

\* memmove of n blocks from block src to block dst, within the bytes there are.
Move(b, dst, src, n) ==
  [s \in DOMAIN b |-> IF Within(s, dst, n) THEN b[s + (src - dst) * DataLength]
                      ELSE b[s]]

\* memcpy of an element to block i.
Write(b, i, e) ==
  [s \in DOMAIN b |-> IF Within(s, i, 1) THEN e[s - i * DataLength + 1] ELSE b[s]]

-----------------------------------------------------------------------------
\* What a call makes of both arrays, and its status: a world.

World == [ars |-> ars, refused |-> refused, fault |-> fault, stat |-> CC_OK]

Failed(w, st) == [w EXCEPT !.stat = st]
Strayed(w, l) == [w EXCEPT !.fault = <<"add", l>>]
With(w, l, a) == [w EXCEPT !.ars[l] = a]

\* expand_capacity sets the capacity before it asks for the memory.
Expanded(w, l) ==
  LET a == w.ars[l]
      n == (a.capacity * a.exp) \div ExpDen
      c == IF n <= a.capacity THEN MaxElements ELSE n
      granted == [a EXCEPT !.capacity = c, !.buffer = Buffer(c, @, 0, a.size)]
  IN  IF a.capacity = MaxElements THEN {Failed(w, CC_ERR_MAX_CAPACITY)}
      ELSE {[Failed(w, CC_ERR_ALLOC) EXCEPT !.ars[l].capacity = c,
                                            !.refused = @ \cup {l}]}
             \cup IF c + Room(w.ars[Other(l)]) > MemLimit THEN {}
                  ELSE {[With(w, l, granted) EXCEPT !.refused = @ \ {l}]}

\* Mutant of MakeRoom: > for >=.
MakeRoomLate(w, l) ==
  IF w.ars[l].size > w.ars[l].capacity THEN Expanded(w, l) ELSE {w}

MakeRoom(w, l) ==
  IF w.ars[l].size >= w.ars[l].capacity THEN Expanded(w, l) ELSE {w}

InsertAt(a, e, i) ==
  [a EXCEPT !.buffer = Write(Move(@, i + 1, i, a.size - i), i, e), !.size = @ + 1]
DeleteAt(a, i) ==
  [a EXCEPT !.buffer = Move(@, i, i + 1, a.size - 1 - i), !.size = @ - 1]
ReplacedAt(a, e, i) == [a EXCEPT !.buffer = Write(@, i, e)]

\* The loop of cc_array_sized_filter_mut, from the last block to the first: a run
\* of rm rejected blocks is closed when the next accepted one is met.
FilteredInPlace(a, pred) ==
  LET close(s, i) == [s EXCEPT !.buffer = Move(@, i, i + s.rm, s.keep),
                               !.size = @ - s.rm, !.rm = 0]
      scan[n \in 0..a.size] ==
        IF n = 0 THEN [buffer |-> a.buffer, size |-> a.size, rm |-> 0, keep |-> 0]
        ELSE LET s == scan[n - 1]
                 i == a.size - n
             IN  IF Block(s.buffer, i) \notin pred THEN [s EXCEPT !.rm = @ + 1]
                 ELSE [(IF s.rm > 0 THEN close(s, i + 1) ELSE s)
                         EXCEPT !.keep = @ + 1]
      end == close(scan[a.size], 0)
  IN  [a EXCEPT !.buffer = end.buffer, !.size = end.size]

\* The blocks of an array are es, in this order.
WithBlocks(a, es) ==
  [a EXCEPT !.buffer =
     [s \in DOMAIN @ |->
        IF Within(s, 0, a.size)
        THEN es[(s \div DataLength) + 1][(s % DataLength) + 1] ELSE @[s]]]

Reversed(a) ==
  WithBlocks(a, [i \in 1..a.size |-> Block(a.buffer, a.size - i)])
Sorted(a) ==
  LET es == Contents(a)
  IN  {WithBlocks(a, [i \in DOMAIN es |-> es[f[i]]]) :
         f \in {g \in [DOMAIN es -> DOMAIN es] :
                  \A i, j \in DOMAIN es :
                    i < j => g[i] # g[j] /\ Key[es[g[i]]] <= Key[es[g[j]]]}}

\* What index_of finds, and how often contains does: blocks equal byte by byte.
Matches(a, e) ==
  {i \in 0..(a.size - 1) :
     \A j \in 1..DataLength : a.buffer[i * DataLength + j - 1] = e[j]}
IndexOf(a, e) == {i \in Matches(a, e) : \A j \in Matches(a, e) : i <= j}

\* The elements reduce hands to fn, in their order.
Reduced(a) ==
  IF a.size = 1 THEN Blocks(a.buffer, 0, 1)
  ELSE IF a.size > 1 THEN Blocks(a.buffer, 0, 2) \o Blocks(a.buffer, 2, a.size - 2)
  ELSE <<>>

\* add and add_at.
Added(w, l, e, i) ==
  LET put(x) == IF x.stat # CC_OK THEN x
                ELSE IF x.ars[l].size >= Room(x.ars[l]) THEN Strayed(x, l)
                ELSE With(x, l, InsertAt(x.ars[l], e, i))
  IN  IF i > w.ars[l].size THEN {Failed(w, CC_ERR_OUT_OF_RANGE)}
      ELSE {put(x) : x \in MakeRoom(w, l)}

-----------------------------------------------------------------------------
\* Calls

NoIter   == [on |-> {}]
NewArray == [size |-> 0, capacity |-> InitCapacity, exp |-> ExpNum,
             buffer |-> [s \in Slots(InitCapacity) |-> NoElement]]

Init ==
  /\ ars = [l \in Pair |-> NewArray]
  /\ iter = NoIter /\ fresh = FALSE /\ refused = {}
  /\ ret = Done /\ kept = TRUE /\ fault = <<>>

Return(r)  == ret' = r
Answer(r)  == Return(r) /\ UNCHANGED <<ars, refused, fault>>
Reject(st) == Answer(Refused(st))
Enter(w)   == ars' = w.ars /\ refused' = w.refused /\ fault' = w.fault
Commit(l, a, r) == Enter(With(World, l, a)) /\ Return(r)

Get(l, i) == IF i < ars[l].size THEN Got(Block(ars[l].buffer, i))
             ELSE Refused(CC_ERR_OUT_OF_RANGE)

AddAt(l, e, i) == \E w \in Added(World, l, e, i) : Enter(w) /\ Return(Refused(w.stat))
Add(l, e)      == AddAt(l, e, ars[l].size)

ReplaceAt(l, e, i) ==
  \/ i >= ars[l].size /\ Reject(CC_ERR_OUT_OF_RANGE)
  \/ i < ars[l].size /\ Commit(l, ReplacedAt(ars[l], e, i), Get(l, i))

\* Byte by byte.
SwapAt(l, i, j) ==
  \/ (i >= ars[l].size \/ j >= ars[l].size) /\ Reject(CC_ERR_OUT_OF_RANGE)
  \/ /\ i < ars[l].size /\ j < ars[l].size
     /\ LET b == ars[l].buffer
        IN  Commit(l, ReplacedAt(ReplacedAt(ars[l], Block(b, j), i), Block(b, i), j), Done)

RemoveAt(l, i) ==
  \/ i >= ars[l].size /\ Reject(CC_ERR_OUT_OF_RANGE)
  \/ i < ars[l].size /\ Commit(l, DeleteAt(ars[l], i), Get(l, i))

Remove(l, e) ==
  \/ Matches(ars[l], e) = {} /\ Reject(CC_ERR_VALUE_NOT_FOUND)
  \/ \E i \in IndexOf(ars[l], e) : Commit(l, DeleteAt(ars[l], i), Got(e))

RemoveLast(l) ==
  \/ ars[l].size = 0 /\ Reject(CC_ERR_OUT_OF_RANGE)
  \/ ars[l].size > 0 /\ RemoveAt(l, ars[l].size - 1)

RemoveAll(l) == Commit(l, [ars[l] EXCEPT !.size = 0], Done)

Reverse(l) == Commit(l, Reversed(ars[l]), Done)
Sort(l)    == \E a \in Sorted(ars[l]) : Commit(l, a, Done)

FilterMut(l, pred) ==
  \/ ars[l].size = 0 /\ Reject(CC_ERR_OUT_OF_RANGE)
  \/ ars[l].size > 0 /\ Commit(l, FilteredInPlace(ars[l], pred), Done)

\* "The capacity will never shrink below 1": for an empty array 0 bytes are
\* allocated and a block is written there.
TrimCapacity(l) ==
  LET a == ars[l]
      trimmed == [a EXCEPT !.capacity = a.size, !.buffer = Buffer(a.size, @, 0, a.size)]
  IN  \/ a.size = a.capacity /\ Answer(Done)
      \/ a.size # a.capacity /\ Reject(CC_ERR_ALLOC)
      \/ /\ a.size # a.capacity
         /\ Enter(IF a.size = 0 THEN [World EXCEPT !.fault = <<"trim", l>>]
                  ELSE [With(World, l, trimmed) EXCEPT !.refused = @ \ {l}])
         /\ Return(Done)

\* A call makes an array out of the first, with a buffer as large as that one's
\* is thought to be; it takes the place of the second one, which is destroyed.
MakeSecond(a) ==
  /\ ars[2].size = 0
  /\ \/ Reject(CC_ERR_ALLOC)
     \/ /\ ars[1].capacity + Room(ars[1]) + Room(ars[2]) <= MemLimit
        /\ Enter([With(World, 2, a) EXCEPT !.refused = @ \ {2}])
        /\ Return(Done)

\* exp_factor stays as calloc leaves it.
Subarray(b, e) ==
  LET n == e - b + 1
  IN  \/ (b > e \/ e >= ars[1].size) /\ Reject(CC_ERR_INVALID_RANGE)
      \/ /\ b <= e /\ e < ars[1].size
         /\ MakeSecond([size |-> n, capacity |-> n, exp |-> 0,
                        buffer |-> Buffer(ars[1].capacity, ars[1].buffer, b, n)])

CopyOf(a) == [a EXCEPT !.buffer = Buffer(a.capacity, @, 0, a.size)]
Copy      == MakeSecond(CopyOf(ars[1]))

Filter(pred) ==
  LET es == Selected(Contents(ars[1]), pred)
      full == [ars[1] EXCEPT !.size = Len(es),
                             !.buffer = Buffer(ars[1].capacity, @, 0, Len(es))]
  IN  \/ ars[1].size = 0 /\ Reject(CC_ERR_OUT_OF_RANGE)
      \/ ars[1].size > 0 /\ MakeSecond(WithBlocks(full, es))

-----------------------------------------------------------------------------
\* Iterators

IterInit    == Answer(Done) /\ iter' = [on |-> {1}, index |-> 0, last_removed |-> FALSE]
ZipIterInit == Answer(Done) /\ iter' = [on |-> Pair, index |-> 0, last_removed |-> FALSE]

At == iter.index
Reaches(i) == \A l \in iter.on : i < ars[l].size
Handed(i) == IF iter.on = {1} THEN Got(Block(ars[1].buffer, i))
             ELSE Got(<<Block(ars[1].buffer, i), Block(ars[2].buffer, i)>>)

IterNext ==
  \/ ~Reaches(At) /\ Reject(CC_ITER_END) /\ UNCHANGED iter
  \/ /\ Reaches(At) /\ Answer(Handed(At))
     /\ iter' = [iter EXCEPT !.index = @ + 1, !.last_removed = FALSE]

\* Before the first iter_next, index - 1 is the largest of all.
InHand == At > 0 /\ Reaches(At - 1)

\* The index stays: the element that moves up is passed over.
IterRemove ==
  \/ /\ ~InHand \/ iter.last_removed
     /\ Reject(IF iter.last_removed /\ (iter.on = {1} \/ InHand)
               THEN CC_ERR_VALUE_NOT_FOUND ELSE CC_ERR_OUT_OF_RANGE)
     /\ UNCHANGED iter
  \/ /\ InHand /\ ~iter.last_removed
     /\ ars' = [l \in Pair |-> IF l \in iter.on THEN DeleteAt(ars[l], At - 1) ELSE ars[l]]
     /\ Return(Handed(At - 1)) /\ UNCHANGED <<refused, fault>>
     /\ iter' = [iter EXCEPT !.last_removed = TRUE]

IterReplace(e) ==
  /\ iter.on = {1}
  /\ UNCHANGED iter
  /\ \/ ~InHand /\ Reject(CC_ERR_OUT_OF_RANGE)
     \/ InHand /\ Commit(1, ReplacedAt(ars[1], e, At - 1), Handed(At - 1))

ZipIterReplace(e, f) ==
  /\ iter.on = Pair
  /\ UNCHANGED iter
  /\ \/ ~InHand /\ Reject(CC_ERR_OUT_OF_RANGE)
     \/ /\ InHand /\ UNCHANGED <<refused, fault>> /\ Return(Handed(At - 1))
        /\ ars' = <<ReplacedAt(ars[1], e, At - 1), ReplacedAt(ars[2], f, At - 1)>>

\* The index moves on whether or not there was room.
Moved == At < MemLimit /\ iter' = [iter EXCEPT !.index = @ + 1]

IterAdd(e) == iter.on = {1} /\ AddAt(1, e, At) /\ Moved

\* Room is made in both arrays first; that the index is outside one of them goes
\* unnoticed.
ZipIterAdd(e, f) ==
  /\ iter.on = Pair /\ Moved
  /\ \E w \in MakeRoom(World, 1) : \E x \in (IF w.stat = CC_OK THEN MakeRoom(w, 2) ELSE {w}) :
       IF x.stat # CC_OK THEN Enter(x) /\ Return(Refused(CC_ERR_ALLOC))
       ELSE \E y \in Added(x, 1, e, At) : \E z \in Added([y EXCEPT !.stat = CC_OK], 2, f, At) :
              Enter(IF y.fault # <<>> THEN y ELSE z) /\ Return(Done)

-----------------------------------------------------------------------------
\* What is promised of a call

Abs == INSTANCE SeqPairSpec WITH seqs <- [l \in Pair |-> Contents(ars[l])]

Keeping(call, promise) == call /\ kept' = (kept /\ (fault' # <<>> \/ promise))
On(l, call, promise)   == Keeping(call, promise /\ Abs!Alone(l))

\* Up to the first one outside.
Indices(l) == 0..(ars[l].size + 1)

Change(l) ==
  \/ \E e \in Elements :
       \/ On(l, Add(l, e), Abs!S(l)!AddLast(e))
       \/ On(l, Remove(l, e), Abs!S(l)!Remove(e))
       \/ \E i \in Indices(l) :
            \/ On(l, AddAt(l, e, i), Abs!S(l)!AddAt(e, i))
            \/ On(l, ReplaceAt(l, e, i), Abs!S(l)!ReplaceAt(e, i))
  \/ \E i \in Indices(l) :
       \/ On(l, RemoveAt(l, i), Abs!S(l)!RemoveAt(i))
       \/ \E j \in Indices(l) : On(l, SwapAt(l, i, j), Abs!S(l)!SwapAt(i, j))
  \/ On(l, RemoveLast(l), Abs!S(l)!RemoveLast)
  \/ On(l, RemoveAll(l), Abs!S(l)!RemoveAll)
  \/ On(l, Reverse(l), Abs!S(l)!Reverse)
  \/ On(l, Sort(l), Abs!S(l)!Sort(Key))
  \/ On(l, TrimCapacity(l), Abs!S(l)!Copy)
  \/ \E pred \in SUBSET Elements : On(l, FilterMut(l, pred), Abs!S(l)!Filter(pred))

\* All questions at once; map and peek, which are not asked for more than there
\* is, go over the same blocks as get_at, in their order.
Ask(l) ==
  Keeping(Answer(Done), Abs!Answers(l,
    [at    |-> [i \in Indices(l) |-> Get(l, i)],
     first |-> Get(l, 0),
     last  |-> IF ars[l].size = 0 THEN Refused(CC_ERR_VALUE_NOT_FOUND)
               ELSE Get(l, ars[l].size - 1),
     count |-> [e \in Elements |-> Cardinality(Matches(ars[l], e))],
     index |-> [e \in Elements |->
                  IF Matches(ars[l], e) = {} THEN Refused(CC_ERR_OUT_OF_RANGE)
                  ELSE Got(CHOOSE i \in IndexOf(ars[l], e) : TRUE)],
     whole |-> {Got(Contents(ars[l])), Got(Reduced(ars[l]))}]))

Make ==
  \/ \E b, e \in Indices(1) : Keeping(Subarray(b, e), Abs!Part(1, b, e))
  \/ Keeping(Copy, Abs!Copy(1, [e \in Elements |-> e]))
  \/ \E pred \in SUBSET Elements : Keeping(Filter(pred), Abs!Filter(1, pred))

\* The element in hand is the one at the index before the iterator's, and if it
\* was returned just now it is what comes back.
Latest == fresh => ret' = ret
AtHand(promise) == IF InHand /\ ~iter.last_removed THEN Latest /\ promise ELSE TRUE

Iterate ==
  \/ Keeping(IterNext,
             \/ iter.on = {1} /\ (Abs!S(1)!GetAt(At) \/ Abs!S(1)!WalkOver)
             \/ iter.on = Pair /\ (Abs!GetBoth(At) \/ Abs!S(1)!WalkOver))
     /\ fresh' = (ret'.stat = CC_OK)
  \/ /\ \/ Keeping(IterRemove, AtHand(IF iter.on = {1} THEN Abs!S(1)!RemoveAt(At - 1)
                                      ELSE Abs!RemoveBoth(At - 1)))
        \/ \E e \in Elements :
             \/ Keeping(IterReplace(e), AtHand(Abs!S(1)!ReplaceAt(e, At - 1)))
             \/ On(1, IterAdd(e), Abs!S(1)!AddAt(e, At))
             \/ \E f \in Elements :
                  \/ Keeping(ZipIterReplace(e, f), AtHand(Abs!ReplaceBoth(e, f, At - 1)))
                  \/ Keeping(ZipIterAdd(e, f),
                             (\A l \in Pair : At <= ars[l].size) => Abs!AddBoth(e, f, At))
     /\ fresh' = FALSE

Calls(any) == any /\ iter' = NoIter /\ fresh' = FALSE

\* The client of one array.
NextAlone ==
  /\ fault = <<>>
  /\ \/ Calls(Change(1) \/ Ask(1))
     \/ Keeping(IterInit, Abs!S(1)!Keep) /\ fresh' = FALSE
     \/ iter # NoIter /\ Iterate

\* Of a client of two arrays, what makes them longer, shorter or the other's.
Fill(l) ==
  \/ \E e \in Elements : On(l, Add(l, e), Abs!S(l)!AddLast(e))
  \/ On(l, RemoveAll(l), Abs!S(l)!RemoveAll)
  \/ On(l, TrimCapacity(l), Abs!S(l)!Copy)

NextTogether ==
  /\ fault = <<>>
  /\ \/ Calls((\E l \in Pair : Fill(l)) \/ Make)
     \/ Keeping(ZipIterInit, Abs!S(1)!Keep) /\ fresh' = FALSE
     \/ iter # NoIter /\ Iterate

Next == NextAlone \/ NextTogether

Spec == Init /\ [][Next]_vars

-----------------------------------------------------------------------------
\* Properties

\* Every call does to the one array, or to both, what SeqPairSpec says of the call
\* of its name, whole elements at a time, although a refused expansion leaves the
\* capacity wrong and a subarray or a copy takes it over.
CallsKeepPromise == kept

\* An addition strays from the buffer only when the array was refused the memory
\* to expand and got none since; the other call that strays trims an empty array.
StraysOnlyWhenRefused ==
  fault # <<>> => fault[1] = "trim" \/ fault[2] \in refused
=============================================================================
