------------------------------ MODULE CCPQueue ------------------------------
(***************************************************************************)
(* CC_PQueue (cc_pqueue.c): a binary heap in a growing buffer.  As in      *)
(* CCArray the buffer has the slots that were really allocated and         *)
(* `capacity' is what the queue believes.  A write to another slot sets    *)
(* `fault'; a read of one does or goes unnoticed.                          *)
(***************************************************************************)
EXTENDS CCCommon, Sequences, FiniteSets

CONSTANTS
  Elements,
  Key,          \* what cmp compares
  InitCapacity, \* conf->capacity
  ExpNum,       \* exp_factor = ExpNum / ExpDen, more than 1
  ExpDen,
  MemLimit,     \* bound: the largest buffer the allocator ever grants
  MaxElements   \* CC_MAX_ELEMENTS, scaled down: a buffer that large never is

VARIABLES
  pqueue,  \* struct cc_pqueue_s: size, capacity, buffer
  ret, fault

vars == <<pqueue, ret, fault>>

Slots(n)      == 0..(n - 1)
Outranks(e, f) == Key[e] > Key[f]

CC_PARENT(i) == IF i > 0 THEN (i - 1) \div 2 ELSE 0
CC_LEFT(i)   == 2 * i + 1
CC_RIGHT(i)  == 2 * i + 2

\* The element in the first slot of the path goes to its end, swap by swap.
Along(b, path) ==
  LET n == Len(path)
  IN  [s \in DOMAIN b |->
         IF s = path[n] THEN b[path[1]]
         ELSE LET on == {k \in 1..(n - 1) : path[k] = s}
              IN  IF on = {} THEN b[s] ELSE b[path[(CHOOSE k \in on : TRUE) + 1]]]

\* The slots push swaps its element through, from slot i towards the root.
WayUp(b, i) ==
  LET way[j \in 0..i] ==
        IF j # 0 /\ Outranks(b[i], b[CC_PARENT(j)])
        THEN <<j>> \o way[CC_PARENT(j)] ELSE <<j>>
  IN  way[i]

\* Mutant of Larger: the right child is compared with the parent only.
LargerOfLeft(b, n, e, j) ==
  IF CC_LEFT(j) < n /\ Outranks(b[CC_LEFT(j)], e) THEN CC_LEFT(j)
  ELSE IF CC_RIGHT(j) < n /\ Outranks(b[CC_RIGHT(j)], e) THEN CC_RIGHT(j)
  ELSE j

\* The slot of the greatest of e in slot j and the children of j.
Larger(b, n, e, j) ==
  LET goLeft == CC_LEFT(j) < n /\ Outranks(b[CC_LEFT(j)], e)
      best   == IF goLeft THEN b[CC_LEFT(j)] ELSE e
  IN  IF CC_RIGHT(j) < n /\ Outranks(b[CC_RIGHT(j)], best) THEN CC_RIGHT(j)
      ELSE IF goLeft THEN CC_LEFT(j) ELSE j

\* The slots the root's element is swapped through by cc_pqueue_heapify.
WayDown(b, n) ==
  LET way[j \in Slots(n)] ==
        LET k == Larger(b, n, b[0], j)
        IN  IF k = j THEN <<j>> ELSE <<j>> \o way[k]
  IN  IF n <= 1 THEN <<0>> ELSE way[0]

\* heapify reads both children before it asks whether there are any.
ReadAlong(n, path) ==
  IF n <= 1 THEN {}
  ELSE UNION {{CC_LEFT(path[k]), CC_RIGHT(path[k])} : k \in DOMAIN path}

-----------------------------------------------------------------------------

Return(r)  == ret' = r
Refuse(st) == Return(Refused(st)) /\ UNCHANGED <<pqueue, fault>>
Crash      == fault' = TRUE /\ UNCHANGED <<pqueue, ret>>

Init ==
  /\ pqueue = [size |-> 0, capacity |-> InitCapacity,
               buffer |-> [s \in Slots(InitCapacity) |-> NoElement]]
  /\ ret = Done /\ fault = FALSE

\* expand_capacity: the capacity is set before the memory is asked for.
GreaterCapacity ==
  LET n == (pqueue.capacity * ExpNum) \div ExpDen
  IN  IF n <= pqueue.capacity THEN MaxElements ELSE n

Store(e, c, b) ==
  LET n == pqueue.size
      stored == [b EXCEPT ![n] = e]
  IN  \/ n \notin DOMAIN b /\ Crash
      \/ /\ n \in DOMAIN b
         /\ pqueue' = [size |-> n + 1, capacity |-> c,
                       buffer |-> Along(stored, WayUp(stored, n))]
         /\ Return(Done) /\ UNCHANGED fault

Push(e) ==
  \/ /\ pqueue.size < pqueue.capacity
     /\ Store(e, pqueue.capacity, pqueue.buffer)
  \/ /\ pqueue.size >= pqueue.capacity
     /\ \/ pqueue.capacity = MaxElements /\ Refuse(CC_ERR_MAX_CAPACITY)
        \/ /\ pqueue.capacity # MaxElements
           /\ pqueue' = [pqueue EXCEPT !.capacity = GreaterCapacity]
           /\ Return(Refused(CC_ERR_ALLOC)) /\ UNCHANGED fault
        \/ /\ pqueue.capacity # MaxElements /\ GreaterCapacity <= MemLimit
           /\ Store(e, GreaterCapacity,
                    [s \in Slots(GreaterCapacity) |->
                       IF s < pqueue.size THEN pqueue.buffer[s] ELSE NoElement])

Top ==
  \/ pqueue.size = 0 /\ Refuse(CC_ERR_OUT_OF_RANGE)
  \/ /\ pqueue.size # 0
     /\ Return(Got(pqueue.buffer[0])) /\ UNCHANGED <<pqueue, fault>>

\* The last element takes the root's slot, and sinks.
Pop ==
  \/ pqueue.size = 0 /\ Refuse(CC_ERR_OUT_OF_RANGE)
  \/ /\ pqueue.size # 0
     /\ LET n == pqueue.size - 1
            b == [pqueue.buffer EXCEPT ![0] = pqueue.buffer[n],
                                       ![n] = pqueue.buffer[0]]
            path == WayDown(b, n)
        IN  \/ /\ pqueue' = [pqueue EXCEPT !.size = n, !.buffer = Along(b, path)]
               /\ Return(Got(b[n])) /\ UNCHANGED fault
            \/ ~(ReadAlong(n, path) \subseteq DOMAIN b) /\ Crash

Next == ~fault /\ ((\E e \in Elements : Push(e)) \/ Pop \/ Top)

Spec == Init /\ [][Next]_vars

-----------------------------------------------------------------------------
\* Properties

Inside ==
  [e \in Elements |-> Cardinality({s \in Slots(pqueue.size) : pqueue.buffer[s] = e})]

Abs == INSTANCE PrioritySpec WITH inside <- Inside

CallsKeepPromise ==
  /\ \A e \in Elements : Push(e) => Abs!Push(e)
  /\ Pop => Abs!Pop
  /\ Top => Abs!Top

\* Whatever was pushed and popped before, and however often the buffer grew or
\* was refused, no element is lost and pop takes one that no other outranks, as
\* long as the queue stays in its buffer.
IsAPriorityQueue == Abs!Spec /\ [][fault' \/ CallsKeepPromise]_vars
=============================================================================
