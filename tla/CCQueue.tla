------------------------------- MODULE CCQueue -------------------------------
(***************************************************************************)
(* CC_Queue (cc_queue.c): a CC_Deque whose front is the back of the queue. *)
(* Every function of the queue is one call of the deque.                   *)
(***************************************************************************)
EXTENDS CCCommon, Sequences

CONSTANTS Elements, InitCapacity, MaxCapacity, DefaultCapacity

VARIABLES deque, iter, walk, ret, fault

vars == <<deque, iter, walk, ret, fault>>

D == INSTANCE CCDeque WITH Calls <- {}

Enqueue(e)     == D!AddFirst(e)
\* Mutant of Poll: the wrong end.
PollNewest == D!RemoveFirst

Poll == D!RemoveLast

Peek           == D!GetLast
IterInit       == D!IterInit
IterNext       == D!IterNext
IterReplace(e) == D!IterReplace(e)

Init == D!Init

Next ==
  /\ ~fault
  /\ \/ \E e \in Elements :
          \/ Enqueue(e)
          \/ IterReplace(e)
     \/ Poll
     \/ Peek
     \/ IterInit
     \/ IterNext

Spec == Init /\ [][Next]_vars

-----------------------------------------------------------------------------
\* Properties

\* Oldest first: the deque from its back to its front.
Inside ==
  [i \in 1..deque.size |-> D!Contents(deque)[deque.size + 1 - i]]

\* The queue is first in, first out: poll and peek give the element that was
\* enqueued first of those not yet polled, across wraps and reallocations.
Abs == INSTANCE FifoSpec WITH inside <- Inside

CallsKeepPromise ==
  /\ \A e \in Elements : Enqueue(e) => Abs!Enqueue(e)
  /\ Poll => Abs!Poll
  /\ Peek => Abs!Peek

IsFifo == Abs!Spec /\ [][CallsKeepPromise]_vars
=============================================================================
