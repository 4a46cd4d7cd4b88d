----------------------------- MODULE CCRingBuffer -----------------------------
(***************************************************************************)
(* CC_Rbuf (cc_ring_buffer.c): a ring of `capacity' slots that overwrites *)
(* its oldest item when it is full.  enqueue moves tail whenever it meets *)
(* head, which it takes for a full buffer: it is also what an empty one    *)
(* looks like.                                                             *)
(***************************************************************************)
EXTENDS MemoryConf, CCCommon, Sequences

CONSTANT Items

VARIABLES
  ring,    \* struct ring_buffer: size, head, tail, buf
  queued,  \* history: the items the ring should hold, oldest first
  primed,  \* history: the ring was full, and not empty since
  ret

vars == <<ring, queued, primed, ret>>

Zero == NoElement  \* what calloc leaves in a slot

Step(i) == (i + 1) % Capacity

Init ==
  /\ ring = [size |-> 0, head |-> 0, tail |-> 0,
             buf |-> [s \in 0..(Capacity - 1) |-> Zero]]
  /\ queued = <<>> /\ primed = FALSE /\ ret = Done

\* The ring after e went into a slot.
Stored(e, size, tail, slot) ==
  LET more == Append(queued, e)
  IN  /\ ring' = [size |-> size, head |-> Step(ring.head), tail |-> tail,
                  buf  |-> [ring.buf EXCEPT ![slot] = e]]
      /\ queued' = IF Len(more) > Capacity THEN Tail(more) ELSE more
      /\ primed' = (primed \/ Len(more) >= Capacity)
      /\ ret' = Done

NewSize == IF ring.size < Capacity THEN ring.size + 1 ELSE ring.size
NewTail == IF ring.head = ring.tail THEN Step(ring.tail) ELSE ring.tail

\* Mutants of Enqueue: tail stays behind; head is moved before the item is
\* stored.
EnqueueBehind(e)   == Stored(e, NewSize, ring.tail, ring.head)
EnqueueAhead(e)    == Stored(e, NewSize, NewTail, Step(ring.head))

Enqueue(e) == Stored(e, NewSize, NewTail, ring.head)

\* Mutant of Dequeue: the newest item is taken.
DequeueNewest ==
  /\ ring.size # 0
  /\ ret' = Got(ring.buf[(ring.head + Capacity - 1) % Capacity])
  /\ ring' = [ring EXCEPT !.tail = Step(@), !.size = @ - 1]
  /\ queued' = Tail(queued)
  /\ primed' = (primed /\ Len(queued) > 1)

Dequeue ==
  \/ ring.size = 0 /\ ret' = Refused(CC_ERR_OUT_OF_RANGE)
     /\ UNCHANGED <<ring, queued, primed>>
  \/ /\ ring.size # 0
     /\ ret' = Got(ring.buf[ring.tail])
     /\ ring' = [ring EXCEPT !.tail = Step(@), !.size = @ - 1]
     /\ queued' = Tail(queued)
     /\ primed' = (primed /\ Len(queued) > 1)

\* peek reads a slot, not a position in the queue.
Peek(i) == ret' = Got(ring.buf[i]) /\ UNCHANGED <<ring, queued, primed>>

Next ==
  \/ \E e \in Items : Enqueue(e)
  \/ Dequeue
  \/ \E i \in 0..(Capacity - 1) : Peek(i)

Spec == Init /\ [][Next]_vars

-----------------------------------------------------------------------------
\* Properties

\* size is right whatever the client does, and from full until empty the slots
\* from tail on hold the queue, in order.
PrimedRingHoldsQueue ==
  /\ ring.size = Len(queued)
  /\ primed => \A i \in DOMAIN queued :
                 ring.buf[(ring.tail + i - 1) % Capacity] = queued[i]

\* The latest Capacity items, or all since the start, are in the slots before
\* head: nothing is overwritten too early.
LatestAreKept ==
  \A i \in DOMAIN queued :
    ring.buf[(ring.head + Capacity - Len(queued) + i - 1) % Capacity] = queued[i]

\* From full until empty a dequeue gives back the oldest item (ring_buffer_test.c,
\* test_dequeue: items[i] == out), and so for a client that begins otherwise as
\* soon as its ring has been full.  What it returns before is in the README.
DequeuesOldest ==
  [][primed /\ Dequeue /\ ret'.stat = CC_OK => ret' = Got(Head(queued))]_vars
=============================================================================
