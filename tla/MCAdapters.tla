----------------------------- MODULE MCAdapters -----------------------------
(***************************************************************************)
(* The queue over the deque and the priority queue, one at a time.         *)
(***************************************************************************)
EXTENDS CCDeque, TLC

CONSTANTS
  e1, e2, low, high,
  Ranked,       \* the elements of the priority queue
  Rank,         \* what their comparison looks at
  HeapCapacity, \* conf->capacity of the priority queue
  HeapLimit,    \* bound: its largest buffer
  ExpNum, ExpDen,
  MaxElements

ASSUME HeapConstants ==
  /\ HeapCapacity \in Nat /\ HeapLimit \in Nat /\ MaxElements \in Nat
  /\ ExpNum \in Nat /\ ExpDen \in Nat \ {0}
  /\ HeapCapacity <= MaxElements /\ HeapLimit < MaxElements
  /\ Rank \in [Ranked -> Int]

VARIABLES
  subject,             \* which one is used
  pqueue, top, strayed \* the priority queue

pqueueVars == <<pqueue, top, strayed>>

MCElements == {e1, e2}
MCRanked   == {e1, e2, low, high}
MCRank     == [e \in MCRanked |-> IF e = low THEN 1 ELSE IF e = high THEN 3 ELSE 2]

\* The queue has the deque to itself: Calls, what other clients do, is not used.
Queue == INSTANCE CCQueue

PQueue == INSTANCE CCPQueue
            WITH InitCapacity <- HeapCapacity, MemLimit <- HeapLimit,
                 Elements <- Ranked, Key <- Rank, ret <- top, fault <- strayed

MCInit ==
  /\ subject \in {"queue", "pqueue"}
  /\ Queue!Init /\ PQueue!Init

MCNext ==
  /\ UNCHANGED subject
  /\ \/ subject = "queue" /\ Queue!Next /\ UNCHANGED pqueueVars
     \/ subject = "pqueue" /\ PQueue!Next /\ UNCHANGED vars

MCSpec == MCInit /\ [][MCNext]_<<subject, vars, pqueueVars>>

Symmetry == Permutations({e1, e2})

-----------------------------------------------------------------------------
\* Properties of the two components, by names of their own.

\* The queue over the deque is first in, first out (CCQueue).
IsFifo == Queue!IsFifo

\* The heap gives back what outranks the rest (CCPQueue).
IsAPriorityQueue == PQueue!IsAPriorityQueue
=============================================================================
