------------------------------ MODULE CCDequeZip ------------------------------
(***************************************************************************)
(* CC_DequeZipIter (cc_deque.c): an iterator over two deques side by side, *)
(* which the zip iterator of CC_Queue is another name of.  The deques are  *)
(* those of CCDeque, on whole buffers: InitCapacity is a power of two.     *)
(***************************************************************************)
EXTENDS CCCommon, Sequences, FiniteSets

CONSTANTS Elements, InitCapacity, MaxCapacity, DefaultCapacity

VARIABLES
  deques,
  iter,   \* CC_DequeZipIter: index, last_removed, on: there is one
  fresh,  \* history: the latest call is a zip_iter_next that returned a pair
  kept,   \* history: every call kept its promise
  ret

vars == <<deques, iter, fresh, kept, ret>>

Pair == {1, 2}

D == INSTANCE CCDeque WITH deque <- deques[1], walk <- fresh, fault <- FALSE, Calls <- {}

Init ==
  /\ deques = [l \in Pair |->
                 [size |-> 0, capacity |-> InitCapacity, first |-> 0, last |-> 0,
                  buffer |-> D!Buffer(InitCapacity)]]
  /\ iter = [on |-> FALSE] /\ fresh = FALSE /\ kept = TRUE /\ ret = Done

Return(r)  == ret' = r
Answer(r)  == Return(r) /\ UNCHANGED deques
Reject(st) == Answer(Refused(st))

Full(d) == d.size = d.capacity

\* One deque on its own, from either end.
Become(l, d) == deques' = [deques EXCEPT ![l] = d]
NoRoom(l)  == Full(deques[l]) /\ Reject(CC_ERR_ALLOC)

AddLast(l, e) ==
  \/ NoRoom(l)
  \/ \E d \in D!MakeRoom(deques[l]) : Become(l, D!PushBack(d, e)) /\ Return(Done)
AddFirst(l, e) ==
  \/ NoRoom(l)
  \/ \E d \in D!MakeRoom(deques[l]) : Become(l, D!PushFront(d, e)) /\ Return(Done)

-----------------------------------------------------------------------------
\* Both of them

At         == iter.index
Reaches(i) == \A l \in Pair : i < deques[l].size
InHand     == At > 0 /\ Reaches(At - 1)
Element(l, i) == deques[l].buffer[D!Slot(deques[l], i)]
Handed(i)     == Got(<<Element(1, i), Element(2, i)>>)

ZipIterInit == Answer(Done) /\ iter' = [on |-> TRUE, index |-> 0, last_removed |-> FALSE]

\* A full deque is taken for an empty one.
LooksEmpty(d) == D!Mask(d, d.last) = D!Mask(d, d.first)
AtEnd == ~Reaches(At) \/ \E l \in Pair : LooksEmpty(deques[l])

ZipIterNext ==
  \/ AtEnd /\ Reject(CC_ITER_END) /\ UNCHANGED iter
  \/ /\ ~AtEnd /\ Answer(Handed(At))
     /\ iter' = [iter EXCEPT !.index = @ + 1, !.last_removed = FALSE]

\* Mutant of ZipIterAdd: the second deque is not asked for room beforehand.
ZipIterAddUnchecked(e, f) ==
  /\ Reaches(At) /\ ~Full(deques[1])
  /\ \/ Full(deques[2]) /\ Become(1, D!InsertAt(deques[1], e, At))
     \/ \E d \in D!MakeRoom(deques[2]) :
          deques' = <<D!InsertAt(deques[1], e, At), D!InsertAt(d, f, At)>>
  /\ Return(Done) /\ iter' = [iter EXCEPT !.index = @ + 1]

\* Room is made in both first: the first deque may be expanded for nothing.
ZipIterAdd(e, f) ==
  \/ ~Reaches(At) /\ Reject(CC_ERR_OUT_OF_RANGE) /\ UNCHANGED iter
  \/ /\ Reaches(At) /\ Full(deques[1])
     /\ Reject(CC_ERR_ALLOC) /\ UNCHANGED iter
  \/ /\ Reaches(At) /\ \E d \in D!MakeRoom(deques[1]) : Become(1, d)
     /\ Full(deques[2]) /\ Return(Refused(CC_ERR_ALLOC)) /\ UNCHANGED iter
  \/ /\ Reaches(At)
     /\ \E c \in D!MakeRoom(deques[1]), d \in D!MakeRoom(deques[2]) :
          deques' = <<D!InsertAt(c, e, At), D!InsertAt(d, f, At)>>
     /\ Return(Done) /\ iter' = [iter EXCEPT !.index = @ + 1]

ZipIterRemove ==
  \/ /\ iter.last_removed \/ ~InHand
     /\ Reject(IF iter.last_removed THEN CC_ERR_VALUE_NOT_FOUND ELSE CC_ERR_OUT_OF_RANGE)
     /\ UNCHANGED iter
  \/ /\ ~iter.last_removed /\ InHand
     /\ deques' = [l \in Pair |-> D!DeleteAt(deques[l], At - 1)]
     /\ Return(Handed(At - 1))
     /\ iter' = [iter EXCEPT !.index = @ - 1, !.last_removed = TRUE]

\* After a removal this is the pair before the one that was removed.
ZipIterReplace(e, f) ==
  /\ UNCHANGED iter
  /\ \/ ~InHand /\ Reject(CC_ERR_OUT_OF_RANGE)
     \/ /\ InHand /\ Return(Handed(At - 1))
        /\ deques' = [l \in Pair |->
             [deques[l] EXCEPT !.buffer[D!Slot(deques[l], At - 1)] = <<e, f>>[l]]]

-----------------------------------------------------------------------------
\* What is promised of a call

Abs == INSTANCE SeqPairSpec WITH seqs <- [l \in Pair |-> D!Contents(deques[l])]

Keeping(call, promise) == call /\ kept' = (kept /\ promise)
On(l, call, promise)   == Keeping(call, promise /\ Abs!Alone(l))

\* Bounds: a client fills the deques first and then walks, fills them only with
\* what is not there yet, and puts two different elements in both.
Absent(l) == {e \in Elements : \A i \in 0..(deques[l].size - 1) : Element(l, i) # e}

Fill(l) ==
  \/ \E e \in Absent(l) :
       \/ On(l, AddFirst(l, e), Abs!S(l)!AddFirst(e))
       \/ On(l, AddLast(l, e), Abs!S(l)!AddLast(e))

\* After zip_iter_next returned a pair, that pair is the one removed or replaced.
AtHand(promise) == fresh => ret' = ret /\ promise

\* A removal that tears one of the deques (CCDeque) returns the pair all the same,
\* and makes both shorter.
Torn(i) ==
  /\ \E l \in Pair : D!TearsAt(deques[l], i)
  /\ ret' = Handed(i)
  /\ \A l \in Pair : deques'[l].size = deques[l].size - 1

\* The walk ends early when one of the deques is full, and only then.
Over == /\ Abs!S(1)!WalkOver
        /\ Abs!Both(At) => \E l \in Pair : Full(deques[l])

\* Both become longer or neither; what add_at makes of the middle of a deque is
\* a matter of its own (AddAtInserts of CCDeque).
BothGrow(e, f) ==
  \/ IF At = 0 THEN Abs!AddBoth(e, f, 0)
     ELSE ret' = Done /\ \A l \in Pair : deques'[l].size = deques[l].size + 1
  \/ Abs!Refuse({CC_ERR_ALLOC})

Zip ==
  \/ Keeping(ZipIterNext, Abs!GetBoth(At) \/ Over) /\ fresh' = (ret'.stat = CC_OK)
  \/ /\ fresh' = FALSE
     /\ \/ Keeping(ZipIterRemove, AtHand(Abs!RemoveBoth(At - 1) \/ Torn(At - 1)))
        \/ \E e \in Elements : \E f \in Elements \ {e} :
             \/ Keeping(ZipIterReplace(e, f), AtHand(Abs!ReplaceBoth(e, f, At - 1)))
             \/ Keeping(ZipIterAdd(e, f),
                        IF Abs!Both(At) THEN BothGrow(e, f)
                        ELSE Abs!Refuse({CC_ERR_OUT_OF_RANGE}))

Next ==
  \/ ~iter.on /\ (\E l \in Pair : Fill(l)) /\ UNCHANGED <<iter, fresh>>
  \/ Keeping(ZipIterInit, Abs!S(1)!Keep) /\ fresh' = FALSE
  \/ iter.on /\ Zip

Spec == Init /\ [][Next]_vars

-----------------------------------------------------------------------------
\* Properties

\* The two deques stay two sequences, and what the iterator does it does to both,
\* at one index, or to none, whichever of them has wrapped or must expand.
ZipKeepsPromise == kept
=============================================================================
