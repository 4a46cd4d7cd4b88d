------------------------------ MODULE CCArrayZip ------------------------------
(***************************************************************************)
(* CC_ArrayZipIter (cc_array.c): an iterator over two arrays side by side, *)
(* which the zip iterator of CC_Stack is another name of.  The arrays are  *)
(* those of CCArray.                                                       *)
(***************************************************************************)
EXTENDS CCCommon, Sequences, FiniteSets

CONSTANTS Elements, InitCapacity, ExpNum, ExpDen, MemLimit, MaxElements

VARIABLES
  arrays,
  iter,    \* CC_ArrayZipIter: index, last_removed, on: there is one
  fresh,   \* history: the latest call is a zip_iter_next that returned a pair
  refused, \* history: the arrays that were refused their latest expansion
  kept,    \* history: every call kept its promise
  ret,
  fault

vars == <<arrays, iter, fresh, refused, kept, ret, fault>>

Pair == {1, 2}

A == INSTANCE CCArray
       WITH array <- arrays[1], refused <- refused # {},
            Key <- [e \in Elements |-> 0]

Init ==
  /\ arrays = [l \in Pair |-> A!NewArray]
  /\ iter = [on |-> FALSE] /\ fresh = FALSE /\ refused = {}
  /\ kept = TRUE /\ ret = Done /\ fault = FALSE

Return(r)  == ret' = r
Answer(r)  == Return(r) /\ UNCHANGED <<arrays, refused, fault>>
Reject(st) == Answer(Refused(st))

-----------------------------------------------------------------------------
\* What the calls make of both arrays: a world.

World == [arrays |-> arrays, refused |-> refused, stat |-> CC_OK, fault |-> FALSE]
Enter(w) == arrays' = w.arrays /\ refused' = w.refused /\ fault' = w.fault

\* The check of the capacity in front of an insertion; without room already, it
\* may be granted, and what one array was refused it may be granted later.
MakeRoom(w, l) ==
  {[w EXCEPT !.arrays[l] = o.array, !.stat = o.stat,
             !.refused = IF o.stat # CC_OK THEN @ \cup {l}
                         ELSE IF o.array = w.arrays[l] THEN @ ELSE @ \ {l}] :
     o \in A!MakeRoom(w.arrays[l])}

\* add_at, whose slots are there only if the capacity is what was granted.
Added(w, l, e, i) ==
  LET put(x) ==
        IF x.stat # CC_OK THEN x
        ELSE IF x.arrays[l].size \notin DOMAIN x.arrays[l].buffer
        THEN [x EXCEPT !.fault = TRUE]
        ELSE [x EXCEPT !.arrays[l] = A!InsertAt(@, e, i)]
  IN  IF i > w.arrays[l].size THEN {[w EXCEPT !.stat = CC_ERR_OUT_OF_RANGE]}
      ELSE {put(x) : x \in MakeRoom(w, l)}

Add(l, e) ==
  \E w \in Added(World, l, e, arrays[l].size) : Enter(w) /\ Return(Refused(w.stat))

-----------------------------------------------------------------------------
\* The iterator

At         == iter.index
Reaches(i) == \A l \in Pair : i < arrays[l].size
InHand     == At > 0 /\ Reaches(At - 1)
Handed(i)  == Got(<<arrays[1].buffer[i], arrays[2].buffer[i]>>)

ZipIterInit == Answer(Done) /\ iter' = [on |-> TRUE, index |-> 0, last_removed |-> FALSE]

ZipIterNext ==
  \/ ~Reaches(At) /\ Reject(CC_ITER_END) /\ UNCHANGED iter
  \/ /\ Reaches(At) /\ Answer(Handed(At))
     /\ iter' = [iter EXCEPT !.index = @ + 1, !.last_removed = FALSE]

\* The index stays: the pair that moves up is passed over.
ZipIterRemove ==
  \/ /\ ~InHand \/ iter.last_removed
     /\ Reject(IF InHand THEN CC_ERR_VALUE_NOT_FOUND ELSE CC_ERR_OUT_OF_RANGE)
     /\ UNCHANGED iter
  \/ /\ InHand /\ ~iter.last_removed
     /\ arrays' = [l \in Pair |-> A!DeleteAt(arrays[l], At - 1)]
     /\ Return(Handed(At - 1)) /\ UNCHANGED <<refused, fault>>
     /\ iter' = [iter EXCEPT !.last_removed = TRUE]

\* Mutant of BothHaveRoom: the second array is not looked at.
FirstHasRoom == MakeRoom(World, 1)

\* Whether there is room in the second array is asked when there is in the first.
BothHaveRoom ==
  UNION {IF w.stat = CC_OK THEN MakeRoom(w, 2) ELSE {w} : w \in MakeRoom(World, 1)}

\* The index moves on in any case, and that it may be outside one of the arrays
\* goes unnoticed.
ZipIterAdd(e, f) ==
  /\ At < MemLimit /\ iter' = [iter EXCEPT !.index = @ + 1]
  /\ \E w \in BothHaveRoom :
       \/ w.stat # CC_OK /\ Enter(w) /\ Return(Refused(CC_ERR_ALLOC))
       \/ /\ w.stat = CC_OK
          /\ \E x \in Added(w, 1, e, At) :
             \E y \in Added([x EXCEPT !.stat = CC_OK], 2, f, At) : Enter(y)
          /\ Return(Done)

ZipIterReplace(e, f) ==
  /\ UNCHANGED iter
  /\ \/ ~InHand /\ Reject(CC_ERR_OUT_OF_RANGE)
     \/ /\ InHand /\ Return(Handed(At - 1)) /\ UNCHANGED <<refused, fault>>
        /\ arrays' = [l \in Pair |->
                        [arrays[l] EXCEPT !.buffer[At - 1] = <<e, f>>[l]]]

-----------------------------------------------------------------------------
\* What is promised of a call

Abs == INSTANCE SeqPairSpec WITH seqs <- [l \in Pair |-> A!Contents(arrays[l])]

Keeping(call, promise) == call /\ kept' = (kept /\ (fault' \/ promise))

\* After zip_iter_next returned a pair, that pair is the one removed or replaced.
AtHand(promise) == fresh => ret' = ret /\ promise

Zip ==
  \/ Keeping(ZipIterNext, IF Reaches(At) THEN Abs!GetBoth(At) ELSE Abs!S(1)!WalkOver)
     /\ fresh' = (ret'.stat = CC_OK)
  \/ /\ fresh' = FALSE
     /\ \/ Keeping(ZipIterRemove, AtHand(Abs!RemoveBoth(At - 1)))
        \/ \E e, f \in Elements :
             \/ Keeping(ZipIterReplace(e, f), AtHand(Abs!ReplaceBoth(e, f, At - 1)))
             \/ Keeping(ZipIterAdd(e, f),
                        (\A l \in Pair : At <= arrays[l].size) => Abs!AddBoth(e, f, At))

\* Bound: a client fills the arrays first and then walks.
Next ==
  /\ ~fault
  /\ \/ /\ ~iter.on /\ UNCHANGED <<iter, fresh>>
        /\ \E l \in Pair, e \in Elements :
             Keeping(Add(l, e), Abs!S(l)!AddLast(e) /\ Abs!Alone(l))
     \/ Keeping(ZipIterInit, Abs!S(1)!Keep) /\ fresh' = FALSE
     \/ iter.on /\ Zip

Spec == Init /\ [][Next]_vars

-----------------------------------------------------------------------------
\* Properties

\* The two arrays stay two sequences; what the iterator does it does to both, at
\* one index, or to none, also when one of them is refused its expansion; and
\* memory outside a buffer is touched only after such a refusal.
ZipKeepsPromise == kept /\ (fault => refused # {})
=============================================================================
