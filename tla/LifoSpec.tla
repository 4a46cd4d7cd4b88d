------------------------------ MODULE LifoSpec ------------------------------
(***************************************************************************)
(* What a stack promises: `inside' is what was pushed and not popped, the  *)
(* latest at the end.                                                      *)
(***************************************************************************)
EXTENDS CCCommon

CONSTANT Elements

VARIABLES inside, ret

vars == <<inside, ret>>

Init == inside = <<>> /\ ret = Done

Last == inside[Len(inside)]

Refuse(stats) == (\E st \in stats : ret' = Refused(st)) /\ UNCHANGED inside

Push(e) ==
  \/ inside' = Append(inside, e) /\ ret' = Done
  \/ Refuse({CC_ERR_ALLOC, CC_ERR_MAX_CAPACITY})
Pop ==
  \/ /\ inside # <<>>
     /\ ret' = Got(Last) /\ inside' = SubSeq(inside, 1, Len(inside) - 1)
  \/ inside = <<>> /\ Refuse({CC_ERR_OUT_OF_RANGE})
Peek ==
  \/ inside # <<>> /\ ret' = Got(Last) /\ UNCHANGED inside
  \/ inside = <<>> /\ Refuse({CC_ERR_VALUE_NOT_FOUND})

\* The client may go on with a new stack, which may have run out of memory.
Filter(pred) ==
  LET kept == Selected(inside, pred)
  IN  \/ /\ inside # <<>> /\ ret' = Done
         /\ \E n \in 0..Len(kept) : inside' = SubSeq(kept, 1, n)
      \/ inside = <<>> /\ Refuse({CC_ERR_OUT_OF_RANGE})

StartWalk == ret' = Done /\ UNCHANGED inside
Walk ==
  \/ \E i \in 1..Len(inside) : ret' = Got(inside[i]) /\ UNCHANGED inside
  \/ Refuse({CC_ITER_END})
Replace(e) ==
  \/ \E i \in 1..Len(inside) :
       ret' = Got(inside[i]) /\ inside' = [inside EXCEPT ![i] = e]
  \/ Refuse({CC_ERR_OUT_OF_RANGE})

Next ==
  \/ \E e \in Elements : Push(e) \/ Replace(e)
  \/ \E pred \in SUBSET Elements : Filter(pred)
  \/ Pop \/ Peek \/ StartWalk \/ Walk

Spec == Init /\ [][Next]_vars
=============================================================================
