---------------------------- MODULE PrioritySpec ----------------------------
(***************************************************************************)
(* What a priority queue promises: of the elements that are in it, counted *)
(* in `inside', top shows and pop takes one that no other outranks.        *)
(***************************************************************************)
EXTENDS CCCommon

CONSTANTS Elements, Key

VARIABLES inside, ret

vars == <<inside, ret>>

Init == inside = [e \in Elements |-> 0] /\ ret = Done

Greatest ==
  {e \in Elements : inside[e] > 0 /\
                    \A f \in Elements : inside[f] > 0 => Key[f] <= Key[e]}

Refuse(stats) == (\E st \in stats : ret' = Refused(st)) /\ UNCHANGED inside

Push(e) ==
  \/ inside' = [inside EXCEPT ![e] = @ + 1] /\ ret' = Done
  \/ Refuse({CC_ERR_ALLOC, CC_ERR_MAX_CAPACITY})
Pop ==
  \/ \E e \in Greatest : inside' = [inside EXCEPT ![e] = @ - 1] /\ ret' = Got(e)
  \/ Greatest = {} /\ Refuse({CC_ERR_OUT_OF_RANGE})
Top ==
  \/ \E e \in Greatest : ret' = Got(e) /\ UNCHANGED inside
  \/ Greatest = {} /\ Refuse({CC_ERR_OUT_OF_RANGE})

Next == (\E e \in Elements : Push(e)) \/ Pop \/ Top

Spec == Init /\ [][Next]_vars
=============================================================================
