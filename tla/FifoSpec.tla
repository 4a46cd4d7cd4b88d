------------------------------ MODULE FifoSpec ------------------------------
(***************************************************************************)
(* What a queue promises: elements leave in the order in which they came. *)
(* `inside' is what is still queued, oldest first; an iteration passes     *)
(* over it and may replace an element where it is.                         *)
(***************************************************************************)
EXTENDS CCCommon, Sequences

CONSTANT Elements

VARIABLES inside, ret

vars == <<inside, ret>>

Init == inside = <<>> /\ ret = Done

Refuse(stats) == (\E st \in stats : ret' = Refused(st)) /\ UNCHANGED inside

Enqueue(e) ==
  \/ inside' = Append(inside, e) /\ ret' = Done
  \/ Refuse({CC_ERR_ALLOC})
Poll ==
  \/ inside # <<>> /\ ret' = Got(Head(inside)) /\ inside' = Tail(inside)
  \/ inside = <<>> /\ Refuse({CC_ERR_OUT_OF_RANGE})
Peek ==
  \/ inside # <<>> /\ ret' = Got(Head(inside)) /\ UNCHANGED inside
  \/ inside = <<>> /\ Refuse({CC_ERR_OUT_OF_RANGE})

StartWalk == ret' = Done /\ UNCHANGED inside
Walk ==
  \/ \E i \in 1..Len(inside) : ret' = Got(inside[i]) /\ UNCHANGED inside
  \/ Refuse({CC_ITER_END})
Replace(e) ==
  \/ \E i \in 1..Len(inside) :
       ret' = Got(inside[i]) /\ inside' = [inside EXCEPT ![i] = e]
  \/ Refuse({CC_ERR_OUT_OF_RANGE})

Next ==
  \/ \E e \in Elements : Enqueue(e) \/ Replace(e)
  \/ Poll \/ Peek \/ StartWalk \/ Walk

Spec == Init /\ [][Next]_vars
=============================================================================
