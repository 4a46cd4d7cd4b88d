------------------------------- MODULE MapSpec -------------------------------
(***************************************************************************)
(* What a map promises its client: a finite partial function from keys to *)
(* values, one atomic step per call, and a result.  A call has its whole  *)
(* effect or is refused and changes nothing; an insertion may always be   *)
(* refused for lack of memory or capacity, a lookup or a removal only when *)
(* the key is absent.                                                      *)
(***************************************************************************)
EXTENDS CCCommon, FiniteSets

CONSTANTS Keys, Values

VARIABLES map, ret

vars == <<map, ret>>

Nothing == [k \in {} |-> NoElement]

Init == map = Nothing /\ ret = Done

Refuse(stats) == (\E st \in stats : ret' = Refused(st)) /\ UNCHANGED map

With(k, v) == [j \in DOMAIN map \cup {k} |-> IF j = k THEN v ELSE map[j]]
Without(k) == [j \in DOMAIN map \ {k} |-> map[j]]

Put(k, v)  == ret' = Done /\ map' = With(k, v)
NoRoom     == Refuse({CC_ERR_ALLOC, CC_ERR_MAX_CAPACITY})
Get(k)     == k \in DOMAIN map /\ ret' = Got(map[k]) /\ UNCHANGED map
Delete(k)  == k \in DOMAIN map /\ ret' = Got(map[k]) /\ map' = Without(k)
Absent(k)  == k \notin DOMAIN map /\ Refuse({CC_ERR_KEY_NOT_FOUND})
Contains(k) == ret' = Truth(k \in DOMAIN map) /\ UNCHANGED map
Clear      == ret' = Done /\ map' = Nothing

\* All keys, each of them once, in some order; refused without memory, or
\* when there are none.
AllKeys ==
  \E order \in [1..Cardinality(DOMAIN map) -> DOMAIN map] :
    /\ map # Nothing
    /\ \A i, j \in DOMAIN order : order[i] = order[j] => i = j
    /\ ret' = Got(order)
    /\ UNCHANGED map
NoKeys == Refuse({CC_ERR_ALLOC, CC_ERR_INVALID_CAPACITY})

\* Iteration hands out the mappings, as pairs, until there are no more.
NextPair(k) == k \in DOMAIN map /\ ret' = Got(<<k, map[k]>>) /\ UNCHANGED map
WalkOver    == Refuse({CC_ITER_END})
Keep        == ret' = Done /\ UNCHANGED map

Next ==
  \/ \E k \in Keys : \/ \E v \in Values : Put(k, v)
                     \/ Get(k) \/ Delete(k) \/ Absent(k) \/ Contains(k)
                     \/ NextPair(k)
  \/ NoRoom \/ Clear \/ AllKeys \/ NoKeys \/ WalkOver \/ Keep

Spec == Init /\ [][Next]_vars
=============================================================================
