--------------------------- MODULE OrderedSetSpec ---------------------------
(***************************************************************************)
(* An ordered set: a set (SetSpec) of integers that can be asked for its   *)
(* ends and for neighbours, and whose iterator goes up.                    *)
(***************************************************************************)
EXTENDS SetSpec

Least(S)    == CHOOSE e \in S : \A f \in S : e <= f
Greatest(S) == CHOOSE e \in S : \A f \in S : f <= e

\* A member is handed out as <<e>>, which can be told from NULL.
Pick(e) == ret' = GotNumber(e) /\ UNCHANGED members /\ SameIterator

FirstMember == \/ members # {} /\ Pick(Least(members))
               \/ members = {} /\ Refuse({CC_ERR_VALUE_NOT_FOUND}) /\ SameIterator
LastMember  == \/ members # {} /\ Pick(Greatest(members))
               \/ members = {} /\ Refuse({CC_ERR_VALUE_NOT_FOUND}) /\ SameIterator

\* The neighbour of a member; NULL when it is the last on that side.
NoNeighbour == ret' = Got(NoElement) /\ UNCHANGED members /\ SameIterator
Successor(e) ==
  LET above == {f \in members : f > e}
  IN  e \in members /\ IF above = {} THEN NoNeighbour ELSE Pick(Least(above))
Predecessor(e) ==
  LET below == {f \in members : f < e}
  IN  e \in members /\ IF below = {} THEN NoNeighbour ELSE Pick(Greatest(below))

VisitLeast ==
  /\ owed # {} /\ owed' = owed \ {Least(owed)} /\ latest' = Least(owed)
  /\ ret' = GotNumber(Least(owed)) /\ UNCHANGED members

OrderedNext ==
  \/ \E e \in Elements :
       \/ Insert(e) \/ Discard(e) \/ Contains(e) \/ Successor(e) \/ Predecessor(e)
       \/ Absent(e, CC_ERR_VALUE_NOT_FOUND)
  \/ NoRoom \/ Clear \/ FirstMember \/ LastMember
  \/ StartOver \/ VisitLeast \/ WalkOver \/ DropLatest \/ DropNone

OrderedSpec == Init /\ [][OrderedNext]_vars
=============================================================================
