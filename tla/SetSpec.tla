------------------------------- MODULE SetSpec -------------------------------
(***************************************************************************)
(* What a set promises: its members, one atomic step per call, and an      *)
(* iterator that hands out every member once and may remove the one it has *)
(* just handed out.  What a removal hands out besides its status is left   *)
(* open.                                                                   *)
(***************************************************************************)
EXTENDS CCCommon

CONSTANT Elements

VARIABLES
  members,
  owed,     \* the members the iterator in use still has to hand out
  latest,   \* the one it handed out last, unless it is gone or there is none
  ret

vars == <<members, owed, latest, ret>>

Init == members = {} /\ owed = {} /\ latest = NoElement /\ ret = Done

Refuse(stats) == (\E st \in stats : ret' = Refused(st)) /\ UNCHANGED members

\* A change made by another call leaves no iterator in use; an answer leaves
\* it where it is, and may end what it allows.
NoIterator   == owed' = {} /\ latest' = NoElement
SameIterator == owed' = owed /\ latest' \in {latest, NoElement}

Insert(e)   == ret' = Done /\ members' = members \cup {e} /\ NoIterator
NoRoom      == /\ Refuse({CC_ERR_ALLOC, CC_ERR_MAX_CAPACITY})
               /\ SameIterator \/ NoIterator
Delete(e)   == ret'.stat = CC_OK /\ e \in members /\ members' = members \ {e}
Discard(e)  == Delete(e) /\ NoIterator
Absent(e, stat) == /\ e \notin members /\ Refuse({stat})
                   /\ SameIterator \/ NoIterator
Contains(e) == ret' = Truth(e \in members) /\ UNCHANGED members /\ SameIterator
Clear       == ret' = Done /\ members' = {} /\ NoIterator

StartOver ==
  /\ ret' = Done /\ UNCHANGED members
  /\ owed' = members /\ latest' = NoElement
Visit(e) ==
  /\ ret' = Got(e) /\ UNCHANGED members
  /\ e \in owed /\ owed' = owed \ {e} /\ latest' = e
WalkOver   == owed = {} /\ Refuse({CC_ITER_END}) /\ SameIterator
DropLatest == Delete(latest) /\ latest' = NoElement /\ UNCHANGED owed
DropNone   == /\ latest = NoElement
              /\ Refuse({CC_ERR_KEY_NOT_FOUND}) /\ SameIterator

Next ==
  \/ \E e \in Elements :
       \/ Insert(e) \/ Discard(e) \/ Contains(e) \/ Visit(e)
       \/ \E stat \in Errors : Absent(e, stat)
  \/ NoRoom \/ Clear \/ StartOver \/ WalkOver \/ DropLatest \/ DropNone

Spec == Init /\ [][Next]_vars
=============================================================================
