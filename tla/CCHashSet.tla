------------------------------ MODULE CCHashSet ------------------------------
(***************************************************************************)
(* CC_HashSet (cc_hashset.c): a hash table that maps every element to the  *)
(* same dummy.  `inner' is the result of the table's call, `ret' what the  *)
(* set makes of it for its client.                                         *)
(***************************************************************************)
EXTENDS CCCommon

CONSTANTS
  Elements, NullKey, Hash, InitialCapacity, MaxCapacity, LoadNum, LoadDen,
  Dummy  \* set->dummy

VARIABLES table, iter, walk, inner, ret

vars == <<table, iter, walk, inner, ret>>

H == INSTANCE CCHashTable WITH Keys <- Elements, Values <- {Dummy}, ret <- inner

Pass == ret' = inner'

Init == H!Init /\ ret = Done

Add(e)    == H!Add(e, Dummy) /\ Pass
Remove(e) == H!Remove(e) /\ Pass
RemoveAll == H!RemoveAll /\ Pass

\* Mutant of Contains: asks for a value, and the dummy is one of any element.
ContainsAny(e) == H!Get(e) /\ ret' = Truth(table.size # 0)

Contains(e) == H!ContainsKey(e) /\ Pass

IterInit   == H!IterInit /\ Pass
IterNext   ==
  /\ H!IterNext
  /\ ret' = IF inner'.stat = CC_OK THEN Got(inner'.out[1]) ELSE inner'
IterRemove == H!IterRemove /\ Pass

\* Whether NULL is a member cannot be asked: contains looks in another bucket.
Next ==
  \/ \E e \in Elements :
       \/ Add(e) \/ Remove(e)
       \/ e # NullKey /\ Contains(e)
  \/ RemoveAll \/ IterInit \/ IterNext \/ IterRemove

Spec == Init /\ [][Next]_vars

-----------------------------------------------------------------------------
\* Properties

Abs == INSTANCE SetSpec WITH
         members <- DOMAIN H!MapOf(table),
         owed    <- walk.owed,
         latest  <- IF walk.fresh THEN iter.prev_entry ELSE NoElement

CallsKeepPromise ==
  /\ \A e \in Elements :
       /\ Add(e) => Abs!Insert(e) \/ Abs!NoRoom
       /\ Remove(e) => Abs!Discard(e) \/ Abs!Absent(e, CC_ERR_KEY_NOT_FOUND)
       /\ e # NullKey /\ Contains(e) => Abs!Contains(e)
  /\ RemoveAll => Abs!Clear
  /\ IterInit => Abs!StartOver
  /\ IterNext => Abs!WalkOver \/ \E e \in Elements : Abs!Visit(e)
  /\ IterRemove => Abs!DropLatest

\* The set is a set, call by call: an element added twice is in it once, NULL
\* among them, an iteration visits every member once, also while it removes.
IsASet == Abs!Spec /\ [][CallsKeepPromise]_vars
=============================================================================
