------------------------------ MODULE CCTreeSet ------------------------------
(***************************************************************************)
(* CC_TreeSet (cc_treeset.c): a tree table that maps every element to the  *)
(* same dummy.  `inner' is the result of the table's call, `ret' what the  *)
(* set makes of it for its client.                                         *)
(***************************************************************************)
EXTENDS CCCommon

CONSTANTS
  Elements, Sentinel,
  Dummy  \* set->dummy

VARIABLES table, iter, inner, ret

vars == <<table, iter, inner, ret>>

T == INSTANCE CCTreeTable
       WITH Keys <- Elements, Mappings <- Elements \X {Dummy}, ret <- inner

Pass == ret' = inner'

\* Every status but one is taken for success.
Translated(r) ==
  IF r = Refused(CC_ERR_KEY_NOT_FOUND) THEN Refused(CC_ERR_VALUE_NOT_FOUND)
  ELSE Result(CC_OK, r.out)

Translate == ret' = Translated(inner')

Init == T!Init /\ ret = Done

Add(e)              == T!Add(e, Dummy) /\ Pass
Remove(e)           == T!Remove(e) /\ Translate
RemoveAll           == T!RemoveAll /\ Pass
GetFirst            == T!GetKeyAt(T!First(table)) /\ Translate
GetLast             == T!GetKeyAt(T!Last(table)) /\ Translate
GetGreaterThan(e)   == T!GetNeighbour(e, "right") /\ Translate
GetLesserThan(e)    == T!GetNeighbour(e, "left") /\ Translate
Contains(e)         == T!ContainsKey(e) /\ Pass
IterInit            == T!IterInit /\ Pass

\* Mutant of IterNext: the end is not passed on.
IterNextForever ==
  /\ T!IterNext
  /\ ret' = IF inner'.stat = CC_OK THEN GotNumber(inner'.out[1]) ELSE Done

IterNext ==
  /\ T!IterNext
  /\ ret' = IF inner'.stat = CC_OK THEN GotNumber(inner'.out[1])
            ELSE Refused(CC_ITER_END)

IterRemove == T!IterRemove /\ Pass

Next ==
  \/ \E e \in Elements : \/ Add(e) \/ Remove(e) \/ Contains(e)
                         \/ GetGreaterThan(e) \/ GetLesserThan(e)
  \/ RemoveAll \/ GetFirst \/ GetLast
  \/ IterInit \/ IterNext \/ IterRemove

Spec == Init /\ [][Next]_vars

-----------------------------------------------------------------------------
\* Properties

Abs == INSTANCE OrderedSetSpec WITH
         members <- T!Live(table), owed <- T!Owed, latest <- T!Latest

CallsKeepPromise ==
  /\ \A e \in Elements :
       /\ Add(e) => Abs!Insert(e) \/ Abs!NoRoom
       /\ Remove(e) => Abs!Discard(e) \/ Abs!Absent(e, CC_ERR_VALUE_NOT_FOUND)
       /\ Contains(e) => Abs!Contains(e)
       /\ GetGreaterThan(e) =>
            Abs!Successor(e) \/ Abs!Absent(e, CC_ERR_VALUE_NOT_FOUND)
       /\ GetLesserThan(e) =>
            Abs!Predecessor(e) \/ Abs!Absent(e, CC_ERR_VALUE_NOT_FOUND)
  /\ RemoveAll => Abs!Clear
  /\ GetFirst => Abs!FirstMember
  /\ GetLast => Abs!LastMember
  /\ IterInit => Abs!StartOver
  /\ IterNext => Abs!VisitLeast \/ Abs!WalkOver
  /\ IterRemove => Abs!DropLatest \/ Abs!DropNone

\* The set is an ordered set, call by call: no rotation loses a member, an
\* iteration goes up through all of them, also while it removes on its way.
IsAnOrderedSet == Abs!OrderedSpec /\ [][CallsKeepPromise]_vars
=============================================================================
