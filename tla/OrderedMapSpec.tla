--------------------------- MODULE OrderedMapSpec ---------------------------
(***************************************************************************)
(* What an ordered map promises: a map (MapSpec) whose first, last and     *)
(* neighbouring keys can be asked for, and an iterator that hands out the  *)
(* mappings in the order of their keys and may remove the one it has just  *)
(* handed out.                                                             *)
(***************************************************************************)
EXTENDS MapSpec

VARIABLES
  owed,     \* the keys the iterator in use still has to hand out
  latest    \* the key it handed out last, unless it is gone or there is none

orderedVars == <<map, ret, owed, latest>>

Least(S)    == CHOOSE k \in S : \A j \in S : k <= j
Greatest(S) == CHOOSE k \in S : \A j \in S : j <= k
Above(k)    == {j \in DOMAIN map : j > k}
Below(k)    == {j \in DOMAIN map : j < k}

\* A change made by another call leaves no iterator in use.
NoIterator == owed' = {} /\ latest' = NoElement
SameIterator == UNCHANGED <<owed, latest>>

DeleteAny(k) == Delete(k) /\ NoIterator
DeleteFirst  == map # Nothing /\ DeleteAny(Least(DOMAIN map))
DeleteLast   == map # Nothing /\ DeleteAny(Greatest(DOMAIN map))
NoneToDelete == map = Nothing /\ Refuse({CC_ERR_KEY_NOT_FOUND}) /\ SameIterator
Store(k, v)  == Put(k, v) /\ NoIterator
NoMemory     == Refuse({CC_ERR_ALLOC}) /\ SameIterator

AnswerFrom(S, pick(_), stat) ==
  /\ ret' = IF S = {} THEN Refused(stat) ELSE Got(pick(S))
  /\ UNCHANGED map /\ SameIterator
FirstKey   == AnswerFrom(DOMAIN map, LAMBDA S : <<Least(S)>>,
                         CC_ERR_KEY_NOT_FOUND)
LastKey    == AnswerFrom(DOMAIN map, LAMBDA S : <<Greatest(S)>>,
                         CC_ERR_KEY_NOT_FOUND)
FirstValue == AnswerFrom(DOMAIN map, LAMBDA S : map[Least(S)],
                         CC_ERR_VALUE_NOT_FOUND)
LastValue  == AnswerFrom(DOMAIN map, LAMBDA S : map[Greatest(S)],
                         CC_ERR_VALUE_NOT_FOUND)

\* The neighbour of a key of the map; an empty answer when it is the last.
Neighbour(k, S, pick(_)) ==
  /\ k \in DOMAIN map
  /\ ret' = IF S = {} THEN Got(NoElement) ELSE GotNumber(pick(S))
  /\ UNCHANGED map /\ SameIterator
Successor(k)   == Neighbour(k, Above(k), Least)
Predecessor(k) == Neighbour(k, Below(k), Greatest)

Occurrences(v) ==
  /\ ret' = GotNumber(Cardinality({k \in DOMAIN map : map[k] = v}))
  /\ UNCHANGED map /\ SameIterator

StartOver == Keep /\ owed' = DOMAIN map /\ latest' = NoElement
NextInOrder ==
  /\ owed # {}
  /\ NextPair(Least(owed))
  /\ owed' = owed \ {Least(owed)} /\ latest' = Least(owed)
EndOfOrder == owed = {} /\ WalkOver /\ SameIterator
DropLatest == Delete(latest) /\ latest' = NoElement /\ UNCHANGED owed
DropNone   == latest = NoElement /\ Refuse({CC_ERR_KEY_NOT_FOUND}) /\ SameIterator

OrderedInit == Init /\ owed = {} /\ latest = NoElement

OrderedNext ==
  \/ \E k \in Keys :
       \/ \E v \in Values : Store(k, v)
       \/ (Get(k) \/ Absent(k) \/ Contains(k)) /\ SameIterator
       \/ DeleteAny(k) \/ Successor(k) \/ Predecessor(k)
  \/ NoMemory \/ DeleteFirst \/ DeleteLast \/ NoneToDelete
  \/ Clear /\ NoIterator
  \/ FirstKey \/ LastKey \/ FirstValue \/ LastValue
  \/ \E v \in Values : Occurrences(v)
  \/ StartOver \/ NextInOrder \/ EndOfOrder \/ DropLatest \/ DropNone

OrderedSpec == OrderedInit /\ [][OrderedNext]_orderedVars
=============================================================================
