------------------------------- MODULE SeqSpec -------------------------------
(***************************************************************************)
(* What a sequential container promises its client: a finite sequence of  *)
(* elements, one atomic step per call, and a result.  A call either has   *)
(* its whole effect and returns CC_OK, or changes nothing and returns an  *)
(* error.  An insertion may always be refused for lack of memory; every   *)
(* other refusal needs a reason in the state (nothing to remove, an index *)
(* outside the sequence, an element that is not there).                    *)
(***************************************************************************)
EXTENDS CCCommon, FiniteSets

CONSTANT Elements

VARIABLES seq, ret

vars == <<seq, ret>>

Init == seq = <<>> /\ ret = Done

Refuse(stats) ==
  /\ \E st \in stats : ret' = Refused(st)
  /\ UNCHANGED seq

\* Indices count from 0, as the callers' do.
Indices == 0..Len(seq)

NoMemory == Refuse({CC_ERR_ALLOC, CC_ERR_MAX_CAPACITY})

\* What is asked for is not there.
NotThere == Refuse({CC_ERR_OUT_OF_RANGE, CC_ERR_VALUE_NOT_FOUND})

\* A call that leaves the sequence as it is.
Same == UNCHANGED seq
Keep == Same /\ ret' = Done

Without(i)     == SubSeq(seq, 1, i) \o SubSeq(seq, i + 2, Len(seq))
Inserted(e, i) == SubSeq(seq, 1, i) \o <<e>> \o SubSeq(seq, i + 1, Len(seq))
Insert(e, i)   == seq' = Inserted(e, i) /\ ret' = Done

AddFirst(e) == Insert(e, 0) \/ NoMemory
AddLast(e)  == Insert(e, Len(seq)) \/ NoMemory
\* An insertion behind the last element is granted by one container and refused
\* by the other.
AddAt(e, i) ==
  \/ i <= Len(seq) /\ (Insert(e, i) \/ NoMemory)
  \/ i >= Len(seq) /\ NotThere

RemoveAt(i) ==
  \/ i < Len(seq) /\ ret' = Got(seq[i + 1]) /\ seq' = Without(i)
  \/ i >= Len(seq) /\ NotThere
RemoveFirst == RemoveAt(0)
RemoveLast  == IF seq = <<>> THEN NotThere ELSE RemoveAt(Len(seq) - 1)
\* The first occurrence of e.
Remove(e) ==
  \/ \E i \in 1..Len(seq) :
       /\ seq[i] = e /\ \A j \in 1..(i - 1) : seq[j] # e
       /\ RemoveAt(i - 1)
  \/ (\A i \in 1..Len(seq) : seq[i] # e) /\ NotThere
RemoveAll == seq' = <<>> /\ ret' = Done

ReplaceAt(e, i) ==
  \/ i < Len(seq) /\ ret' = Got(seq[i + 1]) /\ seq' = [seq EXCEPT ![i + 1] = e]
  \/ i >= Len(seq) /\ NotThere
SwapAt(i, j) ==
  \/ /\ i < Len(seq) /\ j < Len(seq)
     /\ seq' = [seq EXCEPT ![i + 1] = seq[j + 1], ![j + 1] = seq[i + 1]]
     /\ ret' = Done
  \/ (i >= Len(seq) \/ j >= Len(seq)) /\ NotThere

Reverse ==
  seq' = [i \in 1..Len(seq) |-> seq[Len(seq) + 1 - i]] /\ ret' = Done
Filter(keep) ==
  \/ /\ seq # <<>>
     /\ seq' = Selected(seq, keep)
     /\ ret' = Done
  \/ seq = <<>> /\ NotThere
  \/ NoMemory
\* The client goes on with a part of the sequence, from index b to index e.
Subarray(b, e) ==
  \/ b <= e /\ e < Len(seq) /\ seq' = SubSeq(seq, b + 1, e + 1) /\ ret' = Done
  \/ (b > e \/ e >= Len(seq)) /\ Refuse({CC_ERR_INVALID_RANGE})
  \/ NoMemory
\* The client goes on with a copy, or with the same elements in less memory.
Copy == Keep \/ NoMemory
\* A copy that holds the client's copies of the elements.
CopyDeep(cp) ==
  \/ seq' = [i \in DOMAIN seq |-> cp[seq[i]]] /\ ret' = Done
  \/ NoMemory

GetAt(i) ==
  \/ i < Len(seq) /\ ret' = Got(seq[i + 1]) /\ UNCHANGED seq
  \/ i >= Len(seq) /\ NotThere
GetFirst == GetAt(0)
GetLast  == IF seq = <<>> THEN NotThere ELSE GetAt(Len(seq) - 1)

\* Questions: how often e occurs, where it is first, and all there is, in order.
Count(e) ==
  ret' = GotNumber(Cardinality({i \in 1..Len(seq) : seq[i] = e})) /\ UNCHANGED seq
IndexOf(e) ==
  \/ \E i \in 1..Len(seq) :
       /\ seq[i] = e /\ \A j \in 1..(i - 1) : seq[j] # e
       /\ ret' = GotNumber(i - 1) /\ UNCHANGED seq
  \/ (\A i \in 1..Len(seq) : seq[i] # e) /\ NotThere
Whole == \/ ret' = Got(seq) /\ UNCHANGED seq
         \/ Refuse({CC_ERR_ALLOC, CC_ERR_INVALID_RANGE, CC_ERR_OUT_OF_RANGE})

\* The same elements in another order: sorted by key, and sorted with elements of
\* one key left in the order they had.
Permuted(s, t) ==
  \A e \in Elements : Cardinality({i \in DOMAIN s : s[i] = e})
                       = Cardinality({i \in DOMAIN t : t[i] = e})
Ascending(s, key) == \A i \in 2..Len(s) : key[s[i - 1]] <= key[s[i]]
Reorder == Permuted(seq, seq') /\ Len(seq') = Len(seq) /\ ret' = Done
Sort(key) == (Reorder /\ Ascending(seq', key))
             \/ Refuse({CC_ERR_ALLOC, CC_ERR_INVALID_RANGE})
SortStably(key) ==
  /\ Reorder /\ Ascending(seq', key)
  /\ \A e \in Elements :
       LET same == {x \in Elements : key[x] = key[e]}
       IN  Selected(seq', same) = Selected(seq, same)

\* An iterator has nothing more to return, or nothing to remove.
WalkOver == Refuse({CC_ITER_END})

Next ==
  \/ \E e \in Elements : AddFirst(e) \/ AddLast(e) \/ Remove(e)
  \/ \E e \in Elements, i \in Indices : AddAt(e, i) \/ ReplaceAt(e, i)
  \/ RemoveFirst \/ RemoveLast \/ RemoveAll
  \/ \E i \in Indices : RemoveAt(i) \/ GetAt(i)
  \/ \E i, j \in Indices : SwapAt(i, j) \/ Subarray(i, j)
  \/ \E keep \in SUBSET Elements : Filter(keep)
  \/ \E cp \in [Elements -> Elements] : CopyDeep(cp)
  \/ Reverse \/ Copy \/ Reorder \/ Whole
  \/ \E e \in Elements : Count(e) \/ IndexOf(e)
  \/ GetFirst \/ GetLast
  \/ NotThere \/ WalkOver

Spec == Init /\ [][Next]_vars
=============================================================================
