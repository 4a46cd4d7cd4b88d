----------------------------- MODULE SeqPairSpec -----------------------------
(***************************************************************************)
(* What two lists promise the client that holds them both: each of them   *)
(* is a sequence (SeqSpec) and keeps still while the other one changes.    *)
(* The calls that take both either copy the elements of one into the       *)
(* other, move them, or walk over the two side by side.                    *)
(***************************************************************************)
EXTENDS CCCommon, Sequences, FiniteSets

CONSTANT Elements

VARIABLES seqs, ret

vars == <<seqs, ret>>

Pair     == {1, 2}
Other(l) == 3 - l

S(l) == INSTANCE SeqSpec WITH seq <- seqs[l]

Init == seqs = [l \in Pair |-> <<>>] /\ ret = Done

\* Nothing happens to the other list.
Alone(l) == seqs'[Other(l)] = seqs[Other(l)]

Become(l, s) == seqs' = [seqs EXCEPT ![l] = s]
Refuse(stats) == (\E st \in stats : ret' = Refused(st)) /\ UNCHANGED seqs

\* The answers a list gives: what is at an index, at its ends, how often and where
\* first an element occurs, and all of it.
First(s, e) == CHOOSE i \in 1..Len(s) : s[i] = e /\ \A j \in 1..(i - 1) : s[j] # e
Answers(l, answer) ==
  LET s == seqs[l]
      number(e) == Cardinality({i \in 1..Len(s) : s[i] = e})
      given(r, there, out) == IF there THEN r = Got(out) ELSE r.stat \in Errors
  IN  /\ \A i \in DOMAIN answer.at : given(answer.at[i], i < Len(s), s[i + 1])
      /\ given(answer.first, s # <<>>, s[1])
      /\ given(answer.last, s # <<>>, s[Len(s)])
      /\ \A e \in Elements :
           /\ answer.count[e] = number(e)
           /\ given(answer.index[e], number(e) > 0, First(s, e) - 1)
      /\ \A r \in answer.whole : r = Got(s) \/ (s = <<>> /\ r.stat \in Errors)
      /\ UNCHANGED seqs

\* The elements of the other list, put in at index i.
Joined(l, i) ==
  SubSeq(seqs[l], 1, i) \o seqs[Other(l)]
    \o SubSeq(seqs[l], i + 1, Len(seqs[l]))

\* A list may refuse the index behind its last element.
Reaches(l, i) == i <= Len(seqs[l])
Beyond(l, i)  == i >= Len(seqs[l]) /\ Refuse({CC_ERR_OUT_OF_RANGE})

AddAllAt(l, i) ==
  \/ Reaches(l, i) /\ ret' = Done /\ Become(l, Joined(l, i))
  \/ seqs[Other(l)] = <<>> /\ ret' = Done /\ UNCHANGED seqs
  \/ Refuse({CC_ERR_ALLOC})
  \/ Beyond(l, i)
SpliceAt(l, i) ==
  \/ /\ Reaches(l, i) /\ ret' = Done
     /\ seqs' = [seqs EXCEPT ![l] = Joined(l, i), ![Other(l)] = <<>>]
  \/ seqs[Other(l)] = <<>> /\ ret' = Done /\ UNCHANGED seqs
  \/ Beyond(l, i)

\* The other list, which is empty, becomes what a call makes of this one.
Make(l, s) == seqs[Other(l)] = <<>> /\ ret' = Done /\ Become(Other(l), s)
NotMade    == Refuse({CC_ERR_ALLOC, CC_ERR_INVALID_RANGE, CC_ERR_OUT_OF_RANGE})
Copy(l, cp) == Make(l, [i \in DOMAIN seqs[l] |-> cp[seqs[l][i]]]) \/ NotMade
Part(l, b, e) ==
  \/ b <= e /\ e < Len(seqs[l]) /\ Make(l, SubSeq(seqs[l], b + 1, e + 1))
  \/ NotMade
\* Some of the elements in keep, in their order: it is up to the filter whether
\* it says so when it had no memory for one of them.
Filter(l, keep) ==
  \/ \E I \in SUBSET {i \in DOMAIN seqs[l] : seqs[l][i] \in keep} :
       LET got[i \in 0..Len(seqs[l])] ==
             IF i = 0 THEN <<>>
             ELSE IF i \in I THEN Append(got[i - 1], seqs[l][i]) ELSE got[i - 1]
       IN  Make(l, got[Len(seqs[l])])
  \/ NotMade

\* Side by side, at one index of both.
Both(i) == \A l \in Pair : i < Len(seqs[l])
GetBoth(i) ==
  Both(i) /\ ret' = Got(<<seqs[1][i + 1], seqs[2][i + 1]>>) /\ UNCHANGED seqs
Without(s, i)     == SubSeq(s, 1, i) \o SubSeq(s, i + 2, Len(s))
Inserted(s, e, i) == SubSeq(s, 1, i) \o <<e>> \o SubSeq(s, i + 1, Len(s))
AddBoth(e1, e2, i) ==
  \/ /\ \A l \in Pair : i <= Len(seqs[l])
     /\ ret' = Done
     /\ seqs' = <<Inserted(seqs[1], e1, i), Inserted(seqs[2], e2, i)>>
  \/ Refuse({CC_ERR_ALLOC})
RemoveBoth(i) ==
  /\ Both(i)
  /\ ret' = Got(<<seqs[1][i + 1], seqs[2][i + 1]>>)
  /\ seqs' = <<Without(seqs[1], i), Without(seqs[2], i)>>
ReplaceBoth(e1, e2, i) ==
  /\ Both(i)
  /\ ret' = Got(<<seqs[1][i + 1], seqs[2][i + 1]>>)
  /\ seqs' = <<[seqs[1] EXCEPT ![i + 1] = e1], [seqs[2] EXCEPT ![i + 1] = e2]>>

Indices(l) == 0..Len(seqs[l])

Next ==
  \/ \E l \in Pair :
       \/ S(l)!Next /\ Alone(l)
       \/ \E i \in Indices(l) :
            AddAllAt(l, i) \/ SpliceAt(l, i) \/ \E j \in Indices(l) : Part(l, i, j)
       \/ \E cp \in [Elements -> Elements] : Copy(l, cp)
       \/ \E keep \in SUBSET Elements : Filter(l, keep)
       \/ \E i \in Indices(l) :
            \/ GetBoth(i) \/ RemoveBoth(i)
            \/ \E e1, e2 \in Elements : AddBoth(e1, e2, i) \/ ReplaceBoth(e1, e2, i)

Spec == Init /\ [][Next]_vars
=============================================================================
