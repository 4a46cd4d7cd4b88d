-------------------------------- MODULE CCList --------------------------------
(***************************************************************************)
(* CC_List (cc_list.c): nodes linked both ways between a head and a tail. *)
(***************************************************************************)
EXTENDS ListPair

-----------------------------------------------------------------------------
\* Links.

SetNext(h, n, x) == SetLink(h, n, "next", x)
SetPrev(h, n, x) == SetLink(h, n, "prev", x)

Backward(m, l) == Follow(m.heap, m.lists[l].tail, "prev")

\* New nodes ns, linked to each other, with the elements es.
WithChain(h, ns, es) ==
  [n \in DOMAIN h \cup {ns[i] : i \in DOMAIN ns} |->
     IF n \in DOMAIN h THEN h[n]
     ELSE LET i == At(ns, n)
          IN  [data |-> es[i], next |-> Nth(ns, i + 1), prev |-> Nth(ns, i - 1)]]

\* Mutant of LinkBehind: the node before base keeps its link to base.
LinkBehindOneWay(h, base, ins) ==
  LET left == h[base].prev
  IN  SetNext(SetPrev(SetPrev(h, ins, left), base, ins), ins, base)

\* ins is taken out of where it is and put before base.
LinkBehind(h, base, ins) ==
  LET out  == SetNext(SetPrev(h, h[ins].next, h[ins].prev),
                      h[ins].prev, h[ins].next)
      left == out[base].prev
  IN  SetNext(SetPrev(SetNext(SetPrev(out, ins, left), left, ins), base, ins),
              ins, base)

LinkAfter(h, base, ins) ==
  LET right == h[base].next
  IN  SetPrev(SetNext(SetPrev(SetNext(h, ins, right), right, ins), base, ins),
              ins, base)

\* Mutant of Unlinked: the tail stays when the last node goes.
UnlinkedUnderTail(m, l, n) ==
  LET prev == m.heap[n].prev
      next == m.heap[n].next
      h    == SetPrev(SetNext(m.heap, prev, next), next, prev)
  IN  [heap  |-> [x \in DOMAIN h \ {n} |-> h[x]],
       lists |-> [m.lists EXCEPT
                    ![l].head = IF prev = Nil THEN next ELSE @,
                    ![l].size = @ - 1]]

Unlinked(m, l, n) ==
  LET prev == m.heap[n].prev
      next == m.heap[n].next
      h    == SetPrev(SetNext(m.heap, prev, next), next, prev)
  IN  [heap  |-> [x \in DOMAIN h \ {n} |-> h[x]],
       lists |-> [m.lists EXCEPT
                    ![l].head = IF prev = Nil THEN next ELSE @,
                    ![l].tail = IF next = Nil THEN prev ELSE @,
                    ![l].size = @ - 1]]

\* One after the other, the nodes ns are unlinked from l.
UnlinkedAll(m, l, ns) ==
  LET gone[k \in 0..Len(ns)] ==
        IF k = 0 THEN m ELSE Unlinked(gone[k - 1], l, ns[k])
  IN  gone[Len(ns)]

\* get_node_at walks from the end that is nearer.
NodeAt(m, l, i) ==
  LET n == m.lists[l].size
  IN  IF i < n \div 2 THEN Nth(Forward(m, l), i + 1) ELSE Nth(Backward(m, l), n - i)

\* The chain from node first to node last, k nodes, comes before index i of l.
LinkedIn(m, l, first, last, k, i) ==
  LET t    == m.lists[l]
      end  == IF i < t.size THEN NodeAt(m, l, i) ELSE Nil
      base == IF end # Nil THEN m.heap[end].prev ELSE NodeAt(m, l, i - 1)
  IN  [heap  |-> SetPrev(SetNext(SetNext(SetPrev(m.heap, first, base), base, first),
                                 last, end), end, last),
       lists |-> [m.lists EXCEPT
                    ![l] = [head |-> IF base = Nil THEN first ELSE t.head,
                            tail |-> IF end = Nil THEN last ELSE t.tail,
                            size |-> t.size + k]]]

-----------------------------------------------------------------------------
\* reverse and sort_in_place

\* Two neighbours a, b change places.
SwapAdjacent(h, a, b) ==
  LET h1 == SetNext(SetPrev(h, h[b].next, a), a, h[b].next)
      h2 == SetPrev(SetNext(h1, h[a].prev, b), b, h[a].prev)
  IN  SetNext(SetPrev(h2, a, b), b, a)

Swap(h, a, b) ==
  IF h[a].next = b THEN SwapAdjacent(h, a, b)
  ELSE IF h[b].next = a THEN SwapAdjacent(h, b, a)
  ELSE LET A  == h[a]
           B  == h[b]
           h1 == SetNext(SetPrev(SetPrev(SetNext(h, A.prev, b), b, A.prev),
                                 A.next, b), b, A.next)
       IN  SetNext(SetPrev(SetPrev(SetNext(h1, B.prev, a), a, B.prev),
                           B.next, a), a, B.next)

\* The outermost pair of nodes first.
Reversed(m, l) ==
  LET t == m.lists[l]
      s[k \in 0..(t.size \div 2)] ==
        IF k = 0 THEN [heap |-> m.heap, left |-> t.head, right |-> t.tail]
        ELSE LET b == s[k - 1]
             IN  [heap  |-> Swap(b.heap, b.left, b.right),
                  left  |-> b.heap[b.left].next,
                  right |-> b.heap[b.right].prev]
  IN  IF t.size < 2 THEN m
      ELSE [heap  |-> s[t.size \div 2].heap,
            lists |-> [m.lists EXCEPT ![l].head = t.tail, ![l].tail = t.head]]

\* The node k places on from n.
Ahead(h, n, k) == Nth(Follow(h, n, "next"), k + 1)

Before(h, a, b) == Key[h[a].data] <= Key[h[b].data]

\* The loop of merge, over a left part of ls nodes that the right part of rs
\* nodes follows.  The right node in hand is moved before the left one when it is
\* less.  The result names the first and the last node of the merged part.
Merge(h0, left, right, ls, rs) ==
  LET start == [heap |-> h0, l |-> 0, r |-> 0, lp |-> left, rp |-> right,
                first |-> left, last |-> right, over |-> FALSE]
      leftGoes(s, i) ==
        IF i = 0 /\ ls + rs = 2 THEN [s EXCEPT !.over = TRUE]
        ELSE IF s.l = ls
             THEN [s EXCEPT !.over = TRUE, !.last = Ahead(s.heap, s.rp, rs - 1 - s.r)]
             ELSE [s EXCEPT !.lp = s.heap[@].next, !.l = @ + 1]
      rightGoes(s, i) ==
        LET h == LinkBehind(s.heap, s.lp, s.rp)
        IN  IF i = 0 /\ ls + rs = 2
            THEN [s EXCEPT !.heap = h, !.over = TRUE, !.last = s.lp, !.first = s.rp]
            ELSE IF s.r + 1 = rs
                 THEN [s EXCEPT !.heap = h, !.over = TRUE,
                                !.last = Ahead(h, s.lp, ls - 1 - s.l)]
                 ELSE [s EXCEPT !.heap = h, !.r = @ + 1, !.rp = s.heap[@].next,
                                !.first = IF i = 0 THEN s.rp ELSE @]
      loop[i \in 0..(ls + rs)] ==
        IF i = 0 THEN start
        ELSE LET s == loop[i - 1]
             IN  IF s.over THEN s
                 ELSE IF Before(s.heap, s.lp, s.rp) THEN leftGoes(s, i - 1)
                      ELSE rightGoes(s, i - 1)
  IN  loop[ls + rs]

\* The parts that split meets in a list of n nodes, in the order in which it has
\* sorted them: where a part begins and how long it is.
Parts(n) ==
  LET moved(ps, by) == [i \in DOMAIN ps |-> <<ps[i][1] + by, ps[i][2]>>]
      parts[k \in 0..n] ==
        IF k < 2 THEN <<>>
        ELSE parts[k \div 2] \o moved(parts[k - k \div 2], k \div 2) \o <<<<0, k>>>>
  IN  parts[n]

\* heads are the first nodes of the parts so far.
Sorted(m, l) ==
  LET ps == Parts(m.lists[l].size)
      ns == Forward(m, l)
      s[k \in 0..Len(ps)] ==
        IF k = 0 THEN [heap |-> m.heap, heads |-> ns, lists |-> m.lists]
        ELSE LET b  == s[k - 1]
                 at == ps[k][1] + 1
                 n  == ps[k][2]
                 g  == Merge(b.heap, b.heads[at], b.heads[at + n \div 2],
                             n \div 2, n - n \div 2)
             IN  [heap  |-> g.heap,
                  heads |-> [b.heads EXCEPT ![at] = g.first],
                  lists |-> [b.lists EXCEPT ![l].head = g.first, ![l].tail = g.last]]
  IN  [heap |-> s[Len(ps)].heap, lists |-> s[Len(ps)].lists]

-----------------------------------------------------------------------------
\* Calls

\* A node for e, not linked to any other yet.
NodeFor(e) ==
  {[mem |-> [Mem EXCEPT !.heap = WithChain(heap, ns, <<e>>)], node |-> ns[1]] :
     ns \in Fresh(heap, 1)}

AddFirst(l, e) ==
  \/ Reject(CC_ERR_ALLOC)
  \/ \E new \in NodeFor(e) :
       LET n   == new.node
           old == lists[l].head
       IN  Commit(IF Empty(l) THEN [new.mem EXCEPT !.lists[l] = Chained(<<n>>)]
                  ELSE [heap  |-> SetPrev(SetNext(new.mem.heap, n, old), old, n),
                        lists |-> [lists EXCEPT ![l].head = n, ![l].size = @ + 1]],
                  Done)

AddLast(l, e) ==
  \/ Reject(CC_ERR_ALLOC)
  \/ \E new \in NodeFor(e) :
       LET n   == new.node
           old == lists[l].tail
       IN  Commit(IF Empty(l) THEN [new.mem EXCEPT !.lists[l] = Chained(<<n>>)]
                  ELSE [heap  |-> SetNext(SetPrev(new.mem.heap, n, old), old, n),
                        lists |-> [lists EXCEPT ![l].tail = n, ![l].size = @ + 1]],
                  Done)

\* The index behind the last element is refused.
AddAt(l, e, i) ==
  \/ ~InRange(l, i) /\ Reject(CC_ERR_OUT_OF_RANGE)
  \/ InRange(l, i) /\ Reject(CC_ERR_ALLOC)
  \/ /\ InRange(l, i)
     /\ \E new \in NodeFor(e) :
          Commit([heap  |-> LinkBehind(new.mem.heap, NodeAt(Mem, l, i), new.node),
                  lists |-> [lists EXCEPT ![l].head = IF i = 0 THEN new.node ELSE @,
                                          ![l].size = @ + 1]], Done)

\* Mutant of CopyOfOther: the copied nodes are the other list's own.
OtherItself(l) == {[nodes |-> Forward(Mem, Other(l)), heap |-> heap]}

\* link_all_externally: copies of the other list's nodes, linked to each other.
\* The nodes allocated before one is refused are freed again.
CopyOfOther(l) ==
  {[nodes |-> ns, heap |-> WithChain(heap, ns, Contents(Other(l)))] :
     ns \in Fresh(heap, lists[Other(l)].size)}

AddAllToEmpty(l) ==
  \/ Empty(Other(l)) /\ Keep(Done)
  \/ ~Empty(Other(l)) /\ Reject(CC_ERR_ALLOC)
  \/ /\ ~Empty(Other(l))
     /\ \E c \in CopyOfOther(l) :
          Commit([heap |-> c.heap, lists |-> [lists EXCEPT ![l] = Chained(c.nodes)]],
                 Done)

\* At index 0 of an empty list the tail that is followed is NULL.
AddAllBefore(l, i) ==
  \/ Empty(Other(l)) /\ Keep(Done)
  \/ ~Empty(Other(l)) /\ i > lists[l].size /\ Reject(CC_ERR_OUT_OF_RANGE)
  \/ ~Empty(Other(l)) /\ i <= lists[l].size /\ Reject(CC_ERR_ALLOC)
  \/ /\ ~Empty(Other(l)) /\ i <= lists[l].size
     /\ \E c \in CopyOfOther(l) :
          IF Empty(l) THEN Crash
          ELSE Commit(LinkedIn([Mem EXCEPT !.heap = c.heap], l, c.nodes[1],
                               c.nodes[Len(c.nodes)], Len(c.nodes), i), Done)

AddAllAt(l, i) == (Careful => ~Empty(l)) /\ AddAllBefore(l, i)

AddAll(l) ==
  IF Empty(l) THEN AddAllToEmpty(l) ELSE AddAllBefore(l, lists[l].size)

SpliceAt(l, i) ==
  LET o == lists[Other(l)]
      taken == IF Empty(l) THEN [Mem EXCEPT !.lists[l] = o]
               ELSE LinkedIn(Mem, l, o.head, o.tail, o.size, i)
  IN  \/ Empty(Other(l)) /\ Keep(Done)
      \/ ~Empty(Other(l)) /\ i > lists[l].size /\ Reject(CC_ERR_OUT_OF_RANGE)
      \/ /\ ~Empty(Other(l)) /\ i <= lists[l].size
         /\ Commit([taken EXCEPT !.lists[Other(l)] = NoList], Done)

Splice(l) == SpliceAt(l, lists[l].size)

TakeOut(l, n) == Commit(Unlinked(Mem, l, n), Got(heap[n].data))

Remove(l, e) ==
  \/ NodesWith(l, e) = {} /\ Reject(CC_ERR_VALUE_NOT_FOUND)
  \/ \E n \in NodesWith(l, e) : TakeOut(l, n)

RemoveAt(l, i) ==
  \/ ~InRange(l, i) /\ Reject(CC_ERR_OUT_OF_RANGE)
  \/ InRange(l, i) /\ TakeOut(l, NodeAt(Mem, l, i))

RemoveFirst(l) ==
  IF Empty(l) THEN Reject(CC_ERR_VALUE_NOT_FOUND) ELSE TakeOut(l, lists[l].head)

RemoveLast(l) ==
  IF Empty(l) THEN Reject(CC_ERR_VALUE_NOT_FOUND) ELSE TakeOut(l, lists[l].tail)

\* Every node is unlinked, from the head on.
RemoveAll(l) ==
  \/ Empty(l) /\ Reject(CC_ERR_VALUE_NOT_FOUND)
  \/ /\ ~Empty(l)
     /\ Commit([UnlinkedAll(Mem, l, Forward(Mem, l)) EXCEPT
                  !.lists[l].head = Nil, !.lists[l].tail = Nil], Done)

ReplaceAt(l, e, i) ==
  \/ ~InRange(l, i) /\ Reject(CC_ERR_OUT_OF_RANGE)
  \/ /\ InRange(l, i)
     /\ LET n == NodeAt(Mem, l, i)
        IN  Commit([Mem EXCEPT !.heap[n].data = e], Got(heap[n].data))

\* Calls that change nothing, by what they return.

GetAt(l, i) ==
  IF InRange(l, i) THEN Got(heap[NodeAt(Mem, l, i)].data)
  ELSE Refused(CC_ERR_OUT_OF_RANGE)
GetFirst(l) ==
  IF Empty(l) THEN Refused(CC_ERR_VALUE_NOT_FOUND) ELSE Got(heap[lists[l].head].data)

GetLast(l) ==
  IF Empty(l) THEN Refused(CC_ERR_VALUE_NOT_FOUND) ELSE Got(heap[lists[l].tail].data)

Contains(l, e) == Cardinality({i \in DOMAIN Contents(l) : Contents(l)[i] = e})

IndexOf(l, e) ==
  IF NodesWith(l, e) = {} THEN Refused(CC_ERR_OUT_OF_RANGE)
  ELSE Got(At(Forward(Mem, l), CHOOSE n \in NodesWith(l, e) : TRUE) - 1)

\* As far as the memory is granted.
ToArray(l) == IF Empty(l) THEN Refused(CC_ERR_INVALID_RANGE) ELSE Got(Contents(l))
\* fn appends its second argument to its first.
Reduce(l) == IF Empty(l) THEN Refused(CC_ERR_OUT_OF_RANGE) ELSE Got(Contents(l))

Reverse(l) == Commit(Reversed(Mem, l), Done)

Sort(l) ==
  \/ Empty(l) /\ Reject(CC_ERR_INVALID_RANGE)
  \/ ~Empty(l) /\ Reject(CC_ERR_ALLOC)
  \/ /\ ~Empty(l)
     /\ \E es \in Orders(Contents(l)) :
          Commit([Mem EXCEPT !.heap = WithData(@, Forward(Mem, l), es)], Done)

SortInPlace(l) == Commit(Sorted(Mem, l), Done)

FilterMut(l, pred) ==
  \/ Empty(l) /\ Reject(CC_ERR_OUT_OF_RANGE)
  \/ /\ ~Empty(l)
     /\ Commit(UnlinkedAll(Mem, l, SelectSeq(Forward(Mem, l),
                                     LAMBDA n : heap[n].data \notin pred)), Done)

\* The other list, which is empty, is destroyed; the call makes a list of es in
\* its place, or frees what it made of it and fails.
Make(l, es) ==
  /\ Empty(Other(l))
  /\ \/ Reject(CC_ERR_ALLOC)
     \/ \E ns \in Fresh(heap, Len(es)) : CommitOther(l, ns, WithChain(heap, ns, es))

Sublist(l, b, e) ==
  \/ (b > e \/ e >= lists[l].size) /\ Reject(CC_ERR_INVALID_RANGE)
  \/ b <= e /\ e < lists[l].size /\ Make(l, SubSeq(Contents(l), b + 1, e + 1))

CopyShallow(l)  == Make(l, Contents(l))
CopyDeep(l, cp) == Make(l, [i \in DOMAIN Contents(l) |-> cp[Contents(l)[i]]])

\* An element there is no memory for is left out, and nobody is told.
Filter(l, pred) ==
  \/ Empty(l) /\ Reject(CC_ERR_OUT_OF_RANGE)
  \/ ~Empty(l) /\ \E es \in Some(Contents(l), pred) : Make(l, es)

-----------------------------------------------------------------------------
\* The iterators: index; last, next, a node of each list.

NewIter(ls, index, nodes) ==
  iter' = [on |-> ls, index |-> index, last |-> NoneOf(nodes), next |-> nodes]

IterInit(l) ==
  NewIter(<<l>>, 0, <<lists[l].head>>) /\ StartWalk("iter", Contents(l))

DIterInit(l) ==
  /\ NewIter(<<l>>, lists[l].size, <<lists[l].tail>>)
  /\ StartWalk("diter", Backwards(Contents(l)))

ZipIterInit ==
  NewIter(<<1, 2>>, 0, <<lists[1].head, lists[2].head>>) /\ StartWalk("zip", Zipped)

\* Mutant of Advance: the node to return next is looked up when it is asked for.
AdvanceLate(way, by) ==
  \/ /\ \E k \in DOMAIN iter.next : iter.next[k] = Nil
     /\ Reject(CC_ITER_END) /\ Stopped /\ UNCHANGED iter
  \/ /\ \A k \in DOMAIN iter.next : iter.next[k] # Nil
     /\ Keep(Handed(Each(iter.next)))
     /\ UNCHANGED iter
     /\ Went

Advance(way, by) ==
  \/ /\ \E k \in DOMAIN iter.next : iter.next[k] = Nil
     /\ Reject(CC_ITER_END) /\ Stopped /\ UNCHANGED iter
  \/ /\ \A k \in DOMAIN iter.next : iter.next[k] # Nil
     /\ Keep(Handed(Each(iter.next)))
     /\ iter' = [iter EXCEPT !.last = iter.next, !.index = @ + by,
                   !.next = [k \in DOMAIN @ |-> heap[@[k]][way]]]
     /\ Went

IterNext    == Using("iter") /\ Advance("next", 1)
DIterNext   == Using("diter") /\ Advance("prev", -1)
ZipIterNext == Using("zip") /\ Advance("next", 1)

HasLast == \A k \in DOMAIN iter.last : iter.last[k] # Nil

\* The index stays.
TakeOutLast ==
  \/ ~HasLast /\ Reject(CC_ERR_VALUE_NOT_FOUND) /\ UNCHANGED <<iter, walk>>
  \/ /\ HasLast
     /\ LET one == Unlinked(Mem, iter.on[1], iter.last[1])
        IN  Commit(IF Len(iter.on) = 1 THEN one
                   ELSE Unlinked(one, iter.on[2], iter.last[2]),
                   Handed(Each(iter.last)))
     /\ iter' = [iter EXCEPT !.last = NoneOf(@)]
     /\ Removed

IterRemove    == Using("iter") /\ TakeOutLast
DIterRemove   == Using("diter") /\ TakeOutLast
ZipIterRemove == Using("zip") /\ TakeOutLast

ReplaceLast(es) ==
  /\ \/ ~HasLast /\ Reject(CC_ERR_VALUE_NOT_FOUND)
     \/ /\ HasLast
        /\ Commit([Mem EXCEPT !.heap = WithData(@, iter.last, es)],
                  Handed(Each(iter.last)))
  /\ UNCHANGED iter /\ Changed

IterReplace(e)      == Using("iter") /\ ReplaceLast(<<e>>)
DIterReplace(e)     == Using("diter") /\ ReplaceLast(<<e>>)
ZipIterReplace(x, y) == Using("zip") /\ ReplaceLast(<<x, y>>)

\* New nodes behind the last ones returned; the tail moves to one when the index
\* says that the last element was returned.
AddBehindLast(es) ==
  /\ Careful => ~walk.added /\ ~walk.shrank
  /\ HasLast
  /\ \/ Reject(CC_ERR_ALLOC) /\ UNCHANGED iter /\ Changed
     \/ \E ns \in Fresh(heap, Len(es)) :
          LET new == [n \in DOMAIN heap \cup {ns[k] : k \in DOMAIN ns} |->
                        IF n \in DOMAIN heap THEN heap[n]
                        ELSE [data |-> es[At(ns, n)], next |-> Nil, prev |-> Nil]]
              one == LinkAfter(new, iter.last[1], ns[1])
              put(l) == LET k == At(iter.on, l)
                        IN  [lists[l] EXCEPT
                               !.tail = IF iter.index = lists[l].size THEN ns[k] ELSE @,
                               !.size = @ + 1]
          IN  /\ Commit([heap  |-> IF Len(es) = 1 THEN one
                                   ELSE LinkAfter(one, iter.last[2], ns[2]),
                         lists |-> [l \in Pair |->
                                      IF \E k \in DOMAIN iter.on : iter.on[k] = l
                                      THEN put(l) ELSE lists[l]]], Done)
              /\ iter' = [iter EXCEPT !.index = @ + 1]
              /\ Added

IterAdd(e)        == Using("iter") /\ AddBehindLast(<<e>>)
ZipIterAdd(x, y)  == Using("zip") /\ AddBehindLast(<<x, y>>)

\* The new node becomes the last one returned.
DIterAdd(e) ==
  /\ Using("diter") /\ HasLast
  /\ \/ Reject(CC_ERR_ALLOC) /\ UNCHANGED iter /\ Changed
     \/ \E ns \in Fresh(heap, 1) :
          LET l == iter.on[1]
          IN  /\ Commit([heap  |-> LinkBehind(WithChain(heap, ns, <<e>>),
                                              iter.last[1], ns[1]),
                         lists |-> [lists EXCEPT
                                      ![l].head = IF iter.index = 0 THEN ns[1] ELSE @,
                                      ![l].size = @ + 1]], Done)
              /\ iter' = [iter EXCEPT !.last = ns]
              /\ Changed

-----------------------------------------------------------------------------

Put(l) ==
  \E e \in Offered :
    \/ Keeping(AddFirst(l, e), Abs!S(l)!AddFirst(e))
    \/ Keeping(AddLast(l, e), Abs!S(l)!AddLast(e))
    \/ \E i \in Indices :
         \/ Keeping(AddAt(l, e, i), Abs!S(l)!AddAt(e, i))
         \/ Keeping(ReplaceAt(l, e, i), Abs!S(l)!ReplaceAt(e, i))

Take(l) ==
  \/ \E e \in Offered : Keeping(Remove(l, e), Abs!S(l)!Remove(e))
  \/ \E i \in Indices : Keeping(RemoveAt(l, i), Abs!S(l)!RemoveAt(i))
  \/ Keeping(RemoveFirst(l), Abs!S(l)!RemoveFirst)
  \/ Keeping(RemoveLast(l), Abs!S(l)!RemoveLast)
  \/ Keeping(RemoveAll(l), Abs!S(l)!RemoveAll \/ Abs!S(l)!NotThere)
  \/ \E pred \in SUBSET Offered :
       Keeping(FilterMut(l, pred), Abs!S(l)!Filter(pred))

Rearrange(l) ==
  \/ Keeping(Reverse(l), Abs!S(l)!Reverse)
  \/ Keeping(SortInPlace(l), Abs!S(l)!SortStably(Key))

\* All questions at once.
Ask(l) ==
  Keeping(Keep(Done), Abs!Answers(l,
    [at    |-> [i \in Indices |-> GetAt(l, i)],
     first |-> GetFirst(l), last |-> GetLast(l),
     count |-> [e \in Elements |-> Contains(l, e)],
     index |-> [e \in Elements |-> IndexOf(l, e)],
     whole |-> {ToArray(l), Reduce(l)}]))

\* Calls on one list are made on the first; what the second holds was spliced,
\* copied or added to it.
Combine(l) ==
  \/ Keeping(AddAll(l), Abs!AddAllAt(l, lists[l].size))
  \/ Keeping(Splice(l), Abs!SpliceAt(l, lists[l].size))
  \/ \E i \in Indices :
       \/ Keeping(AddAllAt(l, i), Abs!AddAllAt(l, i))
       \/ Keeping(SpliceAt(l, i), Abs!SpliceAt(l, i))

MakeSecond ==
  \/ \E i, j \in Indices : Keeping(Sublist(1, i, j), Abs!Part(1, i, j))
  \/ Keeping(CopyShallow(1), Abs!Copy(1, [e \in Offered |-> e]))
  \/ \E cp \in [Offered -> Offered] : Keeping(CopyDeep(1, cp), Abs!Copy(1, cp))
  \/ \E pred \in SUBSET Offered : Keeping(Filter(1, pred), Abs!Filter(1, pred))

StartIterating ==
  \/ Keeping(IterInit(1), Abs!S(1)!Keep)
  \/ Keeping(DIterInit(1), Abs!S(1)!Keep)
  \/ Keeping(ZipIterInit, Abs!S(1)!Keep /\ Abs!S(2)!Keep)

GoOn == Keeping(IterNext \/ DIterNext \/ ZipIterNext, OwedFirst)

ChangeAt(call, promise) ==
  Keeping(call, IF HasLast THEN Latest /\ promise ELSE Abs!S(1)!NotThere)

LastPlace == Place(iter.last[1])

ChangeAtIterator ==
  \/ ChangeAt(IterRemove, Abs!S(It)!RemoveAt(LastPlace))
  \/ ChangeAt(DIterRemove, Abs!S(It)!RemoveAt(LastPlace))
  \/ ChangeAt(ZipIterRemove, Abs!RemoveBoth(LastPlace))
  \/ \E e \in Offered :
       \/ ChangeAt(IterReplace(e), Abs!S(It)!ReplaceAt(e, LastPlace))
       \/ ChangeAt(DIterReplace(e), Abs!S(It)!ReplaceAt(e, LastPlace))
       \/ Keeping(IterAdd(e), Abs!S(It)!AddAt(e, LastPlace + 1))
       \/ Keeping(DIterAdd(e), Abs!S(It)!AddAt(e, LastPlace))
       \/ \E f \in Offered :
            \/ ChangeAt(ZipIterReplace(e, f), Abs!ReplaceBoth(e, f, LastPlace))
            \/ Keeping(ZipIterAdd(e, f), Abs!AddBoth(e, f, LastPlace + 1))

Next ==
  /\ ~fault
  /\ \/ /\ \/ Put(1)
           \/ Take(1)
           \/ Rearrange(1)
           \/ Keeping(Sort(1), Abs!S(1)!Sort(Key))
           \/ Ask(1)
           \/ MakeSecond
           \/ \E l \in Pair : Combine(l)
        /\ EndWalk
     \/ walk.stage # "on" /\ StartIterating
     \/ GoOn
     \/ ChangeAtIterator

\* The body of CC_LIST_FOREACH and CC_LIST_FOREACH_ZIP calls iter_next again and
\* again; whatever else the client does on the way, it does finitely often.
Fairness == WF_vars(~fault /\ GoOn)

Spec == Init /\ [][Next]_vars /\ Fairness

-----------------------------------------------------------------------------
\* Properties

\* Both ways along the links the same nodes are met, as many as size says; every
\* node that is allocated is in one of the lists, and none was freed that a list
\* or the iterator still knows.
ListsAreLinked ==
  /\ \A l \in Pair :
       LET ns == Forward(Mem, l)
       IN  /\ Len(ns) = lists[l].size
           /\ Backward(Mem, l) = Backwards(ns)
           /\ IF ns = <<>> THEN lists[l] = NoList
              ELSE heap[ns[1]].prev = Nil /\ heap[ns[Len(ns)]].next = Nil
  /\ Cardinality(DOMAIN heap) = lists[1].size + lists[2].size
  /\ \A k \in DOMAIN iter.on :
       LET ns == Forward(Mem, iter.on[k])
       IN  {iter.last[k], iter.next[k]} \subseteq {Nil} \cup {ns[i] : i \in DOMAIN ns}
=============================================================================
