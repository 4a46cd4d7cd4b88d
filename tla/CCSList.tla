------------------------------- MODULE CCSList -------------------------------
(***************************************************************************)
(* CC_SList (cc_slist.c): nodes linked one way, so that a node is removed *)
(* and added behind the one before it, which every walk carries along.     *)
(***************************************************************************)
EXTENDS ListPair

SetNext(h, n, x) == SetLink(h, n, "next", x)

\* New nodes ns, linked to each other, with the elements es.
WithChain(h, ns, es) ==
  [n \in DOMAIN h \cup {ns[i] : i \in DOMAIN ns} |->
     IF n \in DOMAIN h THEN h[n]
     ELSE [data |-> es[At(ns, n)], next |-> Nth(ns, At(ns, n) + 1)]]

\* get_node_at: the node at an index in range, and the one before it.
NodeAt(l, i) == Nth(Forward(Mem, l), i + 1)
PrevAt(l, i) == Nth(Forward(Mem, l), i)

\* Mutant of Unlinked: the tail stays when the last node goes.
UnlinkedUnderTail(m, l, n, prev) ==
  LET next == m.heap[n].next
      h    == SetNext(m.heap, prev, next)
  IN  [heap  |-> [x \in DOMAIN h \ {n} |-> h[x]],
       lists |-> [m.lists EXCEPT ![l].head = IF prev = Nil THEN next ELSE @,
                                 ![l].size = @ - 1]]

Unlinked(m, l, n, prev) ==
  LET next == m.heap[n].next
      h    == SetNext(m.heap, prev, next)
  IN  [heap  |-> [x \in DOMAIN h \ {n} |-> h[x]],
       lists |-> [m.lists EXCEPT ![l].head = IF prev = Nil THEN next ELSE @,
                                 ![l].tail = IF next = Nil THEN prev ELSE @,
                                 ![l].size = @ - 1]]

\* The nodes that fail pred are unlinked; prev is the latest one that stays.
Kept(m0, l, pred) ==
  LET ns == Forward(m0, l)
      s[k \in 0..Len(ns)] ==
        IF k = 0 THEN [m |-> m0, prev |-> Nil]
        ELSE LET b == s[k - 1]
             IN  IF heap[ns[k]].data \in pred THEN [b EXCEPT !.prev = ns[k]]
                 ELSE [b EXCEPT !.m = Unlinked(b.m, l, ns[k], b.prev)]
  IN  s[Len(ns)].m

\* Mutant of Flipped: the tail stays.
FlippedButTail(m, l) ==
  LET ns == Forward(m, l)
      flip[k \in 0..Len(ns)] ==
        IF k = 0 THEN m.heap ELSE SetNext(flip[k - 1], ns[k], Nth(ns, k - 1))
  IN  IF Len(ns) < 2 THEN m
      ELSE [heap |-> flip[Len(ns)], lists |-> [m.lists EXCEPT ![l].head = ns[Len(ns)]]]

\* One node after the other is linked to the one before it.
Flipped(m, l) ==
  LET ns == Forward(m, l)
      flip[k \in 0..Len(ns)] ==
        IF k = 0 THEN m.heap ELSE SetNext(flip[k - 1], ns[k], Nth(ns, k - 1))
  IN  IF Len(ns) < 2 THEN m
      ELSE [heap  |-> flip[Len(ns)],
            lists |-> [m.lists EXCEPT ![l].head = ns[Len(ns)], ![l].tail = ns[1]]]

\* The chain from node first to node last, k nodes, between prev and node.
LinkedIn(m, l, first, last, k, prev, node) ==
  [heap  |-> SetNext(SetNext(m.heap, prev, first), last, node),
   lists |-> [m.lists EXCEPT ![l].head = IF prev = Nil THEN first ELSE @,
                             ![l].tail = IF node = Nil THEN last ELSE @,
                             ![l].size = @ + k]]

-----------------------------------------------------------------------------
\* Calls

\* A node for e between prev and node.
AddBetween(l, e, prev, node) ==
  \/ Reject(CC_ERR_ALLOC)
  \/ \E ns \in Fresh(heap, 1) :
       Commit(LinkedIn([Mem EXCEPT !.heap = WithChain(@, ns, <<e>>)],
                       l, ns[1], ns[1], 1, prev, node), Done)

AddFirst(l, e) == AddBetween(l, e, Nil, lists[l].head)

AddLast(l, e)  == AddBetween(l, e, lists[l].tail, Nil)

\* The index behind the last element is refused.
AddAt(l, e, i) ==
  \/ ~InRange(l, i) /\ Reject(CC_ERR_OUT_OF_RANGE)
  \/ InRange(l, i) /\ AddBetween(l, e, PrevAt(l, i), NodeAt(l, i))

\* link_all_externally: a copy of the other list's nodes goes between prev and
\* node.  What was allocated before a node is refused is freed.
AddAllBetween(l, prev, node) ==
  \/ Reject(CC_ERR_ALLOC)
  \/ \E ns \in Fresh(heap, lists[Other(l)].size) :
       Commit(LinkedIn([Mem EXCEPT !.heap = WithChain(@, ns, Contents(Other(l)))],
                       l, ns[1], ns[Len(ns)], Len(ns), prev, node), Done)

AddAll(l) ==
  \/ Empty(Other(l)) /\ Keep(Done)
  \/ ~Empty(Other(l)) /\ AddAllBetween(l, lists[l].tail, Nil)

AddAllAt(l, i) ==
  \/ Empty(Other(l)) /\ Keep(Done)
  \/ ~Empty(Other(l)) /\ ~InRange(l, i) /\ Reject(CC_ERR_OUT_OF_RANGE)
  \/ ~Empty(Other(l)) /\ InRange(l, i) /\ AddAllBetween(l, PrevAt(l, i), NodeAt(l, i))

\* The nodes of the other list go between prev and node.
SpliceBetween(l, prev, node) ==
  LET o == lists[Other(l)]
      m == LinkedIn(Mem, l, o.head, o.tail, o.size, prev, node)
  IN  Commit([m EXCEPT !.lists[Other(l)] = NoList], Done)

Splice(l) ==
  \/ Empty(Other(l)) /\ Keep(Done)
  \/ ~Empty(Other(l)) /\ SpliceBetween(l, lists[l].tail, Nil)

SpliceAt(l, i) ==
  \/ Empty(Other(l)) /\ Keep(Done)
  \/ ~Empty(Other(l)) /\ ~InRange(l, i) /\ Reject(CC_ERR_OUT_OF_RANGE)
  \/ ~Empty(Other(l)) /\ InRange(l, i) /\ SpliceBetween(l, PrevAt(l, i), NodeAt(l, i))

TakeOut(l, n, prev) == Commit(Unlinked(Mem, l, n, prev), Got(heap[n].data))

Remove(l, e) ==
  \/ NodesWith(l, e) = {} /\ Reject(CC_ERR_VALUE_NOT_FOUND)
  \/ \E n \in NodesWith(l, e) : TakeOut(l, n, PrevAt(l, At(Forward(Mem, l), n) - 1))

RemoveAt(l, i) ==
  \/ ~InRange(l, i) /\ Reject(CC_ERR_OUT_OF_RANGE)
  \/ InRange(l, i) /\ TakeOut(l, NodeAt(l, i), PrevAt(l, i))

RemoveFirst(l) ==
  IF Empty(l) THEN Reject(CC_ERR_VALUE_NOT_FOUND) ELSE TakeOut(l, lists[l].head, Nil)

RemoveLast(l) ==
  LET last == lists[l].size - 1
  IN  IF Empty(l) THEN Reject(CC_ERR_VALUE_NOT_FOUND)
      ELSE TakeOut(l, NodeAt(l, last), PrevAt(l, last))

RemoveAll(l) ==
  \/ Empty(l) /\ Reject(CC_ERR_VALUE_NOT_FOUND)
  \/ /\ ~Empty(l)
     /\ LET ns == Forward(Mem, l)
        IN  Commit([heap  |-> [n \in DOMAIN heap \ {ns[i] : i \in DOMAIN ns} |-> heap[n]],
                    lists |-> [lists EXCEPT ![l] =
                                 [NoList EXCEPT !.size = lists[l].size - Len(ns)]]], Done)

ReplaceAt(l, e, i) ==
  \/ ~InRange(l, i) /\ Reject(CC_ERR_OUT_OF_RANGE)
  \/ /\ InRange(l, i)
     /\ LET n == NodeAt(l, i)
        IN  Commit([Mem EXCEPT !.heap[n].data = e], Got(heap[n].data))

\* Calls that change nothing, by what they return.

GetAt(l, i) ==
  IF InRange(l, i) THEN Got(heap[NodeAt(l, i)].data) ELSE Refused(CC_ERR_OUT_OF_RANGE)

GetFirst(l) ==
  IF Empty(l) THEN Refused(CC_ERR_VALUE_NOT_FOUND) ELSE Got(heap[lists[l].head].data)

GetLast(l) ==
  IF Empty(l) THEN Refused(CC_ERR_VALUE_NOT_FOUND) ELSE Got(heap[lists[l].tail].data)

Contains(l, e) == Cardinality({i \in DOMAIN Contents(l) : Contents(l)[i] = e})

IndexOf(l, e) ==
  IF NodesWith(l, e) = {} THEN Refused(CC_ERR_OUT_OF_RANGE)
  ELSE Got(At(Forward(Mem, l), CHOOSE n \in NodesWith(l, e) : TRUE) - 1)

\* As far as the memory is granted, which 0 bytes may be or not.
ToArray(l) == Got(Contents(l))

Reverse(l) == Commit(Flipped(Mem, l), Done)

Sort(l) ==
  \/ lists[l].size # 1 /\ Reject(CC_ERR_ALLOC)
  \/ \E es \in Orders(Contents(l)) :
       Commit([Mem EXCEPT !.heap = WithData(@, Forward(Mem, l), es)], Done)

FilterMut(l, pred) ==
  \/ Empty(l) /\ Reject(CC_ERR_OUT_OF_RANGE)
  \/ ~Empty(l) /\ Commit(Kept(Mem, l, pred), Done)

\* The other list, which is empty, is destroyed; the call makes a list of es in
\* its place, or frees what it made of it and fails.
Make(l, es) ==
  /\ Empty(Other(l))
  /\ \/ Reject(CC_ERR_ALLOC)
     \/ \E ns \in Fresh(heap, Len(es)) : CommitOther(l, ns, WithChain(heap, ns, es))

Sublist(l, b, e) ==
  \/ (b > e \/ e >= lists[l].size) /\ Reject(CC_ERR_INVALID_RANGE)
  \/ b <= e /\ e < lists[l].size /\ Make(l, SubSeq(Contents(l), b + 1, e + 1))

CopyShallow(l)  == Make(l, Contents(l))

CopyDeep(l, cp) == Make(l, [i \in DOMAIN Contents(l) |-> cp[Contents(l)[i]]])

\* An element there is no memory for is left out, and nobody is told.
Filter(l, pred) ==
  \/ Empty(l) /\ Reject(CC_ERR_OUT_OF_RANGE)
  \/ ~Empty(l) /\ \E es \in Some(Contents(l), pred) : Make(l, es)

-----------------------------------------------------------------------------
\* The iterators: index; prev, current, next, a node of each list.

NewIter(ls, nodes) ==
  iter' = [on |-> ls, index |-> 0, prev |-> NoneOf(ls), current |-> NoneOf(ls),
           next |-> nodes]

IterInit(l) == NewIter(<<l>>, <<lists[l].head>>) /\ StartWalk("iter", Contents(l))

ZipIterInit ==
  NewIter(<<1, 2>>, <<lists[1].head, lists[2].head>>) /\ StartWalk("zip", Zipped)

\* Mutant of Advance: prev follows also when current was removed.
AdvanceStale ==
  \/ (\E k \in DOMAIN iter.next : iter.next[k] = Nil)
     /\ Reject(CC_ITER_END) /\ Stopped /\ UNCHANGED iter
  \/ /\ \A k \in DOMAIN iter.next : iter.next[k] # Nil
     /\ Keep(Handed(Each(iter.next))) /\ Went
     /\ iter' = [iter EXCEPT
                   !.index = @ + 1,
                   !.prev = iter.current,
                   !.current = iter.next,
                   !.next = [k \in DOMAIN @ |-> heap[@[k]].next]]

Advance ==
  \/ (\E k \in DOMAIN iter.next : iter.next[k] = Nil)
     /\ Reject(CC_ITER_END) /\ Stopped /\ UNCHANGED iter
  \/ /\ \A k \in DOMAIN iter.next : iter.next[k] # Nil
     /\ Keep(Handed(Each(iter.next))) /\ Went
     /\ iter' = [iter EXCEPT
                   !.index = @ + 1,
                   !.prev = [k \in DOMAIN @ |->
                               IF iter.current[k] # Nil THEN iter.current[k] ELSE @[k]],
                   !.current = iter.next,
                   !.next = [k \in DOMAIN @ |-> heap[@[k]].next]]

IterNext    == Using("iter") /\ Advance
ZipIterNext == Using("zip") /\ Advance

HasCurrent == \A k \in DOMAIN iter.current : iter.current[k] # Nil

\* The node is unlinked behind prev, also when an element was added in between.
TakeOutCurrent ==
  /\ Careful => ~walk.grew
  /\ \/ ~HasCurrent /\ Reject(CC_ERR_VALUE_NOT_FOUND) /\ UNCHANGED <<iter, walk>>
     \/ /\ HasCurrent
        /\ LET one == Unlinked(Mem, iter.on[1], iter.current[1], iter.prev[1])
           IN  Commit(IF Len(iter.on) = 1 THEN one
                      ELSE Unlinked(one, iter.on[2], iter.current[2], iter.prev[2]),
                      Handed(Each(iter.current)))
        /\ iter' = [iter EXCEPT !.current = NoneOf(@), !.index = @ - 1]
        /\ Removed

IterRemove    == Using("iter") /\ TakeOutCurrent
ZipIterRemove == Using("zip") /\ TakeOutCurrent

ReplaceCurrent(es) ==
  /\ \/ ~HasCurrent /\ Reject(CC_ERR_VALUE_NOT_FOUND)
     \/ /\ HasCurrent
        /\ Commit([Mem EXCEPT !.heap = WithData(@, iter.current, es)],
                  Handed(Each(iter.current)))
  /\ UNCHANGED iter /\ Changed

IterReplace(e)       == Using("iter") /\ ReplaceCurrent(<<e>>)
ZipIterReplace(x, y) == Using("zip") /\ ReplaceCurrent(<<x, y>>)

\* New nodes between the current and the next ones.
AddBehindCurrent(es) ==
  /\ Careful => ~walk.added
  /\ HasCurrent
  /\ \/ Reject(CC_ERR_ALLOC) /\ UNCHANGED iter /\ Changed
     \/ \E ns \in Fresh(heap, Len(es)) :
          LET put[k \in 0..Len(es)] ==
                IF k = 0 THEN Mem
                ELSE LET m   == put[k - 1]
                         l   == iter.on[k]
                         new == WithChain(m.heap, <<ns[k]>>, <<es[k]>>)
                     IN  [heap  |-> SetNext(SetNext(new, ns[k], iter.next[k]),
                                            iter.current[k], ns[k]),
                          lists |-> [m.lists EXCEPT
                                       ![l].tail = IF iter.index = m.lists[l].size
                                                   THEN ns[k] ELSE @,
                                       ![l].size = @ + 1]]
          IN  /\ Commit(put[Len(es)], Done)
              /\ iter' = [iter EXCEPT !.index = @ + 1]
              /\ Added

IterAdd(e)       == Using("iter") /\ AddBehindCurrent(<<e>>)
ZipIterAdd(x, y) == Using("zip") /\ AddBehindCurrent(<<x, y>>)

-----------------------------------------------------------------------------

Put(l) ==
  \E e \in Offered :
    \/ Keeping(AddFirst(l, e), Abs!S(l)!AddFirst(e))
    \/ Keeping(AddLast(l, e), Abs!S(l)!AddLast(e))
    \/ \E i \in Indices :
         \/ Keeping(AddAt(l, e, i), Abs!S(l)!AddAt(e, i))
         \/ Keeping(ReplaceAt(l, e, i), Abs!S(l)!ReplaceAt(e, i))

Take(l) ==
  \/ \E e \in Offered : Keeping(Remove(l, e), Abs!S(l)!Remove(e))
  \/ \E i \in Indices : Keeping(RemoveAt(l, i), Abs!S(l)!RemoveAt(i))
  \/ Keeping(RemoveFirst(l), Abs!S(l)!RemoveFirst)
  \/ Keeping(RemoveLast(l), Abs!S(l)!RemoveLast)
  \/ Keeping(RemoveAll(l), Abs!S(l)!RemoveAll \/ Abs!S(l)!NotThere)
  \/ \E pred \in SUBSET Offered :
       Keeping(FilterMut(l, pred), Abs!S(l)!Filter(pred))

Rearrange(l) ==
  \/ Keeping(Reverse(l), Abs!S(l)!Reverse)
  \/ Keeping(Sort(l), Abs!S(l)!Sort(Key))

\* All questions at once.
Ask(l) ==
  Keeping(Keep(Done), Abs!Answers(l,
    [at    |-> [i \in Indices |-> GetAt(l, i)],
     first |-> GetFirst(l), last |-> GetLast(l),
     count |-> [e \in Elements |-> Contains(l, e)],
     index |-> [e \in Elements |-> IndexOf(l, e)],
     whole |-> {ToArray(l)}]))

Combine(l) ==
  \/ Keeping(AddAll(l), Abs!AddAllAt(l, lists[l].size))
  \/ Keeping(Splice(l), Abs!SpliceAt(l, lists[l].size))
  \/ \E i \in Indices :
       \/ Keeping(AddAllAt(l, i), Abs!AddAllAt(l, i))
       \/ Keeping(SpliceAt(l, i), Abs!SpliceAt(l, i))

MakeSecond ==
  \/ \E i, j \in Indices : Keeping(Sublist(1, i, j), Abs!Part(1, i, j))
  \/ Keeping(CopyShallow(1), Abs!Copy(1, [e \in Offered |-> e]))
  \/ \E cp \in [Offered -> Offered] : Keeping(CopyDeep(1, cp), Abs!Copy(1, cp))
  \/ \E pred \in SUBSET Offered : Keeping(Filter(1, pred), Abs!Filter(1, pred))

StartIterating ==
  \/ Keeping(IterInit(1), Abs!S(1)!Keep)
  \/ Keeping(ZipIterInit, Abs!S(1)!Keep /\ Abs!S(2)!Keep)

GoOn == Keeping(IterNext \/ ZipIterNext, OwedFirst)

CurrentPlace == Place(iter.current[1])

ChangeAt(call, promise) ==
  Keeping(call, IF HasCurrent THEN Latest /\ promise ELSE Abs!S(1)!NotThere)

ChangeAtIterator ==
  \/ ChangeAt(IterRemove, Abs!S(It)!RemoveAt(CurrentPlace))
  \/ ChangeAt(ZipIterRemove, Abs!RemoveBoth(CurrentPlace))
  \/ \E e \in Offered :
       \/ ChangeAt(IterReplace(e), Abs!S(It)!ReplaceAt(e, CurrentPlace))
       \/ Keeping(IterAdd(e), Abs!S(It)!AddAt(e, CurrentPlace + 1))
       \/ \E f \in Offered :
            \/ ChangeAt(ZipIterReplace(e, f), Abs!ReplaceBoth(e, f, CurrentPlace))
            \/ Keeping(ZipIterAdd(e, f), Abs!AddBoth(e, f, CurrentPlace + 1))

Next ==
  \/ /\ \/ Put(1)
        \/ Take(1)
        \/ Rearrange(1)
        \/ Ask(1)
        \/ MakeSecond
        \/ \E l \in Pair : Combine(l)
     /\ EndWalk
  \/ walk.stage # "on" /\ StartIterating
  \/ GoOn
  \/ ChangeAtIterator

\* The body of CC_SLIST_FOREACH calls iter_next again and again; whatever else
\* the client does on the way, it does finitely often.
Fairness == WF_vars(GoOn)

Spec == Init /\ [][Next]_vars /\ Fairness

-----------------------------------------------------------------------------
\* From head to tail as many nodes are met as size says, and the tail is the last
\* of them; every node that is allocated is in one of the lists; the iterator's
\* prev is the node before its current one, or before the next one when the
\* current one was removed, unless an element was added there.
SListsAreLinked ==
  /\ \A l \in Pair :
       LET ns == Forward(Mem, l)
       IN  /\ Len(ns) = lists[l].size
           /\ IF ns = <<>> THEN lists[l] = NoList
              ELSE lists[l].tail = ns[Len(ns)] /\ heap[ns[Len(ns)]].next = Nil
  /\ Cardinality(DOMAIN heap) = lists[1].size + lists[2].size
  /\ \A k \in DOMAIN iter.on :
       LET ns == Forward(Mem, iter.on[k])
           n  == IF HasCurrent THEN iter.current[k] ELSE iter.next[k]
       IN  ~walk.grew /\ n # Nil =>
             iter.prev[k] = Nth(ns, At(ns, n) - 1)
=============================================================================
