------------------------------- MODULE ListPair -------------------------------
(***************************************************************************)
(* A client that holds two lists and one iterator: what the doubly and the *)
(* singly linked list (CCList, CCSList) have in common.  Calls that take   *)
(* two lists move or copy nodes from one to the other, and a call that     *)
(* makes a list makes it the other one, which was empty.  `fault' is set   *)
(* by a call that follows NULL: the program has no further behaviour.      *)
(***************************************************************************)
EXTENDS CCCommon, Sequences, FiniteSets

CONSTANTS
  MaxNodes, \* bound: the nodes there is memory for
  Elements,
  Offered,  \* those the client puts in
  Key,      \* what cmp compares
  Careful   \* the client adds at most one element behind each one an iterator
            \* returned, and keeps away from the calls that go astray after a
            \* removal or an addition through the iterator, or on an empty list

ASSUME ListConstants ==
  /\ MaxNodes \in Nat
  /\ Offered \subseteq Elements /\ NoElement \notin Elements
  /\ Key \in [Elements -> Int] /\ Careful \in BOOLEAN

VARIABLES
  heap,    \* the nodes
  lists,   \* struct cc_list_s or cc_slist_s of both: head, tail, size
  iter,    \* the iterator: on, the lists it goes over, and its fields
  walk,    \* history of the iteration: its stage, the calls it takes, rest, what
           \* it owes the client; fresh while the latest call is an iter_next
           \* that returned something; added, behind what it returned; grew and
           \* shrank, what was done since the iterator was made
  held,    \* history: the elements of each list, as they are met from its head
  ret,
  kept,    \* history: every call so far did what SeqPairSpec says of it
  fault

vars == <<heap, lists, iter, walk, held, ret, kept, fault>>

-----------------------------------------------------------------------------
\* Nodes.  A heap is a function from the addresses of the nodes that are allocated
\* to their fields; a node that was freed has left its domain.

Nil == 0

NoNodes == [n \in {} |-> Nil]

\* node->way = x, behind a test that the node is not NULL.
SetLink(h, n, way, x) ==
  IF n \notin DOMAIN h THEN h ELSE [h EXCEPT ![n] = [@ EXCEPT ![way] = x]]

\* The nodes met from n on along way, until a link leads to none.  A walk that
\* would not end stops when it has met as many nodes as there are.
Follow(h, n, way) ==
  LET met[k \in 1..Cardinality(DOMAIN h)] ==
        IF k = 1 THEN n
        ELSE LET before == met[k - 1]
             IN  IF before \in DOMAIN h THEN h[before][way] ELSE Nil
  IN  SelectSeq([k \in 1..Cardinality(DOMAIN h) |-> met[k]],
                LAMBDA x : x \in DOMAIN h)

DataOf(h, nodes) == [i \in DOMAIN nodes |-> h[nodes[i]].data]

\* malloc and calloc: k addresses, in the order they are handed out, if there is
\* memory for so many.
Fresh(h, k) ==
  LET free == (1..MaxNodes) \ DOMAIN h
  IN  IF k > Cardinality(free) THEN {}
      ELSE {[i \in 1..k |-> CHOOSE n \in free :
                              Cardinality({x \in free : x < n}) = i - 1]}

At(ns, n)  == CHOOSE i \in DOMAIN ns : ns[i] = n
Nth(ns, i) == IF i \in DOMAIN ns THEN ns[i] ELSE Nil

Backwards(s) == [i \in DOMAIN s |-> s[Len(s) + 1 - i]]

-----------------------------------------------------------------------------
\* Lists

Pair     == {1, 2}
Other(l) == 3 - l

\* A memory m is a heap and the lists in it.
Mem == [heap |-> heap, lists |-> lists]

Forward(m, l) == Follow(m.heap, m.lists[l].head, "next")
Elems(m, l)   == DataOf(m.heap, Forward(m, l))
Contents(l)   == Elems(Mem, l)

NoList      == [head |-> Nil, tail |-> Nil, size |-> 0]
Chained(ns) == [head |-> ns[1], tail |-> ns[Len(ns)], size |-> Len(ns)]

InRange(l, i) == 0 <= i /\ i < lists[l].size
Empty(l)      == lists[l].size = 0

\* The first node that holds e.
NodesWith(l, e) ==
  {n \in DOMAIN heap :
     LET ns == Forward(Mem, l)
     IN  \E i \in DOMAIN ns : /\ ns[i] = n /\ heap[n].data = e
                             /\ \A j \in 1..(i - 1) : heap[ns[j]].data # e}

\* data of the nodes ns, in their order, becomes es.
WithData(h, ns, es) ==
  [n \in DOMAIN h |-> IF \E i \in DOMAIN ns : ns[i] = n
                      THEN [h[n] EXCEPT !.data = es[At(ns, n)]] ELSE h[n]]

\* The orders in which qsort may leave es: elements of one key in any.
Orders(es) ==
  {[i \in DOMAIN es |-> es[f[i]]] :
     f \in {g \in [DOMAIN es -> DOMAIN es] :
              \A i, j \in DOMAIN es :
                 i # j => g[i] # g[j] /\ (i < j => Key[es[g[i]]] <= Key[es[g[j]]])}}

NoIter  == [on |-> <<>>]
NoWalk  == [stage |-> "none", calls |-> "none", rest |-> <<>>, fresh |-> FALSE,
            added |-> FALSE, grew |-> FALSE, shrank |-> FALSE]
EndWalk == iter' = NoIter /\ walk' = NoWalk

Init ==
  /\ heap = NoNodes /\ lists = [l \in Pair |-> NoList]
  /\ held = [l \in Pair |-> <<>>]
  /\ iter = NoIter /\ walk = NoWalk /\ ret = Done /\ kept = TRUE /\ fault = FALSE

Return(r)  == ret' = r
Keep(r)    == Return(r) /\ UNCHANGED <<heap, lists, held, fault>>
Reject(st) == Keep(Refused(st))
Commit(m, r) ==
  /\ heap' = m.heap /\ lists' = m.lists /\ held' = [l \in Pair |-> Elems(m, l)]
  /\ Return(r) /\ UNCHANGED fault
Crash == fault' = TRUE /\ UNCHANGED <<heap, lists, held, ret>>

\* The nodes ns of the heap h become the other list.
CommitOther(l, ns, h) ==
  Commit([heap  |-> h,
          lists |-> [lists EXCEPT ![Other(l)] =
                       IF ns = <<>> THEN NoList ELSE Chained(ns)]], Done)

\* Some of the elements in pred, in their order.
Some(es, pred) ==
  {SelectSeq([i \in DOMAIN es |-> IF i \in I THEN es[i] ELSE NoElement],
             LAMBDA e : e # NoElement) :
     I \in SUBSET {i \in DOMAIN es : es[i] \in pred}}

-----------------------------------------------------------------------------
\* Iterators.  One that goes over both lists keeps a node of each.

Using(calls) == walk.stage # "none" /\ walk.calls = calls
StartWalk(calls, owed) ==
  /\ walk' = [NoWalk EXCEPT !.stage = "on", !.calls = calls, !.rest = owed]
  /\ Keep(Done)
Stopped == walk' = [walk EXCEPT !.stage = "over", !.fresh = FALSE]
Went    == walk' = [walk EXCEPT !.fresh = TRUE, !.added = FALSE,
                                !.rest = IF @ = <<>> THEN @ ELSE Tail(@)]
Added   == walk' = [walk EXCEPT !.fresh = FALSE, !.added = TRUE, !.grew = TRUE]
Removed == walk' = [walk EXCEPT !.fresh = FALSE, !.shrank = TRUE]
Changed == walk' = [walk EXCEPT !.fresh = FALSE]

NoneOf(ns) == [k \in DOMAIN ns |-> Nil]
Handed(es) == Got(IF Len(es) = 1 THEN es[1] ELSE es)
Each(ns)   == [k \in DOMAIN ns |-> heap[ns[k]].data]

\* What an iterator over both lists owes.
Zipped ==
  LET n == IF Len(Contents(1)) < Len(Contents(2)) THEN 1 ELSE 2
  IN  [i \in DOMAIN Contents(n) |-> <<Contents(1)[i], Contents(2)[i]>>]

-----------------------------------------------------------------------------
\* A call, and what is promised of it.

Abs == INSTANCE SeqPairSpec WITH seqs <- held

Keeping(call, promise) == call /\ kept' = (kept /\ promise)

\* Up to one that is in no list.
Indices == 0..(Cardinality(DOMAIN heap) + 1)

\* The iterator's list, and where in it the node n is.
It       == iter.on[1]
Place(n) == At(Forward(Mem, It), n) - 1

\* What the walk owes is handed out, in order, and nothing else.
OwedFirst == /\ ret' = IF walk.rest = <<>> THEN Refused(CC_ITER_END)
                       ELSE Got(Head(walk.rest))
             /\ Abs!S(1)!Same /\ Abs!S(2)!Same

\* What was returned just now is what a change at the iterator hands out.
Latest == walk.fresh => ret' = ret

-----------------------------------------------------------------------------
\* Properties of either list

\* Every call does what SeqPairSpec says of that call.  An iterator returns what
\* the list held when the walk began, once and in order, whatever is added,
\* removed or replaced through it on the way, and it is the element returned last
\* that these calls act on.
CallsKeepPromise == kept

\* A loop over a list or over both comes to its end, also when its body adds
\* elements behind the one in hand.
LoopsEnd == walk.stage = "on" ~> walk.stage # "on"
=============================================================================
