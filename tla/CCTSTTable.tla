----------------------------- MODULE CCTSTTable -----------------------------
(***************************************************************************)
(* CC_TSTTable (cc_tsttable.c): a ternary search tree of characters.  A    *)
(* node stands for the characters on the way to it and its own, and is    *)
(* named by them; the entry of a key is at the node of its last character. *)
(* The empty key is at the root, whatever node that is: a tree that begins *)
(* with it has the node <<0>>, for the character that ends every string.   *)
(*                                                                         *)
(* Following a pointer to a freed node sets `fault': the program has no    *)
(* further behaviour.                                                      *)
(***************************************************************************)
EXTENDS CCCommon, Sequences, FiniteSets

CONSTANTS
  Keys,     \* sequences of characters, which are positive integers
  Mappings  \* the pairs of a key and a value a client adds

Values == {m[2] : m \in Mappings}

VARIABLES
  table,  \* struct cc_tsttable_s: size, root, and the allocated nodes
  iter,   \* CC_TSTTableIter: current_node, next_node, advanced_on_remove, next_stat
  walk,   \* history of the iteration: on, while only iterator calls were made since
          \* iter_init, until the end; owed, the nodes not handed out yet; passed,
          \* the ones a removal stepped on to; fresh, while the latest call is an
          \* iter_next that returned CC_OK
  ret,
  kept,   \* history: every call so far did what MapSpec says of it
  fault

vars == <<table, iter, walk, ret, kept, fault>>

Nil     == <<>>
NoEntry == NoElement
Sides   == {"left", "mid", "right"}
Entry(k, v) == [key |-> k, value |-> v]

Live(t)     == DOMAIN t.node
HasEntry(t) == {n \in Live(t) : t.node[n].data # NoEntry}
Empty       == [size |-> 0, root |-> Nil, node |-> [n \in {} |-> NoEntry]]

\* get_last_node: the node of k, or Nil, the link of `above' where its first
\* missing node belongs, and how many characters of k there are on the way.
Search(t, k) ==
  LET At(n, above, side, m) ==
        [node |-> n, above |-> above, side |-> side, matched |-> m]
      look[n \in Live(t)] ==
        LET go(side, m) == IF t.node[n][side] = Nil THEN At(Nil, n, side, m)
                           ELSE look[t.node[n][side]]
            c == k[Len(n)]
        IN  IF c < n[Len(n)] THEN go("left", Len(n) - 1)
            ELSE IF c > n[Len(n)] THEN go("right", Len(n) - 1)
            ELSE IF Len(n) = Len(k) THEN At(n, Nil, "root", Len(n))
            ELSE go("mid", Len(n))
  IN  IF t.root = Nil \/ k = <<>> THEN At(t.root, Nil, "root", 0)
      ELSE look[t.root]

\* The nodes that are missing on the way to k, of which m characters are there.
Missing(k, m) ==
  IF k = <<>> THEN <<(<<0>>)>>
  ELSE [i \in 1..(Len(k) - m) |-> SubSeq(k, 1, m + i)]

Linked(t, above, side, n) ==
  IF above = Nil THEN [t EXCEPT !.root = n] ELSE [t EXCEPT !.node[above][side] = n]

\* make_mid_subtree, with the entry at its end, below `above'.
Grown(t, place, k, v) ==
  LET ns == Missing(k, place.matched)
      at(n) == CHOOSE i \in DOMAIN ns : ns[i] = n
      new(i) == [data   |-> IF i = Len(ns) THEN Entry(k, v) ELSE NoEntry,
                 parent |-> IF i = 1 THEN place.above ELSE ns[i - 1],
                 left |-> Nil, right |-> Nil,
                 mid    |-> IF i = Len(ns) THEN Nil ELSE ns[i + 1]]
      added == {ns[i] : i \in DOMAIN ns}
  IN  Linked([t EXCEPT !.size = @ + 1,
                       !.node = [n \in Live(t) \cup added |->
                                   IF n \in added THEN new(at(n)) ELSE t.node[n]]],
             place.above, place.side, ns[1])

\* A node without its parent's link to it.
Freed(t, n) ==
  LET p == t.node[n].parent
      cut == IF p = Nil THEN [t EXCEPT !.root = Nil]
             ELSE [t EXCEPT !.node[p] =
                     [f \in DOMAIN @ |-> IF f \in Sides /\ @[f] = n THEN Nil ELSE @[f]]]
  IN  [cut EXCEPT !.node = [m \in Live(t) \ {n} |-> cut.node[m]]]

Bare(t, n) == t.node[n].data = NoEntry /\ \A s \in Sides : t.node[n][s] = Nil

\* Mutant of WithoutEntry: the nodes above stay.
WithoutEntryOnly(t, n) ==
  LET u == [t EXCEPT !.node[n].data = NoEntry]
  IN  IF Bare(u, n) THEN Freed(u, n) ELSE u

\* remove_eow_node: with its entry the node goes, and the ones above, as long as
\* they hold nothing else.
WithoutEntry(t, n) ==
  LET cut[i \in 0..Cardinality(Live(t))] ==
        IF i = 0 THEN [t |-> [t EXCEPT !.node[n].data = NoEntry], n |-> n]
        ELSE LET b == cut[i - 1]
             IN  IF b.n = Nil \/ ~Bare(b.t, b.n) THEN [b EXCEPT !.n = Nil]
                 ELSE [t |-> Freed(b.t, b.n), n |-> b.t.node[b.n].parent]
      end == cut[Cardinality(Live(t))].t
  IN  IF t.node[n].data = NoEntry THEN t ELSE end

\* Mutant of Onward: from the middle the way leads up, not right.
OnwardPastRight(nd, from) ==
  IF from = nd.parent THEN <<nd.left, nd.mid, nd.right, nd.parent>>
  ELSE IF from = nd.left THEN <<nd.mid, nd.right, nd.parent>>
  ELSE <<nd.parent>>

\* Mutant of Onward: from the middle the way leads there again.
OnwardAgain(nd, from) ==
  IF from = nd.parent THEN <<nd.left, nd.mid, nd.right, nd.parent>>
  ELSE IF from \in {nd.left, nd.mid} THEN <<nd.mid, nd.right, nd.parent>>
  ELSE <<nd.parent>>

\* Where iter_next goes from a node, the first of them that is there, when it
\* came from one of the node's neighbours.
Onward(nd, from) ==
  IF from = nd.parent THEN <<nd.left, nd.mid, nd.right, nd.parent>>
  ELSE IF from = nd.left THEN <<nd.mid, nd.right, nd.parent>>
  ELSE IF from = nd.mid THEN <<nd.right, nd.parent>>
  ELSE IF from = nd.right THEN <<nd.parent>>
  ELSE <<>>

\* iter_next proper: a node with an entry is returned each time it is reached,
\* from above and from every child, but not where the way ends.
Advanced(t, current, next) ==
  LET end == [stat |-> CC_ITER_END, current |-> Nil, next |-> Nil]
      hop[from \in Live(t) \cup {Nil}, n \in Live(t) \cup {Nil}] ==
        LET ways == IF n = Nil THEN <<>>
                    ELSE SelectSeq(Onward(t.node[n], from), LAMBDA m : m # Nil)
        IN  IF ways = <<>> THEN end
            ELSE IF n \in HasEntry(t)
            THEN [stat |-> CC_OK, current |-> n, next |-> Head(ways)]
            ELSE hop[n, Head(ways)]
  IN  hop[current, next]

-----------------------------------------------------------------------------
\* Calls

NoWalk == [on |-> FALSE, owed |-> {}, passed |-> {}, fresh |-> FALSE]
NoIter == [current |-> Nil, next |-> Nil, advanced |-> FALSE, stat |-> CC_OK]

Return(r)    == ret' = r
Update(t, r) == Return(r) /\ table' = t /\ iter' = NoIter /\ walk' = NoWalk /\ UNCHANGED fault
Answer(r)    == Return(r) /\ UNCHANGED <<table, iter, walk, fault>>
Crash        == fault' = TRUE /\ UNCHANGED <<table, iter, walk, ret>>

Init ==
  /\ table = Empty /\ iter = NoIter /\ walk = NoWalk
  /\ ret = Done /\ kept = TRUE /\ fault = FALSE

\* A new node or entry that cannot be allocated leaves the tree as it is.
Add(k, v) ==
  LET place == Search(table, k)
      n == place.node
  IN  \/ n \notin HasEntry(table) /\ Answer(Refused(CC_ERR_ALLOC))
      \/ n = Nil /\ Update(Grown(table, place, k, v), Done)
      \/ /\ n # Nil
         /\ Update([table EXCEPT !.node[n].data = Entry(k, v),
                                 !.size = IF n \in HasEntry(table) THEN @ ELSE @ + 1],
                   Done)

Found(k) ==
  LET place == Search(table, k)
  IN  place.node \in HasEntry(table) /\ place.matched = Len(k)

ValueOf(n) == table.node[n].data.value

Get(k) ==
  \/ Found(k) /\ Answer(Got(ValueOf(Search(table, k).node)))
  \/ ~Found(k) /\ Answer(Refused(CC_ERR_KEY_NOT_FOUND))

ContainsKey(k) == Answer(Truth(Found(k)))

Remove(k) ==
  LET n == Search(table, k).node
  IN  \/ ~Found(k) /\ Answer(Refused(CC_ERR_KEY_NOT_FOUND))
      \/ /\ Found(k)
         /\ Update([WithoutEntry(table, n) EXCEPT
                      !.size = IF @ > 0 THEN @ - 1 ELSE 0], Got(ValueOf(n)))

RemoveAll ==
  Update([Empty EXCEPT !.size = table.size - Cardinality(HasEntry(table))], Done)

IterInit ==
  /\ Return(Done) /\ UNCHANGED <<table, fault>>
  /\ iter' = [NoIter EXCEPT !.next = table.root]
  /\ walk' = [on |-> TRUE, owed |-> HasEntry(table), passed |-> {}, fresh |-> FALSE]

InTree(n) == n \in Live(table) \cup {Nil}

\* After a removal, which has advanced the iterator, only the status of that step
\* is returned.
IterNext ==
  \/ /\ iter.advanced
     /\ Return(Result(iter.stat, NoElement)) /\ iter' = [iter EXCEPT !.advanced = FALSE]
     /\ walk' = [walk EXCEPT !.on = (iter.stat = CC_OK), !.fresh = (iter.stat = CC_OK)]
     /\ UNCHANGED <<table, fault>>
  \/ /\ ~iter.advanced /\ ~(InTree(iter.current) /\ InTree(iter.next))
     /\ Crash
  \/ /\ ~iter.advanced /\ InTree(iter.current) /\ InTree(iter.next)
     /\ LET a == Advanced(table, iter.current, iter.next)
            n == a.current
        IN  /\ Return(IF a.stat = CC_OK
                      THEN Got(<<table.node[n].data.key, ValueOf(n)>>)
                      ELSE Refused(CC_ITER_END))
            /\ iter' = [iter EXCEPT !.current = n, !.next = a.next]
            /\ walk' = [walk EXCEPT !.on = (a.stat = CC_OK), !.fresh = (a.stat = CC_OK),
                                    !.owed = @ \ {n}]
     /\ UNCHANGED <<table, fault>>

\* Mutant of IterRemove: the node goes before the iterator has left it.
IterRemoveFirst ==
  /\ walk.fresh
  /\ iter.current \in HasEntry(table)
  /\ Return(Got(ValueOf(iter.current)))
  /\ iter' = [iter EXCEPT !.advanced = TRUE]
  /\ walk' = [walk EXCEPT !.fresh = FALSE]
  /\ table' = [WithoutEntry(table, iter.current) EXCEPT !.size = @ - 1]
  /\ UNCHANGED fault

\* "This Function should only ever be called after a call to iter_next".  The
\* iterator moves on before the node goes.
IterRemove ==
  /\ walk.fresh
  /\ \/ iter.current \notin HasEntry(table) /\ Crash
     \/ /\ iter.current \in HasEntry(table)
        /\ LET a == Advanced(table, iter.current, iter.next)
           IN  /\ iter' = [current |-> a.current, next |-> a.next,
                           advanced |-> TRUE, stat |-> a.stat]
               /\ walk' = [walk EXCEPT !.fresh = FALSE,
                                       !.passed = @ \cup {a.current}]
        /\ Return(Got(ValueOf(iter.current)))
        /\ table' = [WithoutEntry(table, iter.current) EXCEPT !.size = @ - 1]
        /\ UNCHANGED fault

-----------------------------------------------------------------------------
\* What is promised of a call.  The tree is a map from nodes to values; the empty
\* key is a second name of the root.

Abs == INSTANCE MapSpec WITH
         map  <- [n \in HasEntry(table) |-> ValueOf(n)],
         Keys <- {<<0>>} \cup (Keys \ {<<>>})

Name(k) == IF k # <<>> THEN k ELSE IF table.root = Nil THEN <<0>> ELSE table.root

Keeping(call, promise) == call /\ kept' = (kept /\ promise)

\* A walk comes to its end when everything was handed out, but for what a removal
\* stepped on to and for a root that is the only node.
OnlyRoot   == IF Live(table) = {table.root} THEN {table.root} ELSE {}
WalkIsOver == Abs!WalkOver /\ walk.owed \subseteq walk.passed \cup OnlyRoot

\* After a removal the entry is left for the client to guess.
Unseen == iter.advanced /\ ret' = Done /\ UNCHANGED table

\* The entry that goes is the one that was handed out, if one was.
Latest == ret.out = NoElement \/ ret'.out = ret.out[2]

Questions ==
  \E k \in Keys :
    \/ Keeping(Get(k), Abs!Get(Name(k)) \/ Abs!Absent(Name(k)))
    \/ Keeping(ContainsKey(k), Abs!Contains(Name(k)))

Changes ==
  \/ \E m \in Mappings :
       Keeping(Add(m[1], m[2]), Abs!Put(Name(m[1]), m[2]) \/ Abs!NoRoom)
  \/ \E k \in Keys :
       Keeping(Remove(k), Abs!Delete(Name(k)) \/ Abs!Absent(Name(k)))
  \/ Keeping(RemoveAll, Abs!Clear)

GoOn ==
  /\ walk.on
  /\ Keeping(IterNext, \/ \E n \in HasEntry(table) :
                            /\ ret' = Got(<<table.node[n].data.key, ValueOf(n)>>)
                            /\ UNCHANGED table
                       \/ Unseen
                       \/ WalkIsOver)

Next ==
  /\ ~fault
  /\ \/ ~walk.on /\ (Questions \/ Changes \/ Keeping(IterInit, Abs!Keep))
     \/ GoOn
     \/ walk.on /\ Keeping(IterRemove, Abs!Delete(iter.current) /\ Latest)

\* The loop of foreach_key, foreach_value and CC_TSTTABLE_FOREACH calls iter_next
\* until it ends.
Fairness == WF_vars(~fault /\ GoOn)

Spec == Init /\ [][Next]_vars /\ Fairness

-----------------------------------------------------------------------------
\* Properties

\* No node is lost and none is freed that is still linked: the tree that the
\* root reaches is all there is, can be climbed as it is descended, ends only in
\* nodes with an entry, and size counts the entries.
TreeIsTight ==
  /\ \A n \in Live(table) :
       LET p == table.node[n].parent
       IN  /\ IF p = Nil THEN n = table.root
              ELSE p \in Live(table) /\ \E s \in Sides : table.node[p][s] = n
           /\ \A s \in Sides :
                LET child == table.node[n][s]
                IN  child # Nil => child \in Live(table) /\ table.node[child].parent = n
           /\ ~Bare(table, n)
  /\ table.root = Nil <=> Live(table) = {}
  /\ table.size = Cardinality(HasEntry(table))

\* Every call does to a map what the call of its name does, iter_remove removes
\* what iter_next handed out, and a walk, with removals or without, hands out
\* every entry but those named in WalkIsOver.
CallsKeepPromise == kept /\ ~fault

\* A loop over the table comes to its end, although the walk climbs through nodes
\* it has been at, and also when its body removes entries.
LoopsEnd == walk.on ~> ~walk.on
=============================================================================
