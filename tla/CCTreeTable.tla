---------------------------- MODULE CCTreeTable ----------------------------
(***************************************************************************)
(* CC_TreeTable (cc_treetable.c): a red-black tree of linked nodes around  *)
(* one sentinel, which stands for every missing child and for the parent   *)
(* of the root, and whose own parent field is scratch space of removals.   *)
(*                                                                         *)
(* A node is named by its key, which it keeps until it is freed; keys that *)
(* cmp takes for equal are the same key.  The C code has every rotation    *)
(* and every rebalancing case twice, for left and right: here a side is a  *)
(* parameter.                                                              *)
(***************************************************************************)
EXTENDS CCCommon, FiniteSets

CONSTANTS
  Keys,      \* integers, in the order of table->cmp
  Mappings,  \* the pairs of a key and a value a client adds
  Sentinel   \* table->sentinel

ASSUME TreeTableConstants ==
  /\ Keys \subseteq Int /\ IsFiniteSet(Keys)
  /\ Sentinel \notin Keys /\ NoElement \notin Keys \cup {Sentinel}
  /\ \A m \in Mappings : m[1] \in Keys

Values == {m[2] : m \in Mappings}

VARIABLES
  table,  \* struct cc_treetable_s: root, size, and the allocated nodes
  iter,   \* CC_TreeTableIter: current, next; on while a client may use it
  ret     \* the result of the latest call

vars == <<table, iter, ret>>

Red   == "red"
Black == "black"
Null  == NoElement

-----------------------------------------------------------------------------
\* Nodes

Node(v, color, parent) ==
  [value |-> v, color |-> color, parent |-> parent,
   left |-> Sentinel, right |-> Sentinel]

\* calloc leaves the links of the sentinel NULL.
SentinelNode ==
  [value |-> Null, color |-> Black, parent |-> Null, left |-> Null, right |-> Null]

Empty == [root |-> Sentinel, size |-> 0, node |-> [n \in {Sentinel} |-> SentinelNode]]

Live(t)      == DOMAIN t.node \ {Sentinel}
Parent(t, n) == t.node[n].parent
Color(t, n)  == t.node[n].color
Other(side)  == IF side = "left" THEN "right" ELSE "left"

\* Which child of its parent n is, as the code finds out: the left one if the
\* parent says so.
SideOf(t, n) == IF n = t.node[Parent(t, n)].left THEN "left" ELSE "right"

Painted(t, n, color)     == [t EXCEPT !.node[n].color = color]
WithParent(t, n, p)      == [t EXCEPT !.node[n].parent = p]
WithChild(t, n, side, c) == [t EXCEPT !.node[n][side] = c]

\* The last node of a way from n, on which next[m], unless it is the sentinel,
\* comes behind m.
WayEnd(next, n) ==
  LET end[m \in DOMAIN next] == IF next[m] = Sentinel THEN m ELSE end[next[m]]
  IN  end[n]

\* Where the search for a key ends: at its node, or at the last one on the way.
Descend(t, n, k) ==
  WayEnd([m \in Live(t) |-> IF m = k THEN Sentinel
                            ELSE IF k < m THEN t.node[m].left ELSE t.node[m].right], n)

\* get_tree_node_by_key finds k
Found(t, k) == t.size # 0 /\ Descend(t, t.root, k) = k

\* tree_min and tree_max: the last node down one side
Extreme(t, n, side) ==
  IF n = Sentinel THEN n ELSE WayEnd([m \in Live(t) |-> t.node[m][side]], n)

First(t) == Extreme(t, t.root, "left")
Last(t)  == Extreme(t, t.root, "right")

\* The parent of the last node on the way up from n, which goes on from one that
\* is a child on the given side.
Climb(t, n, side) ==
  LET up(m) == IF Parent(t, m) # Sentinel /\ m = t.node[Parent(t, m)][side]
               THEN Parent(t, m) ELSE Sentinel
  IN  Parent(t, WayEnd([m \in Live(t) |-> up(m)], n))

\* get_successor_node (side right) and get_predecessor_node (side left)
NextOn(t, n, side) ==
  IF t.node[n][side] = Sentinel THEN Climb(t, n, side)
  ELSE Extreme(t, t.node[n][side], Other(side))

\* The nodes a walk with get_successor_node visits from n on.
Visited(t, n) ==
  LET from[m \in Live(t) \cup {Sentinel}] ==
        IF m = Sentinel THEN {} ELSE {m} \cup from[NextOn(t, m, "right")]
  IN  from[n]

-----------------------------------------------------------------------------
\* Relinking

\* v takes the place of u below the parent of u.
Transplant(t, u, v) ==
  LET p == Parent(t, u)
      above == IF p = Sentinel THEN [t EXCEPT !.root = v]
               ELSE WithChild(t, p, SideOf(t, u), v)
  IN  WithParent(above, v, p)

\* x goes down to a side, its child y on the other side comes up and hands its
\* own child on that side over to x.
Swung(t, x, y, inner, side) ==
  LET up == WithChild(Transplant(t, x, y), x, Other(side), inner)
  IN  WithParent(WithChild(up, y, side, x), x, y)

\* rotate_left (side left) and rotate_right
Rotate(t, x, side) ==
  LET y == t.node[x][Other(side)]
      inner == t.node[y][side]
      swung == Swung(t, x, y, inner, side)
  IN  IF inner = Sentinel THEN swung ELSE WithParent(swung, inner, x)

\* A child of g on that side takes the place and the colour of g, which goes down
\* to the other side.
Raised(t, high, g, side) ==
  Rotate(Painted(Painted(t, high, Black), g, Red), g, Other(side))

\* One round of the loop of rebalance_after_insert, at the red node z below a red
\* one.
InsertRound(t, z) ==
  LET p == Parent(t, z)
      g == Parent(t, p)
      side == SideOf(t, p)
      uncle == t.node[g][Other(side)]
  IN  IF Color(t, uncle) = Red
      THEN [tree |-> Painted(Painted(Painted(t, p, Black), uncle, Black), g, Red),
            at   |-> g]
      ELSE IF z = t.node[p][Other(side)]
      THEN [tree |-> Raised(Rotate(t, p, side), z, g, side), at |-> p]
      ELSE [tree |-> Raised(t, p, g, side), at |-> z]

\* A loop makes no more rounds than there are nodes.
RebalanceAfterInsert(t, z) ==
  LET round[i \in 0..Cardinality(Live(t))] ==
        IF i = 0 THEN [tree |-> t, at |-> z]
        ELSE LET b == round[i - 1]
             IN  IF Color(b.tree, Parent(b.tree, b.at)) = Black THEN b
                 ELSE InsertRound(b.tree, b.at)
      end == round[Cardinality(Live(t))].tree
  IN  Painted(end, end.root, Black)

\* The steps of rebalance_after_delete at a child of p on the given side: a red
\* sibling of it goes up, for a black one; the inner child of the sibling goes up,
\* for an outer one that is red; and the sibling goes up to make good the loss.
RedSiblingUp(t, p, side) ==
  LET s == t.node[p][Other(side)]
  IN  IF Color(t, s) = Black THEN t
      ELSE Rotate(Painted(Painted(t, s, Black), p, Red), p, side)

InnerUp(t, p, side) ==
  LET s == t.node[p][Other(side)]
  IN  IF Color(t, t.node[s][Other(side)]) = Red THEN t
      ELSE Rotate(Painted(Painted(t, t.node[s][side], Black), s, Red), s, Other(side))

SiblingUp(t, p, side) ==
  LET s == t.node[p][Other(side)]
      painted == Painted(Painted(t, s, Color(t, p)), p, Black)
  IN  Rotate(Painted(painted, t.node[s][Other(side)], Black), p, side)

\* One round of the loop of rebalance_after_delete, at x, which is short of one
\* black node; the sentinel may be x.
DeleteRound(t, x) ==
  LET p == Parent(t, x)
      side == SideOf(t, x)
      t1 == RedSiblingUp(t, p, side)
      s == t1.node[p][Other(side)]
      t4 == SiblingUp(InnerUp(t1, p, side), p, side)
  IN  IF \A c \in {t1.node[s].left, t1.node[s].right} : Color(t1, c) = Black
      THEN [tree |-> Painted(t1, s, Red), at |-> p]
      ELSE [tree |-> t4, at |-> t4.root]

RebalanceAfterDelete(t, x) ==
  LET round[i \in 0..Cardinality(Live(t))] ==
        IF i = 0 THEN [tree |-> t, at |-> x]
        ELSE LET b == round[i - 1]
             IN  IF b.at = b.tree.root \/ Color(b.tree, b.at) = Red THEN b
                 ELSE DeleteRound(b.tree, b.at)
      end == round[Cardinality(Live(t))]
  IN  Painted(end.tree, end.at, Black)

\* Mutant of Promoted: the left child of z keeps z for a parent.
PromotedForgetful(t, z, y) ==
  LET x == t.node[y].right
      right == t.node[z].right
      out == IF Parent(t, y) = z THEN WithParent(t, x, y)
             ELSE WithParent(WithChild(Transplant(t, y, x), y, "right", right), right, y)
      left == out.node[z].left
  IN  Painted(WithChild(Transplant(out, z, y), y, "left", left), y, Color(out, z))

\* z has two children: y, the first node behind it, takes its place.
Promoted(t, z, y) ==
  LET x == t.node[y].right
      right == t.node[z].right
      out == IF Parent(t, y) = z THEN WithParent(t, x, y)
             ELSE WithParent(WithChild(Transplant(t, y, x), y, "right", right), right, y)
      left == out.node[z].left
  IN  Painted(WithParent(WithChild(Transplant(out, z, y), y, "left", left), left, y),
              y, Color(out, z))

\* Mutant of Unlinked: the last node behind z takes its place.
UnlinkedForLast(t, z) ==
  LET y == Extreme(t, t.node[z].right, "right")
      lone == IF t.node[z].left = Sentinel THEN t.node[z].right ELSE t.node[z].left
  IN  IF Sentinel \in {t.node[z].left, t.node[z].right}
      THEN [tree |-> Transplant(t, z, lone), x |-> lone, color |-> Color(t, z)]
      ELSE [tree |-> Promoted(t, z, y), x |-> t.node[y].right,
            color |-> Color(t, y)]

\* What remove_node leaves before it rebalances: the tree without z, the node x
\* where it may be short of a black node, and the colour that was taken out.
Unlinked(t, z) ==
  LET y == Extreme(t, t.node[z].right, "left")
      lone == IF t.node[z].left = Sentinel THEN t.node[z].right ELSE t.node[z].left
  IN  IF Sentinel \in {t.node[z].left, t.node[z].right}
      THEN [tree |-> Transplant(t, z, lone), x |-> lone, color |-> Color(t, z)]
      ELSE [tree |-> Promoted(t, z, y), x |-> t.node[y].right,
            color |-> Color(t, y)]

\* Mutant of Without: the node is not freed.
WithoutFreeing(t, z) == [t EXCEPT !.size = @ - 1]

Without(t, z) ==
  [t EXCEPT !.node = [n \in DOMAIN @ \ {z} |-> @[n]], !.size = @ - 1]

\* Mutant of RemoveNode: the sentinel is no place to rebalance from.
RemoveNodeBeforeNode(t, z) ==
  LET u == Unlinked(t, z)
  IN  Without(IF u.color = Black /\ u.x # Sentinel
              THEN RebalanceAfterDelete(u.tree, u.x) ELSE u.tree, z)

RemoveNode(t, z) ==
  LET u == Unlinked(t, z)
  IN  Without(IF u.color = Black THEN RebalanceAfterDelete(u.tree, u.x)
              ELSE u.tree, z)

-----------------------------------------------------------------------------
\* Calls

NoIter     == [on |-> FALSE, current |-> Sentinel, next |-> Sentinel]
Return(r)  == ret' = r

\* After a change that was not made through it, an iterator may hold nodes that
\* were freed: no client uses it any more.
Update(t, r) == Return(r) /\ table' = t /\ iter' = NoIter
Answer(r)    == Return(r) /\ UNCHANGED <<table, iter>>

Init == table = Empty /\ iter = NoIter /\ ret = Done

Inserted(k, v) ==
  LET y == IF table.root = Sentinel THEN Sentinel
           ELSE Descend(table, table.root, k)
      color == IF y = Sentinel THEN Black ELSE Red
      node == [n \in DOMAIN table.node \cup {k} |->
                 IF n = k THEN Node(v, color, y) ELSE table.node[n]]
      grown == [table EXCEPT !.node = node, !.size = @ + 1]
  IN  IF y = Sentinel THEN [grown EXCEPT !.root = k]
      ELSE RebalanceAfterInsert(
             [grown EXCEPT !.node[y][IF k < y THEN "left" ELSE "right"] = k], k)

\* A node that is there gets the value, and no memory is needed.
Add(k, v) ==
  LET present == table.root # Sentinel /\ Descend(table, table.root, k) = k
  IN  \/ present /\ Update([table EXCEPT !.node[k].value = v], Done)
      \/ ~present /\ Update(Inserted(k, v), Done)
      \/ ~present /\ Answer(Refused(CC_ERR_ALLOC))

Missing(k) == ~Found(table, k) /\ Answer(Refused(CC_ERR_KEY_NOT_FOUND))

Get(k) ==
  \/ Missing(k)
  \/ Found(table, k) /\ Answer(Got(table.node[k].value))

ContainsKey(k) == Answer(Truth(Found(table, k)))

ContainsValue(v) ==
  Answer(GotNumber(Cardinality(
    {n \in Visited(table, First(table)) : table.node[n].value = v})))

\* get_first_key and get_last_key, get_first_value and get_last_value
GetKeyAt(n) ==
  \/ n = Sentinel /\ Answer(Refused(CC_ERR_KEY_NOT_FOUND))
  \/ n # Sentinel /\ Answer(GotNumber(n))
GetValueAt(n) ==
  \/ n = Sentinel /\ Answer(Refused(CC_ERR_VALUE_NOT_FOUND))
  \/ n # Sentinel /\ Answer(Got(table.node[n].value))

\* get_greater_than and get_lesser_than; beyond the ends they hand out the key
\* of the sentinel, which is NULL, with CC_OK.
GetNeighbour(k, side) ==
  \/ Missing(k)
  \/ /\ Found(table, k)
     /\ LET n == NextOn(table, k, side)
        IN  Answer(IF n = Sentinel THEN Got(Null) ELSE GotNumber(n))

TakeOut(n) ==
  Return(Got(table.node[n].value)) /\ table' = RemoveNode(table, n)

Remove(k) ==
  \/ Missing(k)
  \/ Found(table, k) /\ TakeOut(k) /\ iter' = NoIter

RemoveFirst ==
  \/ table.size = 0 /\ Answer(Refused(CC_ERR_KEY_NOT_FOUND))
  \/ table.size # 0 /\ TakeOut(First(table)) /\ iter' = NoIter

\* remove_last does not look at the size: on an empty table it takes the
\* sentinel for the last node and follows its NULL links.
RemoveLast ==
  table.size # 0 /\ TakeOut(Last(table)) /\ iter' = NoIter

RemoveAll ==
  Update([table EXCEPT !.root = Sentinel, !.size = 0,
            !.node = [n \in {Sentinel} |-> @[n]]], Done)

\* Mutant of IterInit: starts at the root.
IterInitAtRoot ==
  /\ iter' = [on |-> TRUE, current |-> Sentinel, next |-> table.root]
  /\ Return(Done) /\ UNCHANGED table

IterInit ==
  /\ iter' = [on |-> TRUE, current |-> Sentinel, next |-> First(table)]
  /\ Return(Done) /\ UNCHANGED table

IterNext ==
  /\ iter.on
  /\ \/ iter.next = Sentinel /\ Answer(Refused(CC_ITER_END))
     \/ /\ iter.next # Sentinel
        /\ iter' = [iter EXCEPT !.current = iter.next,
                                !.next = NextOn(table, iter.next, "right")]
        /\ Return(Got(<<iter.next, table.node[iter.next].value>>))
        /\ UNCHANGED table

\* "This Function should only ever be called after a call to iter_next": before
\* the first one current is the sentinel, which remove_node would take apart.
IterRemove ==
  /\ iter.on /\ iter.current # Sentinel
  /\ \/ iter.current = Null /\ Answer(Refused(CC_ERR_KEY_NOT_FOUND))
     \/ /\ iter.current # Null /\ TakeOut(iter.current)
        /\ iter' = [iter EXCEPT !.current = Null]

Next ==
  \/ \E m \in Mappings : Add(m[1], m[2])
  \/ \E k \in Keys : \/ Get(k) \/ ContainsKey(k) \/ Remove(k)
                     \/ \E side \in {"left", "right"} : GetNeighbour(k, side)
  \/ \E v \in Values : ContainsValue(v)
  \/ \E n \in {First(table), Last(table)} : GetKeyAt(n) \/ GetValueAt(n)
  \/ RemoveFirst \/ RemoveLast \/ RemoveAll
  \/ IterInit \/ IterNext \/ IterRemove

Spec == Init /\ [][Next]_vars

\* A client that only adds and removes, for the shapes of larger trees.
Changes == (\E m \in Mappings : Add(m[1], m[2])) \/ \E k \in Keys : Remove(k)

-----------------------------------------------------------------------------
\* Properties

\* The number of black nodes on the ways down from n, the sentinel included.
BlackHeights(t, n) ==
  LET heights[m \in Live(t) \cup {Sentinel}] ==
        IF m = Sentinel THEN {1}
        ELSE {h + (IF Color(t, m) = Black THEN 1 ELSE 0) :
                h \in heights[t.node[m].left] \cup heights[t.node[m].right]}
  IN  heights[n]

\* After every call the tree keeps the rules cc_treetable_assert_rb_rules tests
\* for (no red child of a red node, as many black nodes on every way down) and
\* that it does not: root and sentinel are black.
RedBlackRules ==
  /\ Color(table, Sentinel) = Black /\ Color(table, table.root) = Black
  /\ \A n \in Live(table) :
       Color(table, n) = Red => Color(table, Parent(table, n)) = Black
  /\ Cardinality(BlackHeights(table, table.root)) = 1

\* The parent and child links that removals and rotations rewrite one by one
\* agree: the tree can be climbed exactly as it can be descended.
LinksAgree ==
  /\ table.root # Sentinel => Parent(table, table.root) = Sentinel
  /\ \A n \in Live(table) : \A side \in {"left", "right"} :
       table.node[n][side] # Sentinel => Parent(table, table.node[n][side]) = n

\* A walk from the first node visits every node that is allocated, and size
\* counts them: none is lost, none is freed while it is linked; and each is found
\* by its key, whatever rotations moved it.
EveryNodeIsReached ==
  /\ Visited(table, First(table)) = Live(table)
  /\ table.size = Cardinality(Live(table))
  /\ \A k \in Keys : Found(table, k) <=> k \in Live(table)

\* The table is an ordered map with one atomic step per call, the step of that
\* call, and an iterator that removes on its way still hands out every mapping,
\* in order.
Held   == [n \in Live(table) |-> table.node[n].value]
Owed   == IF iter.next = Sentinel THEN {} ELSE {n \in Live(table) : n >= iter.next}
Latest == IF iter.current = Sentinel THEN Null ELSE iter.current
Abs    == INSTANCE OrderedMapSpec WITH map <- Held, owed <- Owed, latest <- Latest

CallsKeepPromise ==
  /\ \A k \in Keys :
       /\ \A v \in Values : Add(k, v) => Abs!Store(k, v) \/ Abs!NoMemory
       /\ Get(k) => Abs!Get(k) \/ Abs!Absent(k)
       /\ ContainsKey(k) => Abs!Contains(k)
       /\ Remove(k) => Abs!DeleteAny(k) \/ Abs!Absent(k)
       /\ GetNeighbour(k, "right") => Abs!Successor(k) \/ Abs!Absent(k)
       /\ GetNeighbour(k, "left") => Abs!Predecessor(k) \/ Abs!Absent(k)
  /\ \A v \in Values : ContainsValue(v) => Abs!Occurrences(v)
  /\ GetKeyAt(First(table)) => Abs!FirstKey
  /\ GetKeyAt(Last(table)) => Abs!LastKey
  /\ GetValueAt(First(table)) => Abs!FirstValue
  /\ GetValueAt(Last(table)) => Abs!LastValue
  /\ RemoveFirst => Abs!DeleteFirst \/ Abs!NoneToDelete
  /\ RemoveLast => Abs!DeleteLast
  /\ RemoveAll => Abs!Clear
  /\ IterInit => Abs!StartOver
  /\ IterNext => Abs!NextInOrder \/ Abs!EndOfOrder
  /\ IterRemove => Abs!DropLatest \/ Abs!DropNone

IsAnOrderedMap == Abs!OrderedSpec /\ [][CallsKeepPromise]_vars
=============================================================================
