--------------------------- MODULE RedBlackProofs ---------------------------
(***************************************************************************)
(* The red-black tree of cc_treetable.c: the rotations and the loops of    *)
(* rebalance_after_insert and rebalance_after_delete keep the shape, the   *)
(* order, the colours and the black heights of the tree, for every set of  *)
(* keys.  TreeTableProofs builds the theorems about the table on it.       *)
(*                                                                         *)
(* Shape(t, D, N, sub): the links of t make a binary search tree of the    *)
(* nodes N, sub[n] being the nodes below n; Heights and Even: bh[n] counts *)
(* the black nodes on every way down from n.  Good is a red-black tree.    *)
(* Each is stated of a tree t over a domain D, so that the lemmas also     *)
(* speak of the trees between two steps of a call.                         *)
(***************************************************************************)
EXTENDS CCTreeTable, SharedLemmas

-----------------------------------------------------------------------------
\* Nodes and their fields.  A tree over D is what the operators of CCTreeTable
\* make of a tree, whatever its links are.

Sides  == {"left", "right"}
Colors == {Red, Black}
Kid(t, n, side) == t.node[n][side]
Value(t, n)     == t.node[n].value

Fields(v, c, p, l, r) ==
  [value |-> v, color |-> c, parent |-> p, left |-> l, right |-> r]

TreeOn(t, D) ==
  /\ Sentinel \in D /\ t.size \in Nat
  /\ t = [root |-> t.root, size |-> t.size, node |-> t.node]
  /\ t.node = [n \in D |-> t.node[n]]
  /\ \A n \in D :
       \E v, c, p, l, r : t.node[n] = Fields(v, c, p, l, r) /\ c \in Colors

LEMMA FieldsOf ==
  ASSUME NEW v, NEW c, NEW p, NEW l, NEW r
  PROVE  LET f == Fields(v, c, p, l, r)
         IN  /\ f.value = v /\ f.color = c /\ f.parent = p
             /\ f["left"] = l /\ f["right"] = r /\ f.left = l /\ f.right = r
BY DEF Fields

\* The same fields but for one.
Colored(f, x)      == [f EXCEPT !.color = x]
Adopted(f, x)      == [f EXCEPT !.parent = x]
Linked(f, side, x) == [f EXCEPT ![side] = x]

LEMMA FieldsWith ==
  ASSUME NEW v, NEW c, NEW p, NEW l, NEW r, NEW x
  PROVE  /\ Colored(Fields(v, c, p, l, r), x) = Fields(v, x, p, l, r)
         /\ Adopted(Fields(v, c, p, l, r), x) = Fields(v, c, x, l, r)
         /\ Linked(Fields(v, c, p, l, r), "left", x) = Fields(v, c, p, x, r)
         /\ Linked(Fields(v, c, p, l, r), "right", x) = Fields(v, c, p, l, x)
<1>1. Colored(Fields(v, c, p, l, r), x) = Fields(v, x, p, l, r)
  BY DEF Fields, Colored
<1>2. Adopted(Fields(v, c, p, l, r), x) = Fields(v, c, x, l, r)
  BY DEF Fields, Adopted
<1>3. Linked(Fields(v, c, p, l, r), "left", x) = Fields(v, c, p, x, r)
  BY DEF Fields, Linked
<1>4. Linked(Fields(v, c, p, l, r), "right", x) = Fields(v, c, p, l, x)
  BY DEF Fields, Linked
<1> QED
  BY <1>1, <1>2, <1>3, <1>4

\* A tree with other fields at the node n.
WithNode(t, n, f) ==
  [root |-> t.root, size |-> t.size, node |-> [t.node EXCEPT ![n] = f]]

LEMMA NodeChanges ==
  ASSUME NEW t, NEW D, TreeOn(t, D), NEW n, NEW x
  PROVE  /\ Painted(t, n, x) = WithNode(t, n, Colored(t.node[n], x))
         /\ WithParent(t, n, x) = WithNode(t, n, Adopted(t.node[n], x))
         /\ \A s \in Sides :
              WithChild(t, n, s, x) = WithNode(t, n, Linked(t.node[n], s, x))
<1> DEFINE a == t.root
           b == t.size
           c == t.node
<1>1. t = [root |-> a, size |-> b, node |-> c]
  BY DEF TreeOn
<1> HIDE DEF a, b, c
<1>2. t.root = a /\ t.size = b /\ t.node = c
  BY <1>1
<1>3. Painted(t, n, x) = WithNode(t, n, Colored(t.node[n], x))
  BY <1>1, <1>2 DEF Painted, WithNode, Colored
<1>4. WithParent(t, n, x) = WithNode(t, n, Adopted(t.node[n], x))
  BY <1>1, <1>2 DEF WithParent, WithNode, Adopted
<1>5. \A s \in Sides :
        WithChild(t, n, s, x) = WithNode(t, n, Linked(t.node[n], s, x))
  BY <1>1, <1>2 DEF WithChild, WithNode, Linked
<1> QED
  BY <1>3, <1>4, <1>5

\* Two trees with the same fields but for those named.
SameColors(u, t, D)  == \A m \in D : Color(u, m) = Color(t, m)
SameParents(u, t, D) == \A m \in D : Parent(u, m) = Parent(t, m)
SameValues(u, t, D)  == \A m \in D : Value(u, m) = Value(t, m)
SameKids(u, t, D)    == \A m \in D : \A s \in Sides : Kid(u, m, s) = Kid(t, m, s)

LEMMA OtherNode ==
  ASSUME NEW t, NEW D, TreeOn(t, D), NEW n \in D,
         NEW v, NEW c \in Colors, NEW p, NEW l, NEW r
  PROVE  LET u == WithNode(t, n, Fields(v, c, p, l, r))
         IN  /\ TreeOn(u, D) /\ u.root = t.root /\ u.size = t.size
             /\ u.node[n] = Fields(v, c, p, l, r)
             /\ \A m \in D \ {n} : u.node[m] = t.node[m]
<1> DEFINE u == WithNode(t, n, Fields(v, c, p, l, r))
<1>1. u.root = t.root /\ u.size = t.size
      /\ u.node = [t.node EXCEPT ![n] = Fields(v, c, p, l, r)]
      /\ u = [root |-> u.root, size |-> u.size, node |-> u.node]
  BY DEF WithNode
<1> HIDE DEF u
<1>2. u.node[n] = Fields(v, c, p, l, r) /\ \A m \in D \ {n} : u.node[m] = t.node[m]
  BY <1>1 DEF TreeOn
<1>3. u.node = [m \in D |-> u.node[m]]
  BY <1>1 DEF TreeOn
<1>4. TreeOn(u, D)
  BY <1>1, <1>2, <1>3 DEF TreeOn
<1> QED
  BY <1>1, <1>2, <1>4 DEF u

LEMMA PaintedTree ==
  ASSUME NEW t, NEW D, TreeOn(t, D), NEW n \in D, NEW c \in Colors
  PROVE  LET u == Painted(t, n, c)
         IN  /\ TreeOn(u, D) /\ u.root = t.root /\ u.size = t.size
             /\ SameParents(u, t, D) /\ SameValues(u, t, D) /\ SameKids(u, t, D)
             /\ \A m \in D : Color(u, m) = IF m = n THEN c ELSE Color(t, m)
<1> DEFINE u == Painted(t, n, c)
<1>1. PICK v, c0, p, l, r : t.node[n] = Fields(v, c0, p, l, r) /\ c0 \in Colors
  BY DEF TreeOn
<1>2. u = WithNode(t, n, Fields(v, c, p, l, r))
  <2>1. u = WithNode(t, n, Colored(t.node[n], c))
    BY NodeChanges
  <2>2. Colored(t.node[n], c) = Fields(v, c, p, l, r)
    <3>1. Colored(Fields(v, c0, p, l, r), c) = Fields(v, c, p, l, r)
      BY FieldsWith
    <3> QED
      BY <1>1, <3>1
  <2> QED
    BY <2>1, <2>2
<1>3. /\ TreeOn(u, D) /\ u.root = t.root /\ u.size = t.size
      /\ u.node[n] = Fields(v, c, p, l, r)
      /\ \A m \in D \ {n} : u.node[m] = t.node[m]
  BY <1>2, OtherNode
<1> HIDE DEF u
<1>4. /\ Parent(u, n) = Parent(t, n) /\ Value(u, n) = Value(t, n) /\ Color(u, n) = c
      /\ \A s \in Sides : Kid(u, n, s) = Kid(t, n, s)
  BY <1>1, <1>3, FieldsOf DEF Parent, Value, Color, Kid, Sides
<1>5. \A m \in D \ {n} :
        /\ Parent(u, m) = Parent(t, m) /\ Value(u, m) = Value(t, m)
        /\ Color(u, m) = Color(t, m) /\ \A s \in Sides : Kid(u, m, s) = Kid(t, m, s)
  BY <1>3 DEF Parent, Value, Color, Kid
<1> QED
  BY <1>3, <1>4, <1>5 DEF SameParents, SameValues, SameKids, u

LEMMA ParentSet ==
  ASSUME NEW t, NEW D, TreeOn(t, D), NEW n \in D, NEW x
  PROVE  LET u == WithParent(t, n, x)
         IN  /\ TreeOn(u, D) /\ u.root = t.root /\ u.size = t.size
             /\ SameColors(u, t, D) /\ SameValues(u, t, D) /\ SameKids(u, t, D)
             /\ \A m \in D : Parent(u, m) = IF m = n THEN x ELSE Parent(t, m)
<1> DEFINE u == WithParent(t, n, x)
<1>1. PICK v, c, p, l, r : t.node[n] = Fields(v, c, p, l, r) /\ c \in Colors
  BY DEF TreeOn
<1>2. u = WithNode(t, n, Fields(v, c, x, l, r))
  <2>1. u = WithNode(t, n, Adopted(t.node[n], x))
    BY NodeChanges
  <2>2. Adopted(t.node[n], x) = Fields(v, c, x, l, r)
    <3>1. Adopted(Fields(v, c, p, l, r), x) = Fields(v, c, x, l, r)
      BY FieldsWith
    <3> QED
      BY <1>1, <3>1
  <2> QED
    BY <2>1, <2>2
<1>3. /\ TreeOn(u, D) /\ u.root = t.root /\ u.size = t.size
      /\ u.node[n] = Fields(v, c, x, l, r)
      /\ \A m \in D \ {n} : u.node[m] = t.node[m]
  BY <1>1, <1>2, OtherNode
<1> HIDE DEF u
<1>4. /\ Parent(u, n) = x /\ Value(u, n) = Value(t, n) /\ Color(u, n) = Color(t, n)
      /\ \A s \in Sides : Kid(u, n, s) = Kid(t, n, s)
  BY <1>1, <1>3, FieldsOf DEF Parent, Value, Color, Kid, Sides
<1>5. \A m \in D \ {n} :
        /\ Parent(u, m) = Parent(t, m) /\ Value(u, m) = Value(t, m)
        /\ Color(u, m) = Color(t, m) /\ \A s \in Sides : Kid(u, m, s) = Kid(t, m, s)
  BY <1>3 DEF Parent, Value, Color, Kid
<1> QED
  BY <1>3, <1>4, <1>5 DEF SameColors, SameValues, SameKids, u

LEMMA ChildSet ==
  ASSUME NEW t, NEW D, TreeOn(t, D), NEW n \in D, NEW side \in Sides, NEW x
  PROVE  LET u == WithChild(t, n, side, x)
         IN  /\ TreeOn(u, D) /\ u.root = t.root /\ u.size = t.size
             /\ SameColors(u, t, D) /\ SameValues(u, t, D) /\ SameParents(u, t, D)
             /\ \A m \in D : \A s \in Sides :
                  Kid(u, m, s) = IF m = n /\ s = side THEN x ELSE Kid(t, m, s)
<1> DEFINE u == WithChild(t, n, side, x)
<1>1. PICK v, c, p, l, r : t.node[n] = Fields(v, c, p, l, r) /\ c \in Colors
  BY DEF TreeOn
<1> DEFINE l1 == IF side = "left" THEN x ELSE l
           r1 == IF side = "right" THEN x ELSE r
<1>2. u = WithNode(t, n, Fields(v, c, p, l1, r1))
  <2>1. u = WithNode(t, n, Linked(t.node[n], side, x))
    BY NodeChanges
  <2>2. Linked(t.node[n], side, x) = Fields(v, c, p, l1, r1)
    <3>1. /\ Linked(Fields(v, c, p, l, r), "left", x) = Fields(v, c, p, x, r)
          /\ Linked(Fields(v, c, p, l, r), "right", x) = Fields(v, c, p, l, x)
      BY FieldsWith
    <3>2. CASE side = "left"
      <4>1. l1 = x /\ r1 = r
        BY <3>2
      <4> QED
        BY <1>1, <3>1, <3>2, <4>1
    <3>3. CASE side = "right"
      <4>1. l1 = l /\ r1 = x
        BY <3>3
      <4> QED
        BY <1>1, <3>1, <3>3, <4>1
    <3> QED
      BY <3>2, <3>3 DEF Sides
  <2> QED
    BY <2>1, <2>2
<1>3. /\ TreeOn(u, D) /\ u.root = t.root /\ u.size = t.size
      /\ u.node[n] = Fields(v, c, p, l1, r1)
      /\ \A m \in D \ {n} : u.node[m] = t.node[m]
  <2> HIDE DEF l1, r1, u
  <2> QED
    BY <1>1, <1>2, OtherNode
<1> HIDE DEF u
<1>4. /\ Parent(u, n) = Parent(t, n) /\ Value(u, n) = Value(t, n)
      /\ Color(u, n) = Color(t, n)
      /\ \A s \in Sides : Kid(u, n, s) = IF s = side THEN x ELSE Kid(t, n, s)
  <2>1. Kid(u, n, "left") = l1 /\ Kid(u, n, "right") = r1
    BY <1>3, FieldsOf DEF Kid
  <2>2. Kid(t, n, "left") = l /\ Kid(t, n, "right") = r
    BY <1>1, FieldsOf DEF Kid
  <2>3. Parent(u, n) = Parent(t, n) /\ Value(u, n) = Value(t, n)
        /\ Color(u, n) = Color(t, n)
    <3> HIDE DEF l1, r1
    <3> QED
      BY <1>1, <1>3, FieldsOf DEF Parent, Value, Color
  <2> QED
    BY <2>1, <2>2, <2>3 DEF Sides
<1>5. \A m \in D \ {n} :
        /\ Parent(u, m) = Parent(t, m) /\ Value(u, m) = Value(t, m)
        /\ Color(u, m) = Color(t, m) /\ \A s \in Sides : Kid(u, m, s) = Kid(t, m, s)
  BY <1>3 DEF Parent, Value, Color, Kid
<1> QED
  BY <1>3, <1>4, <1>5 DEF SameColors, SameValues, SameParents, u

LEMMA RootSet ==
  ASSUME NEW t, NEW D, TreeOn(t, D), NEW x
  PROVE  LET u == [t EXCEPT !.root = x]
         IN  /\ TreeOn(u, D) /\ u.root = x /\ u.size = t.size
             /\ SameColors(u, t, D) /\ SameValues(u, t, D) /\ SameParents(u, t, D)
             /\ SameKids(u, t, D)
<1> DEFINE u == [t EXCEPT !.root = x]
<1>1. u = [root |-> x, size |-> t.size, node |-> t.node]
  <2> DEFINE a == t.root
             b == t.size
             c == t.node
  <2>1. t = [root |-> a, size |-> b, node |-> c]
    BY DEF TreeOn
  <2> HIDE DEF a, b, c
  <2>2. t.root = a /\ t.size = b /\ t.node = c
    BY <2>1
  <2> QED
    BY <2>1, <2>2
<1>2. u.root = x /\ u.size = t.size /\ u.node = t.node
      /\ u = [root |-> u.root, size |-> u.size, node |-> u.node]
  BY <1>1
<1> HIDE DEF u
<1>3. TreeOn(u, D)
  BY <1>2 DEF TreeOn
<1>4. /\ SameColors(u, t, D) /\ SameValues(u, t, D) /\ SameParents(u, t, D)
      /\ SameKids(u, t, D)
  BY <1>2 DEF SameColors, SameValues, SameParents, SameKids, Color, Value, Parent, Kid
<1> QED
  BY <1>2, <1>3, <1>4 DEF u

-----------------------------------------------------------------------------
\* The shape of a tree.  sub says which nodes each node has below it, itself
\* included, and N are those that the root has: that is the one fact from which
\* order, reachability and the end of every walk follow, and it changes only at
\* the nodes that a rotation or a removal is about.

On(side, m, n) == IF side = "left" THEN m < n ELSE n < m

Below(t, N, sub, n) ==
  /\ \A s \in Sides :
       /\ Kid(t, n, s) \in N \cup {Sentinel}
       /\ Kid(t, n, s) # Sentinel => Parent(t, Kid(t, n, s)) = n
       /\ \A m \in sub[Kid(t, n, s)] : On(s, m, n)
  /\ sub[n] = sub[Kid(t, n, "left")] \cup {n} \cup sub[Kid(t, n, "right")]

Shape(t, D, N, sub) ==
  /\ TreeOn(t, D) /\ N \subseteq D /\ N \subseteq Keys
  /\ sub \in [N \cup {Sentinel} -> SUBSET N] /\ sub[Sentinel] = {}
  /\ t.root \in N \cup {Sentinel} /\ sub[t.root] = N
  /\ t.root # Sentinel => Parent(t, t.root) = Sentinel
  /\ \A n \in N : Below(t, N, sub, n)

LEMMA SideFacts ==
  /\ \A s \in Sides : /\ Other(s) \in Sides /\ Other(s) # s /\ Other(Other(s)) = s
                      /\ \A r \in Sides : r = s \/ r = Other(s)
  /\ "left" \in Sides /\ "right" \in Sides /\ Other("left") = "right"
BY DEF Sides, Other

LEMMA OnFacts ==
  ASSUME NEW s \in Sides, NEW m \in Int, NEW n \in Int
  PROVE  /\ On(s, m, n) <=> On(Other(s), n, m)
         /\ On(s, m, n) => m # n /\ ~On(Other(s), m, n)
         /\ m # n => On(s, m, n) \/ On(Other(s), m, n)
         /\ \A l \in Int : On(s, l, m) /\ On(s, m, n) => On(s, l, n)
BY DEF Sides, Other, On

LEMMA NodesAreInts ==
  ASSUME NEW t, NEW D, NEW N, NEW sub, Shape(t, D, N, sub)
  PROVE  N \subseteq Int /\ IsFiniteSet(N) /\ Sentinel \notin N
<1>1. IsFiniteSet(Keys) /\ Keys \subseteq Int /\ Sentinel \notin Keys
  BY TreeTableConstants
<1>2. N \subseteq Keys
  BY DEF Shape
<1> QED
  BY <1>1, <1>2, FS_Subset

\* What the shape says of one node, for either side first.
LEMMA AtNode ==
  ASSUME NEW t, NEW D, NEW N, NEW sub, Shape(t, D, N, sub),
         NEW n \in N, NEW s \in Sides
  PROVE  LET c == Kid(t, n, s)
         IN  /\ n \in Int /\ n \in sub[n] /\ sub[n] \subseteq N /\ n # Sentinel /\ n \in D
             /\ c \in N \cup {Sentinel} /\ sub[c] \subseteq sub[n] /\ n \notin sub[c]
             /\ c # Sentinel => c \in N /\ Parent(t, c) = n /\ c \in sub[c] /\ c # n /\ On(s, c, n)
             /\ \A m \in sub[c] : On(s, m, n)
             /\ sub[n] = {n} \cup sub[c] \cup sub[Kid(t, n, Other(s))]
<1> DEFINE c == Kid(t, n, s)
           d == Kid(t, n, Other(s))
<1>1. Below(t, N, sub, n) /\ sub \in [N \cup {Sentinel} -> SUBSET N] /\ N \subseteq D
  BY DEF Shape
<1>2. n \in Int /\ N \subseteq Int /\ n # Sentinel
  BY NodesAreInts
<1>3. sub[n] = {n} \cup sub[c] \cup sub[d]
  BY <1>1, SideFacts DEF Below, Sides, Other
<1>4. /\ c \in N \cup {Sentinel} /\ (c # Sentinel => Parent(t, c) = n)
      /\ \A m \in sub[c] : On(s, m, n)
  BY <1>1 DEF Below
<1>5. ASSUME c # Sentinel PROVE c \in N /\ c \in sub[c]
  <2>1. c \in N
    BY <1>4, <1>5
  <2>2. Below(t, N, sub, c)
    BY <2>1 DEF Shape
  <2> QED
    BY <2>1, <2>2 DEF Below
<1> HIDE DEF c, d
<1>6. n \notin sub[c]
  BY <1>2, <1>4, OnFacts
<1>7. c # Sentinel => c # n /\ On(s, c, n)
  BY <1>4, <1>5, <1>6
<1> QED
  BY <1>1, <1>2, <1>3, <1>4, <1>5, <1>6, <1>7 DEF c, d

\* Of any nodes, one has none of the others below it.
LEMMA Lowest ==
  ASSUME NEW t, NEW D, NEW N, NEW sub, Shape(t, D, N, sub),
         NEW A, A \subseteq N, A # {}
  PROVE  \E n \in A : \A s \in Sides : Kid(t, n, s) \notin A
<1> DEFINE T == {Cardinality(sub[n]) : n \in A}
<1>1. \A n \in N : IsFiniteSet(sub[n]) /\ Cardinality(sub[n]) \in Nat
  <2> SUFFICES ASSUME NEW n \in N PROVE IsFiniteSet(sub[n]) /\ Cardinality(sub[n]) \in Nat
    OBVIOUS
  <2>1. sub[n] \subseteq N
    BY DEF Shape
  <2> QED
    BY <2>1, NodesAreInts, FS_Subset, FS_CardinalityType
<1>2. T \subseteq Nat /\ T # {}
  BY <1>1
<1>3. PICK k \in T : \A j \in T : k <= j
  BY <1>2, Least
<1>4. PICK n \in A : k = Cardinality(sub[n])
  OBVIOUS
<1>5. ASSUME NEW s \in Sides, Kid(t, n, s) \in A PROVE FALSE
  <2> DEFINE c == Kid(t, n, s)
  <2>1. /\ sub[c] \subseteq sub[n] /\ n \notin sub[c] /\ n \in sub[n] /\ n \in N /\ c \in N
    BY <1>5, AtNode
  <2>2. sub[c] # sub[n]
    BY <2>1
  <2>3. Cardinality(sub[c]) < Cardinality(sub[n])
    BY <1>1, <2>1, <2>2, FS_Subset
  <2>4. k <= Cardinality(sub[c])
    BY <1>3, <1>5
  <2> QED
    BY <1>1, <1>4, <2>1, <2>3, <2>4
<1> QED
  BY <1>5

LEMMA Nested ==
  ASSUME NEW t, NEW D, NEW N, NEW sub, Shape(t, D, N, sub),
         NEW n \in N, NEW m \in sub[n]
  PROVE  m \in N /\ sub[m] \subseteq sub[n]
<1> DEFINE A == {x \in N : \E y \in sub[x] : ~(sub[y] \subseteq sub[x])}
<1>1. A = {}
  <2> SUFFICES ASSUME A # {} PROVE FALSE
    OBVIOUS
  <2>1. PICK x \in A : \A s \in Sides : Kid(t, x, s) \notin A
    <3> HIDE DEF A
    <3>1. A \subseteq N
      BY DEF A
    <3> QED
      BY <3>1, Lowest
  <2>2. PICK y \in sub[x] : ~(sub[y] \subseteq sub[x])
    OBVIOUS
  <2>3. PICK s \in Sides : y \in sub[Kid(t, x, s)]
    BY <2>2, AtNode, SideFacts
  <2>4. sub[Kid(t, x, s)] \subseteq sub[x] /\ Kid(t, x, s) \in N \cup {Sentinel}
    BY AtNode
  <2>5. sub[Sentinel] = {}
    BY DEF Shape
  <2>6. Kid(t, x, s) \in N
    BY <2>3, <2>4, <2>5
  <2> QED
    BY <2>1, <2>2, <2>3, <2>4, <2>6
<1>2. sub[n] \subseteq N
  BY AtNode, SideFacts
<1> QED
  BY <1>1, <1>2

\* Every node but the root is a child of its parent, on one side only.
LEMMA HasParent ==
  ASSUME NEW t, NEW D, NEW N, NEW sub, Shape(t, D, N, sub),
         NEW n \in N, n # t.root
  PROVE  /\ Parent(t, n) \in N
         /\ \E s \in Sides : Kid(t, Parent(t, n), s) = n
<1> DEFINE A == {x \in N : n \in sub[x] /\ x # n}
<1>1. t.root \in A
  BY NodesAreInts DEF Shape
<1>2. PICK x \in A : \A s \in Sides : Kid(t, x, s) \notin A
  <2> HIDE DEF A
  <2>1. A \subseteq N
    BY DEF A
  <2> QED
    BY <1>1, <2>1, Lowest
<1>3. PICK s \in Sides : n \in sub[Kid(t, x, s)]
  BY AtNode, SideFacts
<1>4. sub[Sentinel] = {}
  BY DEF Shape
<1>5. Kid(t, x, s) \in N
  BY <1>3, <1>4, AtNode
<1>6. Kid(t, x, s) = n
  BY <1>2, <1>3, <1>5
<1>7. Parent(t, n) = x
  BY <1>6, AtNode, NodesAreInts
<1> QED
  BY <1>6, <1>7

LEMMA OneSide ==
  ASSUME NEW t, NEW D, NEW N, NEW sub, Shape(t, D, N, sub),
         NEW n \in N, NEW s \in Sides, Kid(t, n, s) # Sentinel
  PROVE  /\ SideOf(t, Kid(t, n, s)) = s /\ Kid(t, n, Other(s)) # Kid(t, n, s)
         /\ Kid(t, n, s) # t.root
<1> DEFINE c == Kid(t, n, s)
<1>1. c \in N /\ Parent(t, c) = n /\ c \in sub[c] /\ On(s, c, n) /\ n \in Int /\ n # Sentinel
  BY AtNode
<1>2. Other(s) \in Sides
  BY SideFacts
<1>3. c \in Int
  BY <1>1, NodesAreInts
<1>4. Kid(t, n, Other(s)) # c
  <2> SUFFICES ASSUME Kid(t, n, Other(s)) = c PROVE FALSE
    OBVIOUS
  <2>1. On(Other(s), c, n)
    BY <1>2, AtNode
  <2> QED
    BY <1>1, <1>3, <2>1, OnFacts
<1>5. SideOf(t, c) = s
  BY <1>1, <1>4 DEF SideOf, Kid, Sides, Other
<1>6. c # t.root
  BY <1>1 DEF Shape
<1> QED
  BY <1>4, <1>5, <1>6

\* A child of one node on one side is no other node's and on no other side.
LEMMA OneParent ==
  ASSUME NEW t, NEW D, NEW N, NEW sub, Shape(t, D, N, sub),
         NEW n \in N, NEW s \in Sides, Kid(t, n, s) # Sentinel,
         NEW m \in N, NEW r \in Sides, Kid(t, m, r) = Kid(t, n, s)
  PROVE  m = n /\ r = s
<1>1. Parent(t, Kid(t, n, s)) = n /\ Parent(t, Kid(t, m, r)) = m
  BY AtNode
<1>2. r = s \/ r = Other(s)
  BY SideFacts
<1> QED
  BY <1>1, <1>2, OneSide

LEMMA AboveToo ==
  ASSUME NEW t, NEW D, NEW N, NEW sub, Shape(t, D, N, sub),
         NEW n \in N, NEW m \in sub[n], m # n
  PROVE  Parent(t, m) \in sub[n]
<1> DEFINE A == {x \in N : m \in sub[x] /\ m # x /\ Parent(t, m) \notin sub[x]}
<1>1. SUFFICES ASSUME A # {} PROVE FALSE
  OBVIOUS
<1>2. PICK x \in A : \A s \in Sides : Kid(t, x, s) \notin A
  <2> HIDE DEF A
  <2>1. A \subseteq N
    BY DEF A
  <2> QED
    BY <1>1, <2>1, Lowest
<1>3. PICK s \in Sides : m \in sub[Kid(t, x, s)]
  BY AtNode, SideFacts
<1>4. sub[Sentinel] = {}
  BY DEF Shape
<1>5. Kid(t, x, s) \in N /\ sub[Kid(t, x, s)] \subseteq sub[x]
  BY <1>3, <1>4, AtNode
<1>6. CASE Kid(t, x, s) = m
  <2>1. Parent(t, m) = x /\ x \in sub[x]
    BY <1>5, <1>6, AtNode, NodesAreInts
  <2> QED
    BY <2>1
<1>7. CASE Kid(t, x, s) # m
  BY <1>2, <1>3, <1>5, <1>7
<1> QED
  BY <1>6, <1>7

LEMMA NoCycle ==
  ASSUME NEW t, NEW D, NEW N, NEW sub, Shape(t, D, N, sub),
         NEW n \in N, NEW m \in sub[n], n \in sub[m]
  PROVE  m = n
<1> SUFFICES ASSUME m # n PROVE FALSE
  OBVIOUS
<1>1. PICK s \in Sides : m \in sub[Kid(t, n, s)]
  BY AtNode, SideFacts
<1>2. sub[Sentinel] = {}
  BY DEF Shape
<1>3. Kid(t, n, s) \in N /\ n \notin sub[Kid(t, n, s)]
  BY <1>1, <1>2, AtNode
<1>4. sub[m] \subseteq sub[Kid(t, n, s)]
  BY <1>1, <1>3, Nested
<1> QED
  BY <1>3, <1>4

-----------------------------------------------------------------------------
\* Relinking

LEMMA TransplantTree ==
  ASSUME NEW t, NEW D, TreeOn(t, D), NEW u \in D, NEW v \in D, Parent(t, u) \in D
  PROVE  LET r == Transplant(t, u, v)
             p == Parent(t, u)
         IN  /\ TreeOn(r, D) /\ r.root = (IF p = Sentinel THEN v ELSE t.root)
             /\ r.size = t.size /\ SameColors(r, t, D) /\ SameValues(r, t, D)
             /\ \A m \in D : Parent(r, m) = IF m = v THEN p ELSE Parent(t, m)
             /\ \A m \in D : \A s \in Sides :
                  Kid(r, m, s) = IF m = p /\ p # Sentinel /\ s = SideOf(t, u) THEN v
                                 ELSE Kid(t, m, s)
<1> DEFINE p == Parent(t, u)
           side == SideOf(t, u)
           a == IF p = Sentinel THEN [t EXCEPT !.root = v] ELSE WithChild(t, p, side, v)
<1>1. side \in Sides
  BY DEF SideOf, Sides
<1> HIDE DEF side, p
<1>2. /\ TreeOn(a, D) /\ a.root = (IF p = Sentinel THEN v ELSE t.root)
      /\ a.size = t.size /\ SameColors(a, t, D) /\ SameValues(a, t, D)
      /\ SameParents(a, t, D)
      /\ \A m \in D : \A s \in Sides :
           Kid(a, m, s) = IF m = p /\ p # Sentinel /\ s = side THEN v ELSE Kid(t, m, s)
  <2>1. CASE p = Sentinel
    <3>1. a = [t EXCEPT !.root = v]
      BY <2>1
    <3> HIDE DEF a
    <3> QED
      BY <2>1, <3>1, RootSet DEF SameKids
  <2>2. CASE p # Sentinel
    <3>1. a = WithChild(t, p, side, v)
      BY <2>2
    <3>2. p \in D
      BY DEF p
    <3> HIDE DEF a
    <3> QED
      BY <2>2, <3>1, <3>2, <1>1, ChildSet
  <2> QED
    BY <2>1, <2>2
<1>3. Transplant(t, u, v) = WithParent(a, v, p)
  BY DEF Transplant, p, side
<1> HIDE DEF a
<1> DEFINE r == WithParent(a, v, p)
<1>4. /\ TreeOn(r, D) /\ r.root = a.root /\ r.size = a.size
      /\ SameColors(r, a, D) /\ SameValues(r, a, D) /\ SameKids(r, a, D)
      /\ \A m \in D : Parent(r, m) = IF m = v THEN p ELSE Parent(a, m)
  BY <1>2, ParentSet
<1> HIDE DEF r
<1>5. SameColors(r, t, D) /\ SameValues(r, t, D)
  BY <1>2, <1>4 DEF SameColors, SameValues
<1>6. \A m \in D : Parent(r, m) = IF m = v THEN p ELSE Parent(t, m)
  BY <1>2, <1>4 DEF SameParents
<1>7. \A m \in D : \A s \in Sides :
        Kid(r, m, s) = IF m = p /\ p # Sentinel /\ s = side THEN v ELSE Kid(t, m, s)
  BY <1>2, <1>4 DEF SameKids
<1>8. /\ TreeOn(r, D) /\ r.root = (IF p = Sentinel THEN v ELSE t.root) /\ r.size = t.size
  BY <1>2, <1>4
<1>9. Transplant(t, u, v) = r
  BY <1>3 DEF r
<1> QED
  BY <1>5, <1>6, <1>7, <1>8, <1>9 DEF p, side

LEMMA InTheTree ==
  ASSUME NEW t, NEW D, NEW N, NEW sub, Shape(t, D, N, sub)
  PROVE  /\ TreeOn(t, D) /\ N \subseteq D /\ Sentinel \in D /\ Sentinel \notin N
         /\ N \subseteq Keys /\ N \subseteq Int /\ IsFiniteSet(N) /\ sub[Sentinel] = {}
         /\ sub \in [N \cup {Sentinel} -> SUBSET N]
         /\ t.root \in N \cup {Sentinel} /\ sub[t.root] = N
<1>1. Sentinel \notin N /\ N \subseteq Int /\ IsFiniteSet(N)
  BY NodesAreInts
<1>2. TreeOn(t, D) /\ N \subseteq D /\ Sentinel \in D /\ N \subseteq Keys /\ sub[Sentinel] = {}
  BY DEF Shape, TreeOn
<1> QED
  BY <1>1, <1>2 DEF Shape

\* The place of a node: the link of its parent, or the root.
LEMMA PlaceOf ==
  ASSUME NEW t, NEW D, NEW N, NEW sub, Shape(t, D, N, sub), NEW u \in N
  PROVE  /\ Parent(t, u) \in N \cup {Sentinel} /\ Parent(t, u) \in D
         /\ Parent(t, u) = Sentinel <=> u = t.root
         /\ \A m \in N : \A s \in Sides :
              Kid(t, m, s) = u <=> m = Parent(t, u) /\ s = SideOf(t, u)
<1>1. N \subseteq D /\ Sentinel \in D /\ Sentinel \notin N
  BY NodesAreInts DEF Shape, TreeOn
<1>2. CASE u = t.root
  <2>1. Parent(t, u) = Sentinel
    BY <1>1, <1>2 DEF Shape
  <2>2. \A m \in N : \A s \in Sides : Kid(t, m, s) # u
    BY <1>1, <1>2, OneSide
  <2> QED
    BY <1>1, <1>2, <2>1, <2>2
<1>3. CASE u # t.root
  <2>1. PICK r \in Sides : Kid(t, Parent(t, u), r) = u
    BY <1>3, HasParent
  <2>2. Parent(t, u) \in N
    BY <1>3, HasParent
  <2>3. SideOf(t, u) = r
    BY <1>1, <2>1, <2>2, OneSide
  <2>4. \A m \in N : \A s \in Sides : Kid(t, m, s) = u => m = Parent(t, u) /\ s = r
    BY <1>1, <2>1, <2>2, OneParent
  <2> QED
    BY <1>1, <1>3, <2>1, <2>2, <2>3, <2>4
<1> QED
  BY <1>2, <1>3

LEMMA Replaced ==
  ASSUME NEW t, NEW D, NEW N, NEW sub, Shape(t, D, N, sub), NEW u \in N, NEW v \in D
  PROVE  LET r == Transplant(t, u, v)
         IN  /\ TreeOn(r, D) /\ r.root = (IF u = t.root THEN v ELSE t.root)
             /\ r.size = t.size /\ SameColors(r, t, D) /\ SameValues(r, t, D)
             /\ \A m \in D : Parent(r, m) = IF m = v THEN Parent(t, u) ELSE Parent(t, m)
             /\ \A m \in N : \A s \in Sides :
                  Kid(r, m, s) = IF Kid(t, m, s) = u THEN v ELSE Kid(t, m, s)
<1>1. TreeOn(t, D) /\ u \in D /\ N \subseteq D /\ Sentinel \notin N
  BY NodesAreInts DEF Shape
<1> DEFINE r == Transplant(t, u, v)
           p == Parent(t, u)
<1>2. /\ TreeOn(r, D) /\ r.root = (IF p = Sentinel THEN v ELSE t.root)
      /\ r.size = t.size /\ SameColors(r, t, D) /\ SameValues(r, t, D)
      /\ \A m \in D : Parent(r, m) = IF m = v THEN p ELSE Parent(t, m)
      /\ \A m \in D : \A s \in Sides :
           Kid(r, m, s) = IF m = p /\ p # Sentinel /\ s = SideOf(t, u) THEN v
                          ELSE Kid(t, m, s)
  BY <1>1, PlaceOf, TransplantTree
<1>3. /\ p = Sentinel <=> u = t.root
      /\ \A m \in N : \A s \in Sides : Kid(t, m, s) = u <=> m = p /\ s = SideOf(t, u)
  BY PlaceOf
<1> HIDE DEF r, p
<1>4. r.root = (IF u = t.root THEN v ELSE t.root)
  BY <1>2, <1>3
<1>5. \A m \in N : \A s \in Sides :
        Kid(r, m, s) = IF Kid(t, m, s) = u THEN v ELSE Kid(t, m, s)
  BY <1>1, <1>2, <1>3
<1>6. \A m \in D : Parent(r, m) = IF m = v THEN p ELSE Parent(t, m)
  BY <1>2
<1> QED
  BY <1>2, <1>4, <1>5, <1>6 DEF r, p

\* What a rotation at x towards a side changes.
Turned(r, t, D, N, x, side) ==
  LET y == Kid(t, x, Other(side))
      inner == Kid(t, y, side)
  IN  /\ TreeOn(r, D) /\ r.root = (IF x = t.root THEN y ELSE t.root)
      /\ r.size = t.size /\ SameColors(r, t, D) /\ SameValues(r, t, D)
      /\ \A m \in D : Parent(r, m) = IF m = inner /\ inner # Sentinel THEN x
                                     ELSE IF m = x THEN y
                                     ELSE IF m = y THEN Parent(t, x) ELSE Parent(t, m)
      /\ \A m \in N : \A s \in Sides :
           Kid(r, m, s) = IF m = x /\ s = Other(side) THEN inner
                          ELSE IF m = y /\ s = side THEN x
                          ELSE IF Kid(t, m, s) = x THEN y ELSE Kid(t, m, s)

LEMMA RotateTurns ==
  ASSUME NEW t, NEW D, NEW N, NEW sub, Shape(t, D, N, sub),
         NEW x \in N, NEW side \in Sides, Kid(t, x, Other(side)) # Sentinel
  PROVE  Turned(Rotate(t, x, side), t, D, N, x, side)
<1> DEFINE far == Other(side)
           y == Kid(t, x, far)
           inner == Kid(t, y, side)
           a == Transplant(t, x, y)
           b == WithChild(a, x, far, inner)
           c == WithChild(b, y, side, x)
           d == WithParent(c, x, y)
           r == IF inner = Sentinel THEN d ELSE WithParent(d, inner, x)
<1>1. Rotate(t, x, side) = r
  <2>1. y = t.node[x][Other(side)] /\ inner = t.node[y][side] /\ far = Other(side)
    BY DEF Kid
  <2> HIDE DEF y, inner, far
  <2> QED
    BY <2>1 DEF Rotate, Swung
<1>2. far \in Sides /\ far # side /\ Other(far) = side
  BY SideFacts
<1>3. /\ N \subseteq D /\ Sentinel \in D /\ Sentinel \notin N /\ y \in N /\ x \in D /\ y \in D
      /\ inner \in N \cup {Sentinel} /\ inner \in D /\ y # x
      /\ inner # x /\ inner # y
  <2>1. N \subseteq D /\ Sentinel \in D /\ Sentinel \notin N
    BY InTheTree
  <2>2. y \in N /\ y # x /\ Parent(t, y) = x /\ x \notin sub[y]
    BY <1>2, AtNode
  <2>3. inner \in N \cup {Sentinel} /\ sub[inner] \subseteq sub[y]
        /\ (inner # Sentinel => inner # y /\ inner \in sub[inner])
    BY <2>2, AtNode
  <2> QED
    BY <2>1, <2>2, <2>3
<1>4. /\ TreeOn(a, D) /\ a.root = (IF x = t.root THEN y ELSE t.root)
      /\ a.size = t.size /\ SameColors(a, t, D) /\ SameValues(a, t, D)
      /\ \A m \in D : Parent(a, m) = IF m = y THEN Parent(t, x) ELSE Parent(t, m)
      /\ \A m \in N : \A s \in Sides :
           Kid(a, m, s) = IF Kid(t, m, s) = x THEN y ELSE Kid(t, m, s)
  <2> HIDE DEF y
  <2> QED
    BY <1>3, Replaced
<1> HIDE DEF a, far, inner
<1>5. /\ TreeOn(b, D) /\ b.root = a.root /\ b.size = a.size
      /\ SameColors(b, a, D) /\ SameValues(b, a, D) /\ SameParents(b, a, D)
      /\ \A m \in D : \A s \in Sides :
           Kid(b, m, s) = IF m = x /\ s = far THEN inner ELSE Kid(a, m, s)
  BY <1>2, <1>3, <1>4, ChildSet
<1> HIDE DEF b, y
<1>6. /\ TreeOn(c, D) /\ c.root = b.root /\ c.size = b.size
      /\ SameColors(c, b, D) /\ SameValues(c, b, D) /\ SameParents(c, b, D)
      /\ \A m \in D : \A s \in Sides :
           Kid(c, m, s) = IF m = y /\ s = side THEN x ELSE Kid(b, m, s)
  BY <1>2, <1>3, <1>5, ChildSet
<1> HIDE DEF c
<1>7. /\ TreeOn(d, D) /\ d.root = c.root /\ d.size = c.size
      /\ SameColors(d, c, D) /\ SameValues(d, c, D) /\ SameKids(d, c, D)
      /\ \A m \in D : Parent(d, m) = IF m = x THEN y ELSE Parent(c, m)
  BY <1>3, <1>6, ParentSet
<1> HIDE DEF d
<1>8. /\ TreeOn(r, D) /\ r.root = d.root /\ r.size = d.size
      /\ SameColors(r, d, D) /\ SameValues(r, d, D) /\ SameKids(r, d, D)
      /\ \A m \in D : Parent(r, m) = IF m = inner /\ inner # Sentinel THEN x ELSE Parent(d, m)
  <2>1. CASE inner = Sentinel
    <3>1. r = d
      BY <2>1
    <3> HIDE DEF r
    <3> QED
      BY <1>7, <2>1, <3>1 DEF SameColors, SameValues, SameKids
  <2>2. CASE inner # Sentinel
    <3>1. r = WithParent(d, inner, x)
      BY <2>2
    <3> HIDE DEF r
    <3> QED
      BY <1>3, <1>7, <2>2, <3>1, ParentSet
  <2> QED
    BY <2>1, <2>2
<1> HIDE DEF r
<1>9. SameColors(r, t, D) /\ SameValues(r, t, D)
  BY <1>4, <1>5, <1>6, <1>7, <1>8 DEF SameColors, SameValues
<1>10. \A m \in D : Parent(r, m) = IF m = inner /\ inner # Sentinel THEN x
                                     ELSE IF m = x THEN y
                                     ELSE IF m = y THEN Parent(t, x) ELSE Parent(t, m)
  BY <1>3, <1>4, <1>5, <1>6, <1>7, <1>8 DEF SameParents
<1>11. \A m \in N : \A s \in Sides :
           Kid(r, m, s) = IF m = x /\ s = far THEN inner
                          ELSE IF m = y /\ s = side THEN x
                          ELSE IF Kid(t, m, s) = x THEN y ELSE Kid(t, m, s)
  <2> SUFFICES ASSUME NEW m \in N, NEW s \in Sides
               PROVE Kid(r, m, s) = IF m = x /\ s = far THEN inner
                          ELSE IF m = y /\ s = side THEN x
                          ELSE IF Kid(t, m, s) = x THEN y ELSE Kid(t, m, s)
    OBVIOUS
  <2>1. m \in D
    BY <1>3
  <2>2. Kid(r, m, s) = Kid(c, m, s)
    BY <1>7, <1>8, <2>1 DEF SameKids
  <2>3. Kid(c, m, s) = IF m = y /\ s = side THEN x ELSE Kid(b, m, s)
    BY <1>6, <2>1
  <2>4. Kid(b, m, s) = IF m = x /\ s = far THEN inner ELSE Kid(a, m, s)
    BY <1>5, <2>1
  <2>5. Kid(a, m, s) = IF Kid(t, m, s) = x THEN y ELSE Kid(t, m, s)
    BY <1>4
  <2> QED
    BY <1>3, <2>2, <2>3, <2>4, <2>5
<1>12. TreeOn(r, D) /\ r.root = (IF x = t.root THEN y ELSE t.root) /\ r.size = t.size
  BY <1>4, <1>5, <1>6, <1>7, <1>8
<1> QED
  BY <1>1, <1>9, <1>10, <1>11, <1>12 DEF Turned, far, y, inner

\* The nodes below each node after a rotation.
TurnedSub(sub, t, N, x, side) ==
  LET y == Kid(t, x, Other(side))
  IN  [n \in N \cup {Sentinel} |->
         IF n = y THEN sub[x]
         ELSE IF n = x THEN {x} \cup sub[Kid(t, x, side)] \cup sub[Kid(t, y, side)]
         ELSE sub[n]]

LEMMA ShapeTurned ==
  ASSUME NEW t, NEW D, NEW N, NEW sub, Shape(t, D, N, sub),
         NEW x \in N, NEW side \in Sides, Kid(t, x, Other(side)) # Sentinel,
         NEW r, Turned(r, t, D, N, x, side)
  PROVE  Shape(r, D, N, TurnedSub(sub, t, N, x, side))
<1>1. /\ TreeOn(t, D) /\ N \subseteq D /\ Sentinel \in D /\ Sentinel \notin N
      /\ N \subseteq Keys /\ N \subseteq Int /\ IsFiniteSet(N) /\ sub[Sentinel] = {}
      /\ sub \in [N \cup {Sentinel} -> SUBSET N]
      /\ t.root \in N \cup {Sentinel} /\ sub[t.root] = N
  <2>1. sub \in [N \cup {Sentinel} -> SUBSET N]
    BY DEF Shape
  <2> QED
    BY <2>1, InTheTree
<1> DEFINE far == Other(side)
           a == Kid(t, x, side)
           y == Kid(t, x, far)
           i == Kid(t, y, side)
           b == Kid(t, y, far)
           sub2 == TurnedSub(sub, t, N, x, side)
<1>2. /\ far \in Sides /\ far # side /\ Other(far) = side
      /\ \A s \in Sides : s = side \/ s = far
  BY SideFacts
<1>3. /\ y \in N /\ Parent(t, y) = x /\ y \in sub[y] /\ y # x /\ On(far, y, x)
      /\ x \notin sub[y] /\ \A m \in sub[y] : On(far, m, x)
  BY <1>2, AtNode
<1>4. /\ sub[x] = {x} \cup sub[y] \cup sub[a] /\ sub[x] \subseteq N
      /\ a \in N \cup {Sentinel} /\ (a # Sentinel => Parent(t, a) = x /\ a # x)
      /\ \A m \in sub[a] : On(side, m, x)
  <2>1. sub[x] = {x} \cup sub[y] \cup sub[Kid(t, x, Other(far))]
    BY <1>2, AtNode
  <2>2. /\ a \in N \cup {Sentinel} /\ (a # Sentinel => Parent(t, a) = x /\ a # x)
        /\ \A m \in sub[a] : On(side, m, x)
    BY AtNode
  <2>3. sub[x] \subseteq N
    BY <1>1
  <2> QED
    BY <1>2, <2>1, <2>2, <2>3
<1>5. /\ sub[y] = {y} \cup sub[i] \cup sub[b] /\ y \notin sub[i]
      /\ i \in N \cup {Sentinel} /\ (i # Sentinel => Parent(t, i) = y /\ i # y)
      /\ \A m \in sub[i] : On(side, m, y)
  <2> HIDE DEF y
  <2> QED
    BY <1>3, AtNode
<1>6. /\ b \in N \cup {Sentinel} /\ (b # Sentinel => Parent(t, b) = y /\ b # y)
      /\ \A m \in sub[b] : On(far, m, y)
  <2> HIDE DEF y, far
  <2> QED
    BY <1>2, <1>3, AtNode
<1>7. /\ a # x /\ a # y /\ i # x /\ i # y /\ b # x /\ b # y
      /\ (i # Sentinel => i # a /\ i # b)
  <2>1. a # y
    BY <1>1, <1>2, <1>3, OneSide
  <2>2. a # x /\ i # y /\ b # y
    BY <1>1, <1>3, <1>4, <1>5, <1>6
  <2>3. i # Sentinel => i \in sub[y]
    <3>1. i # Sentinel => i \in N
      BY <1>5
    <3>2. i # Sentinel => i \in sub[i]
      BY <3>1, AtNode, SideFacts
    <3> QED
      BY <1>5, <3>2
  <2>4. b # Sentinel => b \in sub[y]
    <3>1. b # Sentinel => b \in N
      BY <1>6
    <3>2. b # Sentinel => b \in sub[b]
      BY <3>1, AtNode, SideFacts
    <3> QED
      BY <1>5, <3>2
  <2>5. i # x /\ b # x
    BY <1>1, <1>3, <2>3, <2>4
  <2>6. i # Sentinel => i # b
    <3> HIDE DEF y
    <3> QED
      BY <1>2, <1>3, OneSide DEF i, b
  <2>7. i # Sentinel => i # a
    BY <1>3, <1>4, <1>5
  <2> QED
    BY <2>1, <2>2, <2>5, <2>6, <2>7
<1>8. /\ sub2 \in [N \cup {Sentinel} -> SUBSET N]
      /\ sub2[y] = sub[x] /\ sub2[x] = {x} \cup sub[a] \cup sub[i]
      /\ \A n \in N \cup {Sentinel} : n # x /\ n # y => sub2[n] = sub[n]
  <2>1. sub2 = [n \in N \cup {Sentinel} |->
                 IF n = y THEN sub[x] ELSE IF n = x THEN {x} \cup sub[a] \cup sub[i]
                 ELSE sub[n]]
    BY DEF TurnedSub
  <2>2. sub[a] \subseteq N /\ sub[i] \subseteq N /\ sub[x] \subseteq N
    BY <1>1, <1>4, <1>5
  <2> HIDE DEF sub2, y, i, a
  <2> QED
    BY <1>1, <1>3, <2>1, <2>2
<1>9. /\ TreeOn(r, D) /\ r.root = (IF x = t.root THEN y ELSE t.root)
      /\ \A m \in D : Parent(r, m) = IF m = i /\ i # Sentinel THEN x
                                     ELSE IF m = x THEN y
                                     ELSE IF m = y THEN Parent(t, x) ELSE Parent(t, m)
      /\ \A m \in N : \A s \in Sides :
           Kid(r, m, s) = IF m = x /\ s = far THEN i
                          ELSE IF m = y /\ s = side THEN x
                          ELSE IF Kid(t, m, s) = x THEN y ELSE Kid(t, m, s)
  BY DEF Turned
<1>a. \A m \in N : \A s \in Sides : Kid(t, m, s) = y => m = x /\ s = far
  BY <1>1, <1>2, OneParent
<1>b. \A m \in N : \A s \in Sides : Kid(t, m, s) = i /\ i # Sentinel => m = y /\ s = side
  <2> HIDE DEF y
  <2> QED
    BY <1>1, <1>3, OneParent
<1>c. a # Sentinel => a \in N
  BY <1>4
<1>d. t.root # y /\ (i # Sentinel => t.root # i)
  <2>1. t.root # y
    BY <1>2, OneSide
  <2>2. i # Sentinel => t.root # i
    <3> HIDE DEF y
    <3> QED
      BY <1>3, OneSide
  <2> QED
    BY <2>1, <2>2
<1>e. \A n \in N : \A s \in Sides :
        /\ Kid(t, n, s) \in N \cup {Sentinel}
        /\ Kid(t, n, s) # Sentinel => Parent(t, Kid(t, n, s)) = n
        /\ \A m \in sub[Kid(t, n, s)] : On(s, m, n)
  BY AtNode
<1>f. \A n \in N : sub[n] = sub[Kid(t, n, "left")] \cup {n} \cup sub[Kid(t, n, "right")]
  BY DEF Shape, Below
<1>g. Kid(r, x, side) = a /\ Kid(r, x, far) = i /\ Kid(r, y, side) = x /\ Kid(r, y, far) = b
  <2>1. Kid(t, x, side) = a /\ Kid(t, y, far) = b
    OBVIOUS
  <2> HIDE DEF a, b, y, i, far
  <2> QED
    BY <1>2, <1>3, <1>7, <1>9, <2>1
<1>h. \A n \in N : n # x /\ n # y => \A s \in Sides :
        Kid(r, n, s) = IF Kid(t, n, s) = x THEN y ELSE Kid(t, n, s)
  <2> HIDE DEF a, b, y, i, far
  <2> QED
    BY <1>9
<1> HIDE DEF a, b, y, i, far, sub2
<1>i. Below(r, N, sub2, x)
  <2>1. sub2[a] = sub[a] /\ sub2[i] = sub[i]
    BY <1>4, <1>5, <1>7, <1>8
  <2>2. \A m \in sub[i] : On(far, m, x)
    BY <1>3, <1>5
  <2>3. (a # Sentinel => Parent(r, a) = x) /\ (i # Sentinel => Parent(r, i) = x)
    BY <1>1, <1>4, <1>5, <1>7, <1>9
  <2>4. \A s \in Sides :
          /\ Kid(r, x, s) \in N \cup {Sentinel}
          /\ Kid(r, x, s) # Sentinel => Parent(r, Kid(r, x, s)) = x
          /\ \A m \in sub2[Kid(r, x, s)] : On(s, m, x)
    BY <1>2, <1>4, <1>5, <1>g, <2>1, <2>2, <2>3
  <2>5. sub2[x] = sub2[Kid(r, x, "left")] \cup {x} \cup sub2[Kid(r, x, "right")]
    BY <1>2, <1>8, <1>g, <2>1, SideFacts DEF Sides
  <2> QED
    BY <2>4, <2>5 DEF Below
<1>j. Below(r, N, sub2, y)
  <2>1. sub2[b] = sub[b]
    BY <1>6, <1>7, <1>8
  <2>2. \A m \in sub2[x] : On(side, m, y)
    <3>1. x \in Int /\ y \in Int /\ sub[a] \subseteq Int
      BY <1>1, <1>3, <1>4
    <3>2. On(side, x, y)
      BY <1>2, <1>3, <3>1, OnFacts
    <3>3. \A m \in sub[a] : On(side, m, y)
      BY <1>4, <3>1, <3>2, OnFacts
    <3> QED
      BY <1>5, <1>8, <3>2, <3>3
  <2>3. (b # Sentinel => Parent(r, b) = y) /\ Parent(r, x) = y
    BY <1>1, <1>6, <1>7, <1>9
  <2>4. \A s \in Sides :
          /\ Kid(r, y, s) \in N \cup {Sentinel}
          /\ Kid(r, y, s) # Sentinel => Parent(r, Kid(r, y, s)) = y
          /\ \A m \in sub2[Kid(r, y, s)] : On(s, m, y)
    BY <1>2, <1>6, <1>g, <2>1, <2>2, <2>3
  <2>5. sub2[y] = {y} \cup sub2[x] \cup sub2[b]
    BY <1>4, <1>5, <1>8, <2>1
  <2>6. sub2[y] = sub2[Kid(r, y, "left")] \cup {y} \cup sub2[Kid(r, y, "right")]
    BY <1>2, <1>g, <2>5, SideFacts DEF Sides
  <2> QED
    BY <2>4, <2>6 DEF Below
<1>k. ASSUME NEW n \in N, n # x, n # y PROVE Below(r, N, sub2, n)
  <2>1. ASSUME NEW s \in Sides
        PROVE  /\ Kid(r, n, s) \in N \cup {Sentinel}
               /\ Kid(r, n, s) # Sentinel => Parent(r, Kid(r, n, s)) = n
               /\ sub2[Kid(r, n, s)] = sub[Kid(t, n, s)]
    <3>1. CASE Kid(t, n, s) = x
      <4>1. Kid(r, n, s) = y /\ Parent(t, x) = n
        BY <1>1, <1>e, <1>h, <1>k, <3>1
      <4>2. Parent(r, y) = Parent(t, x)
        BY <1>1, <1>3, <1>7, <1>9
      <4> QED
        BY <1>3, <1>8, <3>1, <4>1, <4>2
    <3>2. CASE Kid(t, n, s) # x
      <4>1. Kid(r, n, s) = Kid(t, n, s) /\ Kid(t, n, s) # y
            /\ (i # Sentinel => Kid(t, n, s) # i)
        BY <1>a, <1>b, <1>h, <1>k, <3>2
      <4>2. Kid(t, n, s) # Sentinel => Parent(r, Kid(t, n, s)) = Parent(t, Kid(t, n, s))
        BY <1>1, <1>9, <1>e, <3>2, <4>1
      <4> QED
        BY <1>8, <1>e, <3>2, <4>1, <4>2
    <3> QED
      BY <3>1, <3>2
  <2>2. sub2[n] = sub[n]
    BY <1>8, <1>k
  <2>3. \A s \in Sides : \A m \in sub2[Kid(r, n, s)] : On(s, m, n)
    BY <1>e, <2>1
  <2>4. sub2[n] = sub2[Kid(r, n, "left")] \cup {n} \cup sub2[Kid(r, n, "right")]
    BY <1>f, <2>1, <2>2, SideFacts
  <2> QED
    BY <2>1, <2>3, <2>4 DEF Below
<1>l. r.root \in N \cup {Sentinel} /\ sub2[r.root] = N
      /\ (r.root # Sentinel => Parent(r, r.root) = Sentinel)
  <2>1. t.root # Sentinel => Parent(t, t.root) = Sentinel
    BY DEF Shape
  <2>2. CASE x = t.root
    <3>1. r.root = y /\ Parent(r, y) = Parent(t, x)
      BY <1>1, <1>3, <1>7, <1>9, <2>2
    <3> QED
      BY <1>1, <1>3, <1>8, <2>1, <2>2, <3>1
  <2>3. CASE x # t.root
    <3>1. r.root = t.root /\ r.root # y /\ (i # Sentinel => r.root # i)
      BY <1>9, <1>d, <2>3
    <3>2. r.root # Sentinel => Parent(r, r.root) = Parent(t, t.root)
      BY <1>1, <1>9, <2>3, <3>1
    <3> QED
      BY <1>1, <1>8, <2>1, <2>3, <3>1, <3>2
  <2> QED
    BY <2>2, <2>3
<1>m. sub2[Sentinel] = {}
  BY <1>1, <1>3, <1>8
<1> QED
  BY <1>1, <1>8, <1>9, <1>i, <1>j, <1>k, <1>l, <1>m DEF Shape, sub2

\* Painting does not change the shape.
LEMMA ShapeKept ==
  ASSUME NEW t, NEW D, NEW N, NEW sub, Shape(t, D, N, sub),
         NEW u, TreeOn(u, D), u.root = t.root, SameKids(u, t, D), SameParents(u, t, D)
  PROVE  Shape(u, D, N, sub)
<1>1. N \subseteq D /\ Sentinel \in D /\ N \subseteq Keys
      /\ t.root \in N \cup {Sentinel}
  <2>1. N \subseteq D /\ N \subseteq Keys
    BY DEF Shape
  <2> QED
    BY <2>1, InTheTree
<1>2. ASSUME NEW n \in N PROVE Below(u, N, sub, n)
  <2>1. Below(t, N, sub, n) /\ n \in D
    BY <1>1 DEF Shape
  <2>2. \A s \in Sides : Kid(u, n, s) = Kid(t, n, s)
    BY <2>1 DEF SameKids
  <2>3. \A s \in Sides : Kid(t, n, s) \in D
    BY <1>1, <2>1 DEF Below
  <2>4. \A s \in Sides : Parent(u, Kid(t, n, s)) = Parent(t, Kid(t, n, s))
    BY <2>3 DEF SameParents
  <2> QED
    BY <2>1, <2>2, <2>4, SideFacts DEF Below
<1>3. t.root # Sentinel => Parent(u, t.root) = Sentinel
  <2>1. t.root # Sentinel => Parent(t, t.root) = Sentinel
    BY DEF Shape
  <2> QED
    BY <1>1, <2>1 DEF SameParents
<1> QED
  BY <1>2, <1>3 DEF Shape

-----------------------------------------------------------------------------
\* Colours.  bh[n] is the number of black nodes on every way down from n, the
\* sentinel included; at one side of one node P it may be short of one.

Weight(t, n)    == IF Color(t, n) = Black THEN 1 ELSE 0
Gap(n, s, P, S) == IF n = P /\ s = S THEN 1 ELSE 0

Even(t, A, bh, P, S) ==
  \A n \in A : \A s \in Sides :
    bh[n] = bh[Kid(t, n, s)] + Weight(t, n) + Gap(n, s, P, S)

Heights(bh, N) == bh \in [N \cup {Sentinel} -> Nat \ {0}] /\ bh[Sentinel] = 1

\* No red node has a red child, but for the children of a and the node b.
RedApart(t, N, a, b) ==
  \A n \in N : \A s \in Sides :
    Color(t, n) = Red /\ Color(t, Kid(t, n, s)) = Red => n = a \/ Kid(t, n, s) = b

LEMMA TwoColors ==
  ASSUME NEW t, NEW D, TreeOn(t, D), NEW n \in D
  PROVE  Color(t, n) \in Colors
<1>1. PICK v, c, p, l, r : t.node[n] = Fields(v, c, p, l, r) /\ c \in Colors
  BY DEF TreeOn
<1>2. Color(t, n) = c
  BY <1>1, FieldsOf DEF Color
<1> QED
  BY <1>1, <1>2

LEMMA ColorFacts ==
  Red # Black /\ Red \in Colors /\ Black \in Colors
  /\ \A c \in Colors : c = Red \/ c = Black
BY DEF Colors, Red, Black

\* Away from the nodes M, which hang together below their top x, a change of
\* heights, and of the top for y, goes unnoticed.
Aside(t, N, M, x, bh, bh2) ==
  /\ M \subseteq N /\ x \in M
  /\ \A m \in M : m # x => Parent(t, m) \in M
  /\ \A n \in (N \cup {Sentinel}) \ M : bh2[n] = bh[n]

LEMMA AsideTurned ==
  ASSUME NEW t, NEW D, NEW N, NEW sub, Shape(t, D, N, sub),
         NEW x \in N, NEW side \in Sides, Kid(t, x, Other(side)) # Sentinel,
         NEW r, Turned(r, t, D, N, x, side),
         NEW M, NEW bh, NEW bh2, Aside(t, N, M, x, bh, bh2),
         Kid(t, x, Other(side)) \in M, bh2[Kid(t, x, Other(side))] = bh[x]
  PROVE  \A n \in N \ M : \A s \in Sides : bh2[Kid(r, n, s)] = bh[Kid(t, n, s)]
<1> SUFFICES ASSUME NEW n \in N \ M, NEW s \in Sides
             PROVE  bh2[Kid(r, n, s)] = bh[Kid(t, n, s)]
  OBVIOUS
<1> USE DEF Aside
<1>1. n # x /\ n # Kid(t, x, Other(side))
  OBVIOUS
<1>2. Kid(r, n, s) = IF Kid(t, n, s) = x THEN Kid(t, x, Other(side)) ELSE Kid(t, n, s)
  BY <1>1 DEF Turned
<1>3. CASE Kid(t, n, s) = x
  BY <1>2, <1>3
<1>4. CASE Kid(t, n, s) # x
  <2>1. Kid(t, n, s) \in N \cup {Sentinel}
        /\ (Kid(t, n, s) # Sentinel => Parent(t, Kid(t, n, s)) = n)
    BY AtNode
  <2>2. Kid(t, n, s) \notin M
    <3>1. Sentinel \notin M
      BY NodesAreInts
    <3> QED
      BY <1>4, <2>1, <3>1
  <2> QED
    BY <1>2, <1>4, <2>1, <2>2
<1> QED
  BY <1>3, <1>4

LEMMA AsideKept ==
  ASSUME NEW t, NEW D, NEW N, NEW sub, Shape(t, D, N, sub),
         NEW M, NEW x, NEW bh, NEW bh2, Aside(t, N, M, x, bh, bh2), bh2[x] = bh[x]
  PROVE  \A n \in N \ M : \A s \in Sides : bh2[Kid(t, n, s)] = bh[Kid(t, n, s)]
<1> SUFFICES ASSUME NEW n \in N \ M, NEW s \in Sides
             PROVE  bh2[Kid(t, n, s)] = bh[Kid(t, n, s)]
  OBVIOUS
<1> USE DEF Aside
<1>1. CASE Kid(t, n, s) = x
  BY <1>1
<1>2. CASE Kid(t, n, s) # x
  <2>1. Kid(t, n, s) \in N \cup {Sentinel}
        /\ (Kid(t, n, s) # Sentinel => Parent(t, Kid(t, n, s)) = n)
    BY AtNode
  <2>2. Kid(t, n, s) \notin M
    <3>1. Sentinel \notin M
      BY NodesAreInts
    <3> QED
      BY <1>2, <2>1, <3>1
  <2> QED
    BY <2>1, <2>2
<1> QED
  BY <1>1, <1>2

LEMMA EvenAside ==
  ASSUME NEW t, NEW N, NEW bh, NEW P, NEW S, Even(t, N, bh, P, S),
         NEW r, NEW M, M \subseteq N, NEW bh2,
         \A n \in N \ M : Color(r, n) = Color(t, n) /\ bh2[n] = bh[n],
         \A n \in N \ M : \A s \in Sides : bh2[Kid(r, n, s)] = bh[Kid(t, n, s)],
         Even(r, M, bh2, P, S)
  PROVE  Even(r, N, bh2, P, S)
<1> SUFFICES ASSUME NEW n \in N \ M, NEW s \in Sides
             PROVE  bh2[n] = bh2[Kid(r, n, s)] + Weight(r, n) + Gap(n, s, P, S)
  BY DEF Even
<1>1. bh[n] = bh[Kid(t, n, s)] + Weight(t, n) + Gap(n, s, P, S)
  BY DEF Even
<1>2. Weight(r, n) = Weight(t, n)
  BY DEF Weight
<1> QED
  BY <1>1, <1>2

-----------------------------------------------------------------------------
\* The rebalancing of an insertion: only z and its parent may both be red.

Inserting(t, D, N, sub, bh, z) ==
  /\ Shape(t, D, N, sub) /\ Heights(bh, N) /\ Even(t, N, bh, Null, "left")
  /\ z \in N /\ Color(t, z) = Red /\ Color(t, Sentinel) = Black
  /\ RedApart(t, N, Null, z)
  /\ Color(t, t.root) = Black \/ t.root = z

LEMMA NoGap ==
  ASSUME NEW t, NEW D, NEW N, NEW sub, Shape(t, D, N, sub)
  PROVE  \A n \in N : n # Null /\ \A s : Gap(n, s, Null, "left") = 0
<1>1. N \subseteq Keys
  BY DEF Shape
<1>2. \A n \in N : n # Null
  BY <1>1, TreeTableConstants DEF Null
<1> QED
  BY <1>2 DEF Gap

\* The places of z, its parent p and its grandparent g.
Placed(t, N, z, p, g, side) ==
  /\ p \in N /\ g \in N /\ z # p /\ z # g /\ p # g /\ side \in Sides
  /\ Parent(t, z) = p /\ Parent(t, p) = g
  /\ Kid(t, g, side) = p /\ (\E s \in Sides : Kid(t, p, s) = z)
  /\ Color(t, p) = Red /\ Color(t, g) = Black /\ p # t.root /\ z # t.root

LEMMA InsertPlace ==
  ASSUME NEW t, NEW D, NEW N, NEW sub, NEW bh, NEW z, Inserting(t, D, N, sub, bh, z),
         Color(t, Parent(t, z)) # Black
  PROVE  LET p == Parent(t, z)
         IN  Placed(t, N, z, p, Parent(t, p), SideOf(t, p))
<1> USE DEF Inserting
<1> DEFINE p == Parent(t, z)
           g == Parent(t, p)
           side == SideOf(t, p)
<1>1. TreeOn(t, D) /\ N \subseteq D /\ Sentinel \notin N
  BY InTheTree
<1>2. z # t.root
  BY PlaceOf
<1>3. p \in N /\ \E s \in Sides : Kid(t, p, s) = z
  BY <1>2, HasParent
<1>4. Color(t, p) = Red
  BY <1>1, <1>3, TwoColors, ColorFacts
<1>5. z # p
  BY <1>3, AtNode, NodesAreInts
<1> HIDE DEF p
<1>6. p # t.root
  BY <1>2, <1>4, ColorFacts
<1>7. g \in N /\ side \in Sides /\ Kid(t, g, side) = p
  <2>1. g \in N /\ \E s \in Sides : Kid(t, g, s) = p
    BY <1>3, <1>6, HasParent
  <2>2. PICK s \in Sides : Kid(t, g, s) = p
    BY <2>1
  <2>3. side = s
    BY <1>1, <1>3, <2>1, <2>2, OneSide
  <2> QED
    BY <2>1, <2>2, <2>3
<1> HIDE DEF g, side
<1>8. p # g /\ p \in sub[g] /\ g \notin sub[p]
  BY <1>1, <1>3, <1>7, AtNode
<1>9. z \in sub[p]
  BY <1>1, <1>3, AtNode
<1>10. z # g
  BY <1>8, <1>9
<1>11. Color(t, g) = Black
  <2>1. g # Null
    BY <1>7, NoGap
  <2>2. Color(t, g) # Red
    BY <1>4, <1>5, <1>7, <2>1 DEF RedApart
  <2> QED
    BY <1>1, <1>7, <2>2, TwoColors, ColorFacts
<1> QED
  BY <1>2, <1>3, <1>4, <1>5, <1>6, <1>7, <1>8, <1>10, <1>11 DEF Placed, p, g, side

\* A red uncle: the black of g goes down to both its children.
LEMMA UncleRed ==
  ASSUME NEW t, NEW D, NEW N, NEW sub, NEW bh, NEW z, Inserting(t, D, N, sub, bh, z),
         NEW p, NEW g, NEW side, Placed(t, N, z, p, g, side),
         Color(t, Kid(t, g, Other(side))) = Red
  PROVE  LET u == Kid(t, g, Other(side))
             r == Painted(Painted(Painted(t, p, Black), u, Black), g, Red)
         IN  /\ \E bh2 : Inserting(r, D, N, sub, bh2, g)
             /\ r.size = t.size /\ SameValues(r, t, D)
<1> USE DEF Inserting, Placed
<1> DEFINE far == Other(side)
           u == Kid(t, g, far)
           a == Painted(t, p, Black)
           b == Painted(a, u, Black)
           r == Painted(b, g, Red)
<1>1. TreeOn(t, D) /\ N \subseteq D /\ Sentinel \notin N /\ Sentinel \in D
  BY InTheTree
<1>2. far \in Sides /\ far # side /\ Other(far) = side
      /\ \A s \in Sides : s = side \/ s = far
  BY SideFacts
<1>3. u \in N /\ Parent(t, u) = g /\ u # g /\ u # p
  <2>1. u # Sentinel
    BY ColorFacts
  <2>2. u \in N /\ Parent(t, u) = g /\ u # g
    BY <1>2, <2>1, AtNode
  <2> QED
    BY <1>1, <1>2, <2>2, OneSide
<1> HIDE DEF u, far
<1>4. /\ TreeOn(a, D) /\ a.root = t.root /\ a.size = t.size
      /\ SameParents(a, t, D) /\ SameValues(a, t, D) /\ SameKids(a, t, D)
      /\ \A m \in D : Color(a, m) = IF m = p THEN Black ELSE Color(t, m)
  BY <1>1, PaintedTree, ColorFacts
<1> HIDE DEF a
<1>5. /\ TreeOn(b, D) /\ b.root = a.root /\ b.size = a.size
      /\ SameParents(b, a, D) /\ SameValues(b, a, D) /\ SameKids(b, a, D)
      /\ \A m \in D : Color(b, m) = IF m = u THEN Black ELSE Color(a, m)
  BY <1>1, <1>3, <1>4, PaintedTree, ColorFacts
<1> HIDE DEF b
<1>6. /\ TreeOn(r, D) /\ r.root = b.root /\ r.size = b.size
      /\ SameParents(r, b, D) /\ SameValues(r, b, D) /\ SameKids(r, b, D)
      /\ \A m \in D : Color(r, m) = IF m = g THEN Red ELSE Color(b, m)
  BY <1>1, <1>5, PaintedTree, ColorFacts
<1> HIDE DEF r
<1>7. /\ TreeOn(r, D) /\ r.root = t.root /\ r.size = t.size
      /\ SameParents(r, t, D) /\ SameValues(r, t, D) /\ SameKids(r, t, D)
  BY <1>4, <1>5, <1>6 DEF SameParents, SameValues, SameKids
<1>8. \A m \in D : Color(r, m) = IF m = g THEN Red ELSE IF m \in {p, u} THEN Black
                                 ELSE Color(t, m)
  BY <1>4, <1>5, <1>6
<1>9. Shape(r, D, N, sub)
  BY <1>7, ShapeKept
<1> DEFINE M == {g, p, u}
           bh2 == [n \in N \cup {Sentinel} |-> IF n \in {p, u} THEN bh[n] + 1 ELSE bh[n]]
<1>10. Heights(bh2, N)
  BY <1>1, <1>3 DEF Heights
<1>11. bh2[p] = bh[p] + 1 /\ bh2[u] = bh[u] + 1
       /\ \A n \in N \cup {Sentinel} : n \notin {p, u} => bh2[n] = bh[n]
  BY <1>1, <1>3
<1> HIDE DEF bh2
<1>12. \A n \in N : \A s \in Sides :
         /\ Kid(r, n, s) = Kid(t, n, s) /\ Kid(t, n, s) \in N \cup {Sentinel}
         /\ Kid(t, n, s) # Sentinel => Parent(t, Kid(t, n, s)) = n
         /\ Kid(t, n, s) # n
  <2>1. \A n \in N : \A s \in Sides : Kid(r, n, s) = Kid(t, n, s)
    BY <1>1, <1>7 DEF SameKids
  <2> QED
    BY <1>1, <2>1, AtNode
<1>13. \A n \in N : \A s \in Sides : bh[n] = bh[Kid(t, n, s)] + Weight(t, n)
  <2>1. bh \in [N \cup {Sentinel} -> Nat \ {0}]
    BY DEF Heights
  <2>2. \A n \in N : \A s \in Sides : bh[Kid(t, n, s)] + Weight(t, n) \in Nat
    BY <1>12, <2>1 DEF Weight
  <2>3. \A n \in N : \A s \in Sides : bh[n] = bh[Kid(t, n, s)] + Weight(t, n) + 0
    BY NoGap DEF Even
  <2> QED
    BY <2>2, <2>3
<1>14. /\ Weight(t, p) = 0 /\ Weight(t, u) = 0 /\ Weight(t, g) = 1
       /\ Weight(r, p) = 1 /\ Weight(r, u) = 1 /\ Weight(r, g) = 0
  BY <1>1, <1>3, <1>8, ColorFacts DEF Weight, u, far
<1>15. Kid(t, g, side) = p /\ Kid(t, g, far) = u
  BY DEF u
<1>16. \A n \in {p, u} : \A s \in Sides : Kid(t, n, s) \notin {p, u}
  BY <1>1, <1>3, <1>12
<1>17. Even(r, M, bh2, Null, "left")
  <2>0. bh \in [N \cup {Sentinel} -> Nat \ {0}]
    BY DEF Heights
  <2>1. ASSUME NEW s \in Sides
        PROVE  /\ bh2[g] = bh2[Kid(r, g, s)] + Weight(r, g) + 0
               /\ bh2[p] = bh2[Kid(r, p, s)] + Weight(r, p) + 0
               /\ bh2[u] = bh2[Kid(r, u, s)] + Weight(r, u) + 0
    <3>1. bh2[g] = bh2[Kid(r, g, s)] + Weight(r, g) + 0
      <4>1. bh[g] = bh[Kid(t, g, s)] + 1 /\ bh2[g] = bh[g]
        BY <1>3, <1>11, <1>13, <1>14
      <4>2. Kid(t, g, s) \in {p, u} /\ Kid(r, g, s) = Kid(t, g, s)
        BY <1>2, <1>12, <1>15
      <4>3. bh2[Kid(r, g, s)] = bh[Kid(t, g, s)] + 1
        BY <1>11, <4>2
      <4> QED
        BY <1>14, <4>1, <4>3, <1>12, <2>0
    <3>2. ASSUME NEW n \in {p, u}
          PROVE  bh2[n] = bh2[Kid(r, n, s)] + Weight(r, n) + 0
      <4>1. bh[n] = bh[Kid(t, n, s)] + 0 /\ bh2[n] = bh[n] + 1 /\ Weight(r, n) = 1
        BY <1>3, <1>11, <1>13, <1>14
      <4>2. bh2[Kid(r, n, s)] = bh[Kid(t, n, s)]
        BY <1>3, <1>11, <1>12, <1>16
      <4> QED
        BY <4>1, <4>2, <1>12, <1>3, <2>0
    <3> QED
      BY <3>1, <3>2
  <2>2. \A n \in M : n \in N
    BY <1>3
  <2> QED
    BY <2>1, <2>2, NoGap DEF Even
<1>18. Even(r, N, bh2, Null, "left")
  <2>1. M \subseteq N /\ g \in M
    BY <1>3
  <2>2. \A m \in M : m # g => Parent(t, m) \in M
    BY <1>3
  <2>3. bh2[g] = bh[g] /\ \A n \in (N \cup {Sentinel}) \ M : bh2[n] = bh[n]
    BY <1>3, <1>11
  <2>4. \A n \in N \ M : \A s \in Sides : bh2[Kid(t, n, s)] = bh[Kid(t, n, s)]
    <3>1. Shape(t, D, N, sub)
      OBVIOUS
    <3>2. Aside(t, N, M, g, bh, bh2)
      BY <2>1, <2>2, <2>3 DEF Aside
    <3> HIDE DEF M, Inserting, Placed
    <3> QED
      BY <2>3, <3>1, <3>2, AsideKept
  <2>5. \A n \in N \ M : \A s \in Sides : bh2[Kid(r, n, s)] = bh[Kid(t, n, s)]
    BY <1>12, <2>4
  <2>6. \A n \in N \ M : Color(r, n) = Color(t, n) /\ bh2[n] = bh[n]
    BY <1>1, <1>8, <2>3
  <2> HIDE DEF M
  <2> QED
    BY <1>17, <2>1, <2>5, <2>6, EvenAside
<1>19. RedApart(r, N, Null, g)
  <2> SUFFICES ASSUME NEW n \in N, NEW s \in Sides,
                      Color(r, n) = Red, Color(r, Kid(r, n, s)) = Red, Kid(r, n, s) # g
               PROVE  FALSE
    BY DEF RedApart
  <2>1. Kid(r, n, s) = Kid(t, n, s) /\ Kid(t, n, s) \in D /\ n \in D
    BY <1>1, <1>12
  <2>2. Kid(t, n, s) \notin {p, u} /\ n \notin {p, u}
        /\ Color(t, Kid(t, n, s)) = Red
    BY <1>1, <1>3, <1>8, <2>1, ColorFacts
  <2>3. n # g
    BY <1>2, <1>15, <2>2
  <2>4. Color(t, n) = Red
    BY <1>8, <2>1, <2>2, <2>3
  <2>5. Kid(t, n, s) = z
    BY <2>2, <2>4, NoGap DEF RedApart
  <2> QED
    BY <1>1, <1>12, <2>2, <2>5
<1>20. Color(r, r.root) = Black \/ r.root = g
  <2>1. t.root # p /\ t.root # u /\ t.root \in D
    <3>1. t.root # u
      BY <1>1, <1>2, <1>3, <1>15, OneSide
    <3>2. t.root \in D
      BY <1>1, InTheTree
    <3> QED
      BY <3>1, <3>2
  <2> QED
    BY <1>7, <1>8, <2>1
<1>21. Color(r, g) = Red /\ Color(r, Sentinel) = Black
  BY <1>1, <1>3, <1>8
<1>22. Inserting(r, D, N, sub, bh2, g)
  BY <1>9, <1>10, <1>18, <1>19, <1>20, <1>21
<1> QED
  BY <1>7, <1>22 DEF r, b, a, u, far

LEMMA EvenIs ==
  ASSUME NEW t, NEW D, NEW N, NEW sub, Shape(t, D, N, sub), NEW bh, Heights(bh, N)
  PROVE  /\ \A n \in N \cup {Sentinel} : bh[n] \in Nat \ {0}
         /\ \A n \in N : Weight(t, n) \in {0, 1}
         /\ \A n \in N : \A s \in Sides : bh[Kid(t, n, s)] \in Nat \ {0}
         /\ Even(t, N, bh, Null, "left") =>
              \A n \in N : \A s \in Sides : bh[n] = bh[Kid(t, n, s)] + Weight(t, n)
<1>1. \A n \in N \cup {Sentinel} : bh[n] \in Nat \ {0}
  BY DEF Heights
<1>2. \A n \in N : Weight(t, n) \in {0, 1}
  BY DEF Weight
<1>3. \A n \in N : \A s \in Sides : Kid(t, n, s) \in N \cup {Sentinel}
  BY AtNode
<1>4. \A n \in N : \A s \in Sides : bh[Kid(t, n, s)] \in Nat \ {0}
  BY <1>1, <1>3
<1>5. ASSUME Even(t, N, bh, Null, "left"), NEW n \in N, NEW s \in Sides
      PROVE  bh[n] = bh[Kid(t, n, s)] + Weight(t, n)
  <2>1. bh[n] = bh[Kid(t, n, s)] + Weight(t, n) + 0
    BY <1>5, NoGap DEF Even
  <2> QED
    BY <1>2, <1>4, <2>1
<1> QED
  BY <1>1, <1>2, <1>4, <1>5

LEMMA EvenAt ==
  ASSUME NEW t, NEW D, NEW N, NEW sub, Shape(t, D, N, sub), NEW bh, Heights(bh, N),
         NEW r, NEW M, M \subseteq N, \A n \in M : Weight(r, n) \in {0, 1},
         NEW bh2, \A n \in M : \A s \in Sides : bh2[Kid(r, n, s)] \in Nat,
         \A n \in M : \A s \in Sides : bh2[n] = bh2[Kid(r, n, s)] + Weight(r, n)
  PROVE  Even(r, M, bh2, Null, "left")
<1> SUFFICES ASSUME NEW n \in M, NEW s \in Sides
             PROVE  bh2[n] = bh2[Kid(r, n, s)] + Weight(r, n) + Gap(n, s, Null, "left")
  BY DEF Even
<1>1. Gap(n, s, Null, "left") = 0
  BY NoGap
<1> QED
  BY <1>1

\* A z on the inside goes up, and its parent takes its part.
LEMMA InsideUp ==
  ASSUME NEW t, NEW D, NEW N, NEW sub, NEW bh, NEW z, Inserting(t, D, N, sub, bh, z),
         NEW p, NEW g, NEW side, Placed(t, N, z, p, g, side), Kid(t, p, Other(side)) = z,
         Color(t, Kid(t, g, Other(side))) # Red
  PROVE  LET r == Rotate(t, p, side)
         IN  /\ \E sub2 : Inserting(r, D, N, sub2, bh, p)
             /\ Placed(r, N, p, z, g, side) /\ Kid(r, z, side) = p
             /\ Color(r, Kid(r, g, Other(side))) # Red
             /\ r.size = t.size /\ SameValues(r, t, D)
<1> DEFINE far == Other(side)
           r == Rotate(t, p, side)
           a == Kid(t, p, side)
           i == Kid(t, z, side)
           b == Kid(t, z, far)
           u == Kid(t, g, far)
           sub2 == TurnedSub(sub, t, N, p, side)
<1>1. /\ Shape(t, D, N, sub) /\ Heights(bh, N) /\ Even(t, N, bh, Null, "left")
      /\ z \in N /\ Color(t, z) = Red /\ Color(t, Sentinel) = Black
      /\ RedApart(t, N, Null, z) /\ (Color(t, t.root) = Black \/ t.root = z)
  BY DEF Inserting
<1>2. /\ p \in N /\ g \in N /\ z # p /\ z # g /\ p # g /\ side \in Sides
      /\ Parent(t, z) = p /\ Parent(t, p) = g /\ Kid(t, g, side) = p
      /\ Color(t, p) = Red /\ Color(t, g) = Black /\ p # t.root /\ z # t.root
  BY DEF Placed
<1>3. TreeOn(t, D) /\ N \subseteq D /\ Sentinel \notin N /\ Sentinel \in D
  BY <1>1, InTheTree
<1>4. far \in Sides /\ far # side /\ Other(far) = side
      /\ \A s \in Sides : s = side \/ s = far
  BY <1>2, SideFacts
<1>5. Turned(r, t, D, N, p, side)
  BY <1>1, <1>2, <1>3, RotateTurns
<1>6. Shape(r, D, N, sub2)
  BY <1>1, <1>2, <1>3, <1>5, ShapeTurned
<1> HIDE DEF r, sub2
<1>7. /\ TreeOn(r, D) /\ r.root = t.root /\ r.size = t.size
      /\ SameColors(r, t, D) /\ SameValues(r, t, D)
      /\ \A m \in D : Parent(r, m) = IF m = i /\ i # Sentinel THEN p
                                     ELSE IF m = p THEN z
                                     ELSE IF m = z THEN Parent(t, p) ELSE Parent(t, m)
      /\ \A m \in N : \A s \in Sides :
           Kid(r, m, s) = IF m = p /\ s = far THEN i
                          ELSE IF m = z /\ s = side THEN p
                          ELSE IF Kid(t, m, s) = p THEN z ELSE Kid(t, m, s)
  BY <1>2, <1>5 DEF Turned
<1>8a. Parent(t, p) # z
  BY <1>2
<1>8. /\ a # z /\ a # p /\ i # z /\ i # p /\ b # z /\ b # p /\ u # p /\ u # z
      /\ a \in N \cup {Sentinel} /\ i \in N \cup {Sentinel} /\ b \in N \cup {Sentinel}
      /\ u \in N \cup {Sentinel}
  <2>1. a # z
    BY <1>1, <1>2, <1>3, <1>4, OneSide
  <2>2. /\ a # p /\ a \in N \cup {Sentinel}
    BY <1>1, <1>2, <1>3, AtNode
  <2>3. /\ i \in N \cup {Sentinel} /\ i # z /\ (i # Sentinel => Parent(t, i) = z)
    BY <1>1, <1>2, <1>3, AtNode
  <2>4. /\ b \in N \cup {Sentinel} /\ b # z /\ (b # Sentinel => Parent(t, b) = z)
    BY <1>1, <1>2, <1>3, <1>4, AtNode
  <2>5. /\ u \in N \cup {Sentinel} /\ (u # Sentinel => Parent(t, u) = g)
    BY <1>1, <1>2, <1>3, <1>4, AtNode
  <2>6. u # p
    BY <1>1, <1>2, <1>3, <1>4, OneSide
  <2>7. i # Sentinel => Parent(t, i) = z
    BY <2>3
  <2> HIDE DEF a, i, b, u, far
  <2>8. i # p /\ b # p /\ u # z
    BY <1>1, <1>2, <1>3, <2>4, <2>5, <2>7, <1>8a
  <2> QED
    BY <2>1, <2>2, <2>3, <2>4, <2>5, <2>6, <2>8
<1>9. /\ Kid(r, p, side) = a /\ Kid(r, p, far) = i /\ Kid(r, z, side) = p
      /\ Kid(r, z, far) = b /\ Kid(r, g, side) = z /\ Kid(r, g, far) = u
  <2>1. Kid(t, p, side) = a /\ Kid(t, z, far) = b /\ Kid(t, g, far) = u
    OBVIOUS
  <2> HIDE DEF a, b, i, u, far
  <2> QED
    BY <1>1, <1>2, <1>4, <1>7, <1>8, <2>1
<1>10. \A n \in N : n # p /\ n # z => \A s \in Sides :
         Kid(r, n, s) = IF Kid(t, n, s) = p THEN z ELSE Kid(t, n, s)
  BY <1>7
<1>11. Kid(t, p, side) = a /\ Kid(t, p, far) = z /\ Kid(t, z, side) = i
       /\ Kid(t, z, far) = b /\ Kid(t, g, far) = u
  OBVIOUS
<1> HIDE DEF a, i, b, u, far
<1>12. Color(t, u) # Red
  BY DEF u, far
<1>13. \A n \in D : Color(r, n) = Color(t, n)
  BY <1>7 DEF SameColors
<1>14. Even(r, N, bh, Null, "left")
  <2> DEFINE M == {p, z}
  <2>1. \A n \in N : \A s \in Sides :
          bh[n] = bh[Kid(t, n, s)] + Weight(t, n) /\ bh[Kid(t, n, s)] \in Nat
    BY <1>1, EvenIs
  <2>2. Weight(t, p) = 0 /\ Weight(t, z) = 0 /\ Weight(r, p) = 0 /\ Weight(r, z) = 0
    BY <1>1, <1>2, <1>3, <1>13, ColorFacts DEF Weight
  <2>3. bh[p] = bh[z] /\ bh[p] = bh[a] /\ bh[z] = bh[i] /\ bh[z] = bh[b] /\ bh[z] \in Nat
    BY <1>1, <1>2, <1>4, <1>11, <2>1, <2>2
  <2>4. \A n \in M : \A s \in Sides : bh[Kid(r, n, s)] = bh[n] /\ Weight(r, n) = 0
                                      /\ bh[n] \in Nat
    BY <1>4, <1>9, <2>2, <2>3
  <2>5. M \subseteq N
    BY <1>1, <1>2
  <2>6. Aside(t, N, M, p, bh, bh)
    BY <1>2, <2>5 DEF Aside
  <2>7. \A n \in N \ M : \A s \in Sides : bh[Kid(r, n, s)] = bh[Kid(t, n, s)]
    <3>1. /\ Kid(t, p, Other(side)) # Sentinel /\ Kid(t, p, Other(side)) \in M
          /\ bh[Kid(t, p, Other(side))] = bh[p]
      BY <1>1, <1>3, <2>3
    <3> HIDE DEF M
    <3> QED
      BY <1>1, <1>2, <1>5, <2>6, <3>1, AsideTurned
  <2>8. Even(r, M, bh, Null, "left")
    <3>1. \A n \in M : Weight(r, n) \in {0, 1}
      BY <2>4, SideFacts
    <3>2. \A n \in M : \A s \in Sides : bh[Kid(r, n, s)] \in Nat
                                /\ bh[n] = bh[Kid(r, n, s)] + Weight(r, n)
      BY <2>4
    <3> HIDE DEF M
    <3> QED
      BY <1>1, <2>5, <3>1, <3>2, EvenAt
  <2>9. \A n \in N \ M : Color(r, n) = Color(t, n) /\ bh[n] = bh[n]
    BY <1>3, <1>13
  <2> HIDE DEF M
  <2> QED
    BY <1>1, <2>5, <2>7, <2>8, <2>9, EvenAside
<1>15. RedApart(r, N, Null, p)
  <2> SUFFICES ASSUME NEW n \in N, NEW s \in Sides,
                      Color(r, n) = Red, Color(r, Kid(r, n, s)) = Red, Kid(r, n, s) # p
               PROVE  FALSE
    BY DEF RedApart
  <2>1. \A m \in N : \A q \in Sides :
          Color(t, m) = Red /\ Color(t, Kid(t, m, q)) = Red => Kid(t, m, q) = z
    BY <1>1, NoGap DEF RedApart
  <2>2. Color(t, n) = Red
    BY <1>3, <1>13
  <2>3. \A m \in N : \A q \in Sides : Kid(t, m, q) \in D
    BY <1>1, <1>3, AtNode
  <2>4. CASE n = p
    <3>1. Color(t, a) # Red
      BY <1>2, <1>8, <1>11, <2>1
    <3>2. Color(t, i) # Red
      BY <1>1, <1>2, <1>8, <1>11, <2>1
    <3> QED
      BY <1>2, <1>3, <1>4, <1>8, <1>9, <1>13, <2>4, <3>1, <3>2
  <2>5. CASE n = z
    <3>1. Color(t, b) # Red
      BY <1>1, <1>2, <1>4, <1>8, <1>11, <2>1
    <3> QED
      BY <1>2, <1>3, <1>4, <1>8, <1>9, <1>13, <2>5, <3>1
  <2>6. CASE n # p /\ n # z
    <3>1. Kid(t, n, s) # p
      <4>1. Kid(t, n, s) = p => n = g
        BY <1>1, <1>2, <1>3, AtNode
      <4> QED
        BY <1>2, <2>2, <4>1, ColorFacts
    <3>2. Kid(r, n, s) = Kid(t, n, s) /\ Color(t, Kid(t, n, s)) = Red
      BY <1>10, <1>13, <2>3, <2>6, <3>1
    <3>3. Kid(t, n, s) = z
      BY <2>1, <2>2, <3>2
    <3>4. Parent(t, z) = n
      BY <1>1, <1>3, <3>3, AtNode
    <3> QED
      BY <1>2, <2>6, <3>4
  <2> QED
    BY <2>4, <2>5, <2>6
<1>16. Color(r, r.root) = Black
  <2>1. t.root \in N \cup {Sentinel}
    BY <1>1, InTheTree
  <2>2. t.root \in D /\ Color(t, t.root) = Black
    BY <1>1, <1>2, <1>3, <2>1
  <2> QED
    BY <1>7, <1>13, <2>2
<1>17. Inserting(r, D, N, sub2, bh, p)
  BY <1>1, <1>2, <1>3, <1>6, <1>13, <1>14, <1>15, <1>16 DEF Inserting
<1>18. Parent(r, p) = z /\ Parent(r, z) = g
  BY <1>1, <1>2, <1>3, <1>7, <1>8
<1>19. Color(r, z) = Red /\ Color(r, g) = Black /\ Color(r, u) # Red
  BY <1>1, <1>2, <1>3, <1>8, <1>12, <1>13
<1>20. Placed(r, N, p, z, g, side)
  BY <1>1, <1>2, <1>7, <1>9, <1>18, <1>19 DEF Placed
<1> QED
  BY <1>7, <1>9, <1>17, <1>19, <1>20 DEF r, far

\* With a red z outside, its parent goes up in the place and the colour of g.
LEMMA OutsideUp ==
  ASSUME NEW t, NEW D, NEW N, NEW sub, NEW bh, NEW z, Inserting(t, D, N, sub, bh, z),
         NEW p, NEW g, NEW side, Placed(t, N, z, p, g, side), Kid(t, p, side) = z,
         Color(t, Kid(t, g, Other(side))) # Red
  PROVE  LET r == Raised(t, p, g, side)
         IN  /\ \E sub2, bh2 : Inserting(r, D, N, sub2, bh2, z)
             /\ Color(r, Parent(r, z)) = Black
             /\ r.size = t.size /\ SameValues(r, t, D)
<1> DEFINE far == Other(side)
           c == Painted(t, p, Black)
           d == Painted(c, g, Red)
           r == Rotate(d, g, far)
           i == Kid(t, p, far)
           u == Kid(t, g, far)
           sub2 == TurnedSub(sub, d, N, g, far)
<1>1. /\ Shape(t, D, N, sub) /\ Heights(bh, N) /\ Even(t, N, bh, Null, "left")
      /\ z \in N /\ Color(t, z) = Red /\ Color(t, Sentinel) = Black
      /\ RedApart(t, N, Null, z) /\ (Color(t, t.root) = Black \/ t.root = z)
  BY DEF Inserting
<1>2. /\ p \in N /\ g \in N /\ z # p /\ z # g /\ p # g /\ side \in Sides
      /\ Parent(t, z) = p /\ Parent(t, p) = g /\ Kid(t, g, side) = p
      /\ Color(t, p) = Red /\ Color(t, g) = Black /\ p # t.root /\ z # t.root
  BY DEF Placed
<1>3. TreeOn(t, D) /\ N \subseteq D /\ Sentinel \notin N /\ Sentinel \in D
  BY <1>1, InTheTree
<1>4. far \in Sides /\ far # side /\ Other(far) = side
      /\ \A s \in Sides : s = side \/ s = far
  BY <1>2, SideFacts
<1>5. /\ TreeOn(c, D) /\ c.root = t.root /\ c.size = t.size
      /\ SameParents(c, t, D) /\ SameValues(c, t, D) /\ SameKids(c, t, D)
      /\ \A m \in D : Color(c, m) = IF m = p THEN Black ELSE Color(t, m)
  BY <1>2, <1>3, PaintedTree, ColorFacts
<1> HIDE DEF c
<1>6. /\ TreeOn(d, D) /\ d.root = c.root /\ d.size = c.size
      /\ SameParents(d, c, D) /\ SameValues(d, c, D) /\ SameKids(d, c, D)
      /\ \A m \in D : Color(d, m) = IF m = g THEN Red ELSE Color(c, m)
  BY <1>2, <1>3, <1>5, PaintedTree, ColorFacts
<1> HIDE DEF d
<1>7. /\ TreeOn(d, D) /\ d.root = t.root /\ d.size = t.size
      /\ SameParents(d, t, D) /\ SameValues(d, t, D) /\ SameKids(d, t, D)
  BY <1>5, <1>6 DEF SameParents, SameValues, SameKids
<1>8. \A m \in D : Color(d, m) = IF m = g THEN Red ELSE IF m = p THEN Black
                                 ELSE Color(t, m)
  BY <1>5, <1>6
<1>9. Shape(d, D, N, sub)
  BY <1>1, <1>7, ShapeKept
<1>10. \A n \in N : \A s \in Sides : Kid(d, n, s) = Kid(t, n, s)
  BY <1>3, <1>7 DEF SameKids
<1>11. Kid(d, g, Other(far)) = p /\ p # Sentinel /\ Kid(d, p, far) = i
  BY <1>2, <1>3, <1>4, <1>10
<1>12. Turned(r, d, D, N, g, far)
  <2> HIDE DEF far
  <2> QED
    BY <1>2, <1>4, <1>9, <1>11, RotateTurns
<1>13. Shape(r, D, N, sub2)
  <2> HIDE DEF far, r
  <2> QED
    BY <1>2, <1>4, <1>9, <1>11, <1>12, ShapeTurned
<1>14. Raised(t, p, g, side) = r
  BY DEF Raised, c, d
<1> HIDE DEF r, sub2
<1>15. /\ TreeOn(r, D) /\ r.root = (IF g = d.root THEN p ELSE d.root) /\ r.size = d.size
       /\ SameColors(r, d, D) /\ SameValues(r, d, D)
       /\ \A m \in D : Parent(r, m) = IF m = i /\ i # Sentinel THEN g
                                      ELSE IF m = g THEN p
                                      ELSE IF m = p THEN Parent(d, g) ELSE Parent(d, m)
       /\ \A m \in N : \A s \in Sides :
            Kid(r, m, s) = IF m = g /\ s = side THEN i
                           ELSE IF m = p /\ s = far THEN g
                           ELSE IF Kid(d, m, s) = g THEN p ELSE Kid(d, m, s)
  <2> HIDE DEF i, far
  <2> QED
    BY <1>4, <1>11, <1>12 DEF Turned
<1>16. /\ i # z /\ i # p /\ i # g /\ u # p /\ u # g
       /\ i \in N \cup {Sentinel} /\ u \in N \cup {Sentinel}
       /\ (i # Sentinel => Parent(t, i) = p) /\ (u # Sentinel => Parent(t, u) = g)
  <2>1. i # z
    BY <1>1, <1>2, <1>3, <1>4, OneSide
  <2>2. /\ i \in N \cup {Sentinel} /\ i # p /\ (i # Sentinel => Parent(t, i) = p)
    BY <1>1, <1>2, <1>3, <1>4, AtNode
  <2>3. /\ u \in N \cup {Sentinel} /\ u # g /\ (u # Sentinel => Parent(t, u) = g)
    BY <1>1, <1>2, <1>3, <1>4, AtNode
  <2>4. u # p
    BY <1>1, <1>2, <1>3, <1>4, OneSide
  <2>5. i # Sentinel => i \in sub[p]
    <3>1. i # Sentinel => i \in sub[i] /\ sub[i] \subseteq sub[p]
      BY <1>1, <1>2, <1>3, <1>4, AtNode
    <3> QED
      BY <3>1
  <2>6. g \notin sub[p]
    BY <1>1, <1>2, AtNode
  <2> HIDE DEF i, u, far
  <2> QED
    BY <1>2, <1>3, <2>1, <2>2, <2>3, <2>4, <2>5, <2>6
<1>17. Kid(t, p, far) = i /\ Kid(t, g, far) = u
  OBVIOUS
<1> HIDE DEF i, u, far
<1>18. /\ Kid(r, g, side) = i /\ Kid(r, g, far) = u
       /\ Kid(r, p, side) = z /\ Kid(r, p, far) = g
  BY <1>1, <1>2, <1>4, <1>10, <1>15, <1>16, <1>17
<1>19. \A n \in N : n # p /\ n # g => \A s \in Sides :
         Kid(r, n, s) = IF Kid(t, n, s) = g THEN p ELSE Kid(t, n, s)
  BY <1>10, <1>15
<1>20. \A m \in D : Color(r, m) = IF m = g THEN Red ELSE IF m = p THEN Black
                                  ELSE Color(t, m)
  BY <1>8, <1>15 DEF SameColors
<1>21. Color(t, u) # Red
  BY DEF u, far
<1> DEFINE bh2 == [n \in N \cup {Sentinel} |->
                     IF n = g THEN bh[p] ELSE IF n = p THEN bh[g] ELSE bh[n]]
<1>22. Heights(bh2, N)
  BY <1>1, <1>2, <1>3 DEF Heights
<1>23. bh2[g] = bh[p] /\ bh2[p] = bh[g]
       /\ \A n \in N \cup {Sentinel} : n \notin {p, g} => bh2[n] = bh[n]
  BY <1>2
<1> HIDE DEF bh2
<1>24. Even(r, N, bh2, Null, "left")
  <2> DEFINE M == {p, g}
  <2>1. \A n \in N : \A s \in Sides :
          bh[n] = bh[Kid(t, n, s)] + Weight(t, n) /\ bh[Kid(t, n, s)] \in Nat
    BY <1>1, EvenIs
  <2>2. Weight(t, p) = 0 /\ Weight(t, g) = 1 /\ Weight(r, p) = 1 /\ Weight(r, g) = 0
    BY <1>1, <1>2, <1>3, <1>20, ColorFacts DEF Weight
  <2>3. /\ bh[g] = bh[p] + 1 /\ bh[p] = bh[z] /\ bh[p] = bh[i] /\ bh[u] = bh[p]
        /\ bh[p] \in Nat
    <3>1. bh[g] = bh[p] + 1 /\ bh[p] \in Nat
      BY <1>2, <2>1, <2>2
    <3>2. bh[g] = bh[u] + 1 /\ bh[u] \in Nat
      BY <1>2, <1>4, <1>17, <2>1, <2>2
    <3>3. bh[p] = bh[z] + 0 /\ bh[z] \in Nat /\ bh[p] = bh[i] + 0 /\ bh[i] \in Nat
      BY <1>2, <1>4, <1>17, <2>1, <2>2
    <3> QED
      BY <3>1, <3>2, <3>3
  <2>4. bh2[z] = bh[p] /\ bh2[i] = bh[p] /\ bh2[u] = bh[p]
    BY <1>1, <1>2, <1>16, <1>23, <2>3
  <2>5. \A s \in Sides :
          /\ bh2[Kid(r, p, s)] = bh[p] /\ bh2[p] = bh[p] + 1
          /\ bh2[Kid(r, g, s)] = bh[p] /\ bh2[g] = bh[p]
    BY <1>4, <1>18, <1>23, <2>3, <2>4
  <2>6. M \subseteq N
    BY <1>2
  <2>7. Aside(d, N, M, g, bh, bh2)
    <3>1. Parent(d, p) = g
      BY <1>2, <1>3, <1>7 DEF SameParents
    <3> QED
      BY <1>2, <1>23, <2>6, <3>1 DEF Aside
  <2>8. \A n \in N \ M : \A s \in Sides : bh2[Kid(r, n, s)] = bh[Kid(d, n, s)]
    <3>1. /\ Kid(d, g, Other(far)) # Sentinel /\ Kid(d, g, Other(far)) \in M
          /\ bh2[Kid(d, g, Other(far))] = bh[g]
      BY <1>11, <1>23
    <3> HIDE DEF M
    <3> QED
      BY <1>2, <1>4, <1>9, <1>12, <2>7, <3>1, AsideTurned
  <2>9. \A n \in N \ M : \A s \in Sides : bh2[Kid(r, n, s)] = bh[Kid(t, n, s)]
    BY <1>10, <2>8
  <2>10. Even(r, M, bh2, Null, "left")
    <3>1. \A n \in M : Weight(r, n) \in {0, 1}
      BY <2>2
    <3>2. \A n \in M : \A s \in Sides : bh2[Kid(r, n, s)] \in Nat
                                /\ bh2[n] = bh2[Kid(r, n, s)] + Weight(r, n)
      BY <2>2, <2>3, <2>5
    <3> HIDE DEF M
    <3> QED
      BY <1>1, <2>6, <3>1, <3>2, EvenAt
  <2>11. \A n \in N \ M : Color(r, n) = Color(t, n) /\ bh2[n] = bh[n]
    BY <1>3, <1>20, <1>23
  <2> HIDE DEF M
  <2> QED
    BY <1>1, <2>6, <2>9, <2>10, <2>11, EvenAside
<1>25. RedApart(r, N, Null, z)
  <2> SUFFICES ASSUME NEW n \in N, NEW s \in Sides,
                      Color(r, n) = Red, Color(r, Kid(r, n, s)) = Red, Kid(r, n, s) # z
               PROVE  FALSE
    BY DEF RedApart
  <2>1. \A m \in N : \A q \in Sides :
          Color(t, m) = Red /\ Color(t, Kid(t, m, q)) = Red => Kid(t, m, q) = z
    BY <1>1, NoGap DEF RedApart
  <2>2. n # p
    BY <1>2, <1>3, <1>20, ColorFacts
  <2>3. \A m \in N : \A q \in Sides : Kid(t, m, q) \in D
    BY <1>1, <1>3, AtNode
  <2>4. CASE n = g
    <3>1. Color(t, i) # Red
      BY <1>2, <1>4, <1>16, <1>17, <2>1
    <3>2. i \in D /\ u \in D
      BY <1>3, <1>16
    <3>3. Color(r, i) # Red /\ Color(r, u) # Red
      BY <1>16, <1>20, <1>21, <3>1, <3>2
    <3> QED
      BY <1>4, <1>18, <2>4, <3>3
  <2>5. CASE n # g
    <3>1. Kid(t, n, s) # g
      <4>1. Kid(t, n, s) = g => Kid(r, n, s) = p
        BY <1>19, <2>2, <2>5
      <4> QED
        BY <1>2, <1>3, <1>20, <4>1, ColorFacts
    <3>2. Kid(r, n, s) = Kid(t, n, s)
      BY <1>19, <2>2, <2>5, <3>1
    <3>3. Color(t, Kid(t, n, s)) = Red
      BY <1>20, <2>3, <3>1, <3>2, ColorFacts
    <3>4. Color(t, n) = Red
      BY <1>3, <1>20, <2>2, <2>5
    <3> QED
      BY <2>1, <3>2, <3>3, <3>4
  <2> QED
    BY <2>4, <2>5
<1>26. Color(r, r.root) = Black
  <2>1. t.root \in N \cup {Sentinel}
    BY <1>1, InTheTree
  <2>2. t.root \in D /\ Color(t, t.root) = Black
    BY <1>1, <1>2, <1>3, <2>1
  <2> QED
    BY <1>2, <1>3, <1>7, <1>15, <1>20, <2>2
<1>27. Color(r, z) = Red /\ Color(r, Sentinel) = Black
  BY <1>1, <1>2, <1>3, <1>20
<1>28. Inserting(r, D, N, sub2, bh2, z)
  BY <1>1, <1>13, <1>22, <1>24, <1>25, <1>26, <1>27 DEF Inserting
<1>29. Color(r, Parent(r, z)) = Black
  <2>1. Parent(r, z) = Parent(d, z) /\ Parent(d, z) = p
    BY <1>1, <1>2, <1>3, <1>7, <1>15, <1>16 DEF SameParents
  <2> QED
    BY <1>2, <1>3, <1>20, <2>1
<1>30. r.size = t.size /\ SameValues(r, t, D)
  BY <1>7, <1>15 DEF SameValues
<1> QED
  BY <1>14, <1>28, <1>29, <1>30

\* The nodes above a node, itself included: there is one less above any of them.
Over(N, sub, z) == {m \in N : z \in sub[m]}

LEMMA Higher ==
  ASSUME NEW t, NEW D, NEW N, NEW sub, Shape(t, D, N, sub),
         NEW z \in N, NEW g \in N, z \in sub[g], z # g
  PROVE  /\ Cardinality(Over(N, sub, z)) \in Nat /\ Cardinality(Over(N, sub, g)) \in Nat
         /\ Cardinality(Over(N, sub, g)) < Cardinality(Over(N, sub, z))
<1>1. IsFiniteSet(N)
  BY NodesAreInts
<1>2. Over(N, sub, z) \subseteq N /\ Over(N, sub, g) \subseteq N
  BY DEF Over
<1>3. IsFiniteSet(Over(N, sub, z)) /\ IsFiniteSet(Over(N, sub, g))
  BY <1>1, <1>2, FS_Subset
<1>4. Over(N, sub, g) \subseteq Over(N, sub, z)
  <2> SUFFICES ASSUME NEW m \in N, g \in sub[m] PROVE z \in sub[m]
    BY DEF Over
  <2>1. sub[g] \subseteq sub[m]
    BY Nested
  <2> QED
    BY <2>1
<1>5. z \in Over(N, sub, z) /\ z \notin Over(N, sub, g)
  <2>1. z \in sub[z]
    BY AtNode, SideFacts
  <2>2. g \notin sub[z]
    BY NoCycle
  <2> QED
    BY <2>1, <2>2 DEF Over
<1> QED
  BY <1>3, <1>4, <1>5, FS_Subset, FS_CardinalityType

LEMMA OverTypes ==
  ASSUME NEW t, NEW D, NEW N, NEW sub, Shape(t, D, N, sub), NEW z \in N
  PROVE  /\ Cardinality(Over(N, sub, z)) \in Nat /\ Cardinality(N) \in Nat
         /\ 1 <= Cardinality(Over(N, sub, z)) /\ Cardinality(Over(N, sub, z)) <= Cardinality(N)
<1>1. IsFiniteSet(N)
  BY NodesAreInts
<1>2. Over(N, sub, z) \subseteq N
  BY DEF Over
<1>3. IsFiniteSet(Over(N, sub, z)) /\ Cardinality(Over(N, sub, z)) <= Cardinality(N)
      /\ Cardinality(Over(N, sub, z)) \in Nat /\ Cardinality(N) \in Nat
  BY <1>1, <1>2, FS_Subset, FS_CardinalityType
<1>4. z \in Over(N, sub, z)
  BY AtNode, SideFacts DEF Over
<1>5. Cardinality(Over(N, sub, z)) # 0
  BY <1>3, <1>4, FS_EmptySet
<1> QED
  BY <1>3, <1>5

\* A tree with nothing left to do.
Good(t, D, N, sub, bh) ==
  /\ Shape(t, D, N, sub) /\ Heights(bh, N) /\ Even(t, N, bh, Null, "left")
  /\ Color(t, Sentinel) = Black /\ Color(t, t.root) = Black
  /\ RedApart(t, N, Null, Null)

Kept(r, t, D) == r.size = t.size /\ SameValues(r, t, D)

-----------------------------------------------------------------------------
\* The rounds of the two loops.

Round(kind, b) ==
  IF kind = "insert"
  THEN IF Color(b.tree, Parent(b.tree, b.at)) = Black THEN b
       ELSE InsertRound(b.tree, b.at)
  ELSE IF b.at = b.tree.root \/ Color(b.tree, b.at) = Red THEN b
       ELSE DeleteRound(b.tree, b.at)

RoundsOf(kind, n, b) ==
  CHOOSE f : f = [i \in 0..n |-> IF i = 0 THEN b ELSE Round(kind, f[i - 1])]

LEMMA RoundsFacts ==
  ASSUME NEW kind, NEW n \in Nat, NEW b
  PROVE  LET f == RoundsOf(kind, n, b)
         IN  f[0] = b /\ \A i \in 1..n : f[i] = Round(kind, f[i - 1])
<1> DEFINE Run(f, m) == f = [i \in 0..m |-> IF i = 0 THEN b ELSE Round(kind, f[i - 1])]
           A == {m \in 0..n : \E f : Run(f, m)}
<1>1. 0 \in A
  <2> DEFINE f == [i \in 0..0 |-> b]
  <2>1. Run(f, 0)
    OBVIOUS
  <2>2. 0 \in 0..n
    OBVIOUS
  <2> HIDE DEF f, Run
  <2> QED
    BY <2>1, <2>2
<1>2. ASSUME NEW m \in 1..n, m - 1 \in A PROVE m \in A
  <2>1. PICK f : Run(f, m - 1)
    BY <1>2
  <2> DEFINE g == [i \in 0..m |-> IF i = m THEN Round(kind, f[m - 1]) ELSE f[i]]
  <2>2. ASSUME NEW i \in 0..m
        PROVE  g[i] = IF i = 0 THEN b ELSE Round(kind, g[i - 1])
    <3>1. f[0] = b /\ g[0] = f[0]
      <4>1. 0 \in 0..(m - 1) /\ 0 \in 0..m /\ 0 # m
        OBVIOUS
      <4> QED
        BY <2>1, <4>1
    <3>2. CASE i = m
      <4>1. m # 0 /\ m - 1 \in 0..m /\ m - 1 # m
        OBVIOUS
      <4>2. g[m - 1] = f[m - 1]
        BY <4>1
      <4> QED
        BY <3>2, <4>1, <4>2
    <3>3. CASE i # m /\ i # 0
      <4>1. i \in 0..(m - 1) /\ i - 1 \in 0..m /\ i - 1 # m
        BY <3>3
      <4>2. g[i] = f[i] /\ g[i - 1] = f[i - 1]
        BY <3>3, <4>1
      <4>3. f[i] = Round(kind, f[i - 1])
        BY <2>1, <3>3, <4>1
      <4> QED
        BY <3>3, <4>2, <4>3
    <3> HIDE DEF g
    <3> QED
      BY <3>1, <3>2, <3>3
  <2>3. g = [i \in 0..m |-> g[i]]
    OBVIOUS
  <2> HIDE DEF g
  <2>4. Run(g, m)
    BY <2>2, <2>3
  <2> QED
    BY <2>4
<1> HIDE DEF A
<1>3. n \in A
  <2>1. 0..n \subseteq A
    BY <1>1, <1>2, Induction
  <2> QED
    BY <2>1
<1>4. \E f : Run(f, n)
  BY <1>3 DEF A
<1>5. Run(RoundsOf(kind, n, b), n)
  BY <1>4 DEF RoundsOf
<1> DEFINE f == RoundsOf(kind, n, b)
<1> HIDE DEF f
<1>6. f = [i \in 0..n |-> IF i = 0 THEN b ELSE Round(kind, f[i - 1])]
  BY <1>5 DEF f
<1>7. f[0] = b /\ \A i \in 1..n : f[i] = Round(kind, f[i - 1])
  <2>1. 0 \in 0..n /\ \A i \in 1..n : i \in 0..n /\ i # 0
    OBVIOUS
  <2> QED
    BY <1>6, <2>1
<1> QED
  BY <1>7 DEF f

LEMMA RebalanceIs ==
  ASSUME NEW t, NEW z, Cardinality(Live(t)) \in Nat
  PROVE  LET n == Cardinality(Live(t))
             r == RoundsOf("insert", n, [tree |-> t, at |-> z])[n]
             d == RoundsOf("delete", n, [tree |-> t, at |-> z])[n]
         IN  /\ RebalanceAfterInsert(t, z) = Painted(r.tree, r.tree.root, Black)
             /\ RebalanceAfterDelete(t, z) = Painted(d.tree, d.at, Black)
<1>1. "insert" # "delete"
  OBVIOUS
<1> QED
  BY DEF RebalanceAfterInsert, RebalanceAfterDelete, RoundsOf, Round

InsertAt(b, t0, D, N, i) ==
  /\ \E sub, bh :
       /\ Inserting(b.tree, D, N, sub, bh, b.at)
       /\ \/ Color(b.tree, Parent(b.tree, b.at)) = Black
          \/ Cardinality(Over(N, sub, b.at)) + i <= Cardinality(N)
  /\ Kept(b.tree, t0, D)

LEMMA KeptTwice ==
  ASSUME NEW r, NEW t, NEW u, NEW D, Kept(r, t, D), Kept(t, u, D)
  PROVE  Kept(r, u, D)
BY DEF Kept, SameValues

LEMMA InsertRoundIs ==
  ASSUME NEW t, NEW z, NEW p, NEW g, NEW side,
         p = Parent(t, z), g = Parent(t, p), side = SideOf(t, p)
  PROVE  LET u == Kid(t, g, Other(side))
         IN  /\ Color(t, u) = Red =>
                  InsertRound(t, z) =
                    [tree |-> Painted(Painted(Painted(t, p, Black), u, Black), g, Red),
                     at   |-> g]
             /\ Color(t, u) # Red /\ z = Kid(t, p, Other(side)) =>
                  InsertRound(t, z) =
                    [tree |-> Raised(Rotate(t, p, side), z, g, side), at |-> p]
             /\ Color(t, u) # Red /\ z # Kid(t, p, Other(side)) =>
                  InsertRound(t, z) = [tree |-> Raised(t, p, g, side), at |-> z]
BY DEF InsertRound, Kid

LEMMA RoundInsert ==
  ASSUME NEW b, NEW t0, NEW D, NEW N, NEW i \in Nat \ {0}, InsertAt(b, t0, D, N, i - 1)
  PROVE  InsertAt(Round("insert", b), t0, D, N, i)
<1> DEFINE t == b.tree
           z == b.at
           p == Parent(t, z)
           g == Parent(t, p)
           side == SideOf(t, p)
           u == Kid(t, g, Other(side))
           c == Round("insert", b)
<1>1. PICK sub, bh :
        /\ Inserting(t, D, N, sub, bh, z)
        /\ \/ Color(t, p) = Black
           \/ Cardinality(Over(N, sub, z)) + (i - 1) <= Cardinality(N)
  BY DEF InsertAt
<1>2. Kept(t, t0, D)
  BY DEF InsertAt
<1>3. CASE Color(t, p) = Black
  <2>1. c = b
    BY <1>3 DEF Round
  <2> QED
    BY <1>1, <1>2, <1>3, <2>1 DEF InsertAt
<1>4. CASE Color(t, p) # Black
  <2>1. c = InsertRound(t, z)
    BY <1>4 DEF Round
  <2> HIDE DEF c
  <2>2. Placed(t, N, z, p, g, side)
    <3> HIDE DEF t, z
    <3> QED
      BY <1>1, <1>4, InsertPlace
  <2>3. Shape(t, D, N, sub)
    BY <1>1 DEF Inserting
  <2>4. /\ Color(t, u) = Red =>
             c = [tree |-> Painted(Painted(Painted(t, p, Black), u, Black), g, Red),
                  at   |-> g]
        /\ Color(t, u) # Red /\ z = Kid(t, p, Other(side)) =>
             c = [tree |-> Raised(Rotate(t, p, side), z, g, side), at |-> p]
        /\ Color(t, u) # Red /\ z # Kid(t, p, Other(side)) =>
             c = [tree |-> Raised(t, p, g, side), at |-> z]
    <3> HIDE DEF t, z, p, g, side
    <3>1. p = Parent(t, z) /\ g = Parent(t, p) /\ side = SideOf(t, p)
      BY DEF p, g, side
    <3> QED
      BY <2>1, <3>1, InsertRoundIs
  <2> HIDE DEF t, z, p, g, side
  <2>5. CASE Color(t, u) = Red
    <3> DEFINE r == Painted(Painted(Painted(t, p, Black), u, Black), g, Red)
    <3>1. c = [tree |-> r, at |-> g]
      BY <2>4, <2>5
    <3>2. (\E bh2 : Inserting(r, D, N, sub, bh2, g)) /\ r.size = t.size /\ SameValues(r, t, D)
      BY <1>1, <2>2, <2>5, UncleRed
    <3> HIDE DEF r
    <3>3. c.tree = r /\ c.at = g
      BY <3>1
    <3>4. Cardinality(Over(N, sub, g)) + i <= Cardinality(N)
      <4>1. p \in N /\ g \in N /\ z # g /\ \E s \in Sides : Kid(t, p, s) = z
        BY <2>2 DEF Placed
      <4>2. z \in N /\ z # Sentinel
        BY <1>1, <2>3, NodesAreInts DEF Inserting
      <4>3. z \in sub[p]
        BY <2>3, <4>1, <4>2, AtNode
      <4>4. p \in sub[g]
        <5>1. p # Sentinel /\ Kid(t, g, side) = p /\ side \in Sides
          BY <2>2, <2>3, NodesAreInts DEF Placed
        <5> QED
          BY <2>3, <4>1, <5>1, AtNode
      <4>5. z \in sub[g]
        BY <2>3, <4>1, <4>3, <4>4, Nested
      <4>6. /\ Cardinality(Over(N, sub, z)) \in Nat /\ Cardinality(Over(N, sub, g)) \in Nat
            /\ Cardinality(Over(N, sub, g)) < Cardinality(Over(N, sub, z))
        BY <2>3, <4>1, <4>2, <4>5, Higher
      <4>7. Cardinality(N) \in Nat
        BY <2>3, <4>1, OverTypes
      <4> QED
        BY <1>1, <1>4, <4>6, <4>7
    <3>5. Kept(r, t0, D)
      BY <1>2, <3>2, KeptTwice DEF Kept
    <3>8. InsertAt(c, t0, D, N, i)
      BY <3>2, <3>3, <3>4, <3>5 DEF InsertAt
    <3> QED
      BY <3>8 DEF c
  <2>6. CASE Color(t, u) # Red /\ z = Kid(t, p, Other(side))
    <3> DEFINE r1 == Rotate(t, p, side)
               r == Raised(r1, z, g, side)
    <3>1. c = [tree |-> r, at |-> p]
      BY <2>4, <2>6
    <3>2. /\ \E sub2 : Inserting(r1, D, N, sub2, bh, p)
          /\ Placed(r1, N, p, z, g, side) /\ Kid(r1, z, side) = p
          /\ Color(r1, Kid(r1, g, Other(side))) # Red
          /\ r1.size = t.size /\ SameValues(r1, t, D)
      BY <1>1, <2>2, <2>6, InsideUp
    <3> HIDE DEF r1
    <3>3. PICK sub2 : Inserting(r1, D, N, sub2, bh, p)
      BY <3>2
    <3>4. /\ \E sub3, bh3 : Inserting(r, D, N, sub3, bh3, p)
          /\ Color(r, Parent(r, p)) = Black
          /\ r.size = r1.size /\ SameValues(r, r1, D)
      BY <3>2, <3>3, OutsideUp
    <3> HIDE DEF r
    <3>5. c.tree = r /\ c.at = p
      BY <3>1
    <3>6. Kept(r, t0, D)
      BY <1>2, <3>2, <3>4, KeptTwice DEF Kept
    <3>8. InsertAt(c, t0, D, N, i)
      BY <3>4, <3>5, <3>6 DEF InsertAt
    <3> QED
      BY <3>8 DEF c
  <2>7. CASE Color(t, u) # Red /\ z # Kid(t, p, Other(side))
    <3> DEFINE r == Raised(t, p, g, side)
    <3>1. c = [tree |-> r, at |-> z]
      BY <2>4, <2>7
    <3>2. Kid(t, p, side) = z
      BY <2>2, <2>7, SideFacts DEF Placed
    <3>3. /\ \E sub3, bh3 : Inserting(r, D, N, sub3, bh3, z)
          /\ Color(r, Parent(r, z)) = Black
          /\ r.size = t.size /\ SameValues(r, t, D)
      BY <1>1, <2>2, <2>7, <3>2, OutsideUp
    <3> HIDE DEF r
    <3>4. c.tree = r /\ c.at = z
      BY <3>1
    <3>5. Kept(r, t0, D)
      BY <1>2, <3>3, KeptTwice DEF Kept
    <3>8. InsertAt(c, t0, D, N, i)
      BY <3>3, <3>4, <3>5 DEF InsertAt
    <3> QED
      BY <3>8 DEF c
  <2> QED
    BY <2>5, <2>6, <2>7
<1> QED
  BY <1>3, <1>4

\* Painting the root black, which is no node's child.
LEMMA RootBlack ==
  ASSUME NEW t, NEW D, NEW N, NEW sub, NEW bh, Shape(t, D, N, sub), Heights(bh, N),
         Even(t, N, bh, Null, "left"), Color(t, Sentinel) = Black,
         RedApart(t, N, Null, Null) \/ RedApart(t, N, t.root, t.root)
  PROVE  LET r == Painted(t, t.root, Black)
         IN  (\E bh2 : Good(r, D, N, sub, bh2)) /\ Kept(r, t, D)
<1> DEFINE x == t.root
           r == Painted(t, x, Black)
<1>1. /\ TreeOn(t, D) /\ N \subseteq D /\ Sentinel \notin N /\ Sentinel \in D
      /\ x \in N \cup {Sentinel} /\ x \in D
  <2>1. TreeOn(t, D) /\ N \subseteq D /\ Sentinel \notin N /\ Sentinel \in D
    BY InTheTree
  <2>2. x \in N \cup {Sentinel}
    BY InTheTree
  <2> QED
    BY <2>1, <2>2
<1>2. /\ TreeOn(r, D) /\ r.root = t.root /\ r.size = t.size
      /\ SameParents(r, t, D) /\ SameValues(r, t, D) /\ SameKids(r, t, D)
      /\ \A m \in D : Color(r, m) = IF m = x THEN Black ELSE Color(t, m)
  <2> HIDE DEF x
  <2> QED
    BY <1>1, PaintedTree, ColorFacts
<1> HIDE DEF r
<1>3. Shape(r, D, N, sub)
  BY <1>2, ShapeKept
<1> DEFINE bh2 == [n \in N \cup {Sentinel} |->
                    IF n = x THEN bh[n] + 1 - Weight(t, n) ELSE bh[n]]
<1>4. \A n \in N \cup {Sentinel} : Weight(t, n) \in {0, 1} /\ bh[n] \in Nat \ {0}
  BY DEF Weight, Heights
<1>5. Weight(t, Sentinel) = 1 /\ bh[Sentinel] = 1
  BY DEF Weight, Heights
<1>6. /\ Heights(bh2, N) /\ \A n \in N \cup {Sentinel} : n # x => bh2[n] = bh[n]
      /\ x \in N => bh2[x] = bh[x] + 1 - Weight(t, x)
  <2>1. \A n \in N \cup {Sentinel} :
          IF n = x THEN bh[n] + 1 - Weight(t, n) \in Nat \ {0} ELSE bh[n] \in Nat \ {0}
    BY <1>4
  <2>2. bh2 \in [N \cup {Sentinel} -> Nat \ {0}]
    BY <2>1
  <2>3. bh2[Sentinel] = 1
    BY <1>5
  <2> QED
    BY <2>2, <2>3 DEF Heights
<1> HIDE DEF bh2
<1>7. \A n \in N : \A s \in Sides :
        /\ Kid(r, n, s) = Kid(t, n, s) /\ Kid(t, n, s) \in N \cup {Sentinel}
        /\ (Kid(t, n, s) = x => x = Sentinel)
  <2>1. \A n \in N : \A s \in Sides : Kid(t, n, s) \in N \cup {Sentinel}
    BY AtNode
  <2>2. \A n \in N : \A s \in Sides : Kid(r, n, s) = Kid(t, n, s)
    BY <1>1, <1>2 DEF SameKids
  <2>3. \A n \in N : \A s \in Sides : Kid(t, n, s) = x => x = Sentinel
    BY OneSide
  <2> QED
    BY <2>1, <2>2, <2>3
<1>8. bh2[Sentinel] = 1
  BY <1>6 DEF Heights
<1>9. Even(r, N, bh2, Null, "left")
  <2>1. \A n \in N : \A s \in Sides : bh[n] = bh[Kid(t, n, s)] + Weight(t, n)
    BY EvenIs
  <2>2. \A n \in N : \A s \in Sides : bh2[Kid(r, n, s)] = bh[Kid(t, n, s)]
    BY <1>5, <1>6, <1>7, <1>8
  <2>3. \A n \in N : Weight(r, n) = IF n = x THEN 1 ELSE Weight(t, n)
    BY <1>1, <1>2 DEF Weight
  <2>4. \A n \in N : \A s \in Sides : bh2[Kid(r, n, s)] \in Nat
    BY <1>4, <1>7, <2>2
  <2>5. \A n \in N : Weight(r, n) \in {0, 1}
    BY <1>4, <2>3
  <2>6. \A n \in N : \A s \in Sides : bh2[n] = bh2[Kid(r, n, s)] + Weight(r, n)
    <3> SUFFICES ASSUME NEW n \in N, NEW s \in Sides
                 PROVE  bh2[n] = bh2[Kid(r, n, s)] + Weight(r, n)
      OBVIOUS
    <3>1. CASE n = x
      <4>1. bh2[n] = bh[n] + 1 - Weight(t, n) /\ Weight(r, n) = 1
        BY <1>6, <2>3, <3>1
      <4>2. bh[n] = bh2[Kid(r, n, s)] + Weight(t, n)
        BY <2>1, <2>2
      <4> QED
        BY <1>4, <2>4, <4>1, <4>2
    <3>2. CASE n # x
      BY <1>6, <2>1, <2>2, <2>3, <3>2
    <3> QED
      BY <3>1, <3>2
  <2> QED
    BY <1>3, <1>6, <2>4, <2>5, <2>6, EvenAt
<1>10. RedApart(r, N, Null, Null)
  <2> SUFFICES ASSUME NEW n \in N, NEW s \in Sides,
                      Color(r, n) = Red, Color(r, Kid(r, n, s)) = Red
               PROVE  FALSE
    BY DEF RedApart
  <2>1. Kid(t, n, s) \in D /\ Kid(r, n, s) = Kid(t, n, s)
    BY <1>1, <1>7
  <2>2. n # x /\ Kid(t, n, s) # x /\ Color(t, n) = Red /\ Color(t, Kid(t, n, s)) = Red
    BY <1>1, <1>2, <2>1, ColorFacts
  <2>3. Kid(t, n, s) # Sentinel /\ n # Null
    BY <2>2, NoGap, ColorFacts
  <2>4. Kid(t, n, s) # Null
    BY <1>7, <2>3, NoGap
  <2> QED
    BY <2>2, <2>3, <2>4 DEF RedApart
<1>11. Color(r, Sentinel) = Black /\ Color(r, r.root) = Black
  BY <1>1, <1>2
<1>12. Good(r, D, N, sub, bh2) /\ Kept(r, t, D)
  BY <1>2, <1>3, <1>6, <1>9, <1>10, <1>11 DEF Good, Kept
<1> QED
  BY <1>12 DEF r

\* A red leaf z was linked to a red-black tree of the nodes N, which may leave a red
\* node below a red one: the loop of rebalance_after_insert makes it a red-black tree
\* of the same nodes, in the same order and with their values.
THEOREM RebalancedInsert ==
  ASSUME NEW t, NEW D, NEW N, NEW sub, NEW bh, NEW z, Inserting(t, D, N, sub, bh, z),
         Live(t) = N
  PROVE  LET r == RebalanceAfterInsert(t, z)
         IN  (\E sub2, bh2 : Good(r, D, N, sub2, bh2)) /\ Kept(r, t, D)
<1>1. Shape(t, D, N, sub) /\ z \in N
  BY DEF Inserting
<1>2. Cardinality(N) \in Nat /\ Cardinality(Over(N, sub, z)) <= Cardinality(N)
      /\ Cardinality(Over(N, sub, z)) \in Nat
  BY <1>1, OverTypes
<1> DEFINE n == Cardinality(N)
           b == [tree |-> t, at |-> z]
           f == RoundsOf("insert", n, b)
           A == {i \in 0..n : InsertAt(f[i], t, D, N, i)}
<1>3. f[0] = b /\ \A i \in 1..n : f[i] = Round("insert", f[i - 1])
  BY <1>2, RoundsFacts
<1> HIDE DEF f
<1>4. 0 \in A
  <2>1. Cardinality(Over(N, sub, z)) + 0 <= Cardinality(N)
    BY <1>2
  <2>2. b.tree = t /\ b.at = z
    OBVIOUS
  <2>3. Kept(t, t, D)
    BY DEF Kept, SameValues
  <2> HIDE DEF b
  <2>4. InsertAt(b, t, D, N, 0)
    BY <2>1, <2>2, <2>3 DEF InsertAt
  <2> QED
    BY <1>2, <1>3, <2>4
<1>5. ASSUME NEW i \in 1..n, i - 1 \in A PROVE i \in A
  <2>1. InsertAt(f[i - 1], t, D, N, i - 1) /\ i \in Nat \ {0} /\ i \in 0..n
    BY <1>5
  <2>2. InsertAt(Round("insert", f[i - 1]), t, D, N, i)
    BY <2>1, RoundInsert
  <2> QED
    BY <1>3, <2>1, <2>2
<1>6. InsertAt(f[n], t, D, N, n)
  <2> HIDE DEF A
  <2>1. 0..n \subseteq A
    BY <1>2, <1>4, <1>5, Induction
  <2>2. n \in A
    BY <1>2, <2>1
  <2> QED
    BY <2>2 DEF A
<1> DEFINE e == f[n].tree
           y == f[n].at
<1>7. PICK sub2, bh2 :
        /\ Inserting(e, D, N, sub2, bh2, y)
        /\ \/ Color(e, Parent(e, y)) = Black
           \/ Cardinality(Over(N, sub2, y)) + n <= Cardinality(N)
  BY <1>6 DEF InsertAt
<1>8. Kept(e, t, D)
  BY <1>6 DEF InsertAt
<1>9. RebalanceAfterInsert(t, z) = Painted(e, e.root, Black)
  BY <1>2, RebalanceIs DEF f
<1> HIDE DEF e, y
<1>10. /\ Shape(e, D, N, sub2) /\ Heights(bh2, N) /\ Even(e, N, bh2, Null, "left")
       /\ y \in N /\ Color(e, Sentinel) = Black /\ RedApart(e, N, Null, y)
  BY <1>7 DEF Inserting
<1>11. Color(e, Parent(e, y)) = Black
  <2>1. 1 <= Cardinality(Over(N, sub2, y)) /\ Cardinality(Over(N, sub2, y)) \in Nat
    BY <1>10, OverTypes
  <2> QED
    BY <1>2, <1>7, <2>1
<1>12. RedApart(e, N, Null, Null)
  <2> SUFFICES ASSUME NEW m \in N, NEW s \in Sides,
                      Color(e, m) = Red, Color(e, Kid(e, m, s)) = Red
               PROVE  FALSE
    BY DEF RedApart
  <2>1. Kid(e, m, s) = y
    BY <1>10, NoGap DEF RedApart
  <2>2. y # Sentinel
    BY <1>10, NodesAreInts
  <2>3. Parent(e, y) = m
    BY <1>10, <2>1, <2>2, AtNode
  <2> QED
    BY <1>11, <2>3, ColorFacts
<1>13. (\E bh3 : Good(Painted(e, e.root, Black), D, N, sub2, bh3))
       /\ Kept(Painted(e, e.root, Black), e, D)
  BY <1>10, <1>12, RootBlack
<1> QED
  BY <1>8, <1>9, <1>13, KeptTwice

-----------------------------------------------------------------------------
\* The rebalancing of a removal: x, the child of P on the side S, is short of a
\* black node.  Only x and a child or the parent of it may both be red.

Deleting(t, D, N, sub, bh, x, P, S) ==
  /\ Shape(t, D, N, sub) /\ Heights(bh, N) /\ Even(t, N, bh, P, S)
  /\ P \in N /\ S \in Sides /\ Kid(t, P, S) = x /\ Parent(t, x) = P
  /\ Color(t, Sentinel) = Black /\ Color(t, t.root) = Black
  /\ RedApart(t, N, x, x)

\* What the loop ends with, but for the colour of the root.
Topped(t, D, N, sub, bh) ==
  /\ Shape(t, D, N, sub) /\ Heights(bh, N) /\ Even(t, N, bh, Null, "left")
  /\ Color(t, Sentinel) = Black /\ RedApart(t, N, t.root, t.root)

LEMMA EvenMoved ==
  ASSUME NEW t, NEW N, NEW bh, NEW P, NEW S, Even(t, N, bh, P, S),
         NEW r, NEW M, M \subseteq N, NEW bh2, NEW P2, NEW S2,
         \A n \in N \ M : \A s \in Sides : Gap(n, s, P, S) = Gap(n, s, P2, S2),
         \A n \in N \ M : Color(r, n) = Color(t, n) /\ bh2[n] = bh[n],
         \A n \in N \ M : \A s \in Sides : bh2[Kid(r, n, s)] = bh[Kid(t, n, s)],
         Even(r, M, bh2, P2, S2)
  PROVE  Even(r, N, bh2, P2, S2)
<1> SUFFICES ASSUME NEW n \in N \ M, NEW s \in Sides
             PROVE  bh2[n] = bh2[Kid(r, n, s)] + Weight(r, n) + Gap(n, s, P2, S2)
  BY DEF Even
<1>1. bh[n] = bh[Kid(t, n, s)] + Weight(t, n) + Gap(n, s, P, S)
  BY DEF Even
<1>2. Weight(r, n) = Weight(t, n)
  BY DEF Weight
<1> QED
  BY <1>1, <1>2

\* The sibling of a black x, and the heights around it.
LEMMA Shortage ==
  ASSUME NEW t, NEW D, NEW N, NEW sub, NEW bh, NEW x, NEW P, NEW S,
         Deleting(t, D, N, sub, bh, x, P, S), Color(t, x) = Black
  PROVE  LET s == Kid(t, P, Other(S))
         IN  /\ TreeOn(t, D) /\ N \subseteq D /\ Sentinel \notin N /\ Sentinel \in D
             /\ x \in N \cup {Sentinel} /\ x # P /\ x # s /\ SideOf(t, x) = S
             /\ s \in N /\ s # P /\ Parent(t, s) = P /\ s # t.root /\ x # t.root
             /\ t.root \in N /\ P # Null
             /\ bh[x] \in Nat \ {0} /\ bh[s] = bh[x] + 1
             /\ bh[P] = bh[x] + 1 + Weight(t, P)
             /\ \A n \in N : n # P => \A q \in Sides :
                  bh[Kid(t, n, q)] \in Nat /\ bh[n] = bh[Kid(t, n, q)] + Weight(t, n)
             /\ \A n \in N : \A q \in Sides :
                  ~(Color(t, n) = Red /\ Color(t, Kid(t, n, q)) = Red)
<1> USE DEF Deleting
<1> DEFINE far == Other(S)
           s == Kid(t, P, far)
<1>1. TreeOn(t, D) /\ N \subseteq D /\ Sentinel \notin N /\ Sentinel \in D
      /\ P \in N /\ Shape(t, D, N, sub)
  BY InTheTree
<1>2. /\ far \in Sides /\ far # S /\ Other(far) = S
      /\ \A q \in Sides : q = S \/ q = far
  BY SideFacts
<1>3. x \in N \cup {Sentinel} /\ x # P /\ s \in N \cup {Sentinel} /\ s # P
  <2>1. x \in N \cup {Sentinel} /\ (x # Sentinel => x # P)
    BY <1>1, AtNode
  <2>2. s \in N \cup {Sentinel} /\ (s # Sentinel => s # P)
    BY <1>1, <1>2, AtNode
  <2> QED
    BY <1>1, <2>1, <2>2
<1> HIDE DEF s, far
<1>4. \A n \in N \cup {Sentinel} : bh[n] \in Nat \ {0}
  BY DEF Heights
<1>5. Weight(t, P) \in {0, 1} /\ Gap(P, S, P, S) = 1 /\ Gap(P, far, P, S) = 0
  BY <1>2 DEF Weight, Gap
<1>6. bh[P] = bh[x] + Weight(t, P) + 1 /\ bh[P] = bh[s] + Weight(t, P) + 0
  BY <1>1, <1>2, <1>5 DEF Even, s
<1>7. bh[x] \in Nat \ {0} /\ bh[s] = bh[x] + 1 /\ bh[P] = bh[x] + 1 + Weight(t, P)
  BY <1>1, <1>3, <1>4, <1>5, <1>6
<1>8. s # Sentinel
  BY <1>7 DEF Heights
<1>9. s \in N /\ Parent(t, s) = P /\ s # t.root /\ x # s
  <2>1. s \in N
    BY <1>3, <1>8
  <2>2. Parent(t, s) = P
    BY <1>1, <1>2, <1>8, AtNode DEF s
  <2>3. s # t.root
    BY <1>1, <1>2, <1>8, OneSide DEF s
  <2>4. Kid(t, P, Other(far)) # Kid(t, P, far)
    BY <1>1, <1>2, <1>8, OneSide DEF s
  <2> QED
    BY <1>2, <2>1, <2>2, <2>3, <2>4 DEF s
<1>10. t.root \in N /\ x # t.root
  <2>1. t.root # Sentinel
    <3>1. sub[t.root] = N /\ sub[Sentinel] = {}
      BY <1>1, InTheTree
    <3> QED
      BY <1>1, <3>1
  <2>2. t.root \in N
    BY <1>1, <2>1, InTheTree
  <2>3. x # t.root
    BY <1>1, <2>1, OneSide
  <2> QED
    BY <2>2, <2>3
<1>11. SideOf(t, x) = S
  <2>1. CASE x # Sentinel
    BY <1>1, <2>1, OneSide
  <2>2. CASE x = Sentinel
    <3>1. Kid(t, P, "left") = t.node[P].left
      BY DEF Kid
    <3>2. CASE S = "left"
      BY <2>2, <3>1, <3>2 DEF SideOf
    <3>3. CASE S = "right"
      <4>1. far = "left"
        BY <1>2, <3>3 DEF Sides
      <4> QED
        BY <1>8, <2>2, <3>1, <3>3, <4>1 DEF SideOf, s
    <3> QED
      BY <3>2, <3>3 DEF Sides
  <2> QED
    BY <2>1, <2>2
<1>12. ASSUME NEW n \in N, n # P, NEW q \in Sides
       PROVE  bh[Kid(t, n, q)] \in Nat /\ bh[n] = bh[Kid(t, n, q)] + Weight(t, n)
  <2>1. Kid(t, n, q) \in N \cup {Sentinel}
    BY <1>1, AtNode
  <2>2. Gap(n, q, P, S) = 0 /\ Weight(t, n) \in {0, 1}
    BY <1>12 DEF Gap, Weight
  <2>3. bh[n] = bh[Kid(t, n, q)] + Weight(t, n) + 0
    BY <2>2 DEF Even
  <2> QED
    BY <1>4, <2>1, <2>2, <2>3
<1>13. ASSUME NEW n \in N, NEW q \in Sides, Color(t, n) = Red, Color(t, Kid(t, n, q)) = Red
       PROVE  FALSE
  <2>1. n = x \/ Kid(t, n, q) = x
    BY <1>13 DEF RedApart
  <2> QED
    BY <1>13, <2>1, ColorFacts
<1>14. P # Null
  BY <1>1, NoGap
<1> QED
  BY <1>1, <1>3, <1>7, <1>9, <1>10, <1>11, <1>12, <1>13, <1>14 DEF s, far

\* A red sibling goes up: x gets a black one, and a red parent.
LEMMA RedGoesUp ==
  ASSUME NEW t, NEW D, NEW N, NEW sub, NEW bh, NEW x, NEW P, NEW S,
         Deleting(t, D, N, sub, bh, x, P, S), Color(t, x) = Black,
         Color(t, Kid(t, P, Other(S))) # Black
  PROVE  LET r == RedSiblingUp(t, P, S)
         IN  /\ \E sub2, bh2 : Deleting(r, D, N, sub2, bh2, x, P, S)
             /\ Color(r, x) = Black /\ Color(r, P) = Red
             /\ Color(r, Kid(r, P, Other(S))) = Black /\ Kept(r, t, D)
<1> DEFINE far == Other(S)
           s == Kid(t, P, far)
           c == Painted(t, s, Black)
           d == Painted(c, P, Red)
           r == Rotate(d, P, S)
           i == Kid(t, s, S)
           b == Kid(t, s, far)
           sub2 == TurnedSub(sub, d, N, P, S)
<1>1. /\ Shape(t, D, N, sub) /\ Heights(bh, N) /\ Even(t, N, bh, P, S)
      /\ P \in N /\ S \in Sides /\ Kid(t, P, S) = x /\ Parent(t, x) = P
      /\ Color(t, Sentinel) = Black /\ Color(t, t.root) = Black
  BY DEF Deleting
<1>2. /\ TreeOn(t, D) /\ N \subseteq D /\ Sentinel \notin N /\ Sentinel \in D
      /\ x \in N \cup {Sentinel} /\ x # P /\ x # s
      /\ s \in N /\ s # P /\ Parent(t, s) = P /\ s # t.root
      /\ t.root \in N /\ P # Null
      /\ bh[x] \in Nat \ {0} /\ bh[s] = bh[x] + 1
      /\ bh[P] = bh[x] + 1 + Weight(t, P)
      /\ \A n \in N : n # P => \A q \in Sides :
           bh[Kid(t, n, q)] \in Nat /\ bh[n] = bh[Kid(t, n, q)] + Weight(t, n)
      /\ \A n \in N : \A q \in Sides :
           ~(Color(t, n) = Red /\ Color(t, Kid(t, n, q)) = Red)
  BY Shortage
<1>3. /\ far \in Sides /\ far # S /\ Other(far) = S
      /\ \A q \in Sides : q = S \/ q = far
  BY <1>1, SideFacts
<1>4. Color(t, s) = Red /\ Color(t, P) = Black
  <2>1. Color(t, s) = Red
    BY <1>2, TwoColors, ColorFacts
  <2>2. Color(t, P) # Red
    BY <1>1, <1>2, <1>3, <2>1
  <2> QED
    BY <1>1, <1>2, <2>1, <2>2, TwoColors, ColorFacts
<1>5. /\ TreeOn(c, D) /\ c.root = t.root /\ c.size = t.size
      /\ SameParents(c, t, D) /\ SameValues(c, t, D) /\ SameKids(c, t, D)
      /\ \A m \in D : Color(c, m) = IF m = s THEN Black ELSE Color(t, m)
  <2> HIDE DEF s
  <2> QED
    BY <1>2, PaintedTree, ColorFacts
<1>6. RedSiblingUp(t, P, S) = r
  <2>1. t.node[P][Other(S)] = s /\ Color(t, s) # Black
    BY DEF Kid
  <2> HIDE DEF s
  <2> QED
    BY <2>1 DEF RedSiblingUp
<1> HIDE DEF c
<1>7. /\ TreeOn(d, D) /\ d.root = c.root /\ d.size = c.size
      /\ SameParents(d, c, D) /\ SameValues(d, c, D) /\ SameKids(d, c, D)
      /\ \A m \in D : Color(d, m) = IF m = P THEN Red ELSE Color(c, m)
  BY <1>1, <1>2, <1>5, PaintedTree, ColorFacts
<1> HIDE DEF d
<1>8. /\ TreeOn(d, D) /\ d.root = t.root /\ d.size = t.size
      /\ SameParents(d, t, D) /\ SameValues(d, t, D) /\ SameKids(d, t, D)
  BY <1>5, <1>7 DEF SameParents, SameValues, SameKids
<1>9. Shape(d, D, N, sub)
  BY <1>1, <1>8, ShapeKept
<1>10. \A n \in N : \A q \in Sides : Kid(d, n, q) = Kid(t, n, q)
  BY <1>2, <1>8 DEF SameKids
<1>11. Kid(d, P, Other(S)) = s /\ s # Sentinel /\ Kid(d, s, S) = i
  BY <1>1, <1>2, <1>3, <1>10
<1>12. Turned(r, d, D, N, P, S)
  BY <1>1, <1>9, <1>11, RotateTurns
<1>13. Shape(r, D, N, sub2)
  <2> HIDE DEF r
  <2> QED
    BY <1>1, <1>9, <1>11, <1>12, ShapeTurned
<1> HIDE DEF r, sub2
<1>14. /\ TreeOn(r, D) /\ r.root = (IF P = d.root THEN s ELSE d.root) /\ r.size = d.size
       /\ SameColors(r, d, D) /\ SameValues(r, d, D)
       /\ \A m \in D : Parent(r, m) = IF m = i /\ i # Sentinel THEN P
                                      ELSE IF m = P THEN s
                                      ELSE IF m = s THEN Parent(d, P) ELSE Parent(d, m)
       /\ \A m \in N : \A q \in Sides :
            Kid(r, m, q) = IF m = P /\ q = far THEN i
                           ELSE IF m = s /\ q = S THEN P
                           ELSE IF Kid(d, m, q) = P THEN s ELSE Kid(d, m, q)
  <2> HIDE DEF i, s
  <2> QED
    BY <1>11, <1>12 DEF Turned
<1> HIDE DEF s
<1>15. /\ i \in N \cup {Sentinel} /\ b \in N \cup {Sentinel} /\ i # s /\ b # s
       /\ i # P /\ b # P /\ (i # Sentinel => Parent(t, i) = s)
       /\ s \in sub[P] /\ P \notin sub[s]
  <2>1. /\ i \in N \cup {Sentinel} /\ (i # Sentinel => i # s /\ Parent(t, i) = s /\ i \in sub[s])
    <3>1. /\ i \in N \cup {Sentinel}
          /\ (i # Sentinel => i # s /\ Parent(t, i) = s /\ i \in sub[i])
          /\ sub[i] \subseteq sub[s]
      BY <1>1, <1>2, AtNode
    <3> QED
      BY <3>1
  <2>2. /\ b \in N \cup {Sentinel} /\ (b # Sentinel => b # s /\ b \in sub[s])
    <3>1. /\ b \in N \cup {Sentinel}
          /\ (b # Sentinel => b # s /\ b \in sub[b])
          /\ sub[b] \subseteq sub[s]
      BY <1>1, <1>2, <1>3, AtNode
    <3> QED
      BY <3>1
  <2>3. s \in sub[P] /\ P \notin sub[s]
    BY <1>1, <1>2, <1>3, AtNode DEF s
  <2> HIDE DEF i, b
  <2> QED
    BY <1>1, <1>2, <2>1, <2>2, <2>3
<1>16. Kid(t, s, S) = i /\ Kid(t, s, far) = b /\ Kid(t, P, far) = s
  BY DEF s
<1>17. \A n \in D : Color(r, n) = IF n = P THEN Red ELSE IF n = s THEN Black ELSE Color(t, n)
  BY <1>2, <1>5, <1>7, <1>14 DEF SameColors
<1> HIDE DEF i, b, far
<1>18. /\ Kid(r, P, S) = x /\ Kid(r, P, far) = i /\ Kid(r, s, S) = P /\ Kid(r, s, far) = b
  BY <1>1, <1>2, <1>3, <1>10, <1>14, <1>15, <1>16
<1>19. \A n \in N : n # P /\ n # s => \A q \in Sides :
         Kid(r, n, q) = IF Kid(t, n, q) = P THEN s ELSE Kid(t, n, q)
  BY <1>10, <1>14
<1>20. Color(t, i) = Black /\ Color(t, b) = Black
  <2>1. Color(t, i) # Red /\ Color(t, b) # Red
    BY <1>1, <1>2, <1>3, <1>4, <1>16
  <2>2. i \in D /\ b \in D
    BY <1>2, <1>15
  <2> QED
    BY <1>2, <2>1, <2>2, TwoColors, ColorFacts
<1> DEFINE bh2 == [n \in N \cup {Sentinel} |->
                     IF n = P THEN bh[s] ELSE IF n = s THEN bh[P] ELSE bh[n]]
<1>21. Heights(bh2, N)
  BY <1>1, <1>2 DEF Heights
<1>22. bh2[P] = bh[s] /\ bh2[s] = bh[P]
       /\ \A n \in N \cup {Sentinel} : n \notin {s, P} => bh2[n] = bh[n]
  BY <1>1, <1>2
<1> HIDE DEF bh2
<1>23. Even(r, N, bh2, P, S)
  <2> DEFINE M == {P, s}
  <2>1. Weight(t, s) = 0 /\ Weight(t, P) = 1 /\ Weight(r, s) = 1 /\ Weight(r, P) = 0
    BY <1>1, <1>2, <1>4, <1>17, ColorFacts DEF Weight
  <2>2. bh[P] = bh[x] + 2 /\ bh[i] = bh[x] + 1 /\ bh[b] = bh[x] + 1
    <3>1. bh[s] = bh[i] + 0 /\ bh[s] = bh[b] + 0 /\ bh[i] \in Nat /\ bh[b] \in Nat
      BY <1>1, <1>2, <1>3, <1>16, <2>1
    <3> QED
      BY <1>2, <2>1, <3>1
  <2>3. /\ bh2[P] = bh[x] + 1 /\ bh2[s] = bh[x] + 2 /\ bh2[x] = bh[x]
        /\ bh2[i] = bh[x] + 1 /\ bh2[b] = bh[x] + 1
    BY <1>2, <1>15, <1>22, <2>2
  <2>4. Gap(P, S, P, S) = 1 /\ Gap(P, far, P, S) = 0 /\ Gap(s, S, P, S) = 0
        /\ Gap(s, far, P, S) = 0
    BY <1>2, <1>3 DEF Gap
  <2>5. /\ bh2[P] = bh2[Kid(r, P, S)] + Weight(r, P) + Gap(P, S, P, S)
        /\ bh2[P] = bh2[Kid(r, P, far)] + Weight(r, P) + Gap(P, far, P, S)
        /\ bh2[s] = bh2[Kid(r, s, S)] + Weight(r, s) + Gap(s, S, P, S)
        /\ bh2[s] = bh2[Kid(r, s, far)] + Weight(r, s) + Gap(s, far, P, S)
    BY <1>2, <1>18, <2>1, <2>3, <2>4
  <2>6. Even(r, M, bh2, P, S)
    BY <1>3, <2>5 DEF Even
  <2>7. M \subseteq N
    BY <1>1, <1>2
  <2>8. Aside(d, N, M, P, bh, bh2)
    <3>1. Parent(d, s) = P
      BY <1>2, <1>8 DEF SameParents
    <3> QED
      BY <1>1, <1>22, <2>7, <3>1 DEF Aside
  <2>9. \A n \in N \ M : \A q \in Sides : bh2[Kid(r, n, q)] = bh[Kid(d, n, q)]
    <3>1. /\ Kid(d, P, Other(S)) # Sentinel /\ Kid(d, P, Other(S)) \in M
          /\ bh2[Kid(d, P, Other(S))] = bh[P]
      BY <1>11, <1>22
    <3> HIDE DEF M
    <3> QED
      BY <1>1, <1>9, <1>12, <2>8, <3>1, AsideTurned
  <2>10. \A n \in N \ M : \A q \in Sides : bh2[Kid(r, n, q)] = bh[Kid(t, n, q)]
    BY <1>10, <2>9
  <2>11. \A n \in N \ M : Color(r, n) = Color(t, n) /\ bh2[n] = bh[n]
    BY <1>2, <1>17, <1>22
  <2> HIDE DEF M
  <2> QED
    BY <1>1, <2>6, <2>7, <2>10, <2>11, EvenAside
<1>24. RedApart(r, N, x, x)
  <2> SUFFICES ASSUME NEW n \in N, NEW q \in Sides,
                      Color(r, n) = Red, Color(r, Kid(r, n, q)) = Red
               PROVE  FALSE
    BY DEF RedApart
  <2>1. n # s
    BY <1>2, <1>17, ColorFacts
  <2>2. \A m \in N : \A w \in Sides : Kid(t, m, w) \in D
    BY <1>1, <1>2, AtNode
  <2>3. CASE n = P
    <3>1. Color(r, x) = Black /\ Color(r, i) = Black
      BY <1>2, <1>15, <1>17, <1>20
    <3> QED
      BY <1>3, <1>18, <2>3, <3>1, ColorFacts
  <2>4. CASE n # P
    <3>1. Kid(t, n, q) # P
      <4>1. Kid(t, n, q) = P => Kid(r, n, q) = s
        BY <1>19, <2>1, <2>4
      <4> QED
        BY <1>2, <1>17, <4>1, ColorFacts
    <3>2. Kid(r, n, q) = Kid(t, n, q)
      BY <1>19, <2>1, <2>4, <3>1
    <3>3. Color(t, Kid(t, n, q)) = Red
      BY <1>17, <2>2, <3>1, <3>2, ColorFacts
    <3>4. Color(t, n) = Red
      BY <1>2, <1>17, <2>1, <2>4
    <3> QED
      BY <1>2, <3>3, <3>4
  <2> QED
    BY <2>3, <2>4
<1>25. Color(r, r.root) = Black
  <2>1. t.root \in D
    BY <1>2
  <2> QED
    BY <1>1, <1>2, <1>8, <1>14, <1>17, <2>1
<1>26. Parent(r, x) = P
  <2>1. x # i \/ i = Sentinel
    BY <1>1, <1>2, <1>15
  <2>2. x \in D
    BY <1>2
  <2>3. Parent(d, x) = P
    BY <1>1, <1>8, <2>2 DEF SameParents
  <2> QED
    BY <1>2, <1>14, <2>1, <2>2, <2>3
<1>27. Color(r, Sentinel) = Black /\ Color(r, x) = Black /\ Color(r, P) = Red
       /\ Color(r, i) = Black
  BY <1>1, <1>2, <1>15, <1>17, <1>20
<1>28. Deleting(r, D, N, sub2, bh2, x, P, S)
  BY <1>1, <1>13, <1>18, <1>21, <1>23, <1>24, <1>25, <1>26, <1>27 DEF Deleting
<1>29. Kept(r, t, D)
  BY <1>8, <1>14 DEF Kept, SameValues
<1> QED
  BY <1>6, <1>18, <1>27, <1>28, <1>29 DEF far

\* A black sibling with black children turns red: the loss goes up to P.
LEMMA BothBlack ==
  ASSUME NEW t, NEW D, NEW N, NEW sub, NEW bh, NEW x, NEW P, NEW S,
         Deleting(t, D, N, sub, bh, x, P, S), Color(t, x) = Black,
         NEW s, s = Kid(t, P, Other(S)), Color(t, s) = Black,
         \A q \in Sides : Color(t, Kid(t, s, q)) = Black
  PROVE  LET r == Painted(t, s, Red)
         IN  /\ Kept(r, t, D) /\ r.root = t.root /\ Color(r, P) = Color(t, P)
             /\ P = t.root => \E bh2 : Topped(r, D, N, sub, bh2)
             /\ P # t.root =>
                  \E bh2 : Deleting(r, D, N, sub, bh2, P, Parent(t, P), SideOf(t, P))
<1> DEFINE r == Painted(t, s, Red)
           P2 == Parent(t, P)
           S2 == SideOf(t, P)
           bh2 == [n \in N \cup {Sentinel} |->
                     IF n = P THEN bh[P] - 1 ELSE IF n = s THEN bh[x] ELSE bh[n]]
<1>1. /\ Shape(t, D, N, sub) /\ Heights(bh, N) /\ Even(t, N, bh, P, S)
      /\ P \in N /\ S \in Sides /\ Kid(t, P, S) = x /\ Parent(t, x) = P
      /\ Color(t, Sentinel) = Black /\ Color(t, t.root) = Black
  BY DEF Deleting
<1>2. /\ TreeOn(t, D) /\ N \subseteq D /\ Sentinel \notin N /\ Sentinel \in D
      /\ x \in N \cup {Sentinel} /\ x # P /\ x # s
      /\ s \in N /\ s # P /\ Parent(t, s) = P /\ s # t.root
      /\ t.root \in N /\ P # Null
      /\ bh[x] \in Nat \ {0} /\ bh[s] = bh[x] + 1
      /\ bh[P] = bh[x] + 1 + Weight(t, P)
      /\ \A n \in N : n # P => \A q \in Sides :
           bh[Kid(t, n, q)] \in Nat /\ bh[n] = bh[Kid(t, n, q)] + Weight(t, n)
      /\ \A n \in N : \A q \in Sides :
           ~(Color(t, n) = Red /\ Color(t, Kid(t, n, q)) = Red)
  BY Shortage
<1>3. \A q \in Sides : q = S \/ q = Other(S)
  BY <1>1, SideFacts
<1>4. /\ TreeOn(r, D) /\ r.root = t.root /\ r.size = t.size
      /\ SameParents(r, t, D) /\ SameValues(r, t, D) /\ SameKids(r, t, D)
      /\ \A m \in D : Color(r, m) = IF m = s THEN Red ELSE Color(t, m)
  <2>1. TreeOn(t, D) /\ s \in D /\ Red \in Colors
    BY <1>2, ColorFacts
  <2> QED
    BY <2>1, PaintedTree
<1> HIDE DEF r
<1>5. Shape(r, D, N, sub)
  BY <1>1, <1>4, ShapeKept
<1>6. \A n \in N : \A q \in Sides : Kid(r, n, q) = Kid(t, n, q)
  BY <1>2, <1>4 DEF SameKids
<1>7. \A n \in N \cup {Sentinel} : bh[n] \in Nat \ {0}
  BY <1>1 DEF Heights
<1>8. Weight(t, P) \in {0, 1} /\ Weight(r, P) = Weight(t, P) /\ Weight(t, s) = 1
      /\ Weight(r, s) = 0
  BY <1>1, <1>2, <1>4, ColorFacts DEF Weight
<1>9. /\ Heights(bh2, N) /\ bh2[P] = bh[x] + Weight(t, P) /\ bh2[s] = bh[x] /\ bh2[x] = bh[x]
      /\ \A n \in N \cup {Sentinel} : n # P /\ n # s => bh2[n] = bh[n]
  <2>1. bh[P] - 1 = bh[x] + Weight(t, P) /\ bh[P] - 1 \in Nat \ {0}
    BY <1>2, <1>8
  <2>2. bh2 \in [N \cup {Sentinel} -> Nat \ {0}]
    BY <1>2, <1>7, <2>1
  <2>3. bh2[Sentinel] = 1
    BY <1>1, <1>2 DEF Heights
  <2>4. bh2[P] = bh[P] - 1 /\ bh2[s] = bh[x] /\ bh2[x] = bh[x]
    BY <1>1, <1>2
  <2>5. \A n \in N \cup {Sentinel} : n # P /\ n # s => bh2[n] = bh[n]
    OBVIOUS
  <2> HIDE DEF bh2
  <2> QED
    BY <2>1, <2>2, <2>3, <2>4, <2>5 DEF Heights
<1> HIDE DEF bh2
<1>10. /\ \A q \in Sides : bh2[P] = bh2[Kid(r, P, q)] + Weight(r, P) + 0
       /\ \A q \in Sides : bh2[s] = bh2[Kid(r, s, q)] + Weight(r, s) + 0
  <2>1. bh2[Kid(r, P, S)] = bh[x] /\ bh2[Kid(r, P, Other(S))] = bh[x]
    BY <1>1, <1>3, <1>6, <1>9, SideFacts
  <2>2. \A q \in Sides : bh2[Kid(r, P, q)] = bh[x]
    BY <1>3, <2>1
  <2>3. ASSUME NEW q \in Sides PROVE bh2[Kid(r, s, q)] = bh[x]
    <3>1. bh[Kid(t, s, q)] \in Nat /\ bh[s] = bh[Kid(t, s, q)] + 1
      BY <1>2, <1>8
    <3>2. Kid(t, s, q) \in N \cup {Sentinel} /\ (Kid(t, s, q) # Sentinel => Kid(t, s, q) # s /\ Parent(t, Kid(t, s, q)) = s)
      BY <1>1, <1>2, AtNode
    <3>3. Kid(t, s, q) # P /\ Kid(t, s, q) # s
      <4>1. Kid(t, s, q) # s
        BY <1>2, <3>2
      <4>2. ~(Kid(t, P, Other(S)) = s /\ Kid(t, s, q) = P)
        <5>1. s \in sub[P] /\ P \notin sub[s]
          BY <1>1, <1>2, SideFacts, AtNode
        <5>2. Kid(t, s, q) # Sentinel => Kid(t, s, q) \in sub[Kid(t, s, q)]
              /\ sub[Kid(t, s, q)] \subseteq sub[s]
          BY <1>1, <1>2, AtNode
        <5> QED
          BY <1>1, <1>2, <5>1, <5>2
      <4> QED
        BY <4>1, <4>2
    <3>4. bh2[Kid(t, s, q)] = bh[Kid(t, s, q)]
      BY <1>9, <3>2, <3>3
    <3> QED
      BY <1>2, <1>6, <3>1, <3>4
  <2> QED
    BY <1>2, <1>8, <1>9, <2>2, <2>3
<1>11. RedApart(r, N, P, P)
  <2> SUFFICES ASSUME NEW n \in N, NEW q \in Sides,
                      Color(r, n) = Red, Color(r, Kid(r, n, q)) = Red, n # P
               PROVE  FALSE
    BY DEF RedApart
  <2>1. Kid(r, n, q) = Kid(t, n, q) /\ Kid(t, n, q) \in D
    BY <1>1, <1>2, <1>6, AtNode
  <2>2. Kid(t, n, q) # s
    <3>1. Kid(t, n, q) # Sentinel => Parent(t, Kid(t, n, q)) = n
      BY <1>1, AtNode
    <3> QED
      BY <1>2, <3>1
  <2>3. Color(t, Kid(t, n, q)) = Red
    BY <1>4, <2>1, <2>2
  <2>4. n # s
    BY <2>3, ColorFacts
  <2> QED
    BY <1>2, <1>4, <2>3, <2>4
<1>12. Color(r, Sentinel) = Black /\ Color(r, r.root) = Black /\ Color(r, P) = Color(t, P)
  BY <1>1, <1>2, <1>4
<1>13. Kept(r, t, D)
  BY <1>4 DEF Kept
<1>14. CASE P = t.root
  <2> DEFINE M == {P, s}
  <2>1. \A n \in N \ M : \A q \in Sides : Kid(t, n, q) \notin M
    <3> SUFFICES ASSUME NEW n \in N \ M, NEW q \in Sides PROVE Kid(t, n, q) \notin M
      OBVIOUS
    <3>1. Kid(t, n, q) # Sentinel => Parent(t, Kid(t, n, q)) = n
      BY <1>1, AtNode
    <3>2. Kid(t, n, q) # P
      BY <1>1, <1>2, <1>14, OneSide
    <3> QED
      BY <1>2, <3>1, <3>2
  <2>2. \A n \in N \ M : \A q \in Sides : Gap(n, q, P, S) = Gap(n, q, Null, "left")
    <3>1. \A n \in N : \A q : Gap(n, q, Null, "left") = 0
      BY <1>1, NoGap
    <3> QED
      BY <3>1 DEF Gap
  <2>3. \A n \in N \ M : Color(r, n) = Color(t, n) /\ bh2[n] = bh[n]
    BY <1>2, <1>4, <1>9
  <2>4. \A n \in N \ M : \A q \in Sides : bh2[Kid(r, n, q)] = bh[Kid(t, n, q)]
    <3>1. \A n \in N : \A q \in Sides : Kid(t, n, q) \in N \cup {Sentinel}
      BY <1>1, AtNode
    <3> QED
      BY <1>6, <1>9, <2>1, <3>1
  <2>5. Even(r, M, bh2, Null, "left")
    <3>1. \A n \in M : \A q \in Sides : Gap(n, q, Null, "left") = 0
      BY <1>1, <1>2, NoGap
    <3> QED
      BY <1>10, <3>1 DEF Even
  <2>6. M \subseteq N
    BY <1>1, <1>2
  <2> HIDE DEF M
  <2>7. Even(r, N, bh2, Null, "left")
    BY <1>1, <2>2, <2>3, <2>4, <2>5, <2>6, EvenMoved
  <2>8. Topped(r, D, N, sub, bh2)
    BY <1>4, <1>5, <1>9, <1>11, <1>12, <1>14, <2>7 DEF Topped
  <2> QED
    BY <1>4, <1>12, <1>13, <1>14, <2>8 DEF r
<1>15. CASE P # t.root
  <2> DEFINE M == {P, s, P2}
  <2>1. P2 \in N /\ S2 \in Sides /\ Kid(t, P2, S2) = P /\ P2 # P
    <3>1. P2 \in N \cup {Sentinel} /\ P2 # Sentinel
      BY <1>1, <1>15, PlaceOf
    <3>2. S2 \in Sides
      BY DEF SideOf, Sides
    <3>3. Kid(t, P2, S2) = P
      BY <1>1, <3>1, <3>2, PlaceOf
    <3>4. P2 # P
      BY <1>1, <1>2, <3>1, <3>2, <3>3, AtNode
    <3> QED
      BY <3>1, <3>2, <3>3, <3>4
  <2>2. P2 # s
    <3>1. s \in sub[P] /\ P \notin sub[s]
      BY <1>1, <1>2, SideFacts, AtNode
    <3>2. P \in sub[P2]
      BY <1>1, <1>2, <2>1, AtNode
    <3> QED
      BY <3>1, <3>2
  <2>3. \A q \in Sides : q # S2 => Kid(t, P2, q) # P /\ Kid(t, P2, q) # s
    <3>1. \A q \in Sides : Kid(t, P2, q) = P => q = S2
      BY <1>1, <2>1, PlaceOf
    <3>2. \A q \in Sides : Kid(t, P2, q) # Sentinel => Parent(t, Kid(t, P2, q)) = P2
      BY <1>1, <2>1, AtNode
    <3> QED
      BY <1>2, <2>1, <3>1, <3>2
  <2> HIDE DEF P2, S2
  <2>4. \A n \in N \ M : \A q \in Sides : Gap(n, q, P, S) = Gap(n, q, P2, S2)
    BY DEF Gap
  <2>5. \A n \in N \ M : Color(r, n) = Color(t, n) /\ bh2[n] = bh[n]
    BY <1>2, <1>4, <1>9
  <2>6. M \subseteq N
    BY <1>1, <1>2, <2>1
  <2>7. Aside(t, N, M, P2, bh, bh2)
    BY <1>1, <1>2, <1>9, <2>1, <2>6 DEF Aside, P2
  <2>8. bh2[P2] = bh[P2]
    BY <1>9, <2>1, <2>2
  <2>9. \A n \in N \ M : \A q \in Sides : bh2[Kid(t, n, q)] = bh[Kid(t, n, q)]
    <3> HIDE DEF M
    <3> QED
      BY <1>1, <2>7, <2>8, AsideKept
  <2>10. \A n \in N \ M : \A q \in Sides : bh2[Kid(r, n, q)] = bh[Kid(t, n, q)]
    BY <1>6, <2>9
  <2>11. ASSUME NEW q \in Sides
         PROVE  bh2[P2] = bh2[Kid(r, P2, q)] + Weight(r, P2) + Gap(P2, q, P2, S2)
    <3>1. Weight(r, P2) = Weight(t, P2) /\ Weight(t, P2) \in {0, 1}
      BY <1>2, <1>4, <2>1, <2>2 DEF Weight
    <3>2. bh[Kid(t, P2, q)] \in Nat /\ bh[P2] = bh[Kid(t, P2, q)] + Weight(t, P2)
      BY <1>2, <2>1
    <3>3. CASE q = S2
      <4>1. bh2[Kid(r, P2, q)] = bh[P] - 1 /\ Gap(P2, q, P2, S2) = 1 /\ Kid(t, P2, q) = P
        BY <1>2, <1>6, <1>8, <1>9, <2>1, <3>3 DEF Gap
      <4> QED
        BY <2>8, <3>1, <3>2, <4>1
    <3>4. CASE q # S2
      <4>1. Kid(t, P2, q) \in N \cup {Sentinel}
        BY <1>1, <2>1, AtNode
      <4>2. bh2[Kid(r, P2, q)] = bh[Kid(t, P2, q)] /\ Gap(P2, q, P2, S2) = 0
        BY <1>6, <1>9, <2>1, <2>3, <3>4, <4>1 DEF Gap
      <4> QED
        BY <2>8, <3>1, <3>2, <4>2
    <3> QED
      BY <3>3, <3>4
  <2>12. Even(r, M, bh2, P2, S2)
    <3>1. \A q \in Sides : Gap(P, q, P2, S2) = 0 /\ Gap(s, q, P2, S2) = 0
      BY <2>1, <2>2 DEF Gap
    <3> QED
      BY <1>10, <2>11, <3>1 DEF Even
  <2> HIDE DEF M
  <2>13. Even(r, N, bh2, P2, S2)
    BY <1>1, <2>4, <2>5, <2>6, <2>10, <2>12, EvenMoved
  <2>14. Kid(r, P2, S2) = P /\ Parent(r, P) = P2
    BY <1>1, <1>2, <1>4, <1>6, <2>1 DEF SameParents, P2
  <2>15. Deleting(r, D, N, sub, bh2, P, P2, S2)
    BY <1>5, <1>9, <1>11, <1>12, <2>1, <2>13, <2>14 DEF Deleting
  <2> QED
    BY <1>4, <1>12, <1>13, <1>15, <2>15 DEF r, P2, S2
<1> QED
  BY <1>14, <1>15

\* The inner child of a black sibling goes up when the outer one is not red: then
\* the sibling of x is black and its outer child is red.
LEMMA InnerGoesUp ==
  ASSUME NEW t, NEW D, NEW N, NEW sub, NEW bh, NEW x, NEW P, NEW S,
         Deleting(t, D, N, sub, bh, x, P, S), Color(t, x) = Black,
         Color(t, Kid(t, P, Other(S))) = Black,
         Color(t, Kid(t, Kid(t, P, Other(S)), S)) # Black,
         Color(t, Kid(t, Kid(t, P, Other(S)), Other(S))) # Red
  PROVE  LET r == InnerUp(t, P, S)
             s2 == Kid(r, P, Other(S))
         IN  /\ \E sub2, bh2 : Deleting(r, D, N, sub2, bh2, x, P, S)
             /\ Color(r, x) = Black /\ Color(r, s2) = Black
             /\ Color(r, Kid(r, s2, Other(S))) = Red /\ Kept(r, t, D)
<1> DEFINE far == Other(S)
           s == Kid(t, P, far)
           i == Kid(t, s, S)
           o == Kid(t, s, far)
           a == Kid(t, i, S)
           b == Kid(t, i, far)
           c == Painted(t, i, Black)
           d == Painted(c, s, Red)
           r == Rotate(d, s, far)
           sub2 == TurnedSub(sub, d, N, s, far)
<1>1. /\ Shape(t, D, N, sub) /\ Heights(bh, N) /\ Even(t, N, bh, P, S)
      /\ P \in N /\ S \in Sides /\ Kid(t, P, S) = x /\ Parent(t, x) = P
      /\ Color(t, Sentinel) = Black /\ Color(t, t.root) = Black
  BY DEF Deleting
<1>2. /\ TreeOn(t, D) /\ N \subseteq D /\ Sentinel \notin N /\ Sentinel \in D
      /\ x \in N \cup {Sentinel} /\ x # P /\ x # s
      /\ s \in N /\ s # P /\ Parent(t, s) = P /\ s # t.root
      /\ t.root \in N /\ P # Null
      /\ bh[x] \in Nat \ {0} /\ bh[s] = bh[x] + 1
      /\ bh[P] = bh[x] + 1 + Weight(t, P)
      /\ \A n \in N : n # P => \A q \in Sides :
           bh[Kid(t, n, q)] \in Nat /\ bh[n] = bh[Kid(t, n, q)] + Weight(t, n)
      /\ \A n \in N : \A q \in Sides :
           ~(Color(t, n) = Red /\ Color(t, Kid(t, n, q)) = Red)
  BY Shortage
<1>3. /\ far \in Sides /\ far # S /\ Other(far) = S
      /\ \A q \in Sides : q = S \/ q = far
  BY <1>1, SideFacts
<1>4. /\ InnerUp(t, P, S) = r
      /\ Kid(t, P, far) = s /\ Kid(t, s, S) = i /\ Kid(t, s, far) = o
      /\ Kid(t, i, S) = a /\ Kid(t, i, far) = b
      /\ Color(t, s) = Black /\ Color(t, i) # Black /\ Color(t, o) # Red
  <2>1. /\ t.node[P][Other(S)] = s /\ t.node[s][Other(S)] = o /\ t.node[s][S] = i
        /\ Color(t, o) # Red /\ Color(t, s) = Black /\ Color(t, i) # Black /\ far = Other(S)
    BY DEF Kid
  <2> HIDE DEF s, i, o, far
  <2>2. InnerUp(t, P, S) = r
    BY <2>1 DEF InnerUp
  <2> QED
    BY <2>1, <2>2 DEF s, i, o
<1> HIDE DEF far, s, i, o, a, b
<1>5. /\ i \in N /\ i # s /\ Parent(t, i) = s /\ i # P /\ Color(t, i) = Red /\ x # i
  <2>1. i \in N \cup {Sentinel} /\ i # Sentinel
    BY <1>1, <1>2, <1>4, AtNode
  <2>2. i \in N /\ i # s /\ Parent(t, i) = s /\ i \in sub[i] /\ sub[i] \subseteq sub[s]
    BY <1>1, <1>2, <1>4, <2>1, AtNode
  <2>3. P \notin sub[s]
    BY <1>1, <1>2, <1>3, <1>4, AtNode
  <2>4. Color(t, i) = Red
    BY <1>2, <1>4, <2>2, TwoColors, ColorFacts
  <2> QED
    BY <1>1, <1>2, <2>2, <2>3, <2>4
<1>6. /\ a \in N \cup {Sentinel} /\ b \in N \cup {Sentinel} /\ o \in N \cup {Sentinel}
      /\ a # i /\ b # i /\ o # s /\ o # i /\ a # s /\ b # s
      /\ (b # Sentinel => Parent(t, b) = i)
      /\ Color(t, a) = Black /\ Color(t, b) = Black /\ Color(t, o) = Black
  <2>1. /\ a \in N \cup {Sentinel}
        /\ (a # Sentinel => a # i /\ a \in sub[a]) /\ sub[a] \subseteq sub[i]
    BY <1>1, <1>4, <1>5, AtNode
  <2>2. /\ b \in N \cup {Sentinel} /\ (b # Sentinel => Parent(t, b) = i)
        /\ (b # Sentinel => b # i /\ b \in sub[b]) /\ sub[b] \subseteq sub[i]
    BY <1>1, <1>3, <1>4, <1>5, AtNode
  <2>3. o \in N \cup {Sentinel} /\ (o # Sentinel => o # s)
    BY <1>1, <1>2, <1>3, <1>4, AtNode
  <2>4. s \notin sub[i]
    BY <1>1, <1>2, <1>4, AtNode
  <2>5. Color(t, a) # Red /\ Color(t, b) # Red
    BY <1>1, <1>2, <1>3, <1>4, <1>5
  <2>6. a \in D /\ b \in D /\ o \in D
    BY <1>2, <2>1, <2>2, <2>3
  <2>7. Color(t, a) = Black /\ Color(t, b) = Black /\ Color(t, o) = Black
    BY <1>2, <1>4, <2>5, <2>6, TwoColors, ColorFacts
  <2> QED
    BY <1>2, <1>5, <2>1, <2>2, <2>3, <2>4, <2>7, ColorFacts
<1>7. /\ TreeOn(c, D) /\ c.root = t.root /\ c.size = t.size
      /\ SameParents(c, t, D) /\ SameValues(c, t, D) /\ SameKids(c, t, D)
      /\ \A m \in D : Color(c, m) = IF m = i THEN Black ELSE Color(t, m)
  <2>1. TreeOn(t, D) /\ i \in D /\ Black \in Colors
    BY <1>2, <1>5, ColorFacts
  <2> QED
    BY <2>1, PaintedTree
<1> HIDE DEF c
<1>8. /\ TreeOn(d, D) /\ d.root = c.root /\ d.size = c.size
      /\ SameParents(d, c, D) /\ SameValues(d, c, D) /\ SameKids(d, c, D)
      /\ \A m \in D : Color(d, m) = IF m = s THEN Red ELSE Color(c, m)
  <2>1. TreeOn(c, D) /\ s \in D /\ Red \in Colors
    BY <1>2, <1>7, ColorFacts
  <2> QED
    BY <2>1, PaintedTree
<1> HIDE DEF d
<1>9. /\ TreeOn(d, D) /\ d.root = t.root /\ d.size = t.size
      /\ SameParents(d, t, D) /\ SameValues(d, t, D) /\ SameKids(d, t, D)
  BY <1>7, <1>8 DEF SameParents, SameValues, SameKids
<1>10. Shape(d, D, N, sub)
  BY <1>1, <1>9, ShapeKept
<1>11. \A n \in N : \A q \in Sides : Kid(d, n, q) = Kid(t, n, q)
  BY <1>2, <1>9 DEF SameKids
<1>12. Kid(d, s, Other(far)) = i /\ i # Sentinel /\ Kid(d, i, far) = b
  BY <1>1, <1>2, <1>3, <1>4, <1>5, <1>11
<1>13. Turned(r, d, D, N, s, far)
  BY <1>2, <1>3, <1>10, <1>12, RotateTurns
<1> HIDE DEF r
<1>14. Shape(r, D, N, sub2)
  BY <1>2, <1>3, <1>10, <1>12, <1>13, ShapeTurned
<1> HIDE DEF sub2
<1>15. /\ TreeOn(r, D) /\ r.root = (IF s = d.root THEN i ELSE d.root) /\ r.size = d.size
       /\ SameColors(r, d, D) /\ SameValues(r, d, D)
       /\ \A m \in D : Parent(r, m) = IF m = b /\ b # Sentinel THEN s
                                      ELSE IF m = s THEN i
                                      ELSE IF m = i THEN Parent(d, s) ELSE Parent(d, m)
       /\ \A m \in N : \A q \in Sides :
            Kid(r, m, q) = IF m = s /\ q = Other(far) THEN b
                           ELSE IF m = i /\ q = far THEN s
                           ELSE IF Kid(d, m, q) = s THEN i ELSE Kid(d, m, q)
  BY <1>12, <1>13 DEF Turned
<1>16. \A n \in D : Color(r, n) = IF n = s THEN Red ELSE IF n = i THEN Black ELSE Color(t, n)
  BY <1>7, <1>8, <1>15 DEF SameColors
<1>17. /\ Kid(r, s, S) = b /\ Kid(r, s, far) = o /\ Kid(r, i, S) = a /\ Kid(r, i, far) = s
       /\ Kid(r, P, S) = x /\ Kid(r, P, far) = i
  BY <1>1, <1>2, <1>3, <1>4, <1>5, <1>6, <1>11, <1>15
<1>18. \A n \in N : n # s /\ n # i => \A q \in Sides :
         Kid(r, n, q) = IF Kid(t, n, q) = s THEN i ELSE Kid(t, n, q)
  BY <1>11, <1>15
<1> DEFINE bh2 == [n \in N \cup {Sentinel} |->
                     IF n = s THEN bh[i] ELSE IF n = i THEN bh[s] ELSE bh[n]]
<1>19. Heights(bh2, N)
  BY <1>1, <1>2, <1>5 DEF Heights
<1>20. bh2[s] = bh[i] /\ bh2[i] = bh[s]
       /\ \A n \in N \cup {Sentinel} : n \notin {s, i} => bh2[n] = bh[n]
  BY <1>2, <1>5
<1> HIDE DEF bh2
<1>21. Even(r, N, bh2, P, S)
  <2> DEFINE M == {s, i}
  <2>1. Weight(t, s) = 1 /\ Weight(t, i) = 0 /\ Weight(r, s) = 0 /\ Weight(r, i) = 1
    BY <1>2, <1>4, <1>5, <1>16, ColorFacts DEF Weight
  <2>2. bh[i] = bh[x] /\ bh[o] = bh[x] /\ bh[a] = bh[x] /\ bh[b] = bh[x]
    <3>1. bh[s] = bh[i] + 1 /\ bh[s] = bh[o] + 1 /\ bh[i] \in Nat /\ bh[o] \in Nat
      BY <1>1, <1>2, <1>3, <1>4, <2>1
    <3>2. bh[i] = bh[a] + 0 /\ bh[i] = bh[b] + 0 /\ bh[a] \in Nat /\ bh[b] \in Nat
      BY <1>1, <1>2, <1>3, <1>4, <1>5, <2>1
    <3> QED
      BY <1>2, <3>1, <3>2
  <2>3. /\ bh2[s] = bh[x] /\ bh2[i] = bh[x] + 1
        /\ bh2[o] = bh[x] /\ bh2[a] = bh[x] /\ bh2[b] = bh[x]
    BY <1>2, <1>6, <1>20, <2>2
  <2>4. \A q \in Sides : Gap(s, q, P, S) = 0 /\ Gap(i, q, P, S) = 0
    BY <1>2, <1>5 DEF Gap
  <2>5. /\ bh2[s] = bh2[Kid(r, s, S)] + Weight(r, s) + Gap(s, S, P, S)
        /\ bh2[s] = bh2[Kid(r, s, far)] + Weight(r, s) + Gap(s, far, P, S)
        /\ bh2[i] = bh2[Kid(r, i, S)] + Weight(r, i) + Gap(i, S, P, S)
        /\ bh2[i] = bh2[Kid(r, i, far)] + Weight(r, i) + Gap(i, far, P, S)
    BY <1>1, <1>2, <1>3, <1>17, <2>1, <2>3, <2>4
  <2>6. Even(r, M, bh2, P, S)
    BY <1>3, <2>5 DEF Even
  <2>7. M \subseteq N
    BY <1>2, <1>5
  <2>8. Aside(d, N, M, s, bh, bh2)
    <3>1. Parent(d, i) = s
      BY <1>2, <1>5, <1>9 DEF SameParents
    <3> QED
      BY <1>20, <2>7, <3>1 DEF Aside
  <2>9. \A n \in N \ M : \A q \in Sides : bh2[Kid(r, n, q)] = bh[Kid(d, n, q)]
    <3>1. /\ Kid(d, s, Other(far)) # Sentinel /\ Kid(d, s, Other(far)) \in M
          /\ bh2[Kid(d, s, Other(far))] = bh[s]
      BY <1>12, <1>20
    <3> HIDE DEF M
    <3> QED
      BY <1>2, <1>3, <1>10, <1>13, <2>8, <3>1, AsideTurned
  <2>10. \A n \in N \ M : \A q \in Sides : bh2[Kid(r, n, q)] = bh[Kid(t, n, q)]
    BY <1>11, <2>9
  <2>11. \A n \in N \ M : Color(r, n) = Color(t, n) /\ bh2[n] = bh[n]
    BY <1>2, <1>16, <1>20
  <2> HIDE DEF M
  <2> QED
    BY <1>1, <2>6, <2>7, <2>10, <2>11, EvenAside
<1>22. RedApart(r, N, x, x)
  <2> SUFFICES ASSUME NEW n \in N, NEW q \in Sides,
                      Color(r, n) = Red, Color(r, Kid(r, n, q)) = Red
               PROVE  FALSE
    BY DEF RedApart
  <2>1. n # i
    BY <1>2, <1>5, <1>16, ColorFacts
  <2>2. CASE n = s
    <3>1. Color(r, b) = Black /\ Color(r, o) = Black
      BY <1>2, <1>6, <1>16
    <3> QED
      BY <1>3, <1>17, <2>2, <3>1, ColorFacts
  <2>3. CASE n # s
    <3>1. Kid(t, n, q) \in D
      BY <1>1, <1>2, AtNode
    <3>2. Kid(t, n, q) # s
      <4>1. Kid(t, n, q) = s => Kid(r, n, q) = i
        BY <1>18, <2>1, <2>3
      <4> QED
        BY <1>2, <1>5, <1>16, <4>1, ColorFacts
    <3>3. Kid(r, n, q) = Kid(t, n, q)
      BY <1>18, <2>1, <2>3, <3>2
    <3>4. Color(t, Kid(t, n, q)) = Red
      BY <1>16, <3>1, <3>2, <3>3, ColorFacts
    <3>5. Color(t, n) = Red
      BY <1>2, <1>16, <2>1, <2>3
    <3> QED
      BY <1>2, <3>4, <3>5
  <2> QED
    BY <2>2, <2>3
<1>23. Color(r, r.root) = Black
  <2>1. r.root = t.root /\ t.root \in D
    BY <1>2, <1>9, <1>15
  <2> QED
    BY <1>1, <1>2, <1>16, <2>1
<1>24. Parent(r, x) = P
  <2>1. x # b \/ b = Sentinel
    BY <1>1, <1>5, <1>6
  <2>2. x \in D
    BY <1>2
  <2>3. Parent(d, x) = P
    BY <1>1, <1>9, <2>2 DEF SameParents
  <2> QED
    BY <1>2, <1>5, <1>15, <2>1, <2>2, <2>3
<1>25. Color(r, Sentinel) = Black /\ Color(r, x) = Black /\ Color(r, i) = Black
       /\ Color(r, s) = Red
  <2>1. x \in D /\ i \in D /\ s \in D /\ Sentinel # s /\ Sentinel # i
    BY <1>2, <1>5
  <2> QED
    BY <1>1, <1>2, <1>5, <1>16, <2>1
<1>26. Deleting(r, D, N, sub2, bh2, x, P, S)
  BY <1>1, <1>14, <1>17, <1>19, <1>21, <1>22, <1>23, <1>24, <1>25 DEF Deleting
<1>27. Kept(r, t, D)
  BY <1>9, <1>15 DEF Kept, SameValues
<1> QED
  BY <1>4, <1>17, <1>25, <1>26, <1>27 DEF far

\* A black sibling with a red outer child goes up, and nothing is short any more.
LEMMA SiblingGoesUp ==
  ASSUME NEW t, NEW D, NEW N, NEW sub, NEW bh, NEW x, NEW P, NEW S,
         Deleting(t, D, N, sub, bh, x, P, S), Color(t, x) = Black,
         Color(t, Kid(t, P, Other(S))) = Black,
         Color(t, Kid(t, Kid(t, P, Other(S)), Other(S))) = Red
  PROVE  LET r == SiblingUp(t, P, S)
         IN  (\E sub2, bh2 : Topped(r, D, N, sub2, bh2)) /\ Kept(r, t, D)
<1> DEFINE far == Other(S)
           s == Kid(t, P, far)
           i == Kid(t, s, S)
           o == Kid(t, s, far)
           color == Color(t, P)
           c == Painted(t, s, color)
           d == Painted(c, P, Black)
           e == Painted(d, o, Black)
           r == Rotate(e, P, S)
           sub2 == TurnedSub(sub, e, N, P, S)
<1>1. /\ Shape(t, D, N, sub) /\ Heights(bh, N) /\ Even(t, N, bh, P, S)
      /\ P \in N /\ S \in Sides /\ Kid(t, P, S) = x /\ Parent(t, x) = P
      /\ Color(t, Sentinel) = Black /\ Color(t, t.root) = Black
  BY DEF Deleting
<1>2. /\ TreeOn(t, D) /\ N \subseteq D /\ Sentinel \notin N /\ Sentinel \in D
      /\ x \in N \cup {Sentinel} /\ x # P /\ x # s
      /\ s \in N /\ s # P /\ Parent(t, s) = P /\ s # t.root
      /\ t.root \in N /\ P # Null
      /\ bh[x] \in Nat \ {0} /\ bh[s] = bh[x] + 1
      /\ bh[P] = bh[x] + 1 + Weight(t, P)
      /\ \A n \in N : n # P => \A q \in Sides :
           bh[Kid(t, n, q)] \in Nat /\ bh[n] = bh[Kid(t, n, q)] + Weight(t, n)
      /\ \A n \in N : \A q \in Sides :
           ~(Color(t, n) = Red /\ Color(t, Kid(t, n, q)) = Red)
  BY Shortage
<1>3. /\ far \in Sides /\ far # S /\ Other(far) = S
      /\ \A q \in Sides : q = S \/ q = far
  BY <1>1, SideFacts
<1>4. /\ SiblingUp(t, P, S) = r
      /\ Kid(t, P, far) = s /\ Kid(t, s, S) = i /\ Kid(t, s, far) = o
      /\ Color(t, s) = Black /\ Color(t, o) = Red /\ Color(t, P) = color
  <2>1. /\ t.node[P][Other(S)] = s /\ t.node[s][Other(S)] = o /\ Color(t, P) = color
    BY DEF Kid
  <2> HIDE DEF s, o, far, color
  <2>2. SiblingUp(t, P, S) = r
    BY <2>1 DEF SiblingUp
  <2> QED
    BY <2>1, <2>2 DEF s, o, far
<1> HIDE DEF far, s, i, o, color
<1>5. /\ o \in N /\ o # s /\ Parent(t, o) = s /\ o # P /\ x # o
  <2>1. o \in N \cup {Sentinel} /\ o # Sentinel
    BY <1>1, <1>2, <1>3, <1>4, AtNode, ColorFacts
  <2>2. o \in N /\ o # s /\ Parent(t, o) = s /\ o \in sub[o] /\ sub[o] \subseteq sub[s]
    BY <1>1, <1>2, <1>3, <1>4, <2>1, AtNode
  <2>3. P \notin sub[s]
    BY <1>1, <1>2, <1>3, <1>4, AtNode
  <2> QED
    BY <1>1, <1>2, <1>4, <2>2, <2>3, ColorFacts
<1>6. /\ i \in N \cup {Sentinel} /\ i # s /\ i # P /\ i # o
      /\ (i # Sentinel => Parent(t, i) = s)
  <2>1. /\ i \in N \cup {Sentinel}
        /\ (i # Sentinel => i # s /\ Parent(t, i) = s /\ i \in sub[i])
        /\ sub[i] \subseteq sub[s]
    BY <1>1, <1>2, <1>4, AtNode
  <2>2. P \notin sub[s]
    BY <1>1, <1>2, <1>3, <1>4, AtNode
  <2>3. Kid(t, s, Other(far)) # Kid(t, s, far)
    <3>1. Kid(t, s, far) # Sentinel
      BY <1>2, <1>4, <1>5
    <3> QED
      BY <1>1, <1>2, <1>3, <3>1, OneSide
  <2> QED
    BY <1>1, <1>2, <1>3, <1>4, <2>1, <2>2, <2>3
<1>7. /\ TreeOn(c, D) /\ c.root = t.root /\ c.size = t.size
      /\ SameParents(c, t, D) /\ SameValues(c, t, D) /\ SameKids(c, t, D)
      /\ \A m \in D : Color(c, m) = IF m = s THEN color ELSE Color(t, m)
  <2>1. TreeOn(t, D) /\ s \in D /\ color \in Colors
    BY <1>1, <1>2, <1>4, TwoColors
  <2> QED
    BY <2>1, PaintedTree
<1> HIDE DEF c
<1>8. /\ TreeOn(d, D) /\ d.root = c.root /\ d.size = c.size
      /\ SameParents(d, c, D) /\ SameValues(d, c, D) /\ SameKids(d, c, D)
      /\ \A m \in D : Color(d, m) = IF m = P THEN Black ELSE Color(c, m)
  <2>1. TreeOn(c, D) /\ P \in D /\ Black \in Colors
    BY <1>1, <1>2, <1>7, ColorFacts
  <2> QED
    BY <2>1, PaintedTree
<1> HIDE DEF d
<1>9. /\ TreeOn(e, D) /\ e.root = d.root /\ e.size = d.size
      /\ SameParents(e, d, D) /\ SameValues(e, d, D) /\ SameKids(e, d, D)
      /\ \A m \in D : Color(e, m) = IF m = o THEN Black ELSE Color(d, m)
  <2>1. TreeOn(d, D) /\ o \in D /\ Black \in Colors
    BY <1>2, <1>5, <1>8, ColorFacts
  <2> QED
    BY <2>1, PaintedTree
<1> HIDE DEF e
<1>10. /\ TreeOn(e, D) /\ e.root = t.root /\ e.size = t.size
       /\ SameParents(e, t, D) /\ SameValues(e, t, D) /\ SameKids(e, t, D)
  BY <1>7, <1>8, <1>9 DEF SameParents, SameValues, SameKids
<1>11. Shape(e, D, N, sub)
  BY <1>1, <1>10, ShapeKept
<1>12. \A n \in N : \A q \in Sides : Kid(e, n, q) = Kid(t, n, q)
  BY <1>2, <1>10 DEF SameKids
<1>13. Kid(e, P, Other(S)) = s /\ s # Sentinel /\ Kid(e, s, S) = i
  <2>1. far = Other(S) /\ s # Sentinel
    BY <1>2 DEF far
  <2> QED
    BY <1>1, <1>2, <1>3, <1>4, <1>12, <2>1
<1>14. Turned(r, e, D, N, P, S)
  BY <1>1, <1>11, <1>13, RotateTurns
<1> HIDE DEF r
<1>15. Shape(r, D, N, sub2)
  BY <1>1, <1>11, <1>13, <1>14, ShapeTurned
<1> HIDE DEF sub2
<1>16. /\ TreeOn(r, D) /\ r.size = e.size
       /\ SameColors(r, e, D) /\ SameValues(r, e, D)
       /\ \A m \in N : \A q \in Sides :
            Kid(r, m, q) = IF m = P /\ q = Other(S) THEN i
                           ELSE IF m = s /\ q = S THEN P
                           ELSE IF Kid(e, m, q) = P THEN s ELSE Kid(e, m, q)
  BY <1>13, <1>14 DEF Turned
<1>17. \A n \in D : Color(r, n) = IF n = P \/ n = o THEN Black
                                  ELSE IF n = s THEN color ELSE Color(t, n)
  BY <1>7, <1>8, <1>9, <1>16 DEF SameColors
<1>18. /\ Kid(r, P, S) = x /\ Kid(r, P, far) = i /\ Kid(r, s, S) = P /\ Kid(r, s, far) = o
       /\ \A q \in Sides : Kid(r, o, q) = Kid(t, o, q)
  <2>1. \A q \in Sides : Kid(t, o, q) # P
    <3> SUFFICES ASSUME NEW q \in Sides, Kid(t, o, q) = P PROVE FALSE
      OBVIOUS
    <3>1. P # Sentinel
      BY <1>1, <1>2
    <3>2. P \in sub[P] /\ sub[P] \subseteq sub[o]
      BY <1>1, <1>2, <1>5, <3>1, AtNode
    <3>3. sub[o] \subseteq sub[s] /\ P \notin sub[s]
      BY <1>1, <1>2, <1>3, <1>4, AtNode
    <3> QED
      BY <3>2, <3>3
  <2>2. far = Other(S)
    BY DEF far
  <2> QED
    BY <1>1, <1>2, <1>3, <1>4, <1>5, <1>6, <1>12, <1>16, <2>1, <2>2
<1>19. \A n \in N : n # P /\ n # s => \A q \in Sides :
         Kid(r, n, q) = IF Kid(t, n, q) = P THEN s ELSE Kid(t, n, q)
  BY <1>12, <1>16
<1> DEFINE bh2 == [n \in N \cup {Sentinel} |->
                     IF n = P \/ n = o THEN bh[x] + 1 ELSE IF n = s THEN bh[P] ELSE bh[n]]
<1>20. Heights(bh2, N)
  <2>1. \A n \in N \cup {Sentinel} : bh[n] \in Nat \ {0}
    BY <1>1 DEF Heights
  <2>2. bh[x] + 1 \in Nat \ {0}
    BY <1>2
  <2>3. bh2 \in [N \cup {Sentinel} -> Nat \ {0}]
    BY <1>1, <2>1, <2>2
  <2>4. bh2[Sentinel] = 1
    BY <1>1, <1>2, <1>5 DEF Heights
  <2> QED
    BY <2>3, <2>4 DEF Heights
<1>21. bh2[P] = bh[x] + 1 /\ bh2[o] = bh[x] + 1 /\ bh2[s] = bh[P]
       /\ \A n \in N \cup {Sentinel} : n \notin {P, s, o} => bh2[n] = bh[n]
  BY <1>1, <1>2, <1>5
<1> HIDE DEF bh2
<1>22. Even(r, N, bh2, Null, "left")
  <2> DEFINE M == {P, s, o}
  <2>1. /\ Weight(t, s) = 1 /\ Weight(t, o) = 0 /\ Weight(t, P) \in {0, 1}
        /\ Weight(r, P) = 1 /\ Weight(r, o) = 1 /\ Weight(r, s) = Weight(t, P)
    BY <1>1, <1>2, <1>4, <1>5, <1>17, ColorFacts DEF Weight
  <2>2. bh[i] = bh[x] /\ bh[o] = bh[x]
    <3>1. bh[s] = bh[i] + 1 /\ bh[s] = bh[o] + 1 /\ bh[i] \in Nat /\ bh[o] \in Nat
      BY <1>1, <1>2, <1>3, <1>4, <2>1
    <3> QED
      BY <1>2, <3>1
  <2>3. ASSUME NEW q \in Sides PROVE bh2[Kid(r, o, q)] = bh[x]
    <3>1. bh[o] = bh[Kid(t, o, q)] + 0 /\ bh[Kid(t, o, q)] \in Nat
      BY <1>2, <1>5, <2>1
    <3>2. /\ Kid(t, o, q) \in N \cup {Sentinel}
          /\ (Kid(t, o, q) # Sentinel => Parent(t, Kid(t, o, q)) = o /\ Kid(t, o, q) # o)
      BY <1>1, <1>5, AtNode
    <3>3. Kid(t, o, q) # s
      BY <1>2, <1>5, <3>2
    <3>4. Kid(t, o, q) # P
      <4>1. Kid(r, o, q) = Kid(t, o, q)
        BY <1>18
      <4>2. Kid(t, o, q) = P => Kid(r, o, q) = s
        BY <1>5, <1>19
      <4> QED
        BY <1>2, <4>1, <4>2
    <3>5. Kid(t, o, q) # o
      BY <1>2, <1>5, <3>2
    <3> QED
      BY <1>18, <1>21, <2>2, <3>1, <3>2, <3>3, <3>4, <3>5
  <2>4. bh2[x] = bh[x] /\ bh2[i] = bh[x]
    BY <1>2, <1>5, <1>6, <1>21, <2>2
  <2>5. M \subseteq N
    BY <1>1, <1>2, <1>5
  <2>6. Even(r, M, bh2, Null, "left")
    <3>1. \A q \in Sides : bh2[P] = bh2[Kid(r, P, q)] + Weight(r, P)
      BY <1>2, <1>3, <1>18, <1>21, <2>1, <2>4
    <3>2. \A q \in Sides : bh2[s] = bh2[Kid(r, s, q)] + Weight(r, s)
      BY <1>2, <1>3, <1>18, <1>21, <2>1
    <3>3. \A q \in Sides : bh2[o] = bh2[Kid(r, o, q)] + Weight(r, o)
      BY <1>2, <1>21, <2>1, <2>3
    <3>4. \A n \in M : \A q \in Sides : Gap(n, q, Null, "left") = 0
      BY <1>1, <2>5, NoGap
    <3>5. /\ \A n \in M : Weight(r, n) \in {0, 1}
          /\ \A n \in M : \A q \in Sides : bh2[Kid(r, n, q)] \in Nat
      <4>1. \A n \in M : Weight(r, n) \in {0, 1}
        BY DEF Weight
      <4>2. \A q \in Sides : bh2[Kid(r, P, q)] \in Nat
        BY <1>2, <1>3, <1>18, <2>4
      <4>3. \A q \in Sides : bh2[Kid(r, s, q)] \in Nat
        BY <1>2, <1>3, <1>18, <1>21
      <4>4. \A q \in Sides : bh2[Kid(r, o, q)] \in Nat
        BY <1>2, <2>3
      <4> QED
        BY <4>1, <4>2, <4>3, <4>4
    <3>6. \A n \in M : \A q \in Sides : bh2[n] = bh2[Kid(r, n, q)] + Weight(r, n)
      BY <3>1, <3>2, <3>3
    <3> HIDE DEF M
    <3> QED
      BY <1>15, <1>20, <2>5, <3>5, <3>6, EvenAt
  <2>7. Aside(e, N, M, P, bh, bh2)
    <3>1. Parent(e, s) = P /\ Parent(e, o) = s
      BY <1>2, <1>5, <1>10 DEF SameParents
    <3> QED
      BY <1>1, <1>21, <2>5, <3>1 DEF Aside
  <2>8. \A n \in N \ M : \A q \in Sides : bh2[Kid(r, n, q)] = bh[Kid(e, n, q)]
    <3>1. /\ Kid(e, P, Other(S)) # Sentinel /\ Kid(e, P, Other(S)) \in M
          /\ bh2[Kid(e, P, Other(S))] = bh[P]
      BY <1>13, <1>21
    <3> HIDE DEF M
    <3> QED
      BY <1>1, <1>11, <1>14, <2>7, <3>1, AsideTurned
  <2>9. \A n \in N \ M : \A q \in Sides : bh2[Kid(r, n, q)] = bh[Kid(t, n, q)]
    BY <1>12, <2>8
  <2>10. \A n \in N \ M : Color(r, n) = Color(t, n) /\ bh2[n] = bh[n]
    BY <1>2, <1>17, <1>21
  <2>11. \A n \in N \ M : \A q \in Sides : Gap(n, q, P, S) = Gap(n, q, Null, "left")
    <3>1. \A n \in N : \A q : Gap(n, q, Null, "left") = 0
      BY <1>1, NoGap
    <3> QED
      BY <3>1 DEF Gap
  <2> HIDE DEF M
  <2> QED
    BY <1>1, <2>5, <2>6, <2>9, <2>10, <2>11, EvenMoved
<1>23. RedApart(r, N, r.root, r.root)
  <2> SUFFICES ASSUME NEW n \in N, NEW q \in Sides,
                      Color(r, n) = Red, Color(r, Kid(r, n, q)) = Red
               PROVE  FALSE
    BY DEF RedApart
  <2>1. n # P /\ n # o
    BY <1>2, <1>17, ColorFacts
  <2>2. CASE n = s
    <3>1. Color(r, P) = Black /\ Color(r, o) = Black
      BY <1>1, <1>2, <1>5, <1>17
    <3> QED
      BY <1>3, <1>18, <2>2, <3>1, ColorFacts
  <2>3. CASE n # s
    <3>1. Color(t, n) = Red
      BY <1>2, <1>17, <2>1, <2>3
    <3>2. /\ Kid(t, n, q) \in D
          /\ (Kid(t, n, q) # Sentinel => Parent(t, Kid(t, n, q)) = n)
      BY <1>1, <1>2, AtNode
    <3>3. CASE Kid(t, n, q) = P
      <4>1. Kid(r, n, q) = s
        BY <1>19, <2>1, <2>3, <3>3
      <4>2. Color(r, s) = color
        BY <1>2, <1>5, <1>17
      <4> QED
        BY <1>2, <1>4, <3>1, <3>3, <4>1, <4>2
    <3>4. CASE Kid(t, n, q) # P
      <4>1. Kid(r, n, q) = Kid(t, n, q) /\ Kid(t, n, q) # s
        BY <1>2, <1>19, <2>1, <2>3, <3>2, <3>4
      <4>2. Color(t, Kid(t, n, q)) = Red
        BY <1>17, <3>2, <3>4, <4>1, ColorFacts
      <4> QED
        BY <1>2, <3>1, <4>2
    <3> QED
      BY <3>3, <3>4
  <2> QED
    BY <2>2, <2>3
<1>24. Color(r, Sentinel) = Black
  BY <1>1, <1>2, <1>5, <1>17
<1>25. Topped(r, D, N, sub2, bh2)
  BY <1>15, <1>20, <1>22, <1>23, <1>24 DEF Topped
<1>26. Kept(r, t, D)
  BY <1>10, <1>16 DEF Kept, SameValues
<1> QED
  BY <1>4, <1>25, <1>26

LEMMA DeleteRoundIs ==
  ASSUME NEW t, NEW x, NEW P, NEW S, P = Parent(t, x), S = SideOf(t, x),
         NEW u, u = RedSiblingUp(t, P, S), NEW s, s = Kid(u, P, Other(S))
  PROVE  LET r == SiblingUp(InnerUp(u, P, S), P, S)
         IN  /\ (\A q \in Sides : Color(u, Kid(u, s, q)) = Black) =>
                  DeleteRound(t, x) = [tree |-> Painted(u, s, Red), at |-> P]
             /\ ~(\A q \in Sides : Color(u, Kid(u, s, q)) = Black) =>
                  DeleteRound(t, x) = [tree |-> r, at |-> r.root]
<1> DEFINE r == SiblingUp(InnerUp(u, P, S), P, S)
<1>1. DeleteRound(t, x) =
        IF \A c \in {u.node[s].left, u.node[s].right} : Color(u, c) = Black
        THEN [tree |-> Painted(u, s, Red), at |-> P]
        ELSE [tree |-> r, at |-> r.root]
  BY DEF DeleteRound, Kid
<1>2. /\ Kid(u, s, "left") = u.node[s].left /\ Kid(u, s, "right") = u.node[s].right
  BY DEF Kid
<1>3. (\A q \in Sides : Color(u, Kid(u, s, q)) = Black)
      <=> Color(u, Kid(u, s, "left")) = Black /\ Color(u, Kid(u, s, "right")) = Black
  BY DEF Sides
<1> HIDE DEF r
<1>4. (\A q \in Sides : Color(u, Kid(u, s, q)) = Black)
      <=> \A c \in {u.node[s].left, u.node[s].right} : Color(u, c) = Black
  BY <1>2, <1>3
<1> QED
  BY <1>1, <1>4 DEF r

\* With a red child of a black sibling the loss is made good.
LEMMA RedBelow ==
  ASSUME NEW t, NEW D, NEW N, NEW sub, NEW bh, NEW x, NEW P, NEW S,
         Deleting(t, D, N, sub, bh, x, P, S), Color(t, x) = Black,
         NEW s, s = Kid(t, P, Other(S)), Color(t, s) = Black,
         ~ \A q \in Sides : Color(t, Kid(t, s, q)) = Black
  PROVE  LET r == SiblingUp(InnerUp(t, P, S), P, S)
         IN  (\E sub2, bh2 : Topped(r, D, N, sub2, bh2)) /\ Kept(r, t, D)
<1>1. S \in Sides
  BY DEF Deleting
<1>2. CASE Color(t, Kid(t, s, Other(S))) = Red
  <2>1. InnerUp(t, P, S) = t
    <3>1. t.node[P][Other(S)] = s /\ Color(t, t.node[s][Other(S)]) = Red
      BY <1>2 DEF Kid
    <3> QED
      BY <3>1 DEF InnerUp
  <2> QED
    BY <1>2, <2>1, SiblingGoesUp
<1>3. CASE Color(t, Kid(t, s, Other(S))) # Red
  <2> DEFINE u == InnerUp(t, P, S)
             r == SiblingUp(u, P, S)
  <2>1. Color(t, Kid(t, s, S)) # Black
    <3>1. s \in N /\ TreeOn(t, D) /\ Shape(t, D, N, sub) /\ N \subseteq D /\ Sentinel \in D
      BY Shortage DEF Deleting
    <3>2. Other(S) \in Sides /\ \A q \in Sides : q = S \/ q = Other(S)
      BY <1>1, SideFacts
    <3>3. Kid(t, s, Other(S)) \in D
      BY <3>1, <3>2, AtNode
    <3>4. Color(t, Kid(t, s, Other(S))) = Black
      BY <1>3, <3>1, <3>3, TwoColors, ColorFacts
    <3> QED
      BY <3>2, <3>4
  <2>2. /\ \E sub2, bh2 : Deleting(u, D, N, sub2, bh2, x, P, S)
        /\ Color(u, x) = Black /\ Color(u, Kid(u, P, Other(S))) = Black
        /\ Color(u, Kid(u, Kid(u, P, Other(S)), Other(S))) = Red /\ Kept(u, t, D)
    BY <1>3, <2>1, InnerGoesUp
  <2> HIDE DEF u
  <2>3. PICK sub2, bh2 : Deleting(u, D, N, sub2, bh2, x, P, S)
    BY <2>2
  <2>4. (\E sub3, bh3 : Topped(r, D, N, sub3, bh3)) /\ Kept(r, u, D)
    BY <2>2, <2>3, SiblingGoesUp
  <2> HIDE DEF r
  <2>5. Kept(r, t, D)
    BY <2>2, <2>4, KeptTwice
  <2> QED
    BY <2>4, <2>5 DEF r, u
<1> QED
  BY <1>2, <1>3

\* The rest of a round, when the sibling is black: done, or short further up.
LEMMA BlackSibling ==
  ASSUME NEW t, NEW D, NEW N, NEW sub, NEW bh, NEW x, NEW P, NEW S,
         Deleting(t, D, N, sub, bh, x, P, S), Color(t, x) = Black,
         NEW s, s = Kid(t, P, Other(S)), Color(t, s) = Black,
         NEW c,
         (\A q \in Sides : Color(t, Kid(t, s, q)) = Black) =>
           c = [tree |-> Painted(t, s, Red), at |-> P],
         ~(\A q \in Sides : Color(t, Kid(t, s, q)) = Black) =>
           c = [tree |-> SiblingUp(InnerUp(t, P, S), P, S),
                at |-> SiblingUp(InnerUp(t, P, S), P, S).root]
  PROVE  /\ Kept(c.tree, t, D)
         /\ \/ c.at = c.tree.root /\ \E sub2, bh2 : Topped(c.tree, D, N, sub2, bh2)
            \/ /\ Color(c.tree, c.at) = Color(t, P)
               /\ \E bh2, P2, S2 :
                    /\ Deleting(c.tree, D, N, sub, bh2, c.at, P2, S2)
                    /\ Cardinality(Over(N, sub, P2)) \in Nat
                    /\ Cardinality(Over(N, sub, P)) \in Nat
                    /\ Cardinality(Over(N, sub, P2)) < Cardinality(Over(N, sub, P))
<1>1. CASE \A q \in Sides : Color(t, Kid(t, s, q)) = Black
  <2> DEFINE r == Painted(t, s, Red)
             P2 == Parent(t, P)
             S2 == SideOf(t, P)
  <2>1. c = [tree |-> r, at |-> P]
    BY <1>1
  <2>2. /\ Kept(r, t, D) /\ r.root = t.root /\ Color(r, P) = Color(t, P)
        /\ P = t.root => \E bh2 : Topped(r, D, N, sub, bh2)
        /\ P # t.root => \E bh2 : Deleting(r, D, N, sub, bh2, P, P2, S2)
    BY <1>1, BothBlack
  <2> HIDE DEF r
  <2>3. c.tree = r /\ c.at = P
    BY <2>1
  <2>4. CASE P = t.root
    <3>1. c.at = c.tree.root /\ \E sub2, bh2 : Topped(c.tree, D, N, sub2, bh2)
      BY <2>2, <2>3, <2>4
    <3> QED
      BY <2>2, <2>3, <3>1
  <2>5. CASE P # t.root
    <3>1. Shape(t, D, N, sub) /\ P \in N
      BY DEF Deleting
    <3>2. P2 \in N /\ S2 \in Sides /\ Kid(t, P2, S2) = P /\ P # Sentinel
      <4>1. P2 \in N \cup {Sentinel} /\ P2 # Sentinel
        BY <2>5, <3>1, PlaceOf
      <4>2. S2 \in Sides
        BY DEF SideOf, Sides
      <4>3. Kid(t, P2, S2) = P
        BY <3>1, <4>1, <4>2, PlaceOf
      <4> QED
        BY <3>1, <4>1, <4>2, <4>3, NodesAreInts
    <3> HIDE DEF P2, S2
    <3>3. P \in sub[P2] /\ P # P2
      BY <3>1, <3>2, AtNode
    <3>4. /\ Cardinality(Over(N, sub, P)) \in Nat /\ Cardinality(Over(N, sub, P2)) \in Nat
          /\ Cardinality(Over(N, sub, P2)) < Cardinality(Over(N, sub, P))
      BY <3>1, <3>2, <3>3, Higher
    <3> QED
      BY <2>2, <2>3, <2>5, <3>4
  <2> QED
    BY <2>4, <2>5
<1>2. CASE ~ \A q \in Sides : Color(t, Kid(t, s, q)) = Black
  <2> DEFINE r == SiblingUp(InnerUp(t, P, S), P, S)
  <2>1. c = [tree |-> r, at |-> r.root]
    BY <1>2
  <2>2. (\E sub2, bh2 : Topped(r, D, N, sub2, bh2)) /\ Kept(r, t, D)
    BY <1>2, RedBelow
  <2> HIDE DEF r
  <2>3. c.tree = r /\ c.at = r.root
    BY <2>1
  <2> QED
    BY <2>2, <2>3
<1> QED
  BY <1>1, <1>2

-----------------------------------------------------------------------------
\* After i rounds.
DeleteAt(b, t0, D, N, i) ==
  /\ Kept(b.tree, t0, D)
  /\ \/ b.at = b.tree.root /\ \E sub, bh : Topped(b.tree, D, N, sub, bh)
     \/ \E sub, bh, P, S :
          /\ Deleting(b.tree, D, N, sub, bh, b.at, P, S)
          /\ Color(b.tree, b.at) # Red => Cardinality(Over(N, sub, P)) + i <= Cardinality(N)

LEMMA RoundDelete ==
  ASSUME NEW b, NEW t0, NEW D, NEW N, NEW i \in Nat \ {0}, DeleteAt(b, t0, D, N, i - 1)
  PROVE  DeleteAt(Round("delete", b), t0, D, N, i)
<1> DEFINE t == b.tree
           x == b.at
           c == Round("delete", b)
<1>1. Kept(t, t0, D)
  BY DEF DeleteAt
<1>2. CASE x = t.root /\ \E sub, bh : Topped(t, D, N, sub, bh)
  <2>1. c = b
    BY <1>2 DEF Round
  <2> QED
    BY <1>1, <1>2, <2>1 DEF DeleteAt
<1>3. ASSUME NEW sub, NEW bh, NEW P, NEW S, Deleting(t, D, N, sub, bh, x, P, S),
             Color(t, x) # Red => Cardinality(Over(N, sub, P)) + (i - 1) <= Cardinality(N)
      PROVE  DeleteAt(c, t0, D, N, i)
  <2>1. CASE Color(t, x) = Red
    <3>1. c = b
      BY <2>1 DEF Round
    <3> QED
      BY <1>1, <1>3, <2>1, <3>1 DEF DeleteAt
  <2>2. CASE Color(t, x) # Red
    <3> HIDE DEF t, x, c
    <3>1. Color(t, x) = Black
      <4>1. Shape(t, D, N, sub) /\ P \in N /\ S \in Sides /\ Kid(t, P, S) = x
        BY <1>3 DEF Deleting
      <4>2. TreeOn(t, D) /\ N \subseteq D /\ Sentinel \in D
        BY <4>1, InTheTree
      <4>3. x \in D
        BY <4>1, <4>2, AtNode
      <4> QED
        BY <2>2, <4>2, <4>3, TwoColors, ColorFacts
    <3>2. SideOf(t, x) = S /\ x # t.root
      BY <1>3, <3>1, Shortage
    <3>3. Parent(t, x) = P /\ S \in Sides /\ Shape(t, D, N, sub) /\ P \in N
      BY <1>3 DEF Deleting
    <3>4. c = DeleteRound(t, x)
      BY <2>2, <3>2 DEF Round, t, x, c
    <3> DEFINE u == RedSiblingUp(t, P, S)
               s == Kid(u, P, Other(S))
               r == SiblingUp(InnerUp(u, P, S), P, S)
    <3>5. /\ (\A q \in Sides : Color(u, Kid(u, s, q)) = Black) =>
                c = [tree |-> Painted(u, s, Red), at |-> P]
          /\ ~(\A q \in Sides : Color(u, Kid(u, s, q)) = Black) =>
                c = [tree |-> r, at |-> r.root]
      <4> HIDE DEF u, s
      <4>1. u = RedSiblingUp(t, P, S) /\ s = Kid(u, P, Other(S)) /\ P = Parent(t, x)
            /\ S = SideOf(t, x)
        BY <3>2, <3>3 DEF u, s
      <4> QED
        BY <3>4, <4>1, DeleteRoundIs
    <3>6. Cardinality(N) \in Nat
      BY <3>3, OverTypes
    <3>7. CASE Color(t, Kid(t, P, Other(S))) = Black
      <4>1. u = t
        <5>1. Color(t, t.node[P][Other(S)]) = Black
          BY <3>7 DEF Kid
        <5> QED
          BY <5>1 DEF RedSiblingUp
      <4>2. Color(t, s) = Black /\ s = Kid(t, P, Other(S))
        BY <3>7, <4>1
      <4> HIDE DEF u, s
      <4>3. /\ (\A q \in Sides : Color(t, Kid(t, s, q)) = Black) =>
                  c = [tree |-> Painted(t, s, Red), at |-> P]
            /\ ~(\A q \in Sides : Color(t, Kid(t, s, q)) = Black) =>
                  c = [tree |-> SiblingUp(InnerUp(t, P, S), P, S),
                       at |-> SiblingUp(InnerUp(t, P, S), P, S).root]
        BY <3>5, <4>1
      <4>4. /\ Kept(c.tree, t, D)
            /\ \/ c.at = c.tree.root /\ \E sub2, bh2 : Topped(c.tree, D, N, sub2, bh2)
               \/ /\ Color(c.tree, c.at) = Color(t, P)
                  /\ \E bh2, P2, S2 :
                       /\ Deleting(c.tree, D, N, sub, bh2, c.at, P2, S2)
                       /\ Cardinality(Over(N, sub, P2)) \in Nat
                       /\ Cardinality(Over(N, sub, P)) \in Nat
                       /\ Cardinality(Over(N, sub, P2)) < Cardinality(Over(N, sub, P))
        BY <1>3, <3>1, <4>2, <4>3, BlackSibling
      <4>5. Kept(c.tree, t0, D)
        BY <1>1, <4>4, KeptTwice
      <4>6. ASSUME NEW bh2, NEW P2, NEW S2,
                   Deleting(c.tree, D, N, sub, bh2, c.at, P2, S2),
                   Cardinality(Over(N, sub, P2)) \in Nat,
                   Cardinality(Over(N, sub, P)) \in Nat,
                   Cardinality(Over(N, sub, P2)) < Cardinality(Over(N, sub, P))
            PROVE  DeleteAt(c, t0, D, N, i)
        <5>1. Cardinality(Over(N, sub, P2)) + i <= Cardinality(N)
          BY <1>3, <2>2, <3>6, <4>6
        <5> QED
          BY <4>5, <4>6, <5>1 DEF DeleteAt
      <4> QED
        BY <4>4, <4>5, <4>6 DEF DeleteAt
    <3>8. CASE Color(t, Kid(t, P, Other(S))) # Black
      <4>1. /\ \E sub2, bh2 : Deleting(u, D, N, sub2, bh2, x, P, S)
            /\ Color(u, x) = Black /\ Color(u, P) = Red
            /\ Color(u, s) = Black /\ Kept(u, t, D)
        BY <1>3, <3>1, <3>8, RedGoesUp
      <4> HIDE DEF u
      <4>2. PICK sub2, bh2 : Deleting(u, D, N, sub2, bh2, x, P, S)
        BY <4>1
      <4>3. s = Kid(u, P, Other(S))
        OBVIOUS
      <4> HIDE DEF s
      <4>4. /\ Kept(c.tree, u, D)
            /\ \/ c.at = c.tree.root /\ \E sub3, bh3 : Topped(c.tree, D, N, sub3, bh3)
               \/ /\ Color(c.tree, c.at) = Color(u, P)
                  /\ \E bh3, P2, S2 :
                       /\ Deleting(c.tree, D, N, sub2, bh3, c.at, P2, S2)
                       /\ Cardinality(Over(N, sub2, P2)) \in Nat
                       /\ Cardinality(Over(N, sub2, P)) \in Nat
                       /\ Cardinality(Over(N, sub2, P2)) < Cardinality(Over(N, sub2, P))
        BY <3>5, <4>1, <4>2, <4>3, BlackSibling
      <4>5. Kept(c.tree, t0, D)
        BY <1>1, <4>1, <4>4, KeptTwice
      <4> QED
        BY <4>1, <4>4, <4>5 DEF DeleteAt
    <3>9. DeleteAt(c, t0, D, N, i)
      BY <3>7, <3>8
    <3> QED
      BY <3>9
  <2> QED
    BY <2>1, <2>2
<1>4. DeleteAt(c, t0, D, N, i)
  BY <1>2, <1>3 DEF DeleteAt
<1> QED
  BY <1>4

\* A red node that is short of a black one turns black.
LEMMA PaintShort ==
  ASSUME NEW t, NEW D, NEW N, NEW sub, NEW bh, NEW x, NEW P, NEW S,
         Deleting(t, D, N, sub, bh, x, P, S), Color(t, x) = Red
  PROVE  LET r == Painted(t, x, Black)
         IN  (\E bh2 : Good(r, D, N, sub, bh2)) /\ Kept(r, t, D)
<1> DEFINE r == Painted(t, x, Black)
           bh2 == [n \in N \cup {Sentinel} |-> IF n = x THEN bh[n] + 1 ELSE bh[n]]
<1>1. /\ Shape(t, D, N, sub) /\ Heights(bh, N) /\ Even(t, N, bh, P, S)
      /\ P \in N /\ S \in Sides /\ Kid(t, P, S) = x /\ Parent(t, x) = P
      /\ Color(t, Sentinel) = Black /\ Color(t, t.root) = Black /\ RedApart(t, N, x, x)
  BY DEF Deleting
<1>2. TreeOn(t, D) /\ N \subseteq D /\ Sentinel \notin N /\ Sentinel \in D
  BY <1>1, InTheTree
<1>3. x \in N /\ x # P
  <2>1. x # Sentinel
    BY <1>1, ColorFacts
  <2> QED
    BY <1>1, <2>1, AtNode
<1>4. /\ TreeOn(r, D) /\ r.root = t.root /\ r.size = t.size
      /\ SameParents(r, t, D) /\ SameValues(r, t, D) /\ SameKids(r, t, D)
      /\ \A m \in D : Color(r, m) = IF m = x THEN Black ELSE Color(t, m)
  <2>1. TreeOn(t, D) /\ x \in D /\ Black \in Colors
    BY <1>2, <1>3, ColorFacts
  <2> QED
    BY <2>1, PaintedTree
<1> HIDE DEF r
<1>5. Shape(r, D, N, sub)
  BY <1>1, <1>4, ShapeKept
<1>6. \A n \in N : \A q \in Sides :
        /\ Kid(r, n, q) = Kid(t, n, q) /\ Kid(t, n, q) \in N \cup {Sentinel}
        /\ Kid(t, n, q) = x <=> n = P /\ q = S
  <2> SUFFICES ASSUME NEW n \in N, NEW q \in Sides
               PROVE  /\ Kid(r, n, q) = Kid(t, n, q) /\ Kid(t, n, q) \in N \cup {Sentinel}
                      /\ Kid(t, n, q) = x <=> n = P /\ q = S
    OBVIOUS
  <2>1. Kid(r, n, q) = Kid(t, n, q)
    BY <1>2, <1>4 DEF SameKids
  <2>2. Kid(t, n, q) \in N \cup {Sentinel}
    BY <1>1, AtNode
  <2>3. Kid(t, n, q) = x <=> n = Parent(t, x) /\ q = SideOf(t, x)
    BY <1>1, <1>3, PlaceOf
  <2>4. S = SideOf(t, x)
    BY <1>1, <1>3, PlaceOf
  <2> QED
    BY <1>1, <2>1, <2>2, <2>3, <2>4
<1>7. \A n \in N \cup {Sentinel} : bh[n] \in Nat \ {0}
  BY <1>1 DEF Heights
<1>8. Heights(bh2, N) /\ bh2[x] = bh[x] + 1
      /\ \A n \in N \cup {Sentinel} : n # x => bh2[n] = bh[n]
  <2>1. bh2 \in [N \cup {Sentinel} -> Nat \ {0}]
    BY <1>7
  <2>2. bh2[Sentinel] = 1
    BY <1>1, <1>2, <1>3 DEF Heights
  <2> QED
    BY <1>3, <2>1, <2>2 DEF Heights
<1> HIDE DEF bh2
<1>9. Even(r, N, bh2, Null, "left")
  <2>1. \A n \in N : Weight(r, n) \in {0, 1} /\ Weight(t, n) \in {0, 1}
    BY DEF Weight
  <2>2. \A n \in N : \A q \in Sides : bh2[Kid(r, n, q)] \in Nat
    BY <1>6, <1>8 DEF Heights
  <2>3. ASSUME NEW n \in N, NEW q \in Sides
        PROVE  bh2[n] = bh2[Kid(r, n, q)] + Weight(r, n)
    <3>1. bh[n] = bh[Kid(t, n, q)] + Weight(t, n) + Gap(n, q, P, S)
      BY <1>1 DEF Even
    <3>2. bh[Kid(t, n, q)] \in Nat
      BY <1>6, <1>7
    <3>3. CASE n = x
      <4>1. Gap(n, q, P, S) = 0 /\ Weight(t, n) = 0 /\ Weight(r, n) = 1
        BY <1>2, <1>3, <1>4, <3>3, ColorFacts, <1>1 DEF Gap, Weight
      <4>2. bh2[Kid(r, n, q)] = bh[Kid(t, n, q)] /\ bh2[n] = bh[n] + 1
        BY <1>3, <1>6, <1>8, <3>3
      <4> QED
        BY <3>1, <3>2, <4>1, <4>2
    <3>4. CASE n # x
      <4>1. Weight(r, n) = Weight(t, n) /\ bh2[n] = bh[n]
        BY <1>2, <1>4, <1>8, <3>4 DEF Weight
      <4>2. bh2[Kid(r, n, q)] = bh[Kid(t, n, q)] + Gap(n, q, P, S)
        BY <1>6, <1>8, <3>2 DEF Gap
      <4>3. Gap(n, q, P, S) \in {0, 1}
        BY DEF Gap
      <4> QED
        BY <2>1, <3>1, <3>2, <4>1, <4>2, <4>3
    <3> QED
      BY <3>3, <3>4
  <2> QED
    BY <1>5, <1>8, <2>1, <2>2, <2>3, EvenAt
<1>10. RedApart(r, N, Null, Null)
  <2> SUFFICES ASSUME NEW n \in N, NEW q \in Sides,
                      Color(r, n) = Red, Color(r, Kid(r, n, q)) = Red
               PROVE  FALSE
    BY DEF RedApart
  <2>1. n \in D /\ Kid(t, n, q) \in D /\ Kid(r, n, q) = Kid(t, n, q)
    BY <1>2, <1>6
  <2>2. n # x /\ Kid(t, n, q) # x /\ Color(t, n) = Red /\ Color(t, Kid(t, n, q)) = Red
    BY <1>4, <2>1, ColorFacts
  <2> QED
    BY <1>1, <2>2 DEF RedApart
<1>11. Color(r, Sentinel) = Black /\ Color(r, r.root) = Black
  <2>1. t.root \in N \cup {Sentinel}
    BY <1>1, InTheTree
  <2> QED
    BY <1>1, <1>2, <1>4, <2>1
<1>12. Good(r, D, N, sub, bh2) /\ Kept(r, t, D)
  BY <1>4, <1>5, <1>8, <1>9, <1>10, <1>11 DEF Good, Kept
<1> QED
  BY <1>12 DEF r

\* A tree is short of one black node at x, which may be the sentinel: the loop of
\* rebalance_after_delete makes it a red-black tree of the same nodes, in the same
\* order and with their values.
THEOREM RebalancedDelete ==
  ASSUME NEW t, NEW D, NEW N, NEW x, DeleteAt([tree |-> t, at |-> x], t, D, N, 0),
         Cardinality(Live(t)) \in Nat, Cardinality(N) \in Nat,
         Cardinality(N) <= Cardinality(Live(t))
  PROVE  LET r == RebalanceAfterDelete(t, x)
         IN  (\E sub2, bh2 : Good(r, D, N, sub2, bh2)) /\ Kept(r, t, D)
<1> DEFINE n == Cardinality(Live(t))
           b == [tree |-> t, at |-> x]
           f == RoundsOf("delete", n, b)
           A == {i \in 0..n : DeleteAt(f[i], t, D, N, i)}
<1>1. f[0] = b /\ \A i \in 1..n : f[i] = Round("delete", f[i - 1])
  BY RoundsFacts
<1>2. RebalanceAfterDelete(t, x) = Painted(f[n].tree, f[n].at, Black)
  BY RebalanceIs
<1>3. DeleteAt(b, t, D, N, 0)
  OBVIOUS
<1> HIDE DEF f, b
<1>4. 0 \in A
  BY <1>1, <1>3
<1>5. ASSUME NEW i \in 1..n, i - 1 \in A PROVE i \in A
  <2>1. DeleteAt(f[i - 1], t, D, N, i - 1) /\ i \in Nat \ {0} /\ i \in 0..n
    BY <1>5
  <2>2. DeleteAt(Round("delete", f[i - 1]), t, D, N, i)
    BY <2>1, RoundDelete
  <2> QED
    BY <1>1, <2>1, <2>2
<1>6. DeleteAt(f[n], t, D, N, n)
  <2> HIDE DEF A
  <2>1. 0..n \subseteq A
    BY <1>4, <1>5, Induction
  <2>2. n \in A
    BY <2>1
  <2> QED
    BY <2>2 DEF A
<1> DEFINE e == f[n].tree
           y == f[n].at
           r == Painted(e, y, Black)
<1>7. Kept(e, t, D)
  BY <1>6 DEF DeleteAt
<1>8. \/ y = e.root /\ \E sub, bh : Topped(e, D, N, sub, bh)
      \/ \E sub, bh, P, S :
           /\ Deleting(e, D, N, sub, bh, y, P, S)
           /\ Color(e, y) # Red => Cardinality(Over(N, sub, P)) + n <= Cardinality(N)
  BY <1>6 DEF DeleteAt
<1> HIDE DEF e, y, A
<1>9. CASE y = e.root /\ \E sub, bh : Topped(e, D, N, sub, bh)
  <2>1. PICK sub, bh : Topped(e, D, N, sub, bh)
    BY <1>9
  <2>2. /\ Shape(e, D, N, sub) /\ Heights(bh, N) /\ Even(e, N, bh, Null, "left")
        /\ Color(e, Sentinel) = Black
        /\ RedApart(e, N, Null, Null) \/ RedApart(e, N, e.root, e.root)
    BY <2>1 DEF Topped
  <2>3. (\E bh2 : Good(Painted(e, e.root, Black), D, N, sub, bh2))
        /\ Kept(Painted(e, e.root, Black), e, D)
    BY <2>2, RootBlack
  <2> QED
    BY <1>2, <1>7, <1>9, <2>3, KeptTwice DEF e, y
<1>10. ASSUME NEW sub, NEW bh, NEW P, NEW S, Deleting(e, D, N, sub, bh, y, P, S),
              Color(e, y) # Red => Cardinality(Over(N, sub, P)) + n <= Cardinality(N)
       PROVE  (\E sub2, bh2 : Good(r, D, N, sub2, bh2)) /\ Kept(r, t, D)
  <2>1. Shape(e, D, N, sub) /\ P \in N
    BY <1>10 DEF Deleting
  <2>2. 1 <= Cardinality(Over(N, sub, P)) /\ Cardinality(Over(N, sub, P)) \in Nat
    BY <2>1, OverTypes
  <2>3. Color(e, y) = Red
    BY <1>10, <2>2
  <2>4. (\E bh2 : Good(r, D, N, sub, bh2)) /\ Kept(r, e, D)
    BY <1>10, <2>3, PaintShort
  <2> QED
    BY <1>7, <2>4, KeptTwice
<1>11. CASE \E sub, bh, P, S :
             /\ Deleting(e, D, N, sub, bh, y, P, S)
             /\ Color(e, y) # Red => Cardinality(Over(N, sub, P)) + n <= Cardinality(N)
  <2>1. (\E sub2, bh2 : Good(r, D, N, sub2, bh2)) /\ Kept(r, t, D)
    BY <1>10, <1>11
  <2> QED
    BY <1>2, <2>1 DEF e, y
<1> QED
  BY <1>8, <1>9, <1>11

-----------------------------------------------------------------------------
\* A node with one child at most is taken out: the child takes its place.

CutSub(sub, M, z) == [n \in M \cup {Sentinel} |-> sub[n] \ {z}]

LEMMA ShapeCut ==
  ASSUME NEW t, NEW D, NEW N, NEW sub, Shape(t, D, N, sub), NEW z \in N,
         NEW side \in Sides, Kid(t, z, Other(side)) = Sentinel,
         NEW v, v = Kid(t, z, side)
  PROVE  LET r == Transplant(t, z, v)
         IN  Shape(r, D, N \ {z}, CutSub(sub, N \ {z}, z))
<1> DEFINE r == Transplant(t, z, v)
           M == N \ {z}
           sub2 == CutSub(sub, M, z)
<1>1. /\ TreeOn(t, D) /\ N \subseteq D /\ Sentinel \in D /\ Sentinel \notin N
      /\ N \subseteq Keys /\ sub[Sentinel] = {}
      /\ t.root \in N \cup {Sentinel} /\ sub[t.root] = N
  <2>1. TreeOn(t, D) /\ N \subseteq D /\ N \subseteq Keys /\ sub[Sentinel] = {}
        /\ t.root \in N \cup {Sentinel} /\ sub[t.root] = N
    BY DEF Shape
  <2>2. Sentinel \in D /\ Sentinel \notin N
    BY InTheTree
  <2> QED
    BY <2>1, <2>2
<1>2. sub \in [N \cup {Sentinel} -> SUBSET N]
      /\ (t.root # Sentinel => Parent(t, t.root) = Sentinel)
  BY DEF Shape
<1>3. /\ v \in N \cup {Sentinel} /\ v # z
      /\ sub[z] = {z} \cup sub[v] /\ z \notin sub[v]
      /\ (v # Sentinel => Parent(t, v) = z /\ v # t.root)
  <2>1. /\ v \in N \cup {Sentinel} /\ z # Sentinel
        /\ (v # Sentinel => Parent(t, v) = z /\ v # z)
        /\ sub[z] = {z} \cup sub[v] \cup sub[Kid(t, z, Other(side))] /\ z \notin sub[v]
    BY AtNode
  <2>2. v # Sentinel => v # t.root
    BY OneSide
  <2> QED
    BY <1>1, <2>1, <2>2
<1>4. /\ TreeOn(r, D) /\ r.root = (IF z = t.root THEN v ELSE t.root)
      /\ \A m \in D : Parent(r, m) = IF m = v THEN Parent(t, z) ELSE Parent(t, m)
      /\ \A m \in N : \A s \in Sides :
           Kid(r, m, s) = IF Kid(t, m, s) = z THEN v ELSE Kid(t, m, s)
  <2>1. v \in D
    BY <1>1, <1>3
  <2> QED
    BY <2>1, Replaced
<1> HIDE DEF r
<1>5. /\ sub2 \in [M \cup {Sentinel} -> SUBSET M] /\ sub2[Sentinel] = {}
      /\ \A n \in M \cup {Sentinel} : sub2[n] = sub[n] \ {z}
  BY <1>1, <1>2 DEF CutSub
<1> HIDE DEF sub2
<1>6. r.root \in M \cup {Sentinel} /\ sub2[r.root] = M
  <2>1. r.root \in M \cup {Sentinel}
    BY <1>1, <1>3, <1>4
  <2>2. CASE z = t.root
    <3>1. sub[v] = N \ {z}
      BY <1>1, <1>3, <2>2
    <3> QED
      BY <1>4, <1>5, <2>1, <2>2, <3>1
  <2>3. CASE z # t.root
    BY <1>1, <1>4, <1>5, <2>1, <2>3
  <2> QED
    BY <2>2, <2>3
<1>7. r.root # Sentinel => Parent(r, r.root) = Sentinel
  <2>1. CASE z = t.root
    <3>1. Parent(t, z) = Sentinel
      BY <1>1, <1>2, <2>1
    <3>2. v \in D
      BY <1>1, <1>3
    <3> QED
      BY <1>4, <2>1, <3>1, <3>2
  <2>2. CASE z # t.root
    <3>1. t.root \in D
      BY <1>1
    <3> QED
      BY <1>2, <1>3, <1>4, <2>2, <3>1
  <2> QED
    BY <2>1, <2>2
<1>8. ASSUME NEW n \in M PROVE Below(r, M, sub2, n)
  <2>1. ASSUME NEW s \in Sides
        PROVE  LET c == Kid(r, n, s)
               IN  /\ c \in M \cup {Sentinel} /\ (c # Sentinel => Parent(r, c) = n)
                   /\ sub2[c] = sub[Kid(t, n, s)] \ {z}
                   /\ \A m \in sub2[c] : On(s, m, n)
    <3> DEFINE c0 == Kid(t, n, s)
               c == Kid(r, n, s)
    <3>1. /\ c0 \in N \cup {Sentinel} /\ (c0 # Sentinel => Parent(t, c0) = n)
          /\ \A m \in sub[c0] : On(s, m, n)
      BY AtNode
    <3>2. c = IF c0 = z THEN v ELSE c0
      BY <1>4
    <3> HIDE DEF c0, c
    <3>3. CASE c0 = z
      <4>1. c = v /\ c \in M \cup {Sentinel} /\ z # Sentinel
        BY <1>1, <1>3, <3>2, <3>3
      <4>2. c # Sentinel => Parent(r, c) = n
        <5>1. Parent(t, z) = n /\ v \in D
          BY <1>1, <1>3, <3>1, <3>3, <4>1
        <5> QED
          BY <1>4, <4>1, <5>1
      <4>3. sub2[c] = sub[c0] \ {z}
        BY <1>3, <1>5, <3>3, <4>1
      <4> QED
        BY <3>1, <4>1, <4>2, <4>3 DEF c, c0
    <3>4. CASE c0 # z
      <4>1. c = c0 /\ c \in M \cup {Sentinel}
        BY <3>1, <3>2, <3>4
      <4>2. c # Sentinel => Parent(r, c) = n
        <5>1. c # Sentinel => c # v
          BY <1>3, <3>1, <4>1
        <5>2. c \in D
          BY <1>1, <4>1
        <5> QED
          BY <1>4, <3>1, <4>1, <5>1, <5>2
      <4>3. sub2[c] = sub[c0] \ {z}
        BY <1>5, <4>1
      <4> QED
        BY <3>1, <4>1, <4>2, <4>3 DEF c, c0
    <3> QED
      BY <3>3, <3>4
  <2>2. sub[n] = {n} \cup sub[Kid(t, n, "left")] \cup sub[Kid(t, n, "right")]
    BY SideFacts, AtNode
  <2>3. sub2[n] = sub[n] \ {z} /\ n # z
    BY <1>5
  <2>4. sub2[n] = sub2[Kid(r, n, "left")] \cup {n} \cup sub2[Kid(r, n, "right")]
    BY <2>1, <2>2, <2>3, SideFacts
  <2> QED
    BY <2>1, <2>4 DEF Below
<1> HIDE DEF M
<1>9. M \subseteq D /\ M \subseteq Keys
  BY <1>1 DEF M
<1>10. Shape(r, D, M, sub2)
  BY <1>4, <1>5, <1>6, <1>7, <1>8, <1>9 DEF Shape
<1> QED
  BY <1>10 DEF M, r, sub2

\* What taking out a node of a colour leaves: a tree with nothing to do, or one
\* that is short of a black node at x.
Short(r, D, M, x) ==
  \/ x = r.root /\ \E sub, bh : Topped(r, D, M, sub, bh)
  \/ \E sub, bh, P, S : Deleting(r, D, M, sub, bh, x, P, S)

Outcome(r, D, M, x, color) ==
  IF color = Black THEN Short(r, D, M, x) ELSE \E sub, bh : Good(r, D, M, sub, bh)

LEMMA CutOff ==
  ASSUME NEW t, NEW D, NEW N, NEW sub, NEW bh, Good(t, D, N, sub, bh), NEW z \in N,
         NEW side \in Sides, Kid(t, z, Other(side)) = Sentinel,
         NEW v, v = Kid(t, z, side)
  PROVE  LET r == Transplant(t, z, v)
         IN  Outcome(r, D, N \ {z}, v, Color(t, z)) /\ Kept(r, t, D)
<1> DEFINE r == Transplant(t, z, v)
           M == N \ {z}
           sub2 == CutSub(sub, M, z)
           P == Parent(t, z)
           S == SideOf(t, z)
           bh2 == [n \in M \cup {Sentinel} |-> bh[n]]
<1>1. /\ Shape(t, D, N, sub) /\ Heights(bh, N) /\ Even(t, N, bh, Null, "left")
      /\ Color(t, Sentinel) = Black /\ Color(t, t.root) = Black
      /\ RedApart(t, N, Null, Null)
  BY DEF Good
<1>2. TreeOn(t, D) /\ N \subseteq D /\ Sentinel \in D /\ Sentinel \notin N
  BY <1>1, InTheTree
<1>3. /\ v \in N \cup {Sentinel} /\ v # z /\ v \in D
      /\ (v # Sentinel => Parent(t, v) = z /\ v # t.root)
  <2>1. v \in N \cup {Sentinel} /\ z # Sentinel /\ (v # Sentinel => Parent(t, v) = z /\ v # z)
    BY <1>1, AtNode
  <2>2. v # Sentinel => v # t.root
    BY <1>1, OneSide
  <2> QED
    BY <1>2, <2>1, <2>2
<1>4. /\ r.root = (IF z = t.root THEN v ELSE t.root)
      /\ r.size = t.size /\ SameColors(r, t, D) /\ SameValues(r, t, D)
      /\ \A m \in D : Parent(r, m) = IF m = v THEN Parent(t, z) ELSE Parent(t, m)
      /\ \A m \in N : \A s \in Sides :
           Kid(r, m, s) = IF Kid(t, m, s) = z THEN v ELSE Kid(t, m, s)
  BY <1>1, <1>3, Replaced
<1>5. Shape(r, D, M, sub2)
  <2>1. Shape(r, D, N \ {z}, CutSub(sub, N \ {z}, z))
    BY <1>1, ShapeCut
  <2> QED
    BY <2>1
<1> HIDE DEF r, sub2
<1>6. Kept(r, t, D)
  BY <1>4 DEF Kept
<1>7. \A m \in D : Color(r, m) = Color(t, m)
  BY <1>4 DEF SameColors
<1>8. /\ \A n \in N \cup {Sentinel} : bh[n] \in Nat \ {0}
      /\ \A n \in N : Weight(t, n) \in {0, 1}
      /\ \A n \in N : \A s \in Sides :
           bh[Kid(t, n, s)] \in Nat \ {0} /\ bh[n] = bh[Kid(t, n, s)] + Weight(t, n)
  BY <1>1, EvenIs
<1>9. /\ Heights(bh2, M) /\ \A n \in M \cup {Sentinel} : bh2[n] = bh[n]
  <2>1. bh2 \in [M \cup {Sentinel} -> Nat \ {0}]
    BY <1>8
  <2>2. bh2[Sentinel] = 1
    BY <1>1 DEF Heights
  <2> QED
    BY <2>1, <2>2 DEF Heights
<1> HIDE DEF bh2
<1>10. \A n \in N : \A s \in Sides : Kid(t, n, s) = z <=> n = P /\ s = S
  BY <1>1, PlaceOf
<1>11. \A n \in M : \A s \in Sides :
         bh2[n] = bh2[Kid(r, n, s)] + Weight(r, n)
                    + (IF n = P /\ s = S THEN Weight(t, z) ELSE 0)
  <2> SUFFICES ASSUME NEW n \in M, NEW s \in Sides
               PROVE  bh2[n] = bh2[Kid(r, n, s)] + Weight(r, n)
                                 + (IF n = P /\ s = S THEN Weight(t, z) ELSE 0)
    OBVIOUS
  <2>1. bh2[n] = bh[n] /\ Weight(r, n) = Weight(t, n) /\ Weight(t, n) \in {0, 1}
    BY <1>2, <1>7, <1>8, <1>9 DEF Weight
  <2>2. bh[n] = bh[Kid(t, n, s)] + Weight(t, n) /\ bh[Kid(t, n, s)] \in Nat
    BY <1>8
  <2>3. Kid(r, n, s) = IF Kid(t, n, s) = z THEN v ELSE Kid(t, n, s)
    BY <1>4
  <2>4. CASE Kid(t, n, s) = z
    <3>1. bh[z] = bh[v] + Weight(t, z) /\ Weight(t, z) \in {0, 1} /\ bh[v] \in Nat
      BY <1>8
    <3>2. Kid(r, n, s) = v /\ bh2[v] = bh[v] /\ n = P /\ s = S
      BY <1>3, <1>9, <1>10, <2>3, <2>4
    <3> QED
      BY <2>1, <2>2, <2>4, <3>1, <3>2
  <2>5. CASE Kid(t, n, s) # z
    <3>1. Kid(t, n, s) \in N \cup {Sentinel}
      BY <1>1, AtNode
    <3>2. bh2[Kid(r, n, s)] = bh[Kid(t, n, s)] /\ ~(n = P /\ s = S)
      BY <1>9, <1>10, <2>3, <2>5, <3>1
    <3> HIDE DEF P, S
    <3> QED
      BY <2>1, <2>2, <3>2
  <2> QED
    BY <2>4, <2>5
<1>12. \A n \in M : \A s \in Sides :
         Color(r, n) = Red /\ Color(r, Kid(r, n, s)) = Red =>
           Kid(r, n, s) = v /\ n = P /\ s = S /\ Color(t, z) # Red
  <2> SUFFICES ASSUME NEW n \in M, NEW s \in Sides,
                      Color(r, n) = Red, Color(r, Kid(r, n, s)) = Red
               PROVE  Kid(r, n, s) = v /\ n = P /\ s = S /\ Color(t, z) # Red
    OBVIOUS
  <2>1. Kid(r, n, s) = IF Kid(t, n, s) = z THEN v ELSE Kid(t, n, s)
    BY <1>4
  <2>2. Color(t, n) = Red
    BY <1>2, <1>7
  <2>3. n # Null /\ Kid(t, n, s) \in N \cup {Sentinel}
    BY <1>1, NoGap, AtNode
  <2>4. Kid(t, n, s) \in D
    BY <1>2, <2>3
  <2>5. Color(t, Kid(t, n, s)) # Red
    <3>1. Kid(t, n, s) = Sentinel \/ Kid(t, n, s) # Null
      BY <1>1, <2>3, NoGap
    <3>2. Color(t, Kid(t, n, s)) = Red => Kid(t, n, s) # Null
      BY <1>1, <3>1, ColorFacts
    <3> QED
      BY <1>1, <2>2, <2>3, <3>2 DEF RedApart
  <2>6. Kid(t, n, s) = z
    BY <1>7, <2>1, <2>4, <2>5
  <2> QED
    BY <1>10, <2>1, <2>5, <2>6
<1>13. Color(r, Sentinel) = Black
  BY <1>1, <1>2, <1>7
<1>14. CASE Color(t, z) # Black
  <2>1. z # t.root /\ r.root = t.root /\ t.root \in D
    <3>1. t.root \in N \cup {Sentinel}
      BY <1>1, InTheTree
    <3> QED
      BY <1>1, <1>2, <1>4, <1>14, <3>1
  <2>2. Color(r, r.root) = Black
    BY <1>1, <1>7, <2>1
  <2>3. Color(t, z) = Red
    BY <1>2, <1>14, TwoColors, ColorFacts
  <2>4. Even(r, M, bh2, Null, "left")
    <3>1. Weight(t, z) = 0
      BY <1>14 DEF Weight
    <3>2. \A n \in M : Weight(r, n) \in {0, 1}
      BY DEF Weight
    <3>3. \A n \in M : \A s \in Sides : bh2[Kid(r, n, s)] \in Nat
      <4>1. \A n \in M : \A s \in Sides : Kid(r, n, s) \in M \cup {Sentinel}
        BY <1>5, AtNode
      <4> QED
        BY <1>8, <1>9, <4>1
    <3>4. \A n \in M : \A s \in Sides : bh2[n] = bh2[Kid(r, n, s)] + Weight(r, n)
      <4> HIDE DEF M, P, S
      <4> QED
        BY <1>11, <3>1, <3>2, <3>3
    <3> HIDE DEF M
    <3> QED
      BY <1>5, <1>9, <3>2, <3>3, <3>4, EvenAt
  <2>5. RedApart(r, M, Null, Null)
    BY <1>12, <2>3 DEF RedApart
  <2>6. Good(r, D, M, sub2, bh2)
    BY <1>5, <1>9, <1>13, <2>2, <2>4, <2>5 DEF Good
  <2> QED
    BY <1>6, <1>14, <2>6 DEF Outcome, r, M
<1>15. CASE Color(t, z) = Black /\ z = t.root
  <2>1. \A n \in M : \A s \in Sides : ~(n = P /\ s = S)
    <3>1. P = Sentinel
      BY <1>1, <1>15, PlaceOf
    <3> QED
      BY <1>2, <3>1
  <2>2. Even(r, M, bh2, Null, "left")
    <3>2. \A n \in M : Weight(r, n) \in {0, 1}
      BY DEF Weight
    <3>3. \A n \in M : \A s \in Sides : bh2[Kid(r, n, s)] \in Nat
      <4>1. \A n \in M : \A s \in Sides : Kid(r, n, s) \in M \cup {Sentinel}
        BY <1>5, AtNode
      <4> QED
        BY <1>8, <1>9, <4>1
    <3>4. \A n \in M : \A s \in Sides : bh2[n] = bh2[Kid(r, n, s)] + Weight(r, n)
      <4> HIDE DEF M, P, S
      <4> QED
        BY <1>11, <2>1, <3>2, <3>3
    <3> HIDE DEF M
    <3> QED
      BY <1>5, <1>9, <3>2, <3>3, <3>4, EvenAt
  <2>3. RedApart(r, M, r.root, r.root)
    BY <1>12, <2>1 DEF RedApart
  <2>4. Topped(r, D, M, sub2, bh2)
    BY <1>5, <1>9, <1>13, <2>2, <2>3 DEF Topped
  <2>5. v = r.root
    BY <1>4, <1>15
  <2> QED
    BY <1>6, <1>15, <2>4, <2>5 DEF Outcome, Short, r, M
<1>16. CASE Color(t, z) = Black /\ z # t.root
  <2>1. P \in M /\ S \in Sides /\ Kid(t, P, S) = z
    <3>1. P \in N \cup {Sentinel} /\ P # Sentinel
      BY <1>1, <1>16, PlaceOf
    <3>2. S \in Sides
      BY DEF SideOf, Sides
    <3>3. Kid(t, P, S) = z
      BY <1>10, <3>1, <3>2
    <3>4. P # z
      BY <1>1, <1>2, <3>1, <3>2, <3>3, AtNode
    <3> QED
      BY <3>1, <3>2, <3>3, <3>4
  <2>2. Kid(r, P, S) = v /\ Parent(r, v) = P
    BY <1>3, <1>4, <2>1
  <2>3. Color(r, r.root) = Black
    <3>1. t.root \in N \cup {Sentinel}
      BY <1>1, InTheTree
    <3> QED
      BY <1>1, <1>2, <1>4, <1>7, <1>16, <3>1
  <2>4. Even(r, M, bh2, P, S)
    <3>1. Weight(t, z) = 1
      BY <1>16 DEF Weight
    <3> HIDE DEF M, P, S
    <3> QED
      BY <1>11, <3>1 DEF Even, Gap
  <2>5. RedApart(r, M, v, v)
    BY <1>12 DEF RedApart
  <2>6. Deleting(r, D, M, sub2, bh2, v, P, S)
    BY <1>5, <1>9, <1>13, <2>1, <2>2, <2>3, <2>4, <2>5 DEF Deleting
  <2> QED
    BY <1>6, <1>16, <2>6 DEF Outcome, Short, r, M
<1> QED
  BY <1>14, <1>15, <1>16

-----------------------------------------------------------------------------
\* A node y takes over the links and the colour of z.

Swap(z, y, n) == IF n = z THEN y ELSE n

Renamed(r, t, D, N, z, y, x) ==
  /\ TreeOn(r, D) /\ r.root = Swap(z, y, t.root)
  /\ Parent(r, x) = Swap(z, y, Parent(t, x)) /\ Color(r, Sentinel) = Color(t, Sentinel)
  /\ \A n \in N \ {z} :
       /\ Parent(r, n) = Swap(z, y, Parent(t, n)) /\ Color(r, n) = Color(t, n)
       /\ \A s \in Sides : Kid(r, n, s) = Swap(z, y, Kid(t, n, s))
  /\ Parent(r, y) = Swap(z, y, Parent(t, z)) /\ Color(r, y) = Color(t, z)
  /\ \A s \in Sides : Kid(r, y, s) = Swap(z, y, Kid(t, z, s))

SwapSub(sub, M, z, y) ==
  [n \in M \cup {Sentinel} |-> {Swap(z, y, m) : m \in sub[Swap(y, z, n)]}]

\* y may take the place of z: it is not in the tree, and no node is between them.
Fits(D, N, z, y) ==
  /\ z \in N /\ y \in D /\ y \in Keys /\ y \notin N
  /\ \A m \in N \ {z} : \A s \in Sides : On(s, m, z) => On(s, m, y)

LEMMA SwapFacts ==
  ASSUME NEW t, NEW D, NEW N, NEW sub, Shape(t, D, N, sub), NEW z, NEW y, Fits(D, N, z, y)
  PROVE  LET M == (N \ {z}) \cup {y}
         IN  /\ y # Sentinel /\ z # Sentinel /\ y # z /\ y # Null /\ z # Null
             /\ Swap(z, y, Sentinel) = Sentinel /\ Swap(y, z, Sentinel) = Sentinel
             /\ \A n \in N : Swap(z, y, n) \in M /\ Swap(y, z, Swap(z, y, n)) = n
             /\ \A n \in M : Swap(y, z, n) \in N /\ Swap(z, y, Swap(y, z, n)) = n
             /\ \A n \in N, m \in N, s \in Sides :
                  On(s, m, n) => On(s, Swap(z, y, m), Swap(z, y, n))
<1>1. /\ Sentinel \notin N /\ N \subseteq Int /\ N \subseteq Keys
  BY InTheTree
<1>2. z \in N /\ y \notin N /\ y \in Keys /\ y \in Int /\ z \in Int
  BY <1>1, TreeTableConstants DEF Fits
<1>3. y # Sentinel /\ z # Sentinel /\ y # z /\ y # Null /\ z # Null
  BY <1>1, <1>2, TreeTableConstants DEF Null
<1>4. ASSUME NEW n \in N, NEW m \in N, NEW s \in Sides, On(s, m, n)
      PROVE  On(s, Swap(z, y, m), Swap(z, y, n))
  <2>1. m # n
    BY <1>1, <1>4, OnFacts
  <2>2. CASE n = z
    <3>1. On(s, m, y)
      BY <1>4, <2>1, <2>2 DEF Fits
    <3> QED
      BY <2>1, <2>2, <3>1 DEF Swap
  <2>3. CASE m = z
    <3>1. Other(s) \in Sides /\ n \in Int /\ m \in Int
      BY <1>1, SideFacts
    <3>2. On(Other(s), n, z)
      BY <1>4, <2>3, <3>1, OnFacts
    <3>3. On(Other(s), n, y)
      BY <2>1, <2>3, <3>1, <3>2 DEF Fits
    <3>4. On(s, y, n)
      BY <1>2, <3>1, <3>3, OnFacts
    <3> QED
      BY <2>1, <2>3, <3>4 DEF Swap
  <2>4. CASE n # z /\ m # z
    BY <1>4, <2>4 DEF Swap
  <2> QED
    BY <2>2, <2>3, <2>4
<1> QED
  BY <1>2, <1>3, <1>4 DEF Swap

LEMMA AtRenamed ==
  ASSUME NEW t, NEW D, NEW N, NEW sub, Shape(t, D, N, sub), NEW z, NEW y, Fits(D, N, z, y),
         NEW x, NEW r, Renamed(r, t, D, N, z, y, x), NEW n \in (N \ {z}) \cup {y}
  PROVE  LET o == Swap(y, z, n)
         IN  /\ o \in N /\ Parent(r, n) = Swap(z, y, Parent(t, o)) /\ Color(r, n) = Color(t, o)
             /\ \A s \in Sides :
                  /\ Kid(r, n, s) = Swap(z, y, Kid(t, o, s)) /\ Kid(t, o, s) \in N \cup {Sentinel}
                  /\ Kid(r, n, s) \in (N \ {z}) \cup {y, Sentinel}
                  /\ Swap(y, z, Kid(r, n, s)) = Kid(t, o, s)
                  /\ Color(r, Kid(r, n, s)) = Color(t, Kid(t, o, s))
<1> DEFINE o == Swap(y, z, n)
           M == (N \ {z}) \cup {y}
<1>1. /\ y # Sentinel /\ z # Sentinel /\ y # z
      /\ Swap(z, y, Sentinel) = Sentinel /\ Swap(y, z, Sentinel) = Sentinel
      /\ \A m \in N : Swap(z, y, m) \in M /\ Swap(y, z, Swap(z, y, m)) = m
      /\ \A m \in M : Swap(y, z, m) \in N /\ Swap(z, y, Swap(y, z, m)) = m
  BY SwapFacts
<1>2. o \in N
  BY <1>1
<1>3. \A m \in M :
        /\ Parent(r, m) = Swap(z, y, Parent(t, Swap(y, z, m)))
        /\ Color(r, m) = Color(t, Swap(y, z, m))
        /\ \A s \in Sides : Kid(r, m, s) = Swap(z, y, Kid(t, Swap(y, z, m), s))
  <2> SUFFICES ASSUME NEW m \in M
               PROVE  /\ Parent(r, m) = Swap(z, y, Parent(t, Swap(y, z, m)))
                      /\ Color(r, m) = Color(t, Swap(y, z, m))
                      /\ \A s \in Sides : Kid(r, m, s) = Swap(z, y, Kid(t, Swap(y, z, m), s))
    OBVIOUS
  <2>1. CASE m = y
    <3>1. Swap(y, z, m) = z
      BY <2>1 DEF Swap
    <3> QED
      BY <2>1, <3>1 DEF Renamed
  <2>2. CASE m # y
    <3>1. Swap(y, z, m) = m /\ m \in N \ {z}
      BY <2>2 DEF Swap
    <3> QED
      BY <3>1 DEF Renamed
  <2> QED
    BY <2>1, <2>2
<1>4. ASSUME NEW s \in Sides
      PROVE  /\ Kid(r, n, s) = Swap(z, y, Kid(t, o, s)) /\ Kid(t, o, s) \in N \cup {Sentinel}
             /\ Kid(r, n, s) \in (N \ {z}) \cup {y, Sentinel}
             /\ Swap(y, z, Kid(r, n, s)) = Kid(t, o, s)
             /\ Color(r, Kid(r, n, s)) = Color(t, Kid(t, o, s))
  <2> DEFINE c == Kid(t, o, s)
             d == Kid(r, n, s)
  <2>1. d = Swap(z, y, c)
    BY <1>3
  <2>2. c \in N \cup {Sentinel}
    BY <1>2, AtNode
  <2> HIDE DEF c, d
  <2>3. CASE c = Sentinel
    <3>1. d = Sentinel
      BY <1>1, <2>1, <2>3
    <3>2. Color(r, Sentinel) = Color(t, Sentinel)
      BY DEF Renamed
    <3> QED
      BY <1>1, <2>1, <2>2, <2>3, <3>1, <3>2 DEF c, d
  <2>4. CASE c \in N
    <3>1. d \in M /\ Swap(y, z, d) = c
      BY <1>1, <2>1, <2>4
    <3>2. Color(r, d) = Color(t, c)
      BY <1>3, <3>1
    <3> QED
      BY <2>1, <2>2, <3>1, <3>2 DEF c, d
  <2> QED
    BY <2>2, <2>3, <2>4
<1> QED
  BY <1>2, <1>3, <1>4

LEMMA ShapeRenamed ==
  ASSUME NEW t, NEW D, NEW N, NEW sub, Shape(t, D, N, sub), NEW z, NEW y, Fits(D, N, z, y),
         NEW x, NEW r, Renamed(r, t, D, N, z, y, x)
  PROVE  LET M == (N \ {z}) \cup {y}
         IN  Shape(r, D, M, SwapSub(sub, M, z, y))
<1> DEFINE M == (N \ {z}) \cup {y}
           sub2 == SwapSub(sub, M, z, y)
           W(A) == {Swap(z, y, m) : m \in A}
<1>1. /\ y # Sentinel /\ z # Sentinel /\ y # z
      /\ Swap(z, y, Sentinel) = Sentinel /\ Swap(y, z, Sentinel) = Sentinel
      /\ \A m \in N : Swap(z, y, m) \in M /\ Swap(y, z, Swap(z, y, m)) = m
      /\ \A m \in M : Swap(y, z, m) \in N /\ Swap(z, y, Swap(y, z, m)) = m
      /\ \A n \in N, m \in N, s \in Sides :
           On(s, m, n) => On(s, Swap(z, y, m), Swap(z, y, n))
  BY SwapFacts
<1>2. /\ N \subseteq D /\ N \subseteq Keys /\ y \in D /\ y \in Keys
      /\ sub \in [N \cup {Sentinel} -> SUBSET N] /\ sub[Sentinel] = {}
      /\ t.root \in N \cup {Sentinel} /\ sub[t.root] = N
      /\ (t.root # Sentinel => Parent(t, t.root) = Sentinel)
  BY DEF Shape, Fits
<1>3. TreeOn(r, D) /\ r.root = Swap(z, y, t.root) /\ M \subseteq D /\ M \subseteq Keys
  BY <1>2 DEF Renamed
<1>4. /\ sub2 \in [M \cup {Sentinel} -> SUBSET M] /\ sub2[Sentinel] = {}
      /\ \A n \in M \cup {Sentinel} : sub2[n] = W(sub[Swap(y, z, n)])
  <2>1. \A n \in M \cup {Sentinel} : sub2[n] = W(sub[Swap(y, z, n)])
    BY DEF SwapSub
  <2>2. sub2[Sentinel] = {}
    <3>1. W({}) = {}
      OBVIOUS
    <3>2. sub2[Sentinel] = W(sub[Swap(y, z, Sentinel)])
      BY <2>1
    <3> HIDE DEF W, sub2
    <3> QED
      BY <1>1, <1>2, <3>1, <3>2
  <2>3. \A n \in M \cup {Sentinel} : sub[Swap(y, z, n)] \subseteq N
    BY <1>1, <1>2
  <2>4. \A n \in M \cup {Sentinel} : W(sub[Swap(y, z, n)]) \subseteq M
    BY <1>1, <2>3
  <2>5. sub2 \in [M \cup {Sentinel} -> SUBSET M]
    <3> HIDE DEF W, M
    <3> QED
      BY <2>4 DEF SwapSub, W
  <2> QED
    BY <2>1, <2>2, <2>5
<1> HIDE DEF sub2
<1>5. W(N) = M
  <2>1. \A m \in N : Swap(z, y, m) \in M
    BY <1>1
  <2>2. \A m \in M : m = Swap(z, y, Swap(y, z, m)) /\ Swap(y, z, m) \in N
    BY <1>1
  <2> HIDE DEF M
  <2> QED
    BY <2>1, <2>2
<1>6. r.root \in M \cup {Sentinel} /\ sub2[r.root] = M /\ Swap(y, z, r.root) = t.root
  <2>1. r.root \in M \cup {Sentinel} /\ Swap(y, z, r.root) = t.root
    <3> HIDE DEF M
    <3> QED
      BY <1>1, <1>2, <1>3
  <2> HIDE DEF M, W
  <2> QED
    BY <1>2, <1>4, <1>5, <2>1
<1>7. r.root # Sentinel => Parent(r, r.root) = Sentinel
  <2> SUFFICES ASSUME r.root # Sentinel PROVE Parent(r, r.root) = Sentinel
    OBVIOUS
  <2>1. r.root \in M
    BY <1>6
  <2>2. Parent(r, r.root) = Swap(z, y, Parent(t, t.root))
    <3>1. Parent(r, r.root) = Swap(z, y, Parent(t, Swap(y, z, r.root)))
      BY <2>1, AtRenamed
    <3> QED
      BY <1>6, <3>1
  <2>3. t.root # Sentinel
    BY <1>1, <1>3
  <2> QED
    BY <1>1, <1>2, <2>2, <2>3
<1>8. ASSUME NEW n \in M PROVE Below(r, M, sub2, n)
  <2> DEFINE o == Swap(y, z, n)
  <2>1. o \in N /\ n = Swap(z, y, o) /\ o # Sentinel
    <3>1. Sentinel \notin N
      BY InTheTree
    <3> QED
      BY <1>1, <3>1
  <2>2. ASSUME NEW s \in Sides
        PROVE  LET c == Kid(r, n, s)
               IN  /\ c \in M \cup {Sentinel} /\ (c # Sentinel => Parent(r, c) = n)
                   /\ sub2[c] = W(sub[Kid(t, o, s)])
                   /\ \A m \in sub2[c] : On(s, m, n)
    <3> DEFINE c0 == Kid(t, o, s)
               c == Kid(r, n, s)
    <3>1. c = Swap(z, y, c0) /\ c0 \in N \cup {Sentinel} /\ c \in M \cup {Sentinel}
          /\ Swap(y, z, c) = c0
      BY AtRenamed
    <3>2. /\ (c0 # Sentinel => Parent(t, c0) = o) /\ (\A m \in sub[c0] : On(s, m, o))
          /\ sub[c0] \subseteq N
      BY <1>2, <2>1, AtNode
    <3> HIDE DEF c0
    <3>3. c # Sentinel => Parent(r, c) = n
      <4> SUFFICES ASSUME c # Sentinel PROVE Parent(r, c) = n
        OBVIOUS
      <4>1. c \in M /\ c0 # Sentinel
        BY <1>1, <3>1
      <4> HIDE DEF c
      <4>2. Parent(r, c) = Swap(z, y, Parent(t, Swap(y, z, c)))
        BY <4>1, AtRenamed
      <4> QED
        BY <2>1, <3>1, <3>2, <4>1, <4>2
    <3> HIDE DEF c
    <3>4. sub2[c] = W(sub[c0])
      <4> HIDE DEF W, M
      <4> QED
        BY <1>4, <3>1
    <3>5. \A m \in sub2[c] : On(s, m, n)
      <4> SUFFICES ASSUME NEW m \in sub[c0] PROVE On(s, Swap(z, y, m), n)
        BY <3>4
      <4> QED
        BY <1>1, <2>1, <3>2
    <3> QED
      BY <3>1, <3>3, <3>4, <3>5 DEF c0, c
  <2>3. sub[o] = {o} \cup sub[Kid(t, o, "left")] \cup sub[Kid(t, o, "right")]
    BY <2>1, SideFacts, AtNode
  <2>4. sub2[n] = W(sub[o])
    BY <1>4
  <2>5. sub2[n] = sub2[Kid(r, n, "left")] \cup {n} \cup sub2[Kid(r, n, "right")]
    <3>1. /\ sub2[Kid(r, n, "left")] = W(sub[Kid(t, o, "left")])
          /\ sub2[Kid(r, n, "right")] = W(sub[Kid(t, o, "right")])
      BY <2>2, SideFacts
    <3>2. \A A, B : W({o} \cup A \cup B) = W(A) \cup {n} \cup W(B)
      <4> HIDE DEF o
      <4> QED
        BY <2>1
    <3> HIDE DEF W
    <3> QED
      BY <2>3, <2>4, <3>1, <3>2
  <2> QED
    BY <2>2, <2>5 DEF Below
<1>9. Shape(r, D, M, sub2)
  <2> HIDE DEF M, W
  <2> QED
    BY <1>3, <1>4, <1>6, <1>7, <1>8 DEF Shape
<1> QED
  BY <1>9 DEF sub2

LEMMA ColorsRenamed ==
  ASSUME NEW t, NEW D, NEW N, NEW sub, Shape(t, D, N, sub), NEW z, NEW y, Fits(D, N, z, y),
         NEW x, NEW r, Renamed(r, t, D, N, z, y, x),
         NEW bh, Heights(bh, N), NEW P \in N \cup {Null}, NEW S, Even(t, N, bh, P, S),
         NEW a, NEW b, RedApart(t, N, a, b)
  PROVE  LET M == (N \ {z}) \cup {y}
         IN  /\ \E bh2 : Heights(bh2, M) /\ Even(r, M, bh2, Swap(z, y, P), S)
             /\ RedApart(r, M, Swap(z, y, a), Swap(z, y, b))
<1> DEFINE M == (N \ {z}) \cup {y}
           bh2 == [n \in M \cup {Sentinel} |-> bh[Swap(y, z, n)]]
<1>1. /\ y # Sentinel /\ z # Sentinel /\ y # z /\ y # Null /\ z # Null
      /\ Swap(z, y, Sentinel) = Sentinel /\ Swap(y, z, Sentinel) = Sentinel
      /\ \A n \in N : Swap(z, y, n) \in M /\ Swap(y, z, Swap(z, y, n)) = n
      /\ \A n \in M : Swap(y, z, n) \in N /\ Swap(z, y, Swap(y, z, n)) = n
  BY SwapFacts
<1>2. /\ Heights(bh2, M) /\ \A n \in M \cup {Sentinel} : bh2[n] = bh[Swap(y, z, n)]
  <2>1. \A n \in M \cup {Sentinel} : Swap(y, z, n) \in N \cup {Sentinel}
    BY <1>1
  <2>2. \A n \in M \cup {Sentinel} : bh[Swap(y, z, n)] \in Nat \ {0}
    BY <2>1 DEF Heights
  <2>3. bh[Swap(y, z, Sentinel)] = 1
    BY <1>1 DEF Heights
  <2> HIDE DEF M
  <2> QED
    BY <2>2, <2>3 DEF Heights
<1> HIDE DEF bh2
<1>3. ASSUME NEW n \in M
      PROVE  LET o == Swap(y, z, n)
             IN  /\ o \in N /\ n = Swap(z, y, o) /\ Color(r, n) = Color(t, o)
                 /\ \A s \in Sides :
                      /\ Kid(r, n, s) = Swap(z, y, Kid(t, o, s))
                      /\ Kid(r, n, s) \in M \cup {Sentinel}
                      /\ Swap(y, z, Kid(r, n, s)) = Kid(t, o, s)
                      /\ Color(r, Kid(r, n, s)) = Color(t, Kid(t, o, s))
  <2>1. LET o == Swap(y, z, n)
        IN  /\ o \in N /\ Color(r, n) = Color(t, o)
            /\ \A s \in Sides :
                 /\ Kid(r, n, s) = Swap(z, y, Kid(t, o, s))
                 /\ Kid(r, n, s) \in (N \ {z}) \cup {y, Sentinel}
                 /\ Swap(y, z, Kid(r, n, s)) = Kid(t, o, s)
                 /\ Color(r, Kid(r, n, s)) = Color(t, Kid(t, o, s))
    BY AtRenamed
  <2> QED
    BY <1>1, <2>1
<1>4. Null \notin N /\ Null \notin M
  <2>1. Null \notin N
    BY NoGap
  <2> QED
    BY <1>1, <2>1
<1>5. Even(r, M, bh2, Swap(z, y, P), S)
  <2> SUFFICES ASSUME NEW n \in M, NEW s \in Sides
               PROVE  bh2[n] = bh2[Kid(r, n, s)] + Weight(r, n) + Gap(n, s, Swap(z, y, P), S)
    BY DEF Even
  <2> DEFINE o == Swap(y, z, n)
             c == Kid(r, n, s)
  <2>1. /\ o \in N /\ n = Swap(z, y, o) /\ Color(r, n) = Color(t, o)
        /\ c \in M \cup {Sentinel} /\ Swap(y, z, c) = Kid(t, o, s)
    BY <1>3
  <2>2. bh[o] = bh[Kid(t, o, s)] + Weight(t, o) + Gap(o, s, P, S)
    BY <2>1 DEF Even
  <2>3. Weight(r, n) = Weight(t, o)
    BY <2>1 DEF Weight
  <2>4. n = Swap(z, y, P) <=> o = P
    <3>1. CASE P \in N
      <4>1. Swap(y, z, Swap(z, y, P)) = P
        BY <1>1, <3>1
      <4> QED
        BY <2>1, <4>1
    <3>2. CASE P = Null
      <4>1. Swap(z, y, P) = Null
        BY <1>1, <3>2 DEF Swap
      <4> HIDE DEF o, M
      <4> QED
        BY <1>4, <2>1, <3>2, <4>1
    <3> QED
      BY <3>1, <3>2
  <2>5. Gap(n, s, Swap(z, y, P), S) = Gap(o, s, P, S)
    BY <2>4 DEF Gap
  <2> HIDE DEF o, c, M
  <2>6. bh2[n] = bh[o] /\ bh2[c] = bh[Kid(t, o, s)]
    BY <1>2, <2>1 DEF o
  <2> QED
    BY <2>2, <2>3, <2>5, <2>6 DEF c
<1>6. RedApart(r, M, Swap(z, y, a), Swap(z, y, b))
  <2> SUFFICES ASSUME NEW n \in M, NEW s \in Sides,
                      Color(r, n) = Red, Color(r, Kid(r, n, s)) = Red
               PROVE  n = Swap(z, y, a) \/ Kid(r, n, s) = Swap(z, y, b)
    BY DEF RedApart
  <2> DEFINE o == Swap(y, z, n)
  <2>1. /\ o \in N /\ n = Swap(z, y, o) /\ Color(r, n) = Color(t, o)
        /\ Kid(r, n, s) = Swap(z, y, Kid(t, o, s))
        /\ Color(r, Kid(r, n, s)) = Color(t, Kid(t, o, s))
    BY <1>3
  <2> HIDE DEF o
  <2>2. o = a \/ Kid(t, o, s) = b
    BY <2>1 DEF RedApart
  <2> QED
    BY <2>1, <2>2
<1> QED
  BY <1>2, <1>5, <1>6

LEMMA OutcomeRenamed ==
  ASSUME NEW t, NEW D, NEW N, NEW z, NEW y, NEW x, NEW color, Outcome(t, D, N, x, color),
         Fits(D, N, z, y), x # z, NEW r, Renamed(r, t, D, N, z, y, x)
  PROVE  Outcome(r, D, (N \ {z}) \cup {y}, x, color)
<1> DEFINE M == (N \ {z}) \cup {y}
<1>1. ASSUME NEW sub, Shape(t, D, N, sub)
      PROVE  /\ Shape(r, D, M, SwapSub(sub, M, z, y))
             /\ Swap(z, y, Null) = Null /\ Swap(z, y, Sentinel) = Sentinel
             /\ \A n \in N : Swap(z, y, n) \in M
             /\ Color(r, Sentinel) = Color(t, Sentinel) /\ r.root = Swap(z, y, t.root)
  <2>1. Shape(r, D, M, SwapSub(sub, M, z, y))
    BY <1>1, ShapeRenamed
  <2>2. /\ z # Null /\ Swap(z, y, Sentinel) = Sentinel
        /\ \A n \in N : Swap(z, y, n) \in M
    BY <1>1, SwapFacts
  <2>3. Swap(z, y, Null) = Null
    BY <2>2 DEF Swap
  <2> QED
    BY <2>1, <2>2, <2>3 DEF Renamed
<1>2. Swap(z, y, x) = x
  BY DEF Swap
<1>3. ASSUME NEW sub, Shape(t, D, N, sub), Color(t, t.root) = Black
      PROVE  Color(r, r.root) = Black
  <2>1. t.root \in N \cup {Sentinel}
    BY <1>3, InTheTree
  <2>2. /\ y # Sentinel /\ z # Sentinel /\ y # z
        /\ Swap(z, y, Sentinel) = Sentinel
        /\ \A n \in N : Swap(z, y, n) \in M /\ Swap(y, z, Swap(z, y, n)) = n
    BY <1>3, SwapFacts
  <2>3. r.root = Swap(z, y, t.root) /\ Color(r, Sentinel) = Color(t, Sentinel)
    BY DEF Renamed
  <2>4. CASE t.root = Sentinel
    BY <1>3, <2>2, <2>3, <2>4
  <2>5. CASE t.root \in N
    <3>1. r.root \in M /\ Swap(y, z, r.root) = t.root
      BY <2>2, <2>3, <2>5
    <3>2. Color(r, r.root) = Color(t, Swap(y, z, r.root))
      BY <1>3, <3>1, AtRenamed
    <3> QED
      BY <1>3, <3>1, <3>2
  <2> QED
    BY <2>1, <2>4, <2>5
<1>4. CASE color = Black
  <2>1. CASE x = t.root /\ \E sub, bh : Topped(t, D, N, sub, bh)
    <3>1. PICK sub, bh : Topped(t, D, N, sub, bh)
      BY <2>1
    <3>2. /\ Shape(t, D, N, sub) /\ Heights(bh, N) /\ Even(t, N, bh, Null, "left")
          /\ Color(t, Sentinel) = Black /\ RedApart(t, N, t.root, t.root)
      BY <3>1 DEF Topped
    <3>3. PICK bh2 : Heights(bh2, M) /\ Even(r, M, bh2, Swap(z, y, Null), "left")
      BY <3>2, ColorsRenamed
    <3>4. RedApart(r, M, Swap(z, y, t.root), Swap(z, y, t.root))
      BY <3>2, ColorsRenamed
    <3>5. /\ Shape(r, D, M, SwapSub(sub, M, z, y)) /\ Swap(z, y, Null) = Null
          /\ Color(r, Sentinel) = Color(t, Sentinel) /\ r.root = Swap(z, y, t.root)
      BY <1>1, <3>2
    <3>6. Topped(r, D, M, SwapSub(sub, M, z, y), bh2)
      BY <3>2, <3>3, <3>4, <3>5 DEF Topped
    <3>7. x = r.root
      BY <1>2, <2>1, <3>5
    <3> QED
      BY <1>4, <3>6, <3>7 DEF Outcome, Short
  <2>2. CASE \E sub, bh, P, S : Deleting(t, D, N, sub, bh, x, P, S)
    <3>1. PICK sub, bh, P, S : Deleting(t, D, N, sub, bh, x, P, S)
      BY <2>2
    <3>2. /\ Shape(t, D, N, sub) /\ Heights(bh, N) /\ Even(t, N, bh, P, S)
          /\ P \in N /\ S \in Sides /\ Kid(t, P, S) = x /\ Parent(t, x) = P
          /\ Color(t, Sentinel) = Black /\ Color(t, t.root) = Black /\ RedApart(t, N, x, x)
      BY <3>1 DEF Deleting
    <3>3. PICK bh2 : Heights(bh2, M) /\ Even(r, M, bh2, Swap(z, y, P), S)
      BY <3>2, ColorsRenamed
    <3>4. RedApart(r, M, Swap(z, y, x), Swap(z, y, x))
      BY <3>2, ColorsRenamed
    <3>5. /\ Shape(r, D, M, SwapSub(sub, M, z, y))
          /\ Color(r, Sentinel) = Color(t, Sentinel)
          /\ Swap(z, y, P) \in M
      BY <1>1, <3>2
    <3>6. Color(r, r.root) = Black
      BY <1>3, <3>2
    <3>7. Parent(r, x) = Swap(z, y, P)
      BY <3>2 DEF Renamed
    <3>8. Kid(r, Swap(z, y, P), S) = x
      <4>1. Swap(y, z, Swap(z, y, P)) = P
        BY <3>2, SwapFacts
      <4>2. Kid(r, Swap(z, y, P), S) = Swap(z, y, Kid(t, Swap(y, z, Swap(z, y, P)), S))
        BY <3>2, <3>5, AtRenamed
      <4> QED
        BY <1>2, <3>2, <4>1, <4>2
    <3>9. Deleting(r, D, M, SwapSub(sub, M, z, y), bh2, x, Swap(z, y, P), S)
      BY <1>2, <3>2, <3>3, <3>4, <3>5, <3>6, <3>7, <3>8 DEF Deleting
    <3> QED
      BY <1>4, <3>9 DEF Outcome, Short
  <2> QED
    BY <1>4, <2>1, <2>2 DEF Outcome, Short
<1>5. CASE color # Black
  <2>1. PICK sub, bh : Good(t, D, N, sub, bh)
    BY <1>5 DEF Outcome
  <2>2. /\ Shape(t, D, N, sub) /\ Heights(bh, N) /\ Even(t, N, bh, Null, "left")
        /\ Color(t, Sentinel) = Black /\ Color(t, t.root) = Black
        /\ RedApart(t, N, Null, Null)
    BY <2>1 DEF Good
  <2>3. PICK bh2 : Heights(bh2, M) /\ Even(r, M, bh2, Swap(z, y, Null), "left")
    BY <2>2, ColorsRenamed
  <2>4. RedApart(r, M, Swap(z, y, Null), Swap(z, y, Null))
    BY <2>2, ColorsRenamed
  <2>5. /\ Shape(r, D, M, SwapSub(sub, M, z, y)) /\ Swap(z, y, Null) = Null
        /\ Color(r, Sentinel) = Color(t, Sentinel)
    BY <1>1, <2>2
  <2>6. Color(r, r.root) = Black
    BY <1>3, <2>2
  <2>7. Good(r, D, M, SwapSub(sub, M, z, y), bh2)
    BY <2>2, <2>3, <2>4, <2>5, <2>6 DEF Good
  <2> QED
    BY <1>5, <2>7 DEF Outcome
<1> QED
  BY <1>4, <1>5

-----------------------------------------------------------------------------
\* Ways.  Each step of a way comes to a node of a lower rank, so it ends.

Way(next, A, rank, R) ==
  /\ next = [m \in A |-> next[m]] /\ Sentinel \notin A /\ R \in Nat
  /\ \A m \in A : rank[m] \in 0..R
  /\ \A m \in A : next[m] # Sentinel => next[m] \in A /\ rank[next[m]] < rank[m]

EndsOf(next) ==
  CHOOSE f : f = [m \in DOMAIN next |-> IF next[m] = Sentinel THEN m ELSE f[next[m]]]

LEMMA EndsExist ==
  ASSUME NEW next, NEW A, NEW rank, NEW R, Way(next, A, rank, R)
  PROVE  /\ \A m \in A : EndsOf(next)[m] = IF next[m] = Sentinel THEN m
                                           ELSE EndsOf(next)[next[m]]
         /\ \A m \in A : WayEnd(next, m) = EndsOf(next)[m]
<1> USE DEF Way
<1> DEFINE Ends(f, m) == f[m] = IF next[m] = Sentinel THEN m ELSE f[next[m]]
           P(k) == \E f : f = [m \in A |-> f[m]] /\ \A m \in A : rank[m] <= k => Ends(f, m)
           B == {k \in 0..R : P(k)}
<1>1. 0 \in B
  <2> DEFINE f == [m \in A |-> m]
  <2>1. \A m \in A : rank[m] <= 0 => Ends(f, m)
    <3> SUFFICES ASSUME NEW m \in A, rank[m] <= 0 PROVE Ends(f, m)
      OBVIOUS
    <3>1. next[m] = Sentinel
      OBVIOUS
    <3> QED
      BY <3>1
  <2>2. f = [m \in A |-> f[m]]
    OBVIOUS
  <2> HIDE DEF f, Ends
  <2>3. P(0)
    BY <2>1, <2>2
  <2> QED
    BY <2>3
<1>2. ASSUME NEW k \in 1..R, k - 1 \in B PROVE k \in B
  <2>1. PICK f : f = [m \in A |-> f[m]] /\ \A m \in A : rank[m] <= k - 1 => Ends(f, m)
    BY <1>2
  <2> DEFINE g == [m \in A |-> IF rank[m] = k
                               THEN IF next[m] = Sentinel THEN m ELSE f[next[m]] ELSE f[m]]
  <2>2. \A m \in A : g[m] = IF rank[m] = k
                            THEN IF next[m] = Sentinel THEN m ELSE f[next[m]] ELSE f[m]
    OBVIOUS
  <2>3. g = [m \in A |-> g[m]]
    OBVIOUS
  <2> HIDE DEF g
  <2>4. \A m \in A : rank[m] <= k => Ends(g, m)
    <3> SUFFICES ASSUME NEW m \in A, rank[m] <= k PROVE Ends(g, m)
      OBVIOUS
    <3>1. next[m] # Sentinel => next[m] \in A /\ rank[next[m]] < rank[m]
      OBVIOUS
    <3>2. next[m] # Sentinel => g[next[m]] = f[next[m]]
      BY <2>2, <3>1
    <3>3. CASE rank[m] = k
      BY <2>2, <3>2, <3>3
    <3>4. CASE rank[m] # k
      <4>1. rank[m] <= k - 1 /\ g[m] = f[m]
        BY <2>2, <3>4
      <4>2. Ends(f, m)
        BY <2>1, <4>1
      <4> QED
        BY <3>2, <4>1, <4>2
    <3> QED
      BY <3>3, <3>4
  <2> HIDE DEF Ends
  <2>5. P(k)
    BY <2>3, <2>4
  <2> QED
    BY <2>5
<1>3. P(R)
  <2> HIDE DEF B, P
  <2>1. 0..R \subseteq B
    BY <1>1, <1>2, Induction
  <2> QED
    BY <2>1 DEF B
<1>4. PICK f : f = [m \in A |-> f[m]] /\ \A m \in A : rank[m] <= R => Ends(f, m)
  BY <1>3
<1>5. \A m \in A : f[m] = IF next[m] = Sentinel THEN m ELSE f[next[m]]
  BY <1>4
<1>6. DOMAIN next = A
  OBVIOUS
<1>7. f = [m \in DOMAIN next |-> IF next[m] = Sentinel THEN m ELSE f[next[m]]]
  BY <1>4, <1>5, <1>6
<1> DEFINE e == EndsOf(next)
<1>8. e = [m \in DOMAIN next |-> IF next[m] = Sentinel THEN m ELSE e[next[m]]]
  BY <1>7 DEF EndsOf
<1>9. \A m \in A : WayEnd(next, m) = e[m]
  BY DEF WayEnd, EndsOf
<1> HIDE DEF e
<1>10. \A m \in A : e[m] = IF next[m] = Sentinel THEN m ELSE e[next[m]]
  BY <1>6, <1>8
<1> QED
  BY <1>9, <1>10 DEF e

\* What holds on a way from its first node on holds where it ends.
LEMMA WayEndIn ==
  ASSUME NEW next, NEW A, NEW rank, NEW R, Way(next, A, rank, R),
         NEW P, P \subseteq A, NEW n \in P,
         \A m \in P : next[m] # Sentinel => next[m] \in P
  PROVE  WayEnd(next, n) \in P /\ next[WayEnd(next, n)] = Sentinel
<1> DEFINE e == EndsOf(next)
           Fine(m) == e[m] \in P /\ next[e[m]] = Sentinel
           B == {k \in 0..R : \A m \in P : rank[m] <= k => Fine(m)}
<1>1. \A m \in A : e[m] = IF next[m] = Sentinel THEN m ELSE e[next[m]]
  BY EndsExist
<1>2. WayEnd(next, n) = e[n]
  BY EndsExist
<1> HIDE DEF e
<1> USE DEF Way
<1>3. 0 \in B
  <2>1. ASSUME NEW m \in P, rank[m] <= 0 PROVE Fine(m)
    <3>1. next[m] = Sentinel
      BY <2>1
    <3> QED
      BY <1>1, <3>1
  <2> QED
    BY <2>1
<1>4. ASSUME NEW k \in 1..R, k - 1 \in B PROVE k \in B
  <2>1. ASSUME NEW m \in P, rank[m] <= k PROVE Fine(m)
    <3>1. CASE next[m] = Sentinel
      BY <1>1, <3>1
    <3>2. CASE next[m] # Sentinel
      <4>1. next[m] \in P /\ rank[next[m]] <= k - 1
        BY <2>1, <3>2
      <4>2. Fine(next[m])
        BY <1>4, <4>1
      <4> QED
        BY <1>1, <3>2, <4>2
    <3> QED
      BY <3>1, <3>2
  <2> HIDE DEF Fine
  <2> QED
    BY <2>1
<1>5. R \in B
  <2> HIDE DEF B
  <2>1. 0..R \subseteq B
    BY <1>3, <1>4, Induction
  <2> QED
    BY <2>1
<1> QED
  BY <1>2, <1>5

\* The nodes of a tree that nothing is left to take out of.
LEMMA LiveNodes ==
  ASSUME NEW t, NEW D, TreeOn(t, D)
  PROVE  DOMAIN t.node = D /\ Live(t) = D \ {Sentinel}
<1>1. DOMAIN t.node = D
  BY DEF TreeOn
<1> QED
  BY <1>1 DEF Live

LEMMA Depths ==
  ASSUME NEW t, NEW D, NEW N, NEW sub, Shape(t, D, N, sub)
  PROVE  /\ Cardinality(N) \in Nat
         /\ \A m \in N : Cardinality(sub[m]) \in 0..Cardinality(N)
         /\ \A m \in N : \A s \in Sides :
              Kid(t, m, s) # Sentinel => Cardinality(sub[Kid(t, m, s)]) < Cardinality(sub[m])
<1>1. IsFiniteSet(N)
  BY NodesAreInts
<1>2. Cardinality(N) \in Nat
  BY <1>1, FS_CardinalityType
<1>3. ASSUME NEW m \in N
      PROVE  Cardinality(sub[m]) \in 0..Cardinality(N) /\ IsFiniteSet(sub[m])
  <2>1. sub[m] \subseteq N
    BY AtNode, SideFacts
  <2>2. IsFiniteSet(sub[m]) /\ Cardinality(sub[m]) <= Cardinality(N)
    BY <1>1, <2>1, FS_Subset
  <2>3. Cardinality(sub[m]) \in Nat
    BY <2>2, FS_CardinalityType
  <2> QED
    BY <1>2, <2>2, <2>3
<1>4. ASSUME NEW m \in N, NEW s \in Sides, Kid(t, m, s) # Sentinel
      PROVE  Cardinality(sub[Kid(t, m, s)]) < Cardinality(sub[m])
  <2> DEFINE c == Kid(t, m, s)
  <2>1. /\ c \in N /\ sub[c] \subseteq sub[m] /\ m \notin sub[c] /\ m \in sub[m]
    BY <1>4, AtNode
  <2> HIDE DEF c
  <2>2. sub[c] # sub[m] /\ IsFiniteSet(sub[m])
    BY <1>3, <2>1
  <2>3. Cardinality(sub[c]) < Cardinality(sub[m])
    BY <1>3, <2>1, <2>2, FS_Subset
  <2> QED
    BY <2>3 DEF c
<1> QED
  BY <1>2, <1>3, <1>4

\* tree_min and tree_max find the first and the last node below a node.
LEMMA ExtremeIs ==
  ASSUME NEW t, NEW D, NEW N, NEW sub, Shape(t, D, N, sub), Live(t) = N,
         NEW c \in N, NEW side \in Sides
  PROVE  LET e == Extreme(t, c, side)
         IN  /\ e \in sub[c] /\ Kid(t, e, side) = Sentinel
             /\ \A k \in sub[c] : k = e \/ On(Other(side), k, e)
<1> DEFINE next == [m \in Live(t) |-> t.node[m][side]]
           e == Extreme(t, c, side)
           rank == [m \in N |-> Cardinality(sub[m])]
           R == Cardinality(N)
           P == {m \in sub[c] : \A k \in sub[c] : k \in sub[m] \/ On(Other(side), k, m)}
<1>1. Sentinel \notin N /\ N \subseteq Int
  BY NodesAreInts
<1>2. \A m \in N : next[m] = Kid(t, m, side)
  BY DEF Kid
<1>3. e = WayEnd(next, c)
  BY <1>1 DEF Extreme
<1>4. next = [m \in N |-> next[m]]
  OBVIOUS
<1> HIDE DEF next, e
<1>5. Way(next, N, rank, R)
  <2>1. \A m \in N : next[m] # Sentinel => next[m] \in N
    BY <1>2, AtNode
  <2>2. /\ R \in Nat /\ \A m \in N : Cardinality(sub[m]) \in 0..R
        /\ \A m \in N : next[m] # Sentinel => Cardinality(sub[next[m]]) < Cardinality(sub[m])
    BY <1>2, Depths
  <2>3. \A m \in N : rank[m] = Cardinality(sub[m])
    OBVIOUS
  <2> HIDE DEF rank, R
  <2> QED
    BY <1>1, <1>4, <2>1, <2>2, <2>3 DEF Way
<1>6. c \in P /\ P \subseteq N
  <2>1. c \in sub[c] /\ sub[c] \subseteq N
    BY AtNode
  <2> QED
    BY <2>1
<1>7. ASSUME NEW m \in P, next[m] # Sentinel PROVE next[m] \in P
  <2> DEFINE d == next[m]
  <2>1. m \in N /\ m \in sub[c]
    BY <1>6
  <2>2. d \in N /\ d \in sub[d] /\ sub[d] \subseteq sub[m] /\ On(side, d, m)
        /\ sub[m] = {m} \cup sub[d] \cup sub[Kid(t, m, Other(side))]
    BY <1>2, <1>7, <2>1, AtNode
  <2>3. sub[m] \subseteq sub[c]
    BY <2>1, Nested
  <2>4. Other(side) \in Sides /\ Other(Other(side)) = side
    BY SideFacts
  <2> HIDE DEF d
  <2>5. ASSUME NEW k \in sub[c] PROVE k \in sub[d] \/ On(Other(side), k, d)
    <3>1. k \in Int /\ d \in Int /\ m \in Int
      BY <1>1, <1>6, <2>1, <2>2, AtNode
    <3>2. On(Other(side), m, d)
      BY <2>2, <3>1, OnFacts
    <3>3. \A j \in sub[Kid(t, m, Other(side))] : On(Other(side), j, m)
      BY <2>1, <2>4, AtNode
    <3>4. k = m \/ k \in sub[d] \/ On(Other(side), k, m)
      BY <2>2, <3>3
    <3> QED
      BY <2>4, <3>1, <3>2, <3>4, OnFacts
  <2> QED
    BY <2>2, <2>3, <2>5 DEF d
<1>8. e \in P /\ next[e] = Sentinel
  <2> HIDE DEF P, rank, R
  <2> QED
    BY <1>3, <1>5, <1>6, <1>7, WayEndIn
<1>9. e \in N /\ Kid(t, e, side) = Sentinel
  BY <1>2, <1>6, <1>8
<1>10. ASSUME NEW k \in sub[c] PROVE k = e \/ On(Other(side), k, e)
  <2>1. sub[e] = {e} \cup sub[Kid(t, e, side)] \cup sub[Kid(t, e, Other(side))]
    BY <1>9, AtNode
  <2>2. sub[Sentinel] = {}
    BY DEF Shape
  <2>3. \A j \in sub[Kid(t, e, Other(side))] : On(Other(side), j, e)
    BY <1>9, SideFacts, AtNode
  <2> QED
    BY <1>8, <1>9, <2>1, <2>2, <2>3
<1> QED
  BY <1>8, <1>9, <1>10 DEF e

-----------------------------------------------------------------------------
\* A node z with two children: y, the first one behind it, is taken out and takes
\* the place of z.

Behind(t, N, sub, z, y) ==
  LET right == Kid(t, z, "right")
  IN  /\ z \in N /\ Kid(t, z, "left") # Sentinel /\ right # Sentinel
      /\ y \in sub[right] /\ Kid(t, y, "left") = Sentinel
      /\ \A k \in sub[right] : k = y \/ On("right", k, y)

LEMMA BehindFacts ==
  ASSUME NEW t, NEW D, NEW N, NEW sub, Shape(t, D, N, sub), NEW z, NEW y, Behind(t, N, sub, z, y)
  PROVE  LET x == Kid(t, y, "right")
             right == Kid(t, z, "right")
             left == Kid(t, z, "left")
         IN  /\ z \in N /\ y \in N /\ y # z /\ left \in N /\ right \in N
             /\ left # z /\ right # z /\ left # y /\ left # right
             /\ Parent(t, left) = z /\ Parent(t, right) = z
             /\ x \in N \cup {Sentinel} /\ x # z /\ x # y /\ x # left /\ x # right
             /\ (x # Sentinel => Parent(t, x) = y)
             /\ y # t.root /\ Parent(t, y) \in sub[z] /\ Parent(t, y) \in N
             /\ (Parent(t, y) = z <=> right = y)
             /\ Parent(t, z) # z /\ Parent(t, z) # y /\ Parent(t, z) # Parent(t, y)
             /\ Parent(t, z) \in N \cup {Sentinel}
             /\ \A m \in N : Parent(t, m) = z => m \in {left, right}
<1> DEFINE x == Kid(t, y, "right")
           right == Kid(t, z, "right")
           left == Kid(t, z, "left")
<1> USE DEF Behind
<1>1. "left" \in Sides /\ "right" \in Sides /\ Other("left") = "right" /\ Other("right") = "left"
      /\ \A s \in Sides : s = "left" \/ s = "right"
  BY DEF Sides, Other
<1>2. Sentinel \notin N
  BY NodesAreInts
<1>3. /\ left \in N /\ Parent(t, left) = z /\ left # z /\ left \in sub[left]
      /\ z \in sub[z] /\ sub[z] \subseteq N
  BY <1>1, AtNode
<1>4. /\ right \in N /\ Parent(t, right) = z /\ right # z /\ right \in sub[right]
      /\ z \notin sub[right] /\ sub[right] \subseteq sub[z] /\ On("right", right, z)
      /\ \A m \in sub[right] : On("right", m, z)
  BY <1>1, AtNode
<1>5. left # right
  BY <1>1, OneSide
<1>6. y \in N /\ y # z /\ y \in sub[z]
  BY <1>3, <1>4
<1>7. left # y
  <2>1. On("left", left, z) /\ On("right", y, z)
    BY <1>1, <1>4, AtNode
  <2> QED
    BY <2>1, <1>1, <1>3, <1>6, OnFacts, NodesAreInts
<1>8. /\ x \in N \cup {Sentinel}
      /\ (x # Sentinel => Parent(t, x) = y /\ x # y /\ x \in sub[x]) /\ sub[x] \subseteq sub[y]
  BY <1>1, <1>6, AtNode
<1>9. sub[y] \subseteq sub[right]
  BY <1>4, Nested
<1>10. x # z /\ x # y /\ x # left /\ x # right
  BY <1>2, <1>3, <1>4, <1>6, <1>8, <1>9
<1>11. Parent(t, y) \in sub[z] /\ Parent(t, y) \in N
  <2>1. Parent(t, y) \in sub[z]
    BY <1>6, AboveToo
  <2> QED
    BY <1>3, <2>1
<1>12. y # t.root
  <2>1. t.root = y => sub[y] = N
    BY DEF Shape
  <2>2. z \notin sub[y]
    BY <1>4, <1>9
  <2> QED
    BY <2>1, <2>2
<1>13. ASSUME NEW m \in N, Parent(t, m) = z PROVE m \in {left, right}
  <2>1. m # t.root
    <3>1. t.root # Sentinel => Parent(t, t.root) = Sentinel
      BY DEF Shape
    <3> QED
      BY <1>2, <1>13, <3>1
  <2>2. PICK s \in Sides : Kid(t, Parent(t, m), s) = m
    BY <2>1, HasParent
  <2> QED
    BY <1>1, <1>13, <2>2
<1>14. Parent(t, y) = z <=> right = y
  BY <1>4, <1>6, <1>7, <1>13
<1>15. Parent(t, z) \in N \cup {Sentinel} /\ Parent(t, z) \notin sub[z]
  <2>1. Parent(t, z) \in N \cup {Sentinel}
    BY PlaceOf
  <2>2. CASE z = t.root
    <3>1. Parent(t, z) = Sentinel
      BY <2>2, PlaceOf
    <3> QED
      BY <1>2, <1>3, <3>1
  <2>3. CASE z # t.root
    <3>1. PICK s \in Sides : Kid(t, Parent(t, z), s) = z
      BY <2>3, HasParent
    <3>2. Parent(t, z) \in N
      BY <2>3, HasParent
    <3>3. Parent(t, z) \notin sub[z]
      BY <3>1, <3>2, AtNode
    <3> QED
      BY <2>1, <3>3
  <2> QED
    BY <2>2, <2>3
<1>16. Parent(t, z) # z /\ Parent(t, z) # y /\ Parent(t, z) # Parent(t, y)
  BY <1>3, <1>6, <1>11, <1>15
<1> QED
  BY <1>3, <1>4, <1>5, <1>6, <1>7, <1>8, <1>10, <1>11, <1>12, <1>13, <1>14, <1>15, <1>16

\* What the first half of Promoted makes of a tree: u is the tree without y.
Loosened(out, u, t, D, N, z, y, x) ==
  /\ TreeOn(out, D) /\ out.root = t.root /\ out.size = t.size
  /\ SameColors(out, t, D) /\ SameValues(out, t, D)
  /\ \A m \in (N \ {y, z}) \cup {x} :
       m # Kid(t, z, "left") => Parent(out, m) = Swap(z, y, Parent(u, m))
  /\ Parent(out, z) = Parent(t, z) /\ Kid(out, z, "left") = Kid(t, z, "left")
  /\ Kid(out, y, "right") = Swap(z, y, Kid(u, z, "right"))
  /\ \A m \in N \ {y, z} : \A s \in Sides : Kid(out, m, s) = Kid(u, m, s)

LEMMA FirstHalf ==
  ASSUME NEW t, NEW D, NEW N, NEW sub, Shape(t, D, N, sub), NEW z, NEW y,
         Behind(t, N, sub, z, y), NEW x, x = Kid(t, y, "right"),
         NEW right, right = Kid(t, z, "right"), NEW u, u = Transplant(t, y, x)
  PROVE  /\ Parent(t, y) = z => Loosened(WithParent(t, x, y), u, t, D, N, z, y, x)
         /\ Parent(t, y) # z =>
              Loosened(WithParent(WithChild(u, y, "right", right), right, y),
                       u, t, D, N, z, y, x)
<1> DEFINE left == Kid(t, z, "left")
           p == Parent(t, y)
<1>1. /\ z \in N /\ y \in N /\ y # z /\ left \in N /\ right \in N
      /\ left # z /\ right # z /\ left # y /\ left # right
      /\ Parent(t, left) = z /\ Parent(t, right) = z
      /\ x \in N \cup {Sentinel} /\ x # z /\ x # y /\ x # left /\ x # right
      /\ (x # Sentinel => Parent(t, x) = y)
      /\ y # t.root /\ p \in N /\ (p = z <=> right = y)
      /\ Parent(t, z) # z /\ Parent(t, z) # y
      /\ \A m \in N : Parent(t, m) = z => m \in {left, right}
  BY BehindFacts
<1>2. TreeOn(t, D) /\ N \subseteq D /\ Sentinel \in D /\ Sentinel \notin N
  BY InTheTree
<1>3. z \in D /\ y \in D /\ right \in D /\ x \in D
  BY <1>1, <1>2
<1>4. /\ TreeOn(u, D) /\ u.root = t.root /\ u.size = t.size
      /\ SameColors(u, t, D) /\ SameValues(u, t, D)
      /\ \A m \in D : Parent(u, m) = IF m = x THEN p ELSE Parent(t, m)
      /\ \A m \in N : \A s \in Sides :
           Kid(u, m, s) = IF Kid(t, m, s) = y THEN x ELSE Kid(t, m, s)
  BY <1>1, <1>3, Replaced
<1>5. "left" \in Sides /\ "right" \in Sides /\ "left" # "right"
  BY DEF Sides
<1>6. ASSUME NEW m \in N, NEW s \in Sides, Kid(t, m, s) = y PROVE m = p
  BY <1>1, <1>6, PlaceOf
<1> HIDE DEF p, left
<1>7. ASSUME p = z PROVE Loosened(WithParent(t, x, y), u, t, D, N, z, y, x)
  <2> DEFINE out == WithParent(t, x, y)
  <2>1. /\ TreeOn(out, D) /\ out.root = t.root /\ out.size = t.size
        /\ SameColors(out, t, D) /\ SameValues(out, t, D) /\ SameKids(out, t, D)
        /\ \A m \in D : Parent(out, m) = IF m = x THEN y ELSE Parent(t, m)
    BY <1>2, <1>3, ParentSet
  <2> HIDE DEF out
  <2>2. ASSUME NEW m \in (N \ {y, z}) \cup {x}, m # left
        PROVE  Parent(out, m) = Swap(z, y, Parent(u, m))
    <3>1. m \in D
      BY <1>2, <1>3
    <3>2. CASE m = x
      BY <1>4, <1>7, <2>1, <3>1, <3>2 DEF Swap
    <3>3. CASE m # x
      <4>1. Parent(out, m) = Parent(t, m) /\ Parent(u, m) = Parent(t, m)
        BY <1>4, <2>1, <3>1, <3>3
      <4>2. Parent(t, m) # z
        BY <1>1, <1>7, <2>2, <3>3
      <4> QED
        BY <4>1, <4>2 DEF Swap
    <3> QED
      BY <3>2, <3>3
  <2>3. Parent(out, z) = Parent(t, z)
    BY <1>1, <1>3, <2>1
  <2>4. Kid(out, z, "left") = Kid(t, z, "left")
    BY <1>3, <1>5, <2>1 DEF SameKids
  <2>5. Kid(out, y, "right") = Swap(z, y, Kid(u, z, "right"))
    <3>1. Kid(out, y, "right") = x
      BY <1>3, <1>5, <2>1 DEF SameKids
    <3>2. Kid(u, z, "right") = x
      BY <1>1, <1>4, <1>5, <1>7
    <3> QED
      BY <1>1, <3>1, <3>2 DEF Swap
  <2>6. ASSUME NEW m \in N \ {y, z}, NEW s \in Sides PROVE Kid(out, m, s) = Kid(u, m, s)
    <3>1. Kid(out, m, s) = Kid(t, m, s)
      BY <1>2, <2>1 DEF SameKids
    <3>2. Kid(t, m, s) # y
      BY <1>6, <1>7
    <3> QED
      BY <1>4, <3>1, <3>2
  <2> QED
    BY <2>1, <2>2, <2>3, <2>4, <2>5, <2>6 DEF Loosened, out, left
<1>8. ASSUME p # z
      PROVE  Loosened(WithParent(WithChild(u, y, "right", right), right, y),
                      u, t, D, N, z, y, x)
  <2> DEFINE a == WithChild(u, y, "right", right)
             out == WithParent(a, right, y)
  <2>1. /\ TreeOn(a, D) /\ a.root = u.root /\ a.size = u.size
        /\ SameColors(a, u, D) /\ SameValues(a, u, D) /\ SameParents(a, u, D)
        /\ \A m \in D : \A s \in Sides :
             Kid(a, m, s) = IF m = y /\ s = "right" THEN right ELSE Kid(u, m, s)
    BY <1>3, <1>4, <1>5, ChildSet
  <2> HIDE DEF a
  <2>2. /\ TreeOn(out, D) /\ out.root = a.root /\ out.size = a.size
        /\ SameColors(out, a, D) /\ SameValues(out, a, D) /\ SameKids(out, a, D)
        /\ \A m \in D : Parent(out, m) = IF m = right THEN y ELSE Parent(a, m)
    BY <1>3, <2>1, ParentSet
  <2> HIDE DEF out
  <2>3. /\ SameColors(out, t, D) /\ SameValues(out, t, D)
    BY <1>4, <2>1, <2>2 DEF SameColors, SameValues
  <2>4. \A m \in D : Parent(out, m) = IF m = right THEN y ELSE
                                      IF m = x THEN p ELSE Parent(t, m)
    BY <1>4, <2>1, <2>2 DEF SameParents
  <2>5. \A m \in D : \A s \in Sides :
          Kid(out, m, s) = IF m = y /\ s = "right" THEN right ELSE Kid(u, m, s)
    BY <2>1, <2>2 DEF SameKids
  <2>6. ASSUME NEW m \in (N \ {y, z}) \cup {x}, m # left
        PROVE  Parent(out, m) = Swap(z, y, Parent(u, m))
    <3>1. m \in D
      BY <1>2, <1>3
    <3>2. CASE m = x
      BY <1>1, <1>4, <1>8, <2>4, <3>1, <3>2 DEF Swap
    <3>3. CASE m = right
      BY <1>1, <1>4, <2>4, <3>1, <3>3 DEF Swap
    <3>4. CASE m # x /\ m # right
      <4>1. Parent(out, m) = Parent(t, m) /\ Parent(u, m) = Parent(t, m)
        BY <1>4, <2>4, <3>1, <3>4
      <4>2. Parent(t, m) # z
        BY <1>1, <2>6, <3>4
      <4> QED
        BY <4>1, <4>2 DEF Swap
    <3> QED
      BY <3>2, <3>3, <3>4
  <2>7. Parent(out, z) = Parent(t, z)
    BY <1>1, <1>3, <2>4
  <2>8. Kid(out, z, "left") = Kid(t, z, "left")
    <3>1. Kid(out, z, "left") = Kid(u, z, "left")
      BY <1>3, <1>5, <2>5
    <3>2. Kid(t, z, "left") # y
      BY <1>1 DEF left
    <3> QED
      BY <1>1, <1>4, <1>5, <3>1, <3>2
  <2>9. Kid(out, y, "right") = Swap(z, y, Kid(u, z, "right"))
    <3>1. Kid(out, y, "right") = right
      BY <1>3, <1>5, <2>5
    <3>2. Kid(u, z, "right") = right
      BY <1>1, <1>4, <1>5, <1>8
    <3> QED
      BY <1>1, <3>1, <3>2 DEF Swap
  <2>10. \A m \in N \ {y, z} : \A s \in Sides : Kid(out, m, s) = Kid(u, m, s)
    BY <1>2, <2>5
  <2> QED
    BY <1>4, <2>1, <2>2, <2>3, <2>6, <2>7, <2>8, <2>9, <2>10 DEF Loosened, out, a, left
<1> QED
  BY <1>7, <1>8 DEF p

LEMMA SecondHalf ==
  ASSUME NEW t, NEW D, NEW N, NEW sub, Shape(t, D, N, sub), NEW z, NEW y,
         Behind(t, N, sub, z, y), NEW x, x = Kid(t, y, "right"),
         NEW u, u = Transplant(t, y, x), NEW out, Loosened(out, u, t, D, N, z, y, x)
  PROVE  LET l == out.node[z].left
             r == Painted(WithParent(WithChild(Transplant(out, z, y), y, "left", l), l, y),
                          y, Color(out, z))
         IN  Renamed(r, u, D, N \ {y}, z, y, x) /\ Kept(r, t, D)
<1> DEFINE l == out.node[z].left
           color == Color(out, z)
           pz == Parent(t, z)
           a == Transplant(out, z, y)
           b == WithChild(a, y, "left", l)
           c == WithParent(b, l, y)
           r == Painted(c, y, color)
           left == Kid(t, z, "left")
           side == SideOf(t, z)
<1>1. /\ z \in N /\ y \in N /\ y # z /\ left \in N
      /\ left # z /\ left # y /\ Parent(t, left) = z
      /\ x \in N \cup {Sentinel} /\ x # z /\ x # y /\ x # left
      /\ y # t.root /\ pz # z /\ pz # y /\ pz \in N \cup {Sentinel}
  BY BehindFacts
<1>2. TreeOn(t, D) /\ N \subseteq D /\ Sentinel \in D /\ Sentinel \notin N
  BY InTheTree
<1>3. z \in D /\ y \in D /\ x \in D /\ left \in D /\ pz \in D
  BY <1>1, <1>2
<1>4. /\ TreeOn(u, D) /\ u.root = t.root /\ u.size = t.size
      /\ SameColors(u, t, D) /\ SameValues(u, t, D)
      /\ \A m \in D : Parent(u, m) = IF m = x THEN Parent(t, y) ELSE Parent(t, m)
      /\ \A m \in N : \A s \in Sides :
           Kid(u, m, s) = IF Kid(t, m, s) = y THEN x ELSE Kid(t, m, s)
  BY <1>1, <1>3, Replaced
<1>5. "left" \in Sides /\ "right" \in Sides /\ "left" # "right"
      /\ \A s \in Sides : s = "left" \/ s = "right"
  BY DEF Sides
<1>6. /\ TreeOn(out, D) /\ out.root = t.root /\ out.size = t.size
      /\ SameColors(out, t, D) /\ SameValues(out, t, D)
      /\ \A m \in (N \ {y, z}) \cup {x} :
           m # left => Parent(out, m) = Swap(z, y, Parent(u, m))
      /\ Parent(out, z) = pz /\ l = left
      /\ Kid(out, y, "right") = Swap(z, y, Kid(u, z, "right"))
      /\ \A m \in N \ {y, z} : \A s \in Sides : Kid(out, m, s) = Kid(u, m, s)
  BY DEF Loosened, Kid
<1>7. \A m \in N : \A s \in Sides : Kid(t, m, s) = z <=> m = pz /\ s = side
  BY <1>1, PlaceOf
<1>8. pz = Sentinel <=> z = t.root
  BY <1>1, PlaceOf
<1>9. color \in Colors /\ color = Color(t, z)
  <2>1. color = Color(t, z)
    BY <1>3, <1>6 DEF SameColors
  <2> QED
    BY <1>2, <1>3, <2>1, TwoColors
<1>10. \A m \in N : \A s \in Sides : Kid(u, m, s) = z <=> m = pz /\ s = side
  BY <1>1, <1>4, <1>7
<1>11. side \in Sides /\ (pz # Sentinel => SideOf(out, z) = side)
  <2>1. side \in Sides
    BY DEF SideOf, Sides
  <2>2. ASSUME pz # Sentinel PROVE SideOf(out, z) = side
    <3>1. pz \in N \ {y, z}
      BY <1>1, <2>2
    <3>2. Kid(out, pz, "left") = z <=> side = "left"
      BY <1>5, <1>6, <1>10, <3>1
    <3>3. SideOf(out, z) = IF z = Kid(out, pz, "left") THEN "left" ELSE "right"
      BY <1>6 DEF SideOf, Kid
    <3> HIDE DEF side
    <3> QED
      BY <1>5, <2>1, <3>2, <3>3
  <2> QED
    BY <2>1, <2>2
<1> HIDE DEF left, pz, side, l, color
<1>12. /\ TreeOn(a, D) /\ a.root = (IF pz = Sentinel THEN y ELSE t.root)
       /\ a.size = t.size /\ SameColors(a, out, D) /\ SameValues(a, out, D)
       /\ \A m \in D : Parent(a, m) = IF m = y THEN pz ELSE Parent(out, m)
       /\ \A m \in D : \A s \in Sides :
            Kid(a, m, s) = IF m = pz /\ pz # Sentinel /\ s = SideOf(out, z) THEN y
                           ELSE Kid(out, m, s)
  <2>1. TreeOn(out, D) /\ z \in D /\ y \in D /\ Parent(out, z) \in D
    BY <1>3, <1>6
  <2> HIDE DEF a
  <2> QED
    BY <1>6, <2>1, TransplantTree DEF a
<1> HIDE DEF a
<1>13. /\ TreeOn(b, D) /\ b.root = a.root /\ b.size = a.size
       /\ SameColors(b, a, D) /\ SameValues(b, a, D) /\ SameParents(b, a, D)
       /\ \A m \in D : \A s \in Sides :
            Kid(b, m, s) = IF m = y /\ s = "left" THEN left ELSE Kid(a, m, s)
  BY <1>3, <1>5, <1>6, <1>12, ChildSet
<1> HIDE DEF b
<1>14. /\ TreeOn(c, D) /\ c.root = b.root /\ c.size = b.size
       /\ SameColors(c, b, D) /\ SameValues(c, b, D) /\ SameKids(c, b, D)
       /\ \A m \in D : Parent(c, m) = IF m = left THEN y ELSE Parent(b, m)
  BY <1>3, <1>6, <1>13, ParentSet
<1> HIDE DEF c
<1>15. /\ TreeOn(r, D) /\ r.root = c.root /\ r.size = c.size
       /\ SameParents(r, c, D) /\ SameValues(r, c, D) /\ SameKids(r, c, D)
       /\ \A m \in D : Color(r, m) = IF m = y THEN color ELSE Color(c, m)
  <2>1. TreeOn(c, D) /\ y \in D /\ color \in Colors
    BY <1>3, <1>9, <1>14
  <2> QED
    BY <2>1, PaintedTree
<1> HIDE DEF r
<1>16. /\ r.size = t.size /\ SameValues(r, t, D)
       /\ \A m \in D : Color(r, m) = IF m = y THEN Color(t, z) ELSE Color(t, m)
  BY <1>6, <1>9, <1>12, <1>13, <1>14, <1>15 DEF SameValues, SameColors
<1>17. \A m \in D : Parent(r, m) = IF m = left THEN y
                                   ELSE IF m = y THEN pz ELSE Parent(out, m)
  BY <1>12, <1>13, <1>14, <1>15 DEF SameParents
<1>18. \A m \in D : \A s \in Sides :
         Kid(r, m, s) = IF m = y /\ s = "left" THEN left
                        ELSE IF m = pz /\ pz # Sentinel /\ s = side THEN y
                        ELSE Kid(out, m, s)
  BY <1>11, <1>12, <1>13, <1>14, <1>15 DEF SameKids
<1>19. r.root = Swap(z, y, u.root)
  BY <1>4, <1>8, <1>12, <1>13, <1>14, <1>15 DEF Swap
<1>20. Parent(r, x) = Swap(z, y, Parent(u, x))
  BY <1>1, <1>3, <1>6, <1>17
<1>21. ASSUME NEW n \in N \ {y, z}
       PROVE  /\ Parent(r, n) = Swap(z, y, Parent(u, n)) /\ Color(r, n) = Color(u, n)
              /\ \A s \in Sides : Kid(r, n, s) = Swap(z, y, Kid(u, n, s))
  <2>1. n \in D /\ n \in N /\ n # y /\ n # z
    BY <1>2
  <2>2. Color(r, n) = Color(u, n)
    BY <1>4, <1>16, <2>1 DEF SameColors
  <2>3. Parent(r, n) = Swap(z, y, Parent(u, n))
    <3>1. CASE n = left
      <4>1. Parent(u, n) = z
        BY <1>1, <1>4, <2>1, <3>1
      <4> QED
        BY <1>17, <2>1, <3>1, <4>1 DEF Swap
    <3>2. CASE n # left
      BY <1>6, <1>17, <2>1, <3>2
    <3> QED
      BY <3>1, <3>2
  <2>4. ASSUME NEW s \in Sides PROVE Kid(r, n, s) = Swap(z, y, Kid(u, n, s))
    <3>1. Kid(r, n, s) = IF n = pz /\ s = side THEN y ELSE Kid(u, n, s)
      BY <1>2, <1>6, <1>18, <2>1
    <3>2. Kid(u, n, s) = z <=> n = pz /\ s = side
      BY <1>10, <2>1
    <3> QED
      BY <3>1, <3>2 DEF Swap
  <2> QED
    BY <2>2, <2>3, <2>4
<1>22. Parent(r, y) = Swap(z, y, Parent(u, z)) /\ Color(r, y) = Color(u, z)
  <2>1. Parent(u, z) = pz
    BY <1>1, <1>3, <1>4 DEF pz
  <2>2. Parent(r, y) = pz
    BY <1>1, <1>3, <1>17
  <2>3. Color(r, y) = Color(u, z)
    BY <1>3, <1>4, <1>16 DEF SameColors
  <2> QED
    BY <1>1, <2>1, <2>2, <2>3 DEF Swap
<1>23. ASSUME NEW s \in Sides PROVE Kid(r, y, s) = Swap(z, y, Kid(u, z, s))
  <2>1. CASE s = "left"
    <3>1. Kid(r, y, s) = left
      BY <1>3, <1>18, <2>1
    <3>2. Kid(t, z, "left") = left
      BY DEF left
    <3>3. Kid(u, z, s) = left
      BY <1>1, <1>4, <2>1, <3>2
    <3> QED
      BY <1>1, <3>1, <3>3 DEF Swap
  <2>2. CASE s = "right"
    BY <1>1, <1>3, <1>5, <1>6, <1>18, <2>2
  <2> QED
    BY <1>5, <2>1, <2>2
<1>24. Color(r, Sentinel) = Color(u, Sentinel)
  BY <1>1, <1>2, <1>4, <1>16 DEF SameColors
<1>25. Renamed(r, u, D, N \ {y}, z, y, x)
  BY <1>15, <1>19, <1>20, <1>21, <1>22, <1>23, <1>24 DEF Renamed
<1>26. Kept(r, t, D)
  BY <1>16 DEF Kept
<1> QED
  BY <1>25, <1>26 DEF r, a, b, c, l, color

\* A node that is not below another one lies on one side of all that are.
LEMMA Outside ==
  ASSUME NEW t, NEW D, NEW N, NEW sub, Shape(t, D, N, sub),
         NEW p \in N, NEW k \in N, k \notin sub[p]
  PROVE  \E q \in Sides : \A m \in sub[p] : On(q, k, m)
<1> DEFINE A == {m \in N : p \in sub[m] /\ k \in sub[m]}
<1>1. N \subseteq Int /\ sub[Sentinel] = {} /\ Sentinel \notin N
  BY InTheTree
<1>2. A \subseteq N /\ A # {}
  <2>1. t.root \in N \cup {Sentinel} /\ sub[t.root] = N
    BY DEF Shape
  <2>2. t.root \in N
    BY <1>1, <2>1
  <2> QED
    BY <2>1, <2>2
<1>3. PICK m \in A : \A s \in Sides : Kid(t, m, s) \notin A
  <2> HIDE DEF A
  <2> QED
    BY <1>2, Lowest
<1>4. m \in N /\ p \in sub[m] /\ k \in sub[m] /\ m # p
  BY <1>3
<1>5. PICK s \in Sides : p \in sub[Kid(t, m, s)]
  <2>1. /\ sub[m] = {m} \cup sub[Kid(t, m, "left")] \cup sub[Kid(t, m, Other("left"))]
    BY <1>4, SideFacts, AtNode
  <2> QED
    BY <1>4, <2>1, SideFacts
<1> DEFINE c == Kid(t, m, s)
           d == Kid(t, m, Other(s))
<1>6. c \in N /\ (\A j \in sub[c] : On(s, j, m)) /\ sub[m] = {m} \cup sub[c] \cup sub[d]
  <2>1. c \in N \cup {Sentinel} /\ (\A j \in sub[c] : On(s, j, m))
        /\ sub[m] = {m} \cup sub[c] \cup sub[d]
    BY <1>4, AtNode
  <2> QED
    BY <1>1, <1>5, <2>1
<1>7. \A j \in sub[d] : On(Other(s), j, m)
  BY <1>4, SideFacts, AtNode
<1>8. k \notin sub[c]
  BY <1>3, <1>5, <1>6
<1>9. sub[p] \subseteq sub[c] /\ sub[p] \subseteq N
  <2>1. c \in N /\ p \in sub[c]
    BY <1>5, <1>6
  <2> HIDE DEF c
  <2> QED
    BY <2>1, Nested, AtNode, SideFacts
<1> HIDE DEF c, d
<1>10. ASSUME NEW j \in sub[p] PROVE On(Other(s), k, j)
  <2>1. j \in Int /\ m \in Int /\ k \in Int /\ Other(s) \in Sides
    BY <1>1, <1>4, <1>9, SideFacts
  <2>2. On(s, j, m)
    BY <1>6, <1>9
  <2>3. On(Other(s), m, j)
    BY <2>1, <2>2, OnFacts
  <2>4. k = m \/ On(Other(s), k, m)
    BY <1>4, <1>6, <1>7, <1>8
  <2> QED
    BY <2>1, <2>3, <2>4, OnFacts
<1> QED
  BY <1>10, SideFacts

LEMMA BehindFits ==
  ASSUME NEW t, NEW D, NEW N, NEW sub, Shape(t, D, N, sub), NEW z, NEW y, Behind(t, N, sub, z, y)
  PROVE  Fits(D, N \ {y}, z, y)
<1>1. N \subseteq Int /\ N \subseteq Keys /\ N \subseteq D
  BY InTheTree
<1>2. z \in N /\ y \in N /\ y # z
  BY BehindFacts
<1> DEFINE right == Kid(t, z, "right")
<1>3. /\ y \in sub[right] /\ (\A k \in sub[right] : k = y \/ On("right", k, y))
      /\ (\A k \in sub[right] : On("right", k, z)) /\ sub[right] \subseteq sub[z]
      /\ sub[z] = {z} \cup sub[right] \cup sub[Kid(t, z, "left")]
      /\ \A k \in sub[Kid(t, z, "left")] : On("left", k, z)
  <2>1. y \in sub[right] /\ (\A k \in sub[right] : k = y \/ On("right", k, y))
    BY DEF Behind
  <2>2. Other("right") = "left"
    BY DEF Other
  <2>3. /\ (\A k \in sub[right] : On("right", k, z)) /\ sub[right] \subseteq sub[z]
        /\ sub[z] = {z} \cup sub[right] \cup sub[Kid(t, z, "left")]
    BY <1>2, <2>2, SideFacts, AtNode
  <2>4. \A k \in sub[Kid(t, z, "left")] : On("left", k, z)
    BY <1>2, SideFacts, AtNode
  <2> QED
    BY <2>1, <2>3, <2>4
<1>4. ASSUME NEW m \in N \ {y, z}, NEW s \in Sides, On(s, m, z) PROVE On(s, m, y)
  <2>1. m \in Int /\ y \in Int /\ z \in Int
    BY <1>1, <1>2
  <2>2. On("right", y, z)
    BY <1>3
  <2>3. CASE m \in sub[right]
    <3>1. On("right", m, y) /\ On("right", m, z)
      BY <1>3, <2>3
    <3>2. s = "right"
      BY <1>4, <2>1, <3>1 DEF On, Sides
    <3> QED
      BY <3>1, <3>2
  <2>4. CASE m \in sub[Kid(t, z, "left")]
    <3>1. On("left", m, z)
      BY <1>3, <2>4
    <3>2. s = "left"
      BY <1>4, <2>1, <3>1 DEF On, Sides
    <3> QED
      BY <2>1, <2>2, <3>1, <3>2 DEF On
  <2>5. CASE m \notin sub[z]
    <3>1. PICK q \in Sides : \A j \in sub[z] : On(q, m, j)
      BY <1>2, <2>5, Outside
    <3>2. On(q, m, z) /\ On(q, m, y)
      BY <1>3, <3>1
    <3>3. q = s
      BY <1>4, <2>1, <3>2 DEF On, Sides
    <3> QED
      BY <3>2, <3>3
  <2> QED
    BY <1>3, <2>3, <2>4, <2>5
<1> QED
  BY <1>1, <1>2, <1>4 DEF Fits

LEMMA PromotedOutcome ==
  ASSUME NEW t, NEW D, NEW N, NEW sub, NEW bh, Good(t, D, N, sub, bh), NEW z, NEW y,
         Behind(t, N, sub, z, y), NEW x, x = Kid(t, y, "right")
  PROVE  Outcome(Promoted(t, z, y), D, N \ {z}, x, Color(t, y)) /\ Kept(Promoted(t, z, y), t, D)
<1> DEFINE r == Promoted(t, z, y)
           u == Transplant(t, y, x)
           right == Kid(t, z, "right")
           out == IF Parent(t, y) = z THEN WithParent(t, x, y)
                  ELSE WithParent(WithChild(u, y, "right", right), right, y)
           l == out.node[z].left
<1>1. Shape(t, D, N, sub)
  BY DEF Good
<1>2. z \in N /\ y \in N /\ y # z /\ x # z
  BY <1>1, BehindFacts
<1>3. r = Painted(WithParent(WithChild(Transplant(out, z, y), y, "left", l), l, y),
                  y, Color(out, z))
  BY DEF Promoted, Kid
<1>4. Loosened(out, u, t, D, N, z, y, x)
  <2>1. /\ Parent(t, y) = z => Loosened(WithParent(t, x, y), u, t, D, N, z, y, x)
        /\ Parent(t, y) # z =>
             Loosened(WithParent(WithChild(u, y, "right", right), right, y),
                      u, t, D, N, z, y, x)
    <3> HIDE DEF u, right
    <3>1. u = Transplant(t, y, x) /\ right = Kid(t, z, "right")
      BY DEF u, right
    <3> QED
      BY <1>1, <3>1, FirstHalf
  <2> HIDE DEF u, right
  <2> QED
    BY <2>1
<1>5. Outcome(u, D, N \ {y}, x, Color(t, y))
  <2>1. Kid(t, y, Other("right")) = Sentinel /\ "right" \in Sides
    BY DEF Behind, Other, Sides
  <2> QED
    BY <1>2, <2>1, CutOff
<1> HIDE DEF out
<1>6. Renamed(r, u, D, N \ {y}, z, y, x) /\ Kept(r, t, D)
  <2> HIDE DEF u, r
  <2>1. u = Transplant(t, y, x)
    BY DEF u
  <2> QED
    BY <1>1, <1>3, <1>4, <2>1, SecondHalf
<1>7. Fits(D, N \ {y}, z, y)
  BY <1>1, BehindFits
<1> HIDE DEF r, u
<1>8. Outcome(r, D, ((N \ {y}) \ {z}) \cup {y}, x, Color(t, y))
  BY <1>2, <1>5, <1>6, <1>7, OutcomeRenamed
<1>9. ((N \ {y}) \ {z}) \cup {y} = N \ {z}
  BY <1>2
<1> QED
  BY <1>6, <1>8, <1>9 DEF r

\* What remove_node leaves before it rebalances.
LEMMA UnlinkedOutcome ==
  ASSUME NEW t, NEW D, NEW N, NEW sub, NEW bh, Good(t, D, N, sub, bh), Live(t) = N, NEW z \in N
  PROVE  LET u == Unlinked(t, z)
         IN  Outcome(u.tree, D, N \ {z}, u.x, u.color) /\ Kept(u.tree, t, D)
<1> DEFINE left == Kid(t, z, "left")
           right == Kid(t, z, "right")
           y == Extreme(t, right, "left")
           u == Unlinked(t, z)
<1>1. left = t.node[z].left /\ right = t.node[z].right
  BY DEF Kid
<1>2. Shape(t, D, N, sub) /\ "left" \in Sides /\ "right" \in Sides
      /\ Other("left") = "right" /\ Other("right") = "left"
  BY DEF Good, Sides, Other
<1>3. CASE left = Sentinel
  <2>1. u = [tree |-> Transplant(t, z, right), x |-> right, color |-> Color(t, z)]
    BY <1>1, <1>3 DEF Unlinked
  <2>2. Outcome(Transplant(t, z, right), D, N \ {z}, right, Color(t, z))
        /\ Kept(Transplant(t, z, right), t, D)
    BY <1>2, <1>3, CutOff
  <2> HIDE DEF u
  <2> QED
    BY <2>1, <2>2 DEF u
<1>4. CASE left # Sentinel /\ right = Sentinel
  <2>1. u = [tree |-> Transplant(t, z, left), x |-> left, color |-> Color(t, z)]
    BY <1>1, <1>4 DEF Unlinked
  <2>2. Outcome(Transplant(t, z, left), D, N \ {z}, left, Color(t, z))
        /\ Kept(Transplant(t, z, left), t, D)
    BY <1>2, <1>4, CutOff
  <2> HIDE DEF u
  <2> QED
    BY <2>1, <2>2 DEF u
<1>5. CASE left # Sentinel /\ right # Sentinel
  <2> DEFINE x == Kid(t, y, "right")
  <2>1. u = [tree |-> Promoted(t, z, y), x |-> x, color |-> Color(t, y)]
    BY <1>1, <1>5 DEF Unlinked, Kid
  <2>2. right \in N
    BY <1>2, <1>5, AtNode
  <2>3. y \in sub[right] /\ Kid(t, y, "left") = Sentinel
        /\ \A k \in sub[right] : k = y \/ On("right", k, y)
    <3>1. y \in sub[right] /\ Kid(t, y, "left") = Sentinel
          /\ \A k \in sub[right] : k = y \/ On(Other("left"), k, y)
      <4> HIDE DEF right
      <4> QED
        BY <1>2, <2>2, ExtremeIs
    <3> QED
      BY <1>2, <3>1
  <2> HIDE DEF y
  <2>4. Behind(t, N, sub, z, y)
    BY <1>5, <2>3 DEF Behind
  <2>5. Outcome(Promoted(t, z, y), D, N \ {z}, x, Color(t, y)) /\ Kept(Promoted(t, z, y), t, D)
    BY <2>4, PromotedOutcome
  <2> HIDE DEF u, x
  <2> QED
    BY <2>1, <2>5 DEF u
<1> QED
  BY <1>3, <1>4, <1>5

\* Freeing a node that is no longer linked.
LEMMA Freed ==
  ASSUME NEW t, NEW D, NEW N, NEW sub, NEW bh, Good(t, D, N, sub, bh),
         NEW z \in D, z \notin N, z # Sentinel, t.size \in Nat \ {0}
  PROVE  LET r == Without(t, z)
         IN  /\ Good(r, D \ {z}, N, sub, bh) /\ r.size = t.size - 1
             /\ SameValues(r, t, D \ {z})
<1> DEFINE r == Without(t, z)
           C == D \ {z}
<1>1. Shape(t, D, N, sub)
  BY DEF Good
<1>2. TreeOn(t, D) /\ N \subseteq D /\ Sentinel \in D /\ Sentinel \notin N
      /\ t.root \in N \cup {Sentinel}
  BY <1>1, InTheTree
<1>3. r = [root |-> t.root, size |-> t.size - 1, node |-> [n \in C |-> t.node[n]]]
  <2> DEFINE a == t.root
             b == t.size
             c == t.node
  <2>1. t = [root |-> a, size |-> b, node |-> c]
    BY <1>2 DEF TreeOn
  <2>2. DOMAIN c = D
    BY <1>2 DEF TreeOn
  <2> HIDE DEF a, b, c
  <2>3. t.root = a /\ t.size = b /\ t.node = c
    BY <2>1
  <2> DEFINE q == [n \in C |-> c[n]]
  <2>4. q = [n \in DOMAIN c \ {z} |-> c[n]]
    BY <2>2
  <2>5. r = [t EXCEPT !.node = [n \in DOMAIN c \ {z} |-> c[n]], !.size = b - 1]
    BY <2>3 DEF Without
  <2> HIDE DEF q, r
  <2>6. r = [t EXCEPT !.node = q, !.size = b - 1]
    BY <2>4, <2>5
  <2>7. r = [root |-> a, size |-> b - 1, node |-> q]
    BY <2>1, <2>6
  <2> QED
    BY <2>3, <2>7 DEF q
<1> HIDE DEF r
<1>4. /\ r.root = t.root /\ r.size = t.size - 1
      /\ r = [root |-> r.root, size |-> r.size, node |-> r.node]
      /\ r.node = [n \in C |-> t.node[n]]
  BY <1>3
<1>5. r.node = [n \in C |-> r.node[n]] /\ \A n \in C : r.node[n] = t.node[n]
  BY <1>4
<1>6. N \subseteq C /\ Sentinel \in C
  BY <1>2
<1>7. /\ \A n \in C : Color(r, n) = Color(t, n) /\ Parent(r, n) = Parent(t, n)
                      /\ Value(r, n) = Value(t, n)
      /\ \A n \in C : \A s : Kid(r, n, s) = Kid(t, n, s)
  BY <1>5 DEF Color, Parent, Value, Kid
<1>8. TreeOn(r, C)
  <2>1. \A n \in C : \E v, c, p, l, q : r.node[n] = Fields(v, c, p, l, q) /\ c \in Colors
    BY <1>2, <1>5 DEF TreeOn
  <2>2. r.size \in Nat
    BY <1>4
  <2> QED
    BY <1>4, <1>5, <1>6, <2>1, <2>2 DEF TreeOn
<1>9. Shape(r, C, N, sub)
  <2>1. ASSUME NEW n \in N PROVE Below(r, N, sub, n)
    <3>1. Below(t, N, sub, n)
      BY <1>1 DEF Shape
    <3>2. \A s \in Sides : Kid(r, n, s) = Kid(t, n, s) /\ Kid(t, n, s) \in C
      BY <1>6, <1>7, <3>1 DEF Below
    <3>3. "left" \in Sides /\ "right" \in Sides
      BY DEF Sides
    <3>4. \A s \in Sides : Parent(r, Kid(t, n, s)) = Parent(t, Kid(t, n, s))
      BY <1>7, <3>2
    <3> QED
      BY <3>1, <3>2, <3>3, <3>4 DEF Below
  <2>2. t.root # Sentinel => Parent(r, t.root) = Sentinel
    BY <1>1, <1>2, <1>6, <1>7 DEF Shape
  <2> QED
    BY <1>1, <1>4, <1>6, <1>8, <2>1, <2>2 DEF Shape
<1>10. ASSUME NEW n \in N, NEW s \in Sides
       PROVE  Kid(r, n, s) = Kid(t, n, s) /\ Color(r, Kid(r, n, s)) = Color(t, Kid(t, n, s))
              /\ Color(r, n) = Color(t, n)
  <2>1. Kid(t, n, s) \in C
    BY <1>1, <1>6 DEF Shape, Below
  <2> QED
    BY <1>6, <1>7, <2>1
<1>11. Even(r, N, bh, Null, "left") /\ RedApart(r, N, Null, Null)
  BY <1>10 DEF Good, Even, RedApart, Weight
<1>12. Color(r, Sentinel) = Black /\ Color(r, r.root) = Black
  BY <1>2, <1>4, <1>6, <1>7 DEF Good
<1>13. Good(r, C, N, sub, bh)
  BY <1>9, <1>11, <1>12 DEF Good
<1> QED
  BY <1>4, <1>7, <1>13 DEF SameValues, r

\* A removal leaves a tree of the other nodes.
LEMMA Removed ==
  ASSUME NEW t, NEW D, NEW N, NEW sub, NEW bh, Good(t, D, N, sub, bh), Live(t) = N,
         NEW z \in N, t.size \in Nat \ {0}
  PROVE  LET r == RemoveNode(t, z)
         IN  /\ \E sub2, bh2 : Good(r, D \ {z}, N \ {z}, sub2, bh2)
             /\ r.size = t.size - 1 /\ SameValues(r, t, D \ {z})
<1> DEFINE u == Unlinked(t, z)
           M == N \ {z}
           w == IF u.color = Black THEN RebalanceAfterDelete(u.tree, u.x) ELSE u.tree
<1>1. Outcome(u.tree, D, M, u.x, u.color) /\ Kept(u.tree, t, D)
  <2> HIDE DEF u
  <2> QED
    BY UnlinkedOutcome DEF u
<1>2. RemoveNode(t, z) = Without(w, z)
  BY DEF RemoveNode
<1> HIDE DEF u
<1>3. TreeOn(t, D) /\ N \subseteq D /\ Sentinel \notin N /\ IsFiniteSet(N)
  BY InTheTree DEF Good
<1>4. (\E sub2, bh2 : Good(w, D, M, sub2, bh2)) /\ Kept(w, t, D)
  <2>1. CASE u.color = Black
    <3> DEFINE r == u.tree
               x == u.x
    <3>1. Short(r, D, M, x) /\ w = RebalanceAfterDelete(r, x)
      BY <1>1, <2>1 DEF Outcome
    <3> HIDE DEF r, x, w
    <3>2. Kept(r, r, D)
      BY DEF Kept, SameValues
    <3>3. ASSUME NEW sub2, NEW bh2, NEW P, NEW S, Deleting(r, D, M, sub2, bh2, x, P, S)
          PROVE  Cardinality(Over(M, sub2, P)) + 0 <= Cardinality(M)
      <4>1. Shape(r, D, M, sub2) /\ P \in M
        BY <3>3 DEF Deleting
      <4> QED
        BY <4>1, OverTypes
    <3> DEFINE b == [tree |-> r, at |-> x]
    <3>4. b.tree = r /\ b.at = x
      OBVIOUS
    <3> HIDE DEF b
    <3>5. DeleteAt(b, r, D, M, 0)
      BY <3>1, <3>2, <3>3, <3>4 DEF DeleteAt, Short
    <3>6. TreeOn(r, D)
      BY <3>1 DEF Short, Topped, Deleting, Shape
    <3>7. Live(r) = N
      BY <1>3, <3>6, LiveNodes
    <3>8. Cardinality(Live(r)) \in Nat /\ Cardinality(M) \in Nat
          /\ Cardinality(M) <= Cardinality(Live(r))
      <4>1. M \subseteq N
        OBVIOUS
      <4> QED
        BY <1>3, <3>7, <4>1, FS_Subset, FS_CardinalityType
    <3>9. DeleteAt([tree |-> r, at |-> x], r, D, M, 0)
      BY <3>5 DEF b
    <3> HIDE DEF M
    <3>10. (\E sub2, bh2 : Good(w, D, M, sub2, bh2)) /\ Kept(w, r, D)
      BY <3>1, <3>8, <3>9, RebalancedDelete
    <3>11. Kept(w, t, D)
      BY <1>1, <3>10, KeptTwice DEF r
    <3> QED
      BY <3>10, <3>11
  <2>2. CASE u.color # Black
    <3>1. w = u.tree
      BY <2>2
    <3> QED
      BY <1>1, <2>2, <3>1 DEF Outcome
  <2> QED
    BY <2>1, <2>2
<1> HIDE DEF w
<1>5. PICK sub2, bh2 : Good(w, D, M, sub2, bh2)
  BY <1>4
<1>6. z \in D /\ z \notin M /\ z # Sentinel /\ w.size \in Nat \ {0} /\ w.size = t.size
  BY <1>3, <1>4 DEF Kept
<1> DEFINE r == Without(w, z)
<1>7. /\ Good(r, D \ {z}, M, sub2, bh2) /\ r.size = w.size - 1
      /\ SameValues(r, w, D \ {z})
  <2> HIDE DEF r, M
  <2> QED
    BY <1>5, <1>6, Freed DEF r
<1>8. SameValues(r, t, D \ {z})
  BY <1>4, <1>7 DEF Kept, SameValues
<1> QED
  BY <1>2, <1>6, <1>7, <1>8

-----------------------------------------------------------------------------
\* Searching.

SideFor(k, n) == IF k < n THEN "left" ELSE "right"

LEMMA SideForFacts ==
  ASSUME NEW k \in Int, NEW n \in Int
  PROVE  /\ SideFor(k, n) \in Sides
         /\ k # n => On(SideFor(k, n), k, n)
         /\ k # n => \A s \in Sides : On(s, k, n) => s = SideFor(k, n)
BY DEF SideFor, Sides, On

\* A search ends at the node of the key, or where it would have to be.
LEMMA DescendIs ==
  ASSUME NEW t, NEW D, NEW N, NEW sub, Shape(t, D, N, sub), Live(t) = N,
         t.root # Sentinel, NEW k \in Int
  PROVE  LET y == Descend(t, t.root, k)
         IN  /\ y \in N /\ (k \in N => y = k)
             /\ k \notin N => /\ Kid(t, y, SideFor(k, y)) = Sentinel
                              /\ \A n \in N : \A q \in Sides :
                                   y \in sub[Kid(t, n, q)] => On(q, k, n)
<1> DEFINE next == [m \in Live(t) |-> IF m = k THEN Sentinel
                     ELSE IF k < m THEN t.node[m].left ELSE t.node[m].right]
           y == Descend(t, t.root, k)
           rank == [m \in N |-> Cardinality(sub[m])]
           R == Cardinality(N)
           P == {m \in N : \A n \in N : \A q \in Sides :
                             m \in sub[Kid(t, n, q)] => On(q, k, n)}
           B == {m \in N : k \in sub[m]}
<1>1. Sentinel \notin N /\ N \subseteq Int /\ t.root \in N /\ sub[t.root] = N
      /\ sub[Sentinel] = {}
  <2>1. sub[t.root] = N /\ sub[Sentinel] = {} /\ t.root \in N \cup {Sentinel}
    BY DEF Shape
  <2>2. Sentinel \notin N /\ N \subseteq Int
    BY NodesAreInts
  <2> QED
    BY <2>1, <2>2
<1>2. \A m \in N : next[m] = IF m = k THEN Sentinel ELSE Kid(t, m, SideFor(k, m))
  BY DEF Kid, SideFor
<1>3. y = WayEnd(next, t.root)
  BY DEF Descend
<1>4. next = [m \in N |-> next[m]]
  OBVIOUS
<1> HIDE DEF next, y
<1>5. \A m \in N : SideFor(k, m) \in Sides
  BY <1>1, SideForFacts
<1>6. Way(next, N, rank, R)
  <2>1. \A m \in N : next[m] # Sentinel => next[m] \in N
    BY <1>2, <1>5, AtNode
  <2>2. /\ R \in Nat /\ \A m \in N : Cardinality(sub[m]) \in 0..R
        /\ \A m \in N : next[m] # Sentinel => Cardinality(sub[next[m]]) < Cardinality(sub[m])
    BY <1>2, <1>5, Depths
  <2>3. \A m \in N : rank[m] = Cardinality(sub[m])
    OBVIOUS
  <2> HIDE DEF rank, R
  <2> QED
    BY <1>1, <1>4, <2>1, <2>2, <2>3 DEF Way
<1>7. y \in P /\ next[y] = Sentinel
  <2>1. t.root \in P
    <3>1. ASSUME NEW n \in N, NEW q \in Sides, t.root \in sub[Kid(t, n, q)] PROVE FALSE
      <4>1. Kid(t, n, q) \in N /\ sub[Kid(t, n, q)] \subseteq N /\ n \notin sub[Kid(t, n, q)]
        BY <1>1, <3>1, AtNode
      <4>2. sub[t.root] \subseteq sub[Kid(t, n, q)]
        <5> DEFINE c == Kid(t, n, q)
        <5>1. c \in N /\ t.root \in sub[c]
          BY <3>1, <4>1
        <5> HIDE DEF c
        <5>2. sub[t.root] \subseteq sub[c]
          BY <5>1, Nested
        <5> QED
          BY <5>2 DEF c
      <4> QED
        BY <1>1, <4>1, <4>2
    <3> QED
      BY <1>1, <3>1
  <2>2. ASSUME NEW m \in P, next[m] # Sentinel PROVE next[m] \in P
    <3> DEFINE d == next[m]
               s == SideFor(k, m)
    <3>1. m \in N /\ m # k /\ d = Kid(t, m, s) /\ s \in Sides /\ On(s, k, m) /\ m \in Int
      BY <1>1, <1>2, <2>2, SideForFacts
    <3>2. d \in N /\ d # Sentinel /\ Parent(t, d) = m
      BY <2>2, <3>1, AtNode
    <3>3. ASSUME NEW n \in N, NEW q \in Sides, d \in sub[Kid(t, n, q)]
          PROVE  On(q, k, n)
      <4> DEFINE c == Kid(t, n, q)
      <4>1. c \in N /\ c # Sentinel
        BY <1>1, <3>3, AtNode
      <4>2. CASE c = d
        <5>1. n = m /\ q = s
          <6>1. Kid(t, m, s) # Sentinel /\ Kid(t, n, q) = Kid(t, m, s)
            BY <3>1, <3>2, <4>2
          <6> HIDE DEF d, s, c
          <6> QED
            BY <3>1, <6>1, OneParent
        <5> QED
          BY <3>1, <5>1
      <4>3. CASE c # d
        <5>1. Parent(t, d) \in sub[c]
          <6> HIDE DEF c, d
          <6>1. d \in sub[c]
            BY <3>3 DEF c
          <6> QED
            BY <4>1, <4>3, <6>1, AboveToo
        <5> QED
          BY <3>2, <5>1
      <4> QED
        BY <4>2, <4>3
    <3> QED
      BY <3>2, <3>3
  <2>3. P \subseteq N
    OBVIOUS
  <2> HIDE DEF P, rank, R
  <2> QED
    BY <1>3, <1>6, <2>1, <2>2, <2>3, WayEndIn
<1>8. ASSUME k \in N PROVE y = k
  <2>1. t.root \in B /\ B \subseteq N
    BY <1>1, <1>8
  <2>2. ASSUME NEW m \in B, m # k
        PROVE  Kid(t, m, SideFor(k, m)) # Sentinel /\ k \in sub[Kid(t, m, SideFor(k, m))]
    <3> DEFINE s == SideFor(k, m)
    <3>1. m \in N /\ m \in Int /\ s \in Sides /\ On(s, k, m) /\ k \in sub[m]
      BY <1>1, <2>2, SideForFacts
    <3>2. Other(s) \in Sides /\ Other(s) # s
      BY <3>1, SideFacts
    <3>3. sub[m] = {m} \cup sub[Kid(t, m, s)] \cup sub[Kid(t, m, Other(s))]
      BY <3>1, AtNode
    <3>4. \A j \in sub[Kid(t, m, Other(s))] : On(Other(s), j, m)
      BY <3>1, <3>2, AtNode
    <3>5. k \notin sub[Kid(t, m, Other(s))]
      BY <3>1, <3>4, OnFacts
    <3> QED
      BY <1>1, <2>2, <3>1, <3>3, <3>5
  <2>3. ASSUME NEW m \in B, next[m] # Sentinel PROVE next[m] \in B
    <3>1. m \in N /\ m # k
      BY <1>2, <2>3
    <3>2. next[m] = Kid(t, m, SideFor(k, m)) /\ k \in sub[next[m]]
      BY <1>2, <2>2, <3>1
    <3>3. next[m] \in N
      BY <1>5, <2>3, <3>1, <3>2, AtNode
    <3> QED
      BY <3>2, <3>3
  <2>4. y \in B /\ next[y] = Sentinel
    <3> HIDE DEF B, rank, R
    <3> QED
      BY <1>3, <1>6, <2>1, <2>3, WayEndIn
  <2> QED
    BY <1>2, <2>2, <2>4
<1>9. ASSUME k \notin N PROVE Kid(t, y, SideFor(k, y)) = Sentinel
  BY <1>2, <1>7, <1>9
<1> QED
  BY <1>7, <1>8, <1>9 DEF y

\* get_tree_node_by_key finds exactly the keys that are in the tree.
LEMMA FoundIs ==
  ASSUME NEW t, NEW D, NEW N, NEW sub, Shape(t, D, N, sub), Live(t) = N,
         t.size = Cardinality(N), NEW k \in Int
  PROVE  Found(t, k) <=> k \in N
<1>1. t.root \in N \cup {Sentinel} /\ sub[t.root] = N /\ sub[Sentinel] = {}
      /\ IsFiniteSet(N) /\ Sentinel \notin N
  <2>1. sub[t.root] = N /\ sub[Sentinel] = {} /\ t.root \in N \cup {Sentinel}
    BY DEF Shape
  <2>2. Sentinel \notin N /\ IsFiniteSet(N)
    BY NodesAreInts
  <2> QED
    BY <2>1, <2>2
<1>2. t.size # 0 <=> N # {}
  BY <1>1, FS_EmptySet
<1>3. t.root # Sentinel <=> N # {}
  BY <1>1
<1>4. ASSUME t.root # Sentinel PROVE Descend(t, t.root, k) = k <=> k \in N
  BY <1>4, DescendIs
<1> QED
  BY <1>2, <1>3, <1>4 DEF Found

-----------------------------------------------------------------------------
\* Insertion: g is the tree t with a new red leaf k on a side of y.

LeafAdded(g, t, D, k, y, side) ==
  /\ TreeOn(g, D \cup {k}) /\ g.root = t.root
  /\ Parent(g, k) = y /\ Color(g, k) = Red /\ \A s \in Sides : Kid(g, k, s) = Sentinel
  /\ \A m \in D : Color(g, m) = Color(t, m) /\ Parent(g, m) = Parent(t, m)
  /\ \A m \in D : \A s \in Sides :
       Kid(g, m, s) = IF m = y /\ s = side THEN k ELSE Kid(t, m, s)

\* k may be below y, on the side where a search for it ended.
Free(t, N, sub, k, y, side) ==
  /\ y \in N /\ side \in Sides /\ Kid(t, y, side) = Sentinel /\ On(side, k, y)
  /\ \A n \in N : \A q \in Sides : y \in sub[Kid(t, n, q)] => On(q, k, n)

LEMMA LeafShape ==
  ASSUME NEW t, NEW D, NEW N, NEW sub, Shape(t, D, N, sub), NEW k \in Keys, k \notin D,
         NEW y, NEW side, Free(t, N, sub, k, y, side),
         NEW g, LeafAdded(g, t, D, k, y, side)
  PROVE  Shape(g, D \cup {k}, N \cup {k},
               [n \in N \cup {k, Sentinel} |->
                  IF n = k THEN {k}
                  ELSE IF y \in sub[n] THEN sub[n] \cup {k} ELSE sub[n]])
<1> DEFINE C == D \cup {k}
           M == N \cup {k}
           sub2 == [n \in N \cup {k, Sentinel} |->
                      IF n = k THEN {k}
                      ELSE IF y \in sub[n] THEN sub[n] \cup {k} ELSE sub[n]]
<1>1. /\ TreeOn(t, D) /\ N \subseteq D /\ Sentinel \in D /\ Sentinel \notin N
      /\ N \subseteq Keys /\ N \subseteq Int
  BY InTheTree
<1>2. /\ sub \in [N \cup {Sentinel} -> SUBSET N] /\ sub[Sentinel] = {}
      /\ t.root \in N \cup {Sentinel} /\ sub[t.root] = N
      /\ (t.root # Sentinel => Parent(t, t.root) = Sentinel)
      /\ \A n \in N : Below(t, N, sub, n)
  BY DEF Shape
<1>3. /\ TreeOn(g, C) /\ g.root = t.root
      /\ Parent(g, k) = y /\ \A s \in Sides : Kid(g, k, s) = Sentinel
      /\ \A m \in D : Parent(g, m) = Parent(t, m)
      /\ \A m \in D : \A s \in Sides :
           Kid(g, m, s) = IF m = y /\ s = side THEN k ELSE Kid(t, m, s)
  BY DEF LeafAdded
<1>4. /\ y \in N /\ side \in Sides /\ Kid(t, y, side) = Sentinel /\ On(side, k, y)
      /\ \A n \in N : \A q \in Sides : y \in sub[Kid(t, n, q)] => On(q, k, n)
  BY DEF Free
<1>5. k \notin N /\ k # Sentinel /\ y # k
  BY <1>1, <1>4
<1>6. /\ sub2[k] = {k} /\ sub2[Sentinel] = {}
      /\ \A n \in N \cup {Sentinel} :
           sub2[n] = IF y \in sub[n] THEN sub[n] \cup {k} ELSE sub[n]
      /\ sub2 \in [N \cup {k, Sentinel} -> SUBSET M]
  <2>1. \A n \in N \cup {Sentinel} : sub[n] \subseteq N /\ n # k
    BY <1>2, <1>5
  <2> QED
    BY <1>2, <1>5, <2>1
<1> HIDE DEF sub2
<1>7. ASSUME NEW n \in N PROVE Below(g, M, sub2, n)
  <2>1. Below(t, N, sub, n)
    BY <1>2
  <2> DEFINE l == Kid(t, n, "left")
             r == Kid(t, n, "right")
  <2>2. /\ n \in sub[n] /\ l \in N \cup {Sentinel} /\ r \in N \cup {Sentinel}
        /\ sub[n] = sub[l] \cup {n} \cup sub[r] /\ n \notin sub[l] /\ n \notin sub[r]
    <3>1. "left" \in Sides /\ "right" \in Sides
      BY DEF Sides
    <3>2. n \notin sub[l] /\ n \notin sub[r] /\ n \in sub[n]
      BY <3>1, AtNode
    <3> QED
      BY <2>1, <3>1, <3>2 DEF Below
  <2>3. ASSUME NEW s \in Sides
        PROVE  /\ Kid(g, n, s) \in M \cup {Sentinel}
               /\ Kid(g, n, s) # Sentinel => Parent(g, Kid(g, n, s)) = n
               /\ \A m \in sub2[Kid(g, n, s)] : On(s, m, n)
    <3> DEFINE c == Kid(t, n, s)
    <3>1. /\ c \in N \cup {Sentinel} /\ (c # Sentinel => Parent(t, c) = n)
          /\ \A m \in sub[c] : On(s, m, n)
      BY <2>1 DEF Below
    <3>2. n \in D /\ (y \in sub[c] => On(s, k, n))
      BY <1>1, <1>4
    <3>3. CASE n = y /\ s = side
      <4>1. Kid(g, n, s) = k
        BY <1>3, <3>2, <3>3
      <4> QED
        BY <1>3, <1>4, <1>6, <3>3, <4>1
    <3>4. CASE ~(n = y /\ s = side)
      <4>1. Kid(g, n, s) = c
        BY <1>3, <3>2, <3>4
      <4> HIDE DEF c
      <4>2. c # Sentinel => Parent(g, c) = n
        BY <1>1, <1>3, <3>1
      <4>3. \A m \in sub2[c] : On(s, m, n)
        BY <1>6, <3>1, <3>2
      <4> QED
        BY <3>1, <4>1, <4>2, <4>3
    <3> QED
      BY <3>3, <3>4
  <2>4. sub2[n] = sub2[Kid(g, n, "left")] \cup {n} \cup sub2[Kid(g, n, "right")]
    <3>0. "left" \in Sides /\ "right" \in Sides /\ "left" # "right"
          /\ (side = "left" \/ side = "right")
      BY <1>4 DEF Sides
    <3> HIDE DEF l, r
    <3>1. CASE n # y
      <4>1. Kid(g, n, "left") = l /\ Kid(g, n, "right") = r
        BY <1>1, <1>3, <3>0, <3>1 DEF l, r
      <4>2. y \in sub[n] <=> y \in sub[l] \/ y \in sub[r]
        BY <2>2, <3>1
      <4>3. sub2[n] = sub2[l] \cup {n} \cup sub2[r]
        BY <1>6, <2>2, <4>2
      <4> QED
        BY <4>1, <4>3
    <3>2. CASE n = y
      <4>1. sub2[n] = sub[n] \cup {k} /\ sub2[l] = sub[l] /\ sub2[r] = sub[r]
        BY <1>6, <2>2, <3>2
      <4>2. CASE side = "left"
        <5>1. Kid(g, n, "left") = k /\ Kid(g, n, "right") = r /\ l = Sentinel
          BY <1>1, <1>3, <1>4, <3>0, <3>2, <4>2 DEF l, r
        <5> QED
          BY <1>2, <1>6, <2>2, <4>1, <5>1
      <4>3. CASE side = "right"
        <5>1. Kid(g, n, "left") = l /\ Kid(g, n, "right") = k /\ r = Sentinel
          BY <1>1, <1>3, <1>4, <3>0, <3>2, <4>3 DEF l, r
        <5> QED
          BY <1>2, <1>6, <2>2, <4>1, <5>1
      <4> QED
        BY <3>0, <4>2, <4>3
    <3> QED
      BY <3>1, <3>2
  <2> QED
    BY <2>3, <2>4 DEF Below
<1>8. Below(g, M, sub2, k)
  <2>1. "left" \in Sides /\ "right" \in Sides
    BY DEF Sides
  <2> QED
    BY <1>3, <1>6, <2>1 DEF Below
<1>9. N \cup {k, Sentinel} = M \cup {Sentinel} /\ M \subseteq C /\ M \subseteq Keys
  BY <1>1
<1>10. g.root \in M \cup {Sentinel} /\ sub2[g.root] = M
       /\ (g.root # Sentinel => Parent(g, g.root) = Sentinel)
  BY <1>1, <1>2, <1>3, <1>4, <1>6
<1>11. sub2 \in [M \cup {Sentinel} -> SUBSET M] /\ sub2[Sentinel] = {}
  BY <1>6, <1>9
<1>12. \A n \in M : Below(g, M, sub2, n)
  BY <1>7, <1>8
<1>13. Shape(g, C, M, sub2)
  <2> HIDE DEF M, C
  <2> QED
    BY <1>3, <1>9, <1>10, <1>11, <1>12 DEF Shape
<1> QED
  BY <1>13 DEF sub2

LEMMA LeafInserting ==
  ASSUME NEW t, NEW D, NEW N, NEW sub, NEW bh, Good(t, D, N, sub, bh),
         NEW k \in Keys, k \notin D, NEW y, NEW side, Free(t, N, sub, k, y, side),
         NEW g, LeafAdded(g, t, D, k, y, side)
  PROVE  \E sub2, bh2 : Inserting(g, D \cup {k}, N \cup {k}, sub2, bh2, k)
<1> DEFINE C == D \cup {k}
           M == N \cup {k}
           bh2 == [n \in M \cup {Sentinel} |-> IF n = k THEN 1 ELSE bh[n]]
<1>1. Shape(t, D, N, sub)
  BY DEF Good
<1>2. /\ N \subseteq D /\ Sentinel \in D /\ Sentinel \notin N
      /\ t.root \in N \cup {Sentinel}
  BY <1>1, InTheTree
<1>3. PICK sub2 : Shape(g, C, M, sub2)
  BY <1>1, LeafShape
<1>4. /\ Heights(bh, N) /\ Even(t, N, bh, Null, "left") /\ RedApart(t, N, Null, Null)
      /\ Color(t, Sentinel) = Black /\ Color(t, t.root) = Black
  BY DEF Good
<1>5. /\ g.root = t.root
      /\ Color(g, k) = Red /\ \A s \in Sides : Kid(g, k, s) = Sentinel
      /\ \A m \in D : Color(g, m) = Color(t, m)
      /\ \A m \in D : \A s \in Sides :
           Kid(g, m, s) = IF m = y /\ s = side THEN k ELSE Kid(t, m, s)
  BY DEF LeafAdded
<1>6. y \in N /\ side \in Sides /\ Kid(t, y, side) = Sentinel
  BY DEF Free
<1>7. k # Sentinel /\ k \notin N /\ k \in M
  BY <1>2
<1>8. /\ bh2[k] = 1 /\ \A n \in N \cup {Sentinel} : bh2[n] = bh[n]
      /\ bh[Sentinel] = 1 /\ \A n \in N \cup {Sentinel} : bh[n] \in Nat \ {0}
  BY <1>4, <1>7 DEF Heights
<1>9. Heights(bh2, M)
  <2>1. \A n \in M \cup {Sentinel} : bh2[n] \in Nat \ {0}
    BY <1>8
  <2> QED
    BY <1>8, <2>1 DEF Heights
<1> HIDE DEF bh2
<1>10. ASSUME NEW n \in N, NEW s \in Sides
       PROVE  /\ bh2[Kid(g, n, s)] = bh[Kid(t, n, s)] /\ n \in D
              /\ Color(g, n) = Color(t, n)
              /\ Kid(g, n, s) # k => Color(g, Kid(g, n, s)) = Color(t, Kid(t, n, s))
  <2>1. Kid(t, n, s) \in N \cup {Sentinel} /\ n \in D
    BY <1>1, AtNode
  <2>2. Kid(g, n, s) = IF n = y /\ s = side THEN k ELSE Kid(t, n, s)
    BY <1>5, <2>1
  <2> QED
    BY <1>2, <1>5, <1>6, <1>8, <2>1, <2>2
<1>11. Even(g, M, bh2, Null, "left")
  <2>1. ASSUME NEW n \in N, NEW s \in Sides
        PROVE  bh2[n] = bh2[Kid(g, n, s)] + Weight(g, n) + Gap(n, s, Null, "left")
    <3>1. bh[n] = bh[Kid(t, n, s)] + Weight(t, n) + Gap(n, s, Null, "left")
      BY <1>4 DEF Even
    <3>2. Weight(g, n) = Weight(t, n)
      BY <1>10 DEF Weight
    <3> QED
      BY <1>8, <1>10, <3>1, <3>2
  <2>2. ASSUME NEW s \in Sides
        PROVE  bh2[k] = bh2[Kid(g, k, s)] + Weight(g, k) + Gap(k, s, Null, "left")
    <3>1. Weight(g, k) = 0
      BY <1>5, ColorFacts DEF Weight
    <3>2. Gap(k, s, Null, "left") = 0
      BY <1>3, <1>7, NoGap
    <3> QED
      BY <1>5, <1>8, <3>1, <3>2
  <2> QED
    BY <2>1, <2>2 DEF Even
<1>12. RedApart(g, M, Null, k)
  <2>1. ASSUME NEW n \in N, NEW s \in Sides, Color(g, n) = Red,
               Color(g, Kid(g, n, s)) = Red, Kid(g, n, s) # k
        PROVE  n = Null
    <3>1. Color(t, n) = Red /\ Color(t, Kid(t, n, s)) = Red
      BY <1>10, <2>1
    <3>2. n = Null \/ Kid(t, n, s) = Null
      BY <1>4, <3>1 DEF RedApart
    <3>3. Kid(t, n, s) \in N \cup {Sentinel}
      BY <1>1, AtNode
    <3>4. Null \notin N \cup {Sentinel}
      BY <1>1, TreeTableConstants, InTheTree DEF Null
    <3> QED
      BY <3>2, <3>3, <3>4
  <2>2. ASSUME NEW s \in Sides PROVE Color(g, Kid(g, k, s)) # Red
    BY <1>2, <1>4, <1>5, ColorFacts
  <2> QED
    BY <2>1, <2>2 DEF RedApart
<1>13. Color(g, Sentinel) = Black /\ Color(g, g.root) = Black
  BY <1>2, <1>4, <1>5
<1>14. Inserting(g, C, M, sub2, bh2, k)
  <2> HIDE DEF C, M
  <2> QED
    BY <1>3, <1>5, <1>7, <1>9, <1>11, <1>12, <1>13 DEF Inserting
<1> QED
  BY <1>14

\* A node that is allocated, and nothing links to yet.
Grown(t, D, k, v, color, y) ==
  [root |-> t.root, size |-> t.size + 1,
   node |-> [n \in D \cup {k} |-> IF n = k THEN Node(v, color, y) ELSE t.node[n]]]

Resized(t, node, size) == [t EXCEPT !.node = node, !.size = size]

LEMMA ResizedIs ==
  ASSUME NEW t, NEW D, TreeOn(t, D), NEW node, NEW size
  PROVE  Resized(t, node, size) = [root |-> t.root, size |-> size, node |-> node]
<1> DEFINE a == t.root
           b == t.size
           c == t.node
           r == Resized(t, node, size)
<1>1. t = [root |-> a, size |-> b, node |-> c]
  BY DEF TreeOn
<1>2. r = [t EXCEPT !.node = node, !.size = size]
  BY DEF Resized
<1> HIDE DEF a, b, c, r
<1>3. r = [root |-> a, size |-> size, node |-> node]
  BY <1>1, <1>2
<1> QED
  BY <1>3 DEF a, r

IsGrown(g, t, D, k, v, color, y) ==
  /\ TreeOn(g, D \cup {k}) /\ g.root = t.root /\ g.size = t.size + 1
  /\ Parent(g, k) = y /\ Color(g, k) = color /\ Value(g, k) = v
  /\ \A s \in Sides : Kid(g, k, s) = Sentinel
  /\ \A m \in D : Color(g, m) = Color(t, m) /\ Parent(g, m) = Parent(t, m)
                  /\ Value(g, m) = Value(t, m)
  /\ \A m \in D : \A s \in Sides : Kid(g, m, s) = Kid(t, m, s)

LEMMA GrownTree ==
  ASSUME NEW t, NEW D, TreeOn(t, D), NEW k, k \notin D, NEW v, NEW color \in Colors, NEW y
  PROVE  IsGrown(Grown(t, D, k, v, color, y), t, D, k, v, color, y)
<1> DEFINE C == D \cup {k}
           g == Grown(t, D, k, v, color, y)
           f == Fields(v, color, y, Sentinel, Sentinel)
<1>1. Node(v, color, y) = f
  BY DEF Node, Fields
<1>2. /\ g.root = t.root /\ g.size = t.size + 1
      /\ g = [root |-> g.root, size |-> g.size, node |-> g.node]
      /\ g.node = [n \in C |-> g.node[n]]
      /\ g.node[k] = f /\ \A m \in D : g.node[m] = t.node[m]
  <2> HIDE DEF f
  <2> QED
    BY <1>1 DEF Grown
<1> HIDE DEF g
<1>3. TreeOn(g, C)
  <2>1. t.size \in Nat /\ Sentinel \in D
        /\ \A n \in D : \E w, c, p, l, r : t.node[n] = Fields(w, c, p, l, r) /\ c \in Colors
    BY DEF TreeOn
  <2>2. \A n \in D : \E w, c, p, l, r : g.node[n] = Fields(w, c, p, l, r) /\ c \in Colors
    BY <1>2, <2>1
  <2>3. \E w, c, p, l, r : g.node[k] = Fields(w, c, p, l, r) /\ c \in Colors
    BY <1>2
  <2>4. \A n \in C : \E w, c, p, l, r : g.node[n] = Fields(w, c, p, l, r) /\ c \in Colors
    BY <2>2, <2>3
  <2> QED
    BY <1>2, <2>1, <2>4 DEF TreeOn
<1>4. /\ Parent(g, k) = y /\ Color(g, k) = color /\ Value(g, k) = v
      /\ \A s \in Sides : Kid(g, k, s) = Sentinel
  <2> HIDE DEF C
  <2> QED
    BY <1>2, FieldsOf DEF Parent, Color, Value, Kid, Sides
<1>5. \A m \in D : /\ Color(g, m) = Color(t, m) /\ Parent(g, m) = Parent(t, m)
                   /\ Value(g, m) = Value(t, m)
                   /\ \A s \in Sides : Kid(g, m, s) = Kid(t, m, s)
  BY <1>2 DEF Parent, Color, Value, Kid
<1>6. IsGrown(g, t, D, k, v, color, y)
  BY <1>2, <1>3, <1>4, <1>5 DEF IsGrown
<1> QED
  BY <1>6 DEF g

\* The first node of a tree.
LEMMA OnlyNode ==
  ASSUME NEW t, NEW k \in Keys, TreeOn(t, {Sentinel, k}), t.root = k,
         Parent(t, k) = Sentinel, Color(t, k) = Black, Color(t, Sentinel) = Black,
         \A s \in Sides : Kid(t, k, s) = Sentinel
  PROVE  \E sub, bh : Good(t, {Sentinel, k}, {k}, sub, bh)
<1> DEFINE sub == [n \in {k, Sentinel} |-> IF n = k THEN {k} ELSE {}]
           bh == [n \in {k, Sentinel} |-> IF n = k THEN 2 ELSE 1]
           N == {k}
<1>1. k # Sentinel
  BY TreeTableConstants
<1>2. sub[k] = N /\ sub[Sentinel] = {} /\ sub \in [N \cup {Sentinel} -> SUBSET N]
  BY <1>1
<1>3. bh[k] = 2 /\ bh[Sentinel] = 1 /\ bh \in [N \cup {Sentinel} -> Nat \ {0}]
  BY <1>1
<1> HIDE DEF sub, bh
<1>4. "left" \in Sides /\ "right" \in Sides
  BY DEF Sides
<1>5. \A n \in N : Below(t, N, sub, n)
  BY <1>2, <1>4 DEF Below
<1>6. Shape(t, {Sentinel, k}, N, sub)
  BY <1>1, <1>2, <1>5 DEF Shape
<1>7. \A n \in N : \A s \in Sides : Gap(n, s, Null, "left") = 0
  BY <1>6, NoGap
<1>8. Even(t, N, bh, Null, "left")
  <2>1. Weight(t, k) = 1
    BY DEF Weight
  <2> QED
    BY <1>3, <1>7, <2>1 DEF Even
<1>9. Heights(bh, N) /\ RedApart(t, N, Null, Null)
  BY <1>3, ColorFacts DEF Heights, RedApart
<1>10. Good(t, {Sentinel, k}, N, sub, bh)
  BY <1>6, <1>8, <1>9 DEF Good
<1> QED
  BY <1>10

\* r is the tree t with one more node.
Entered(r, t, D, N, k, v) ==
  /\ \E sub, bh : Good(r, D \cup {k}, N \cup {k}, sub, bh)
  /\ r.size = t.size + 1 /\ Value(r, k) = v /\ SameValues(r, t, D)

LEMMA InsertedIs ==
  ASSUME NEW t, t = table, NEW D, NEW N, NEW sub, NEW bh, Good(t, D, N, sub, bh),
         Live(t) = N, NEW k \in Keys, k \notin N, NEW v
  PROVE  Entered(Inserted(k, v), t, D, N, k, v)
<1> DEFINE C == D \cup {k}
           y == IF t.root = Sentinel THEN Sentinel ELSE Descend(t, t.root, k)
           color == IF y = Sentinel THEN Black ELSE Red
           g == Grown(t, D, k, v, color, y)
           r == Inserted(k, v)
<1>1. Shape(t, D, N, sub)
  BY DEF Good
<1>2. /\ TreeOn(t, D) /\ N \subseteq D /\ Sentinel \in D /\ Sentinel \notin N
      /\ N \subseteq Keys /\ N \subseteq Int
      /\ t.root \in N \cup {Sentinel} /\ sub[t.root] = N /\ sub[Sentinel] = {}
  <2>1. sub[t.root] = N /\ sub[Sentinel] = {} /\ t.root \in N \cup {Sentinel}
    BY <1>1 DEF Shape
  <2>2. TreeOn(t, D) /\ N \subseteq D /\ Sentinel \in D /\ Sentinel \notin N
        /\ N \subseteq Keys /\ N \subseteq Int
    BY <1>1, InTheTree
  <2> QED
    BY <2>1, <2>2
<1>3. DOMAIN t.node = D /\ D = N \cup {Sentinel} /\ k \notin D /\ k \in Int
      /\ t.size \in Nat
  <2>1. DOMAIN t.node = D /\ N = D \ {Sentinel}
    BY <1>2, LiveNodes
  <2>2. k \in Int /\ k # Sentinel
    BY TreeTableConstants
  <2> QED
    BY <1>2, <2>1, <2>2 DEF TreeOn
<1>4. r = IF y = Sentinel THEN [g EXCEPT !.root = k]
          ELSE RebalanceAfterInsert(WithChild(g, y, SideFor(k, y), k), k)
  <2> DEFINE node == [n \in DOMAIN table.node \cup {k} |->
                        IF n = k THEN Node(v, color, y) ELSE table.node[n]]
             h == [table EXCEPT !.node = node, !.size = @ + 1]
  <2>1. h = g
    <3> DEFINE a == t.root
               b == t.size
               c == t.node
    <3>1. t = [root |-> a, size |-> b, node |-> c]
      BY <1>2 DEF TreeOn
    <3>2. node = [n \in C |-> IF n = k THEN Node(v, color, y) ELSE t.node[n]]
      BY <1>3
    <3>3. g = [root |-> a, size |-> b + 1, node |-> node]
      BY <3>2 DEF Grown
    <3> HIDE DEF a, b, c, node, g
    <3>4. t.size = b
      BY DEF b
    <3>5. h = [t EXCEPT !.node = node, !.size = b + 1]
      BY <3>4
    <3>6. h = Resized(t, node, b + 1)
      BY <3>5 DEF Resized
    <3> HIDE DEF h
    <3>7. Resized(t, node, b + 1) = [root |-> a, size |-> b + 1, node |-> node]
      BY <1>2, ResizedIs DEF a
    <3> QED
      BY <3>3, <3>6, <3>7
  <2>2. r = IF y = Sentinel THEN [h EXCEPT !.root = k]
            ELSE RebalanceAfterInsert([h EXCEPT !.node[y][IF k < y THEN "left" ELSE "right"] = k], k)
    BY DEF Inserted
  <2> HIDE DEF h, g, r, y
  <2> QED
    BY <2>1, <2>2 DEF WithChild, SideFor
<1> HIDE DEF r
<1>5. color \in Colors
  BY ColorFacts
<1>6. /\ TreeOn(g, C) /\ g.root = t.root /\ g.size = t.size + 1
      /\ Parent(g, k) = y /\ Color(g, k) = color /\ Value(g, k) = v
      /\ \A s \in Sides : Kid(g, k, s) = Sentinel
      /\ \A m \in D : Color(g, m) = Color(t, m) /\ Parent(g, m) = Parent(t, m)
                      /\ Value(g, m) = Value(t, m)
      /\ \A m \in D : \A s \in Sides : Kid(g, m, s) = Kid(t, m, s)
  <2>1. TreeOn(t, D)
    BY <1>2
  <2>2. k \notin D
    BY <1>3
  <2> HIDE DEF color, y, C
  <2>3. IsGrown(g, t, D, k, v, color, y)
    BY <1>5, <2>1, <2>2, GrownTree
  <2> HIDE DEF g
  <2> QED
    BY <2>3 DEF IsGrown, C
<1> HIDE DEF g
<1>7. CASE t.root = Sentinel
  <2> DEFINE q == [g EXCEPT !.root = k]
  <2>1. y = Sentinel /\ color = Black /\ N = {} /\ D = {Sentinel} /\ r = q
    BY <1>2, <1>3, <1>4, <1>7
  <2> HIDE DEF y, color
  <2>2. /\ TreeOn(q, C) /\ q.root = k /\ q.size = g.size
        /\ SameColors(q, g, C) /\ SameValues(q, g, C) /\ SameParents(q, g, C)
        /\ SameKids(q, g, C)
    BY <1>6, RootSet
  <2> HIDE DEF q
  <2>3. C = {Sentinel, k} /\ N \cup {k} = {k}
    BY <2>1
  <2>4. Color(t, Sentinel) = Black
    BY DEF Good
  <2>5. /\ Parent(q, k) = Sentinel /\ Color(q, k) = Black /\ Color(q, Sentinel) = Black
        /\ \A s \in Sides : Kid(q, k, s) = Sentinel
    BY <1>2, <1>6, <2>1, <2>2, <2>4 DEF SameColors, SameParents, SameKids
  <2>6. \E sub2, bh2 : Good(q, {Sentinel, k}, {k}, sub2, bh2)
    BY <2>2, <2>3, <2>5, OnlyNode
  <2>7. Value(q, k) = v /\ SameValues(q, t, D)
    BY <1>6, <2>2 DEF SameValues
  <2> QED
    BY <1>6, <2>1, <2>2, <2>3, <2>6, <2>7 DEF r, Entered
<1>8. CASE t.root # Sentinel
  <2> DEFINE s == SideFor(k, y)
             q == WithChild(g, y, s, k)
  <2>1. y \in N /\ Kid(t, y, s) = Sentinel
        /\ \A n \in N : \A o \in Sides : y \in sub[Kid(t, n, o)] => On(o, k, n)
    <3>1. y = Descend(t, t.root, k)
      BY <1>8
    <3> HIDE DEF y
    <3> QED
      BY <1>1, <1>3, <1>8, <3>1, DescendIs
  <2>2. color = Red /\ y # Sentinel
    BY <1>2, <2>1
  <2>3. r = RebalanceAfterInsert(q, k)
    BY <1>4, <2>2
  <2> HIDE DEF y, color
  <2>4. s \in Sides /\ On(s, k, y)
    BY <1>2, <1>3, <2>1, SideForFacts
  <2>5. Free(t, N, sub, k, y, s)
    BY <2>1, <2>4 DEF Free
  <2> HIDE DEF s
  <2>6. /\ TreeOn(q, C) /\ q.root = g.root /\ q.size = g.size
        /\ SameColors(q, g, C) /\ SameValues(q, g, C) /\ SameParents(q, g, C)
        /\ \A m \in C : \A o \in Sides :
             Kid(q, m, o) = IF m = y /\ o = s THEN k ELSE Kid(g, m, o)
    <3>1. TreeOn(g, C) /\ y \in C
      BY <1>2, <1>6, <2>1
    <3> HIDE DEF C
    <3> QED
      BY <2>4, <3>1, ChildSet
  <2> HIDE DEF q
  <2>7. y # k
    BY <2>1
  <2>8. LeafAdded(q, t, D, k, y, s)
    BY <1>6, <2>2, <2>6, <2>7 DEF LeafAdded, SameColors, SameParents
  <2>9. PICK sub2, bh2 : Inserting(q, C, N \cup {k}, sub2, bh2, k)
    <3> QED
      BY <1>3, <2>5, <2>8, LeafInserting
  <2>10. Live(q) = N \cup {k}
    <3>1. Live(q) = C \ {Sentinel}
      BY <2>6, LiveNodes
    <3> QED
      BY <1>2, <1>3, <3>1
  <2>11. (\E sub3, bh3 : Good(r, C, N \cup {k}, sub3, bh3)) /\ Kept(r, q, C)
    BY <2>3, <2>9, <2>10, RebalancedInsert
  <2>12. r.size = t.size + 1 /\ Value(r, k) = v /\ SameValues(r, t, D)
    BY <1>6, <2>6, <2>11 DEF Kept, SameValues
  <2> QED
    BY <2>11, <2>12 DEF r, Entered
<1> QED
  BY <1>7, <1>8

-----------------------------------------------------------------------------
\* Walking.  r is the first of the nodes N beyond n on one side, if there is one.

FirstBeyond(N, n, side, r) ==
  \/ r = Sentinel /\ \A k \in N : ~On(side, k, n)
  \/ /\ r \in N /\ On(side, r, n)
     /\ \A k \in N : On(side, k, n) => k = r \/ On(side, k, r)

LEMMA ClimbIs ==
  ASSUME NEW t, NEW D, NEW N, NEW sub, Shape(t, D, N, sub), Live(t) = N,
         NEW n \in N, NEW side \in Sides, Kid(t, n, side) = Sentinel
  PROVE  FirstBeyond(N, n, side, Climb(t, n, side))
<1> DEFINE next == [m \in Live(t) |->
                      IF Parent(t, m) # Sentinel /\ m = t.node[Parent(t, m)][side]
                      THEN Parent(t, m) ELSE Sentinel]
           w == WayEnd(next, n)
           r == Climb(t, n, side)
           o == Other(side)
           rank == [m \in N |-> Cardinality(Over(N, sub, m))]
           R == Cardinality(N)
           P == {m \in N : n \in sub[m] /\ \A k \in sub[m] : k = n \/ On(o, k, n)}
<1>1. Sentinel \notin N /\ N \subseteq Int
  BY NodesAreInts
<1>2. /\ sub[Sentinel] = {} /\ sub[t.root] = N
      /\ t.root \in N \cup {Sentinel} /\ (t.root # Sentinel => Parent(t, t.root) = Sentinel)
  BY DEF Shape
<1>3. o \in Sides /\ Other(o) = side /\ o # side /\ \A q \in Sides : q = o \/ q = side
  BY SideFacts
<1>4. r = Parent(t, w)
  BY DEF Climb
<1>5. /\ next = [m \in N |-> next[m]]
      /\ \A m \in N : next[m] = IF Parent(t, m) # Sentinel /\ m = Kid(t, Parent(t, m), side)
                                THEN Parent(t, m) ELSE Sentinel
  BY DEF Kid
<1> HIDE DEF next, r, o
<1>6. ASSUME NEW m \in N, next[m] # Sentinel
      PROVE  /\ next[m] \in N /\ Kid(t, next[m], side) = m /\ next[m] # m
             /\ m \in sub[next[m]]
  <2>1. Parent(t, m) # Sentinel /\ m = Kid(t, Parent(t, m), side) /\ next[m] = Parent(t, m)
    BY <1>5, <1>6
  <2>2. m # t.root
    BY <1>2, <2>1
  <2>3. Parent(t, m) \in N
    BY <2>2, HasParent
  <2>4. m \in sub[m] /\ m # Sentinel
    BY AtNode
  <2> DEFINE p == Parent(t, m)
  <2>5. sub[Kid(t, p, side)] \subseteq sub[p] /\ p \notin sub[Kid(t, p, side)]
    <3>1. p \in N
      BY <2>3
    <3> HIDE DEF p
    <3> QED
      BY <3>1, AtNode
  <2> QED
    BY <2>1, <2>3, <2>4, <2>5
<1>7. Way(next, N, rank, R)
  <2>1. R \in Nat /\ \A m \in N : Cardinality(Over(N, sub, m)) \in 0..R
    <3>1. R \in Nat
      BY Depths
    <3>2. \A m \in N : Cardinality(Over(N, sub, m)) \in Nat /\ Cardinality(Over(N, sub, m)) <= R
      BY OverTypes
    <3> QED
      BY <3>1, <3>2
  <2>2. ASSUME NEW m \in N, next[m] # Sentinel
        PROVE  next[m] \in N /\ Cardinality(Over(N, sub, next[m])) < Cardinality(Over(N, sub, m))
    <3> DEFINE p == next[m]
    <3>1. p \in N /\ p # m /\ m \in sub[p]
      BY <1>6, <2>2
    <3> HIDE DEF p
    <3>2. Cardinality(Over(N, sub, p)) < Cardinality(Over(N, sub, m))
      BY <3>1, Higher
    <3> QED
      BY <3>1, <3>2 DEF p
  <2>3. \A m \in N : rank[m] = Cardinality(Over(N, sub, m))
    OBVIOUS
  <2> HIDE DEF rank, R
  <2> QED
    BY <1>1, <1>5, <2>1, <2>2, <2>3 DEF Way
<1>8. n \in P
  <2>1. /\ n \in sub[n] /\ sub[n] = {n} \cup sub[Kid(t, n, side)] \cup sub[Kid(t, n, o)]
    BY AtNode DEF o
  <2>2. \A k \in sub[Kid(t, n, o)] : On(o, k, n)
    BY <1>3, AtNode
  <2> QED
    BY <1>2, <2>1, <2>2
<1>9. ASSUME NEW m \in P, next[m] # Sentinel PROVE next[m] \in P
  <2> DEFINE p == next[m]
  <2>1. p \in N /\ Kid(t, p, side) = m /\ m \in N /\ n \in sub[m]
    BY <1>6, <1>9
  <2> HIDE DEF p
  <2>2. /\ sub[p] \subseteq N /\ p \in sub[p]
        /\ sub[p] = {p} \cup sub[m] \cup sub[Kid(t, p, o)]
        /\ \A k \in sub[m] : On(side, k, p)
    BY <2>1, AtNode DEF o
  <2>3. \A k \in sub[Kid(t, p, o)] : On(o, k, p)
    BY <1>3, <2>1, AtNode
  <2>4. On(o, p, n) /\ p \in Int /\ n \in Int
    <3>1. On(side, n, p) /\ p \in Int /\ n \in Int
      BY <1>1, <2>1, <2>2
    <3> QED
      BY <3>1, OnFacts DEF o
  <2>5. ASSUME NEW k \in sub[p] PROVE k = n \/ On(o, k, n)
    <3>1. k \in Int
      BY <1>1, <2>2
    <3>2. CASE k \in sub[m]
      BY <1>9, <3>2
    <3>3. CASE k = p
      BY <2>4, <3>3
    <3>4. CASE k \in sub[Kid(t, p, o)]
      BY <1>3, <2>3, <2>4, <3>1, <3>4, OnFacts
    <3> QED
      BY <2>2, <3>2, <3>3, <3>4
  <2> QED
    BY <2>1, <2>2, <2>5 DEF p
<1>10. w \in P /\ next[w] = Sentinel
  <2>1. P \subseteq N
    OBVIOUS
  <2> HIDE DEF P, rank, R
  <2> QED
    BY <1>7, <1>8, <1>9, <2>1, WayEndIn
<1> HIDE DEF w
<1>11. /\ w \in N /\ n \in sub[w] /\ \A k \in sub[w] : k = n \/ On(o, k, n)
  BY <1>10
<1>12. n \in Int /\ \A k \in sub[w] : ~On(side, k, n)
  <2>1. sub[w] \subseteq Int
    BY <1>1, <1>11, Nested, AtNode, SideFacts
  <2> QED
    BY <1>1, <1>3, <1>11, <2>1, OnFacts
<1>13. CASE r = Sentinel
  <2>1. w = t.root
    <3>1. w \in N /\ Parent(t, w) \notin N
      BY <1>1, <1>4, <1>11, <1>13
    <3> QED
      BY <3>1, HasParent
  <2> QED
    BY <1>2, <1>12, <1>13, <2>1 DEF FirstBeyond, r
<1>14. CASE r # Sentinel
  <2>1. w # t.root /\ r \in N
    BY <1>1, <1>2, <1>4, <1>11, <1>14, HasParent
  <2>2. Kid(t, r, o) = w
    <3>1. PICK s \in Sides : Kid(t, Parent(t, w), s) = w
      BY <1>11, <2>1, HasParent
    <3>2. s # side
      BY <1>4, <1>5, <1>10, <1>11, <1>14, <3>1
    <3> QED
      BY <1>3, <1>4, <3>1, <3>2
  <2>3. /\ r \in sub[r] /\ sub[w] \subseteq sub[r] /\ \A k \in sub[w] : On(o, k, r)
        /\ sub[r] = {r} \cup sub[w] \cup sub[Kid(t, r, side)] /\ r \in Int
    BY <1>3, <2>1, <2>2, AtNode
  <2>4. On(side, r, n)
    BY <1>3, <1>11, <1>12, <2>3, OnFacts
  <2>5. ASSUME NEW k \in N, On(side, k, n) PROVE k = r \/ On(side, k, r)
    <3>1. k \notin sub[w] /\ k \in Int
      BY <1>1, <1>12, <2>5
    <3>2. CASE k \in sub[r]
      <4>1. k = r \/ k \in sub[Kid(t, r, side)]
        BY <2>3, <3>1, <3>2
      <4> QED
        BY <2>1, <4>1, AtNode
    <3>3. CASE k \notin sub[r]
      <4>1. PICK q \in Sides : \A m \in sub[r] : On(q, k, m)
        BY <2>1, <3>3, Outside
      <4>2. q = side
        <5>1. On(q, k, n)
          BY <1>11, <2>3, <4>1
        <5> QED
          BY <1>3, <1>12, <2>5, <3>1, <5>1, OnFacts
      <4> QED
        BY <2>3, <4>1, <4>2
    <3> QED
      BY <3>2, <3>3
  <2> QED
    BY <2>1, <2>4, <2>5 DEF FirstBeyond, r
<1> QED
  BY <1>13, <1>14

\* get_successor_node and get_predecessor_node
LEMMA NextOnIs ==
  ASSUME NEW t, NEW D, NEW N, NEW sub, Shape(t, D, N, sub), Live(t) = N,
         NEW n \in N, NEW side \in Sides
  PROVE  FirstBeyond(N, n, side, NextOn(t, n, side))
<1> DEFINE c == Kid(t, n, side)
           o == Other(side)
           r == NextOn(t, n, side)
<1>1. CASE c = Sentinel
  <2>1. r = Climb(t, n, side)
    BY <1>1 DEF NextOn, Kid
  <2> QED
    BY <1>1, <2>1, ClimbIs
<1>2. CASE c # Sentinel
  <2>1. r = Extreme(t, c, o)
    BY <1>2 DEF NextOn, Kid
  <2>2. N \subseteq Int
    BY NodesAreInts
  <2>3. o \in Sides /\ Other(o) = side /\ o # side /\ \A q \in Sides : q = o \/ q = side
    BY SideFacts
  <2>4. /\ c \in N /\ sub[c] \subseteq sub[n] /\ sub[n] \subseteq N /\ n \in sub[n]
        /\ \A k \in sub[c] : On(side, k, n)
        /\ sub[n] = {n} \cup sub[c] \cup sub[Kid(t, n, o)]
    BY <1>2, AtNode
  <2> HIDE DEF c, o, r
  <2>5. /\ r \in sub[c] /\ \A k \in sub[c] : k = r \/ On(side, k, r)
    BY <2>1, <2>3, <2>4, ExtremeIs
  <2>6. r \in N /\ On(side, r, n) /\ n \in Int /\ r \in Int
    BY <2>2, <2>4, <2>5
  <2>7. ASSUME NEW k \in N, On(side, k, n) PROVE k = r \/ On(side, k, r)
    <3>1. k \in Int
      BY <2>2
    <3>2. CASE k \in sub[n]
      <4>1. \A m \in sub[Kid(t, n, o)] : On(o, m, n)
        BY <2>3, AtNode
      <4>2. k \notin sub[Kid(t, n, o)] /\ k # n
        BY <2>3, <2>6, <2>7, <3>1, <4>1, OnFacts
      <4> QED
        BY <2>4, <2>5, <3>2, <4>2
    <3>3. CASE k \notin sub[n]
      <4>1. PICK q \in Sides : \A m \in sub[n] : On(q, k, m)
        BY <3>3, Outside
      <4>2. q = side
        BY <2>3, <2>4, <2>6, <2>7, <3>1, <4>1, OnFacts
      <4> QED
        BY <2>4, <2>5, <4>1, <4>2
    <3> QED
      BY <3>2, <3>3
  <2> QED
    BY <2>6, <2>7 DEF FirstBeyond, r
<1> QED
  BY <1>1, <1>2

\* The first and the last node of the tree.
LEMMA EndsAre ==
  ASSUME NEW t, NEW D, NEW N, NEW sub, Shape(t, D, N, sub), Live(t) = N, NEW side \in Sides
  PROVE  LET e == Extreme(t, t.root, side)
         IN  /\ N = {} => e = Sentinel
             /\ N # {} => e \in N /\ \A k \in N : k = e \/ On(Other(side), k, e)
<1>1. /\ sub[t.root] = N /\ sub[Sentinel] = {} /\ t.root \in N \cup {Sentinel}
  BY DEF Shape
<1>2. CASE N = {}
  <2>1. t.root = Sentinel
    BY <1>1, <1>2
  <2> QED
    BY <1>2, <2>1 DEF Extreme
<1>3. CASE N # {}
  <2>1. t.root \in N
    BY <1>1, <1>3
  <2> QED
    BY <1>1, <1>3, <2>1, ExtremeIs
<1> QED
  BY <1>2, <1>3

\* The nodes from m on, in the order of the keys.
From(N, m) == IF m = Sentinel THEN {} ELSE {k \in N : k >= m}

LEMMA FromNext ==
  ASSUME NEW N, N \subseteq Int, IsFiniteSet(N), Sentinel \notin N,
         NEW m \in N, NEW r, FirstBeyond(N, m, "right", r)
  PROVE  /\ r \in N \cup {Sentinel} /\ From(N, m) = {m} \cup From(N, r)
         /\ Cardinality(From(N, m)) \in Nat /\ Cardinality(From(N, r)) \in Nat
         /\ Cardinality(From(N, r)) < Cardinality(From(N, m))
<1>1. /\ \A k \in N : On("right", k, m) <=> m < k
      /\ r \in N => \A k \in N : On("right", k, r) <=> r < k
  BY DEF On
<1>2. r \in N \cup {Sentinel} /\ From(N, m) = {m} \cup From(N, r) /\ m \notin From(N, r)
  <2>1. CASE r = Sentinel
    <3>1. \A k \in N : ~(m < k)
      BY <1>1, <2>1 DEF FirstBeyond
    <3>2. From(N, r) = {} /\ From(N, m) = {k \in N : k >= m}
      BY <2>1 DEF From
    <3>3. \A k \in N : k >= m <=> k = m
      BY <3>1
    <3>4. {k \in N : k >= m} = {m}
      BY <3>3
    <3> QED
      BY <2>1, <3>2, <3>4
  <2>2. CASE r # Sentinel
    <3>1. r \in N /\ m < r /\ \A k \in N : m < k => k = r \/ r < k
      BY <1>1, <2>2 DEF FirstBeyond
    <3>2. From(N, r) = {k \in N : k >= r} /\ From(N, m) = {k \in N : k >= m}
      BY <2>2 DEF From
    <3>3. \A k \in N : k >= m <=> k = m \/ k >= r
      BY <3>1
    <3>4. m \notin {k \in N : k >= r}
      BY <3>1
    <3>5. {k \in N : k >= m} = {m} \cup {k \in N : k >= r}
      BY <3>3
    <3> QED
      BY <3>1, <3>2, <3>4, <3>5
  <2> QED
    BY <2>1, <2>2
<1>3. From(N, m) \subseteq N
  BY DEF From
<1>4. IsFiniteSet(From(N, m)) /\ Cardinality(From(N, m)) \in Nat
  BY <1>3, FS_Subset, FS_CardinalityType
<1>5. From(N, r) \subseteq From(N, m) /\ From(N, r) # From(N, m)
  BY <1>2
<1>6. Cardinality(From(N, r)) \in Nat /\ Cardinality(From(N, r)) < Cardinality(From(N, m))
  BY <1>4, <1>5, FS_Subset, FS_CardinalityType
<1> QED
  BY <1>2, <1>4, <1>6

\* A walk visits the nodes from its first one on.
LEMMA VisitedIs ==
  ASSUME NEW t, NEW D, NEW N, NEW sub, Shape(t, D, N, sub), Live(t) = N
  PROVE  \A m \in N \cup {Sentinel} : Visited(t, m) = From(N, m)
<1> DEFINE A == N \cup {Sentinel}
           go(m) == NextOn(t, m, "right")
           e == CHOOSE f : f = [m \in A |-> IF m = Sentinel THEN {} ELSE {m} \cup f[go(m)]]
           g == [m \in A |-> From(N, m)]
           B == {m \in N : e[m] # From(N, m)}
<1>1. Sentinel \notin N /\ N \subseteq Int /\ IsFiniteSet(N)
  BY NodesAreInts
<1>2. \A m \in A : Visited(t, m) = e[m]
  BY DEF Visited
<1>3. ASSUME NEW m \in N
      PROVE  /\ go(m) \in A /\ From(N, m) = {m} \cup From(N, go(m))
             /\ Cardinality(From(N, m)) \in Nat /\ Cardinality(From(N, go(m))) \in Nat
             /\ Cardinality(From(N, go(m))) < Cardinality(From(N, m))
  <2>1. FirstBeyond(N, m, "right", go(m))
    BY SideFacts, NextOnIs
  <2> QED
    BY <1>1, <2>1, FromNext
<1> HIDE DEF go
<1>4. e = [m \in A |-> IF m = Sentinel THEN {} ELSE {m} \cup e[go(m)]]
  <2>1. \A m \in A : g[m] = IF m = Sentinel THEN {} ELSE {m} \cup g[go(m)]
    BY <1>3 DEF From
  <2>2. g = [m \in A |-> IF m = Sentinel THEN {} ELSE {m} \cup g[go(m)]]
    BY <2>1
  <2> QED
    BY <2>2
<1> HIDE DEF e
<1>5. /\ e[Sentinel] = {} /\ \A m \in N : e[m] = {m} \cup e[go(m)]
  BY <1>1, <1>4
<1>6. B = {}
  <2>1. SUFFICES ASSUME B # {} PROVE FALSE
    OBVIOUS
  <2> DEFINE T == {Cardinality(From(N, m)) : m \in B}
  <2>2. T \subseteq Nat /\ T # {}
    BY <1>3, <2>1
  <2>3. PICK x \in T : \A y \in T : x <= y
    <3> HIDE DEF T
    <3> QED
      BY <2>2, Least
  <2>4. PICK m \in B : x = Cardinality(From(N, m))
    BY <2>3
  <2>5. go(m) \notin B
    <3>1. ASSUME go(m) \in B PROVE FALSE
      <4>1. Cardinality(From(N, go(m))) \in T
        BY <3>1
      <4> QED
        BY <1>3, <2>3, <2>4, <4>1
    <3> QED
      BY <3>1
  <2>6. e[go(m)] = From(N, go(m))
    <3>1. go(m) \in N \/ go(m) = Sentinel
      BY <1>3
    <3>2. From(N, Sentinel) = {}
      BY DEF From
    <3> QED
      BY <1>5, <2>5, <3>1, <3>2
  <2> QED
    BY <1>3, <1>5, <2>4, <2>6
<1>7. \A m \in A : e[m] = From(N, m)
  BY <1>5, <1>6 DEF From
<1> QED
  BY <1>2, <1>7

LEMMA AllVisited ==
  ASSUME NEW t, NEW D, NEW N, NEW sub, Shape(t, D, N, sub), Live(t) = N
  PROVE  Visited(t, First(t)) = N
<1> DEFINE e == First(t)
<1>1. N \subseteq Int /\ Sentinel \notin N
  BY NodesAreInts
<1>2. /\ N = {} => e = Sentinel
      /\ N # {} => e \in N /\ \A k \in N : k = e \/ On("right", k, e)
  BY SideFacts, EndsAre DEF First
<1> HIDE DEF e
<1>3. CASE N = {}
  <2>1. Visited(t, e) = From(N, e) /\ e = Sentinel
    BY <1>2, <1>3, VisitedIs
  <2> QED
    BY <1>3, <2>1 DEF From, e
<1>4. CASE N # {}
  <2>1. Visited(t, e) = From(N, e) /\ e \in N
    BY <1>2, <1>4, VisitedIs
  <2>2. \A k \in N : k >= e
    BY <1>1, <1>2, <2>1 DEF On
  <2> QED
    BY <1>1, <2>1, <2>2 DEF From, e
<1> QED
  BY <1>3, <1>4

\* All ways down from a node have as many black nodes.
LEMMA HeightsAre ==
  ASSUME NEW t, NEW D, NEW N, NEW sub, NEW bh, Shape(t, D, N, sub), Live(t) = N,
         Heights(bh, N), Even(t, N, bh, Null, "left")
  PROVE  \A m \in N \cup {Sentinel} : BlackHeights(t, m) = {bh[m]}
<1> DEFINE A == N \cup {Sentinel}
           up(f, m) == {h + (IF Color(t, m) = Black THEN 1 ELSE 0) :
                          h \in f[t.node[m].left] \cup f[t.node[m].right]}
           e == CHOOSE f : f = [m \in A |-> IF m = Sentinel THEN {1} ELSE up(f, m)]
           g == [m \in A |-> {bh[m]}]
           B == {m \in N : e[m] # {bh[m]}}
<1>1. Sentinel \notin N
  BY NodesAreInts
<1>2. \A m \in A : BlackHeights(t, m) = e[m]
  BY DEF BlackHeights
<1>3. bh[Sentinel] = 1 /\ \A m \in N : bh[m] \in Nat \ {0}
  BY DEF Heights
<1>4. ASSUME NEW f, NEW m \in N, f[Kid(t, m, "left")] = {bh[Kid(t, m, "left")]},
             f[Kid(t, m, "right")] = {bh[Kid(t, m, "right")]}
      PROVE  up(f, m) = {bh[m]}
  <2>1. \A s \in Sides : bh[m] = bh[Kid(t, m, s)] + Weight(t, m) + 0
    BY NoGap DEF Even
  <2>2. \A s \in Sides : Kid(t, m, s) \in N \cup {Sentinel}
    BY AtNode
  <2>3. "left" \in Sides /\ "right" \in Sides
    BY DEF Sides
  <2> DEFINE l == Kid(t, m, "left")
             r == Kid(t, m, "right")
             w == Weight(t, m)
  <2>4. up(f, m) = {h + w : h \in f[l] \cup f[r]}
    BY DEF Kid, Weight
  <2>5. bh[l] \in Nat /\ bh[r] \in Nat /\ w \in Nat
    BY <1>3, <2>2, <2>3 DEF Weight
  <2>6. bh[m] = bh[l] + w /\ bh[m] = bh[r] + w
    BY <2>1, <2>3, <2>5
  <2> HIDE DEF l, r, w, up
  <2>7. f[l] = {bh[l]} /\ f[r] = {bh[r]}
    BY <1>4 DEF l, r
  <2> QED
    BY <2>4, <2>6, <2>7
<1>5. e = [m \in A |-> IF m = Sentinel THEN {1} ELSE up(e, m)]
  <2>1. ASSUME NEW m \in N PROVE up(g, m) = {bh[m]}
    <3>1. Kid(t, m, "left") \in A /\ Kid(t, m, "right") \in A
      BY AtNode, SideFacts
    <3>2. g[Kid(t, m, "left")] = {bh[Kid(t, m, "left")]}
          /\ g[Kid(t, m, "right")] = {bh[Kid(t, m, "right")]}
      BY <3>1
    <3> HIDE DEF g, up
    <3> QED
      BY <1>4, <3>2
  <2> HIDE DEF up
  <2>2. \A m \in A : g[m] = IF m = Sentinel THEN {1} ELSE up(g, m)
    BY <1>3, <2>1
  <2>3. g = [m \in A |-> g[m]]
    OBVIOUS
  <2> HIDE DEF g
  <2>4. g = [m \in A |-> IF m = Sentinel THEN {1} ELSE up(g, m)]
    BY <2>2, <2>3
  <2> QED
    BY <2>4
<1> HIDE DEF e, up
<1>6. e[Sentinel] = {1} /\ \A m \in N : e[m] = up(e, m)
  <2> DEFINE rhs == [m \in A |-> IF m = Sentinel THEN {1} ELSE up(e, m)]
  <2>1. rhs[Sentinel] = {1} /\ \A m \in N : rhs[m] = up(e, m)
    BY <1>1
  <2> HIDE DEF rhs
  <2>2. e = rhs
    BY <1>5 DEF rhs
  <2> QED
    BY <2>1, <2>2
<1>7. B = {}
  <2>1. SUFFICES ASSUME B # {} PROVE FALSE
    OBVIOUS
  <2>2. PICK m \in B : \A s \in Sides : Kid(t, m, s) \notin B
    <3>1. B \subseteq N
      OBVIOUS
    <3> HIDE DEF B
    <3> QED
      BY <2>1, <3>1, Lowest
  <2>3. m \in N
    OBVIOUS
  <2>4. \A s \in Sides : Kid(t, m, s) \in N \cup {Sentinel}
    BY <2>3, AtNode
  <2>5. \A s \in Sides : e[Kid(t, m, s)] = {bh[Kid(t, m, s)]}
    BY <1>3, <1>6, <2>2, <2>4
  <2>6. up(e, m) = {bh[m]}
    BY <1>4, <2>3, <2>5, SideFacts
  <2> QED
    BY <1>6, <2>3, <2>6
<1> QED
  BY <1>2, <1>3, <1>6, <1>7
=============================================================================
