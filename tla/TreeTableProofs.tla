-------------------------- MODULE TreeTableProofs ---------------------------
(***************************************************************************)
(* The tree table is an ordered map and the tree set an ordered set, for   *)
(* every set of keys and values.                                           *)
(*                                                                         *)
(* TreeInv: between two calls the table is a red-black tree of its live    *)
(* nodes (Holds, from Good of RedBlackProofs), size counts them, and the   *)
(* iterator stands between what it returned and what it owes.  Every call  *)
(* keeps TreeInv and is the call of its name of OrderedMapSpec.            *)
(***************************************************************************)
EXTENDS RedBlackProofs

-----------------------------------------------------------------------------
\* The tree of the nodes N, between two calls.

Holds(t, N) ==
  /\ \E sub, bh : Good(t, N \cup {Sentinel}, N, sub, bh)
  /\ t.size = Cardinality(N) /\ Live(t) = N

\* What a call does with the links or the values of a tree, but not with both.
SameLinks(u, t, D) ==
  u.root = t.root /\ SameKids(u, t, D) /\ SameParents(u, t, D) /\ SameColors(u, t, D)

LEMMA HoldsFacts ==
  ASSUME NEW t, NEW N, Holds(t, N)
  PROVE  /\ TreeOn(t, N \cup {Sentinel}) /\ N \subseteq Keys /\ N \subseteq Int /\ IsFiniteSet(N)
         /\ Sentinel \notin N /\ Null \notin N /\ Null # Sentinel /\ Cardinality(N) \in Nat
         /\ t.size = Cardinality(N) /\ Live(t) = N /\ DOMAIN t.node = N \cup {Sentinel}
         /\ (t.size = 0 <=> N = {}) /\ (t.root = Sentinel <=> N = {})
         /\ t.root \in N \cup {Sentinel}
<1> DEFINE D == N \cup {Sentinel}
<1>1. PICK sub, bh : Good(t, D, N, sub, bh)
  BY DEF Holds
<1>2. Shape(t, D, N, sub)
  BY <1>1 DEF Good
<1> HIDE DEF D
<1>3. /\ TreeOn(t, D) /\ Sentinel \notin N /\ N \subseteq Keys /\ N \subseteq Int
  BY <1>2, InTheTree
<1>4. t.root \in N \cup {Sentinel} /\ sub[t.root] = N /\ sub[Sentinel] = {}
  BY <1>2 DEF Shape
<1>5. IsFiniteSet(N)
  BY <1>2, NodesAreInts
<1>6. Cardinality(N) \in Nat /\ (Cardinality(N) = 0 <=> N = {})
  BY <1>5, FS_CardinalityType, FS_EmptySet
<1>7. DOMAIN t.node = D
  BY <1>3, LiveNodes
<1>8. Null \notin N /\ Null # Sentinel
  BY <1>3, TreeTableConstants DEF Null
<1>9. t.root = Sentinel <=> N = {}
  BY <1>3, <1>4
<1>10. t.size = Cardinality(N) /\ Live(t) = N
  BY DEF Holds
<1> QED
  BY <1>3, <1>4, <1>5, <1>6, <1>7, <1>8, <1>9, <1>10 DEF D

LEMMA EmptyHolds ==
  ASSUME NEW t, TreeOn(t, {Sentinel}), t.root = Sentinel, t.size = 0,
         Color(t, Sentinel) = Black
  PROVE  Holds(t, {})
<1> DEFINE sub == [n \in {Sentinel} |-> {}]
           bh == [n \in {Sentinel} |-> 1]
           D == {Sentinel}
<1>1. /\ sub[Sentinel] = {} /\ sub \in [{} \cup {Sentinel} -> SUBSET {}]
      /\ bh[Sentinel] = 1 /\ bh \in [{} \cup {Sentinel} -> Nat \ {0}]
  OBVIOUS
<1> HIDE DEF sub, bh
<1>2. Shape(t, D, {}, sub)
  BY <1>1 DEF Shape
<1>3. Good(t, D, {}, sub, bh)
  BY <1>1, <1>2 DEF Good, Heights, Even, RedApart
<1>4. Cardinality({}) = 0
  BY FS_EmptySet
<1>5. Live(t) = {}
  BY LiveNodes
<1>6. {} \cup {Sentinel} = D
  OBVIOUS
<1> QED
  BY <1>3, <1>4, <1>5, <1>6 DEF Holds

LEMMA EmptyIsEmpty ==
  /\ TreeOn(Empty, {Sentinel}) /\ Color(Empty, Sentinel) = Black
  /\ Empty.root = Sentinel /\ Empty.size = 0
<1>1. /\ Empty.root = Sentinel /\ Empty.size = 0
      /\ Empty.node = [n \in {Sentinel} |-> SentinelNode]
      /\ Empty = [root |-> Empty.root, size |-> Empty.size, node |-> Empty.node]
  BY DEF Empty
<1>2. SentinelNode = Fields(Null, Black, Null, Null, Null) /\ SentinelNode.color = Black
  BY DEF SentinelNode, Fields
<1>3. Empty.node[Sentinel] = SentinelNode
      /\ Empty.node = [n \in {Sentinel} |-> Empty.node[n]]
  BY <1>1
<1>4. TreeOn(Empty, {Sentinel})
  <2>1. \A n \in {Sentinel} :
          \E v, c, p, l, r : Empty.node[n] = Fields(v, c, p, l, r) /\ c \in Colors
    BY <1>2, <1>3, ColorFacts
  <2> QED
    BY <1>1, <1>3, <2>1 DEF TreeOn
<1> QED
  BY <1>1, <1>2, <1>3, <1>4 DEF Color

\* remove_all, on the tree t
Cleared(t) ==
  [t EXCEPT !.root = Sentinel, !.size = 0, !.node = [n \in {Sentinel} |-> @[n]]]

LEMMA ClearedIsEmpty ==
  ASSUME NEW t, NEW N, Holds(t, N)
  PROVE  Holds(Cleared(t), {})
<1> DEFINE r == Cleared(t)
           a == t.root
           b == t.size
           c == t.node
           q == [n \in {Sentinel} |-> c[n]]
<1>1. t = [root |-> a, size |-> b, node |-> c] /\ t.node = c
  BY HoldsFacts DEF TreeOn
<1>2. r = [t EXCEPT !.root = Sentinel, !.size = 0, !.node = [n \in {Sentinel} |-> t.node[n]]]
  BY DEF Cleared
<1>3. q = [n \in {Sentinel} |-> t.node[n]]
  BY <1>1
<1> HIDE DEF a, b, c, q, r
<1>4. r = [t EXCEPT !.root = Sentinel, !.size = 0, !.node = q]
  BY <1>2, <1>3
<1>5. r = [root |-> Sentinel, size |-> 0, node |-> q]
  BY <1>1, <1>4
<1>6. /\ r.root = Sentinel /\ r.size = 0 /\ r.node[Sentinel] = t.node[Sentinel]
      /\ r = [root |-> r.root, size |-> r.size, node |-> r.node]
      /\ r.node = [n \in {Sentinel} |-> r.node[n]]
  BY <1>3, <1>5
<1>7. TreeOn(t, N \cup {Sentinel})
  BY HoldsFacts
<1>8. TreeOn(r, {Sentinel})
  <2>1. \A n \in {Sentinel} :
          \E v, x, p, l, o : r.node[n] = Fields(v, x, p, l, o) /\ x \in Colors
    BY <1>6, <1>7 DEF TreeOn
  <2> QED
    BY <1>6, <2>1 DEF TreeOn
<1>9. Color(r, Sentinel) = Black
  <2>1. Color(t, Sentinel) = Black
    BY DEF Holds, Good
  <2> QED
    BY <1>6, <2>1 DEF Color
<1> QED
  BY <1>6, <1>8, <1>9, EmptyHolds DEF r

\* Another value for a node that is there.
Revalued(t, n, x) == [t EXCEPT !.node[n].value = x]

LEMMA ValueSet ==
  ASSUME NEW t, NEW D, TreeOn(t, D), NEW n \in D, NEW x
  PROVE  LET u == Revalued(t, n, x)
         IN  /\ TreeOn(u, D) /\ u.size = t.size /\ SameLinks(u, t, D)
             /\ \A m \in D : Value(u, m) = IF m = n THEN x ELSE Value(t, m)
<1> DEFINE u == Revalued(t, n, x)
           other(f) == [f EXCEPT !.value = x]
<1>1. PICK v, c, p, l, r : t.node[n] = Fields(v, c, p, l, r) /\ c \in Colors
  BY DEF TreeOn
<1>2. u = WithNode(t, n, Fields(x, c, p, l, r))
  <2>1. u = WithNode(t, n, other(t.node[n]))
    <3> DEFINE a == t.root
               b == t.size
               d == t.node
    <3>1. t = [root |-> a, size |-> b, node |-> d]
      BY DEF TreeOn
    <3> HIDE DEF a, b, d
    <3>2. t.root = a /\ t.size = b /\ t.node = d
      BY <3>1
    <3> QED
      BY <3>1, <3>2 DEF Revalued, WithNode
  <2>2. other(Fields(v, c, p, l, r)) = Fields(x, c, p, l, r)
    BY DEF Fields
  <2>3. other(t.node[n]) = Fields(x, c, p, l, r)
    BY <1>1, <2>2
  <2> HIDE DEF u, other
  <2> QED
    BY <2>1, <2>3
<1>3. /\ TreeOn(u, D) /\ u.root = t.root /\ u.size = t.size
      /\ u.node[n] = Fields(x, c, p, l, r)
      /\ \A m \in D \ {n} : u.node[m] = t.node[m]
  <2> HIDE DEF u
  <2> QED
    BY <1>1, <1>2, OtherNode
<1> HIDE DEF u
<1>4. /\ Parent(u, n) = Parent(t, n) /\ Value(u, n) = x /\ Color(u, n) = Color(t, n)
      /\ \A s \in Sides : Kid(u, n, s) = Kid(t, n, s)
  BY <1>1, <1>3, FieldsOf DEF Parent, Value, Color, Kid, Sides
<1>5. \A m \in D \ {n} :
        /\ Parent(u, m) = Parent(t, m) /\ Value(u, m) = Value(t, m)
        /\ Color(u, m) = Color(t, m) /\ \A s \in Sides : Kid(u, m, s) = Kid(t, m, s)
  BY <1>3 DEF Parent, Value, Color, Kid
<1> QED
  BY <1>3, <1>4, <1>5 DEF SameLinks, SameColors, SameParents, SameKids, u

LEMMA RevaluedHolds ==
  ASSUME NEW t, NEW N, Holds(t, N), NEW n \in N, NEW x
  PROVE  LET u == Revalued(t, n, x)
         IN  Holds(u, N) /\ \A m \in N : Value(u, m) = IF m = n THEN x ELSE Value(t, m)
<1> DEFINE u == Revalued(t, n, x)
           D == N \cup {Sentinel}
<1>1. PICK sub, bh : Good(t, D, N, sub, bh)
  BY DEF Holds
<1>2. Shape(t, D, N, sub)
  BY <1>1 DEF Good
<1>3. TreeOn(t, D) /\ n \in D /\ N \subseteq D /\ Sentinel \in D /\ Sentinel \notin N
  BY HoldsFacts
<1>4. /\ TreeOn(u, D) /\ u.size = t.size /\ SameLinks(u, t, D)
      /\ \A m \in D : Value(u, m) = IF m = n THEN x ELSE Value(t, m)
  <2> HIDE DEF D
  <2> QED
    BY <1>3, ValueSet
<1> HIDE DEF u, D
<1>5. /\ u.root = t.root /\ SameKids(u, t, D) /\ SameParents(u, t, D)
      /\ SameColors(u, t, D)
  BY <1>4 DEF SameLinks
<1>6. Shape(u, D, N, sub)
  BY <1>2, <1>4, <1>5, ShapeKept
<1>7. ASSUME NEW m \in N, NEW s \in Sides
      PROVE  /\ Kid(u, m, s) = Kid(t, m, s) /\ Color(u, m) = Color(t, m)
             /\ Color(u, Kid(t, m, s)) = Color(t, Kid(t, m, s))
  <2>1. m \in D /\ Kid(t, m, s) \in D
    BY <1>2, <1>3, AtNode
  <2> QED
    BY <1>5, <2>1 DEF SameKids, SameColors
<1>8. Even(u, N, bh, Null, "left") /\ RedApart(u, N, Null, Null)
  BY <1>1, <1>7 DEF Good, Even, RedApart, Weight
<1>9. Color(u, Sentinel) = Black /\ Color(u, u.root) = Black
  <2>1. t.root \in D
    BY <1>3, HoldsFacts
  <2> QED
    BY <1>1, <1>3, <1>5, <2>1 DEF Good, SameColors
<1>10. Good(u, D, N, sub, bh)
  BY <1>1, <1>6, <1>8, <1>9 DEF Good
<1>11. Live(u) = N
  <2>1. Live(u) = D \ {Sentinel}
    BY <1>4, LiveNodes
  <2> QED
    BY <1>3, <2>1 DEF D
<1>12. Holds(u, N)
  BY <1>4, <1>10, <1>11 DEF Holds, D
<1>13. \A m \in N : Value(u, m) = IF m = n THEN x ELSE Value(t, m)
  BY <1>3, <1>4
<1> QED
  BY <1>12, <1>13 DEF u

LEMMA RemovedHolds ==
  ASSUME NEW t, NEW N, Holds(t, N), NEW z \in N
  PROVE  LET u == RemoveNode(t, z)
         IN  Holds(u, N \ {z}) /\ \A m \in N \ {z} : Value(u, m) = Value(t, m)
<1> DEFINE u == RemoveNode(t, z)
           D == N \cup {Sentinel}
           M == N \ {z}
<1>1. PICK sub, bh : Good(t, D, N, sub, bh)
  BY DEF Holds
<1>2. /\ Live(t) = N /\ IsFiniteSet(N) /\ Cardinality(N) \in Nat /\ t.size = Cardinality(N)
      /\ Sentinel \notin N /\ t.size # 0
  BY HoldsFacts
<1>3. t.size \in Nat \ {0}
  BY <1>2
<1>4. /\ \E sub2, bh2 : Good(u, D \ {z}, M, sub2, bh2)
      /\ u.size = t.size - 1 /\ SameValues(u, t, D \ {z})
  <2> HIDE DEF u, D
  <2> QED
    BY <1>1, <1>2, <1>3, Removed DEF u
<1> HIDE DEF u
<1>5. D \ {z} = M \cup {Sentinel}
  BY <1>2
<1>6. Cardinality(M) = Cardinality(N) - 1
  BY <1>2, FS_RemoveElement
<1>7. Live(u) = M
  <2>1. TreeOn(u, M \cup {Sentinel})
    BY <1>4, <1>5 DEF Good, Shape
  <2>2. Live(u) = (M \cup {Sentinel}) \ {Sentinel}
    <3> HIDE DEF M
    <3> QED
      BY <2>1, LiveNodes
  <2> QED
    BY <1>2, <2>2
<1>8. Holds(u, M)
  <2>1. \E sub2, bh2 : Good(u, M \cup {Sentinel}, M, sub2, bh2)
    BY <1>4, <1>5
  <2>2. u.size = Cardinality(M)
    BY <1>2, <1>4, <1>6
  <2> HIDE DEF M
  <2> QED
    BY <1>7, <2>1, <2>2 DEF Holds
<1>9. \A m \in M : Value(u, m) = Value(t, m)
  BY <1>4 DEF SameValues
<1> QED
  BY <1>8, <1>9 DEF u

LEMMA InsertedHolds ==
  ASSUME NEW t, t = table, NEW N, Holds(t, N), NEW k \in Keys, k \notin N, NEW v
  PROVE  LET u == Inserted(k, v)
         IN  /\ Holds(u, N \cup {k}) /\ Value(u, k) = v
             /\ \A m \in N : Value(u, m) = Value(t, m)
<1> DEFINE u == Inserted(k, v)
           D == N \cup {Sentinel}
           M == N \cup {k}
<1>1. PICK sub, bh : Good(t, D, N, sub, bh)
  BY DEF Holds
<1>2. /\ Live(t) = N /\ IsFiniteSet(N) /\ Cardinality(N) \in Nat /\ t.size = Cardinality(N)
      /\ Sentinel \notin N
  BY HoldsFacts
<1>3. /\ \E sub2, bh2 : Good(u, D \cup {k}, M, sub2, bh2)
      /\ u.size = t.size + 1 /\ Value(u, k) = v /\ SameValues(u, t, D)
  <2>1. Good(t, D, N, sub, bh) /\ Live(t) = N
    BY <1>1, <1>2
  <2> HIDE DEF D
  <2>2. Entered(u, t, D, N, k, v)
    BY <2>1, InsertedIs
  <2> HIDE DEF u
  <2> QED
    BY <2>2 DEF Entered
<1> HIDE DEF u
<1>4. D \cup {k} = M \cup {Sentinel} /\ k # Sentinel
  BY TreeTableConstants
<1>5. Cardinality(M) = Cardinality(N) + 1
  BY <1>2, FS_AddElement
<1>6. Live(u) = M
  <2>1. TreeOn(u, M \cup {Sentinel})
    BY <1>3, <1>4 DEF Good, Shape
  <2>2. Live(u) = (M \cup {Sentinel}) \ {Sentinel}
    <3> HIDE DEF M
    <3> QED
      BY <2>1, LiveNodes
  <2> QED
    BY <1>2, <1>4, <2>2
<1>7. Holds(u, M)
  BY <1>2, <1>3, <1>4, <1>5, <1>6 DEF Holds
<1>8. \A m \in N : Value(u, m) = Value(t, m)
  BY <1>3 DEF SameValues
<1> QED
  BY <1>3, <1>7, <1>8 DEF u

\* What the calls find out about the tree of the nodes N.
LEMMA Answers ==
  ASSUME NEW t, NEW N, Holds(t, N)
  PROVE  /\ \A k \in Keys : Found(t, k) <=> k \in N
         /\ \A k \in Keys : t.root # Sentinel /\ Descend(t, t.root, k) = k <=> k \in N
         /\ \A n \in N : \A s \in Sides : FirstBeyond(N, n, s, NextOn(t, n, s))
         /\ N = {} => First(t) = Sentinel /\ Last(t) = Sentinel
         /\ N # {} => /\ First(t) \in N /\ \A k \in N : First(t) <= k
                      /\ Last(t) \in N /\ \A k \in N : k <= Last(t)
         /\ Visited(t, First(t)) = N
<1> DEFINE D == N \cup {Sentinel}
<1>1. PICK sub, bh : Good(t, D, N, sub, bh)
  BY DEF Holds
<1>2. Shape(t, D, N, sub)
  BY <1>1 DEF Good
<1>3. Live(t) = N /\ t.size = Cardinality(N) /\ N \subseteq Int
      /\ (t.root = Sentinel <=> N = {})
  BY HoldsFacts
<1>4. Keys \subseteq Int
  BY TreeTableConstants
<1> HIDE DEF D
<1>5. ASSUME NEW k \in Keys PROVE Found(t, k) <=> k \in N
  <2>1. k \in Int
    BY <1>4
  <2> QED
    BY <1>2, <1>3, <2>1, FoundIs
<1>6. ASSUME NEW k \in Keys
      PROVE  t.root # Sentinel /\ Descend(t, t.root, k) = k <=> k \in N
  <2>1. k \in Int
    BY <1>4
  <2>2. ASSUME t.root # Sentinel PROVE Descend(t, t.root, k) = k <=> k \in N
    BY <1>2, <1>3, <2>1, <2>2, DescendIs
  <2> QED
    BY <1>3, <2>2
<1>7. \A n \in N : \A s \in Sides : FirstBeyond(N, n, s, NextOn(t, n, s))
  BY <1>2, <1>3, NextOnIs
<1>8. /\ N = {} => First(t) = Sentinel
      /\ N # {} => First(t) \in N /\ \A k \in N : k = First(t) \/ On("right", k, First(t))
  <2>1. "left" \in Sides /\ Other("left") = "right"
    BY SideFacts
  <2> QED
    BY <1>2, <1>3, <2>1, EndsAre DEF First
<1>9. /\ N = {} => Last(t) = Sentinel
      /\ N # {} => Last(t) \in N /\ \A k \in N : k = Last(t) \/ On("left", k, Last(t))
  <2>1. "right" \in Sides /\ Other("right") = "left"
    BY DEF Sides, Other
  <2> QED
    BY <1>2, <1>3, <2>1, EndsAre DEF Last
<1>10. N # {} => /\ First(t) \in N /\ \A k \in N : First(t) <= k
                 /\ Last(t) \in N /\ \A k \in N : k <= Last(t)
  <2> DEFINE f == First(t)
             l == Last(t)
  <2> HIDE DEF f, l
  <2>1. ASSUME N # {} PROVE f \in N /\ \A k \in N : f <= k
    <3>1. f \in N /\ \A k \in N : k = f \/ On("right", k, f)
      BY <1>8, <2>1 DEF f
    <3>2. ASSUME NEW k \in N PROVE f <= k
      <4>1. k \in Int /\ f \in Int
        BY <1>3, <3>1
      <4>2. k = f \/ On("right", k, f)
        BY <3>1
      <4> QED
        BY <4>1, <4>2 DEF On
    <3> QED
      BY <3>1, <3>2
  <2>2. ASSUME N # {} PROVE l \in N /\ \A k \in N : k <= l
    <3>1. l \in N /\ \A k \in N : k = l \/ On("left", k, l)
      BY <1>9, <2>2 DEF l
    <3>2. ASSUME NEW k \in N PROVE k <= l
      <4>1. k \in Int /\ l \in Int
        BY <1>3, <3>1
      <4>2. k = l \/ On("left", k, l)
        BY <3>1
      <4> QED
        BY <4>1, <4>2 DEF On
    <3> QED
      BY <3>1, <3>2
  <2> QED
    BY <2>1, <2>2 DEF f, l
<1>11. Visited(t, First(t)) = N
  BY <1>2, <1>3, AllVisited
<1> QED
  BY <1>5, <1>6, <1>7, <1>8, <1>9, <1>10, <1>11

-----------------------------------------------------------------------------
\* The inductive invariant: between two calls the nodes that are allocated make up
\* a red-black tree, and an iterator stands at nodes that are in it.

IterInv ==
  /\ iter = [on |-> iter.on, current |-> iter.current, next |-> iter.next]
  /\ iter.next \in Live(table) \cup {Sentinel}
  /\ iter.current \in Live(table) \cup {Sentinel, Null}
  /\ iter.current \in Live(table) /\ iter.next \in Live(table) => iter.current < iter.next

TreeInv == Holds(table, Live(table)) /\ IterInv

\* The results of the map and of the table are the same.
LEMMA SameResults ==
  /\ Abs!Done = Done
  /\ \A e : Abs!Got(e) = Got(e)
  /\ \A n : Abs!GotNumber(n) = GotNumber(n)
  /\ \A st : Abs!Refused(st) = Refused(st)
  /\ \A b \in BOOLEAN : Abs!Truth(b) = Truth(b)
<1>1. Abs!Done = Done
  BY DEF Abs!Done, Abs!Result, Done, Result, Abs!CC_OK, CC_OK
<1>2. ASSUME NEW e PROVE Abs!Got(e) = Got(e)
  BY DEF Abs!Got, Abs!Result, Got, Result, Abs!CC_OK, CC_OK
<1>3. ASSUME NEW n PROVE Abs!GotNumber(n) = GotNumber(n)
  BY <1>2 DEF Abs!GotNumber, GotNumber
<1>4. ASSUME NEW st PROVE Abs!Refused(st) = Refused(st)
  BY DEF Abs!Refused, Abs!Result, Refused, Result
<1>5. ASSUME NEW b \in BOOLEAN PROVE Abs!Truth(b) = Truth(b)
  BY DEF Abs!Truth, Abs!Result, Truth, Result
<1> QED
  BY <1>1, <1>2, <1>3, <1>4, <1>5

\* A call that changes nothing.
LEMMA Nothing ==
  ASSUME TreeInv, UNCHANGED <<table, iter>>
  PROVE  TreeInv' /\ Abs!SameIterator /\ Held' = Held
<1>1. table' = table /\ iter' = iter
  OBVIOUS
<1>2. TreeInv'
  BY <1>1 DEF TreeInv, IterInv
<1>3. Held' = Held /\ Owed' = Owed /\ Latest' = Latest
  BY <1>1 DEF Held, Owed, Latest
<1> QED
  BY <1>2, <1>3 DEF Abs!SameIterator

\* A call that leaves a tree of the nodes M and no iterator in use.
LEMMA Ended ==
  ASSUME NEW M, Holds(table', M), iter' = NoIter
  PROVE  TreeInv' /\ Abs!NoIterator /\ Held' = [n \in M |-> Value(table', n)]
<1>1. Live(table') = M
  BY HoldsFacts
<1>2. iter'.next = Sentinel /\ iter'.current = Sentinel
      /\ iter' = [on |-> iter'.on, current |-> iter'.current, next |-> iter'.next]
  BY DEF NoIter
<1>3. Sentinel \notin M
  BY HoldsFacts
<1>4. IterInv'
  BY <1>1, <1>2, <1>3 DEF IterInv
<1>5. TreeInv'
  BY <1>1, <1>4 DEF TreeInv
<1>6. Owed' = {} /\ Latest' = Null
  BY <1>2 DEF Owed, Latest
<1>7. Held' = [n \in M |-> Value(table', n)]
  BY <1>1 DEF Held, Value
<1>8. Abs!NoIterator
  BY <1>6 DEF Abs!NoIterator, Null
<1> QED
  BY <1>5, <1>7, <1>8

LEMMA HeldFacts ==
  ASSUME NEW N, N = Live(table)
  PROVE  /\ Held = [n \in N |-> Value(table, n)] /\ DOMAIN Held = N
         /\ \A n \in N : Held[n] = Value(table, n) /\ Held[n] = table.node[n].value
BY DEF Held, Value

LEMMA AddStays ==
  ASSUME TreeInv, NEW k \in Keys, NEW v, Add(k, v)
  PROVE  TreeInv' /\ (Abs!Store(k, v) \/ Abs!NoMemory)
<1>1. PICK t : t = table
  OBVIOUS
<1> DEFINE N == Live(t)
<1>2. Holds(t, N)
  BY <1>1 DEF TreeInv
<1>3. t.root # Sentinel /\ Descend(t, t.root, k) = k <=> k \in N
  <2> HIDE DEF N
  <2> QED
    BY <1>2, Answers
<1>4. Held = [n \in N |-> Value(t, n)]
  BY <1>1 DEF Held, Value
<1>5. ASSUME NEW M, M = N \cup {k}, Holds(table', M), iter' = NoIter, ret' = Done,
             Value(table', k) = v, \A m \in N : m # k => Value(table', m) = Value(t, m)
      PROVE  TreeInv' /\ Abs!Store(k, v)
  <2> HIDE DEF N
  <2>1. TreeInv' /\ Abs!NoIterator /\ Held' = [n \in M |-> Value(table', n)]
    BY <1>5, Ended
  <2>2. Held' = [n \in M |-> IF n = k THEN v ELSE Value(t, n)]
    BY <1>5, <2>1
  <2>3. DOMAIN Held = N /\ \A n \in N : Held[n] = Value(t, n)
    BY <1>4
  <2>4. Held' = [n \in DOMAIN Held \cup {k} |-> IF n = k THEN v ELSE Held[n]]
    BY <1>5, <2>2, <2>3
  <2>5. Abs!Put(k, v)
    BY <1>5, <2>4, SameResults DEF Abs!Put, Abs!With
  <2> QED
    BY <2>1, <2>5 DEF Abs!Store
<1>6. CASE k \in N /\ Update([table EXCEPT !.node[k].value = v], Done)
  <2> DEFINE u == Revalued(t, k, v)
  <2>1. table' = u /\ iter' = NoIter /\ ret' = Done
    BY <1>1, <1>6 DEF Update, Return, Revalued
  <2> HIDE DEF u
  <2>2. Holds(u, N) /\ \A m \in N : Value(u, m) = IF m = k THEN v ELSE Value(t, m)
    <3> HIDE DEF N
    <3> QED
      BY <1>2, <1>6, RevaluedHolds DEF u
  <2>3. N = N \cup {k} /\ k \in N
    BY <1>6
  <2> HIDE DEF N
  <2>4. Holds(table', N) /\ Value(table', k) = v
        /\ \A m \in N : m # k => Value(table', m) = Value(t, m)
    BY <2>1, <2>2, <2>3
  <2> QED
    BY <1>5, <2>1, <2>3, <2>4
<1>7. CASE k \notin N /\ Update(Inserted(k, v), Done)
  <2> DEFINE u == Inserted(k, v)
             M == N \cup {k}
  <2>1. table' = u /\ iter' = NoIter /\ ret' = Done
    BY <1>7 DEF Update, Return
  <2>2. /\ Holds(u, M) /\ Value(u, k) = v
        /\ \A m \in N : Value(u, m) = Value(t, m)
    <3> HIDE DEF N
    <3> QED
      BY <1>1, <1>2, <1>7, InsertedHolds
  <2> HIDE DEF u
  <2>3. M = N \cup {k}
    OBVIOUS
  <2> HIDE DEF N, M
  <2>4. Holds(table', M) /\ Value(table', k) = v
        /\ \A m \in N : m # k => Value(table', m) = Value(t, m)
    BY <2>1, <2>2
  <2> QED
    BY <1>5, <2>1, <2>3, <2>4
<1>8. CASE Answer(Refused(CC_ERR_ALLOC))
  <2>1. UNCHANGED <<table, iter>> /\ ret' = Refused(CC_ERR_ALLOC)
    BY <1>8 DEF Answer, Return
  <2>2. TreeInv' /\ Abs!SameIterator /\ Held' = Held
    BY <2>1, Nothing
  <2>3. Abs!Refuse({Abs!CC_ERR_ALLOC})
    BY <2>1, <2>2, SameResults DEF Abs!Refuse, Abs!CC_ERR_ALLOC, CC_ERR_ALLOC
  <2> QED
    BY <2>2, <2>3 DEF Abs!NoMemory
<1>9. \/ k \in N /\ Update([table EXCEPT !.node[k].value = v], Done)
      \/ k \notin N /\ Update(Inserted(k, v), Done)
      \/ k \notin N /\ Answer(Refused(CC_ERR_ALLOC))
  <2> DEFINE present == table.root # Sentinel /\ Descend(table, table.root, k) = k
  <2>1. present <=> k \in N
    BY <1>1, <1>3
  <2> HIDE DEF present, N
  <2>2. \/ present /\ Update([table EXCEPT !.node[k].value = v], Done)
        \/ ~present /\ Update(Inserted(k, v), Done)
        \/ ~present /\ Answer(Refused(CC_ERR_ALLOC))
    BY DEF Add, present
  <2> QED
    BY <2>1, <2>2
<1> QED
  BY <1>6, <1>7, <1>8, <1>9

\* A call that only answers.
LEMMA Answered ==
  ASSUME TreeInv, NEW r, Answer(r)
  PROVE  TreeInv' /\ Abs!SameIterator /\ Held' = Held /\ ret' = r
<1>1. UNCHANGED <<table, iter>> /\ ret' = r
  BY DEF Answer, Return
<1> QED
  BY <1>1, Nothing

LEMMA Ends ==
  ASSUME NEW S, S \subseteq Int, NEW m \in S
  PROVE  /\ (\A j \in S : m <= j) => Abs!Least(S) = m
         /\ (\A j \in S : j <= m) => Abs!Greatest(S) = m
<1>1. ASSUME \A j \in S : m <= j PROVE Abs!Least(S) = m
  <2> DEFINE l == Abs!Least(S)
  <2>1. l = CHOOSE k \in S : \A j \in S : k <= j
    BY DEF Abs!Least
  <2>2. l \in S /\ \A j \in S : l <= j
    BY <1>1, <2>1
  <2> HIDE DEF l
  <2>3. l <= m /\ m <= l /\ l \in Int /\ m \in Int
    BY <1>1, <2>2
  <2> QED
    BY <2>3 DEF l
<1>2. ASSUME \A j \in S : j <= m PROVE Abs!Greatest(S) = m
  <2> DEFINE l == Abs!Greatest(S)
  <2>1. l = CHOOSE k \in S : \A j \in S : j <= k
    BY DEF Abs!Greatest
  <2>2. l \in S /\ \A j \in S : j <= l
    BY <1>2, <2>1
  <2> HIDE DEF l
  <2>3. l <= m /\ m <= l /\ l \in Int /\ m \in Int
    BY <1>2, <2>2
  <2> QED
    BY <2>3 DEF l
<1> QED
  BY <1>1, <1>2

\* The refusal of a key that is not there.
LEMMA MissingStays ==
  ASSUME TreeInv, NEW k \in Keys, Missing(k)
  PROVE  TreeInv' /\ Abs!Absent(k) /\ Abs!SameIterator
<1>1. PICK N : N = Live(table)
  OBVIOUS
<1>2. Holds(table, N) /\ DOMAIN Held = N
  BY <1>1, HeldFacts DEF TreeInv
<1>3. k \notin N
  BY <1>2, Answers DEF Missing
<1>4. Answer(Refused(CC_ERR_KEY_NOT_FOUND))
  BY DEF Missing
<1>5. TreeInv' /\ Abs!SameIterator /\ Held' = Held /\ ret' = Refused(CC_ERR_KEY_NOT_FOUND)
  BY <1>4, Answered
<1>6. Abs!Refuse({Abs!CC_ERR_KEY_NOT_FOUND})
  BY <1>5, SameResults DEF Abs!Refuse, Abs!CC_ERR_KEY_NOT_FOUND, CC_ERR_KEY_NOT_FOUND
<1> QED
  BY <1>2, <1>3, <1>5, <1>6 DEF Abs!Absent

LEMMA GetStays ==
  ASSUME TreeInv, NEW k \in Keys, Get(k)
  PROVE  TreeInv' /\ (Abs!Get(k) \/ Abs!Absent(k)) /\ Abs!SameIterator
<1>1. PICK N : N = Live(table)
  OBVIOUS
<1>2. Holds(table, N) /\ DOMAIN Held = N /\ \A n \in N : Held[n] = table.node[n].value
  BY <1>1, HeldFacts DEF TreeInv
<1>3. CASE Missing(k)
  BY <1>3, MissingStays
<1>4. CASE Found(table, k) /\ Answer(Got(table.node[k].value))
  <2>1. k \in N
    BY <1>2, <1>4, Answers
  <2>2. TreeInv' /\ Abs!SameIterator /\ Held' = Held /\ ret' = Got(table.node[k].value)
    BY <1>4, Answered
  <2>3. Abs!Get(k)
    BY <1>2, <2>1, <2>2, SameResults DEF Abs!Get
  <2> QED
    BY <2>2, <2>3
<1> QED
  BY <1>3, <1>4 DEF Get

LEMMA ContainsKeyStays ==
  ASSUME TreeInv, NEW k \in Keys, ContainsKey(k)
  PROVE  TreeInv' /\ Abs!Contains(k) /\ Abs!SameIterator
<1>1. PICK N : N = Live(table)
  OBVIOUS
<1>2. Holds(table, N) /\ DOMAIN Held = N
  BY <1>1, HeldFacts DEF TreeInv
<1>3. Found(table, k) <=> k \in N
  BY <1>2, Answers
<1>4. TreeInv' /\ Abs!SameIterator /\ Held' = Held /\ ret' = Truth(Found(table, k))
  BY Answered DEF ContainsKey
<1>5. Truth(Found(table, k)) = Truth(k \in N)
  BY <1>3 DEF Truth
<1>6. Abs!Truth(k \in N) = Truth(k \in N)
  BY DEF Abs!Truth, Abs!Result, Truth, Result
<1> QED
  BY <1>2, <1>4, <1>5, <1>6 DEF Abs!Contains

LEMMA ContainsValueStays ==
  ASSUME TreeInv, NEW v, ContainsValue(v)
  PROVE  TreeInv' /\ Abs!Occurrences(v)
<1>1. PICK N : N = Live(table)
  OBVIOUS
<1>2. Holds(table, N) /\ DOMAIN Held = N /\ \A n \in N : Held[n] = table.node[n].value
  BY <1>1, HeldFacts DEF TreeInv
<1>3. Visited(table, First(table)) = N
  BY <1>2, Answers
<1> DEFINE A == {n \in Visited(table, First(table)) : table.node[n].value = v}
           B == {n \in DOMAIN Held : Held[n] = v}
<1>4. A = {n \in N : table.node[n].value = v}
  BY <1>3
<1>5. B = {n \in N : Held[n] = v}
  BY <1>2
<1>6. A = B
  BY <1>2, <1>4, <1>5
<1>7. Answer(GotNumber(Cardinality(A)))
  BY DEF ContainsValue
<1>8. TreeInv' /\ Abs!SameIterator /\ Held' = Held /\ ret' = GotNumber(Cardinality(A))
  <2> HIDE DEF A
  <2> QED
    BY <1>7, Answered
<1>9. ret' = Abs!GotNumber(Cardinality(B))
  <2> HIDE DEF A, B
  <2> QED
    BY <1>6, <1>8, SameResults
<1>10. Abs!Cardinality(B) = Cardinality(B)
  <2> HIDE DEF B
  <2> QED
    BY DEF Abs!Cardinality, Cardinality
<1>11. Abs!Occurrences(v)
  BY <1>8, <1>9, <1>10 DEF Abs!Occurrences
<1> QED
  BY <1>8, <1>11

\* What the first and the last node are, for the map.
LEMMA EndKeys ==
  ASSUME TreeInv
  PROVE  /\ DOMAIN Held = {} => First(table) = Sentinel /\ Last(table) = Sentinel
         /\ DOMAIN Held # {} =>
              /\ First(table) \in DOMAIN Held /\ First(table) # Sentinel
              /\ Last(table) \in DOMAIN Held /\ Last(table) # Sentinel
              /\ Abs!Least(DOMAIN Held) = First(table)
              /\ Abs!Greatest(DOMAIN Held) = Last(table)
         /\ \A n \in DOMAIN Held : Held[n] = table.node[n].value
         /\ DOMAIN Held = Live(table)
         /\ (Held = Abs!Nothing <=> DOMAIN Held = {}) /\ (table.size = 0 <=> DOMAIN Held = {})
<1>1. PICK N : N = Live(table)
  OBVIOUS
<1>2. /\ Holds(table, N) /\ DOMAIN Held = N /\ \A n \in N : Held[n] = table.node[n].value
      /\ Held = [n \in N |-> Value(table, n)]
  BY <1>1, HeldFacts DEF TreeInv
<1>3. N \subseteq Int /\ Sentinel \notin N /\ (table.size = 0 <=> N = {})
  BY <1>2, HoldsFacts
<1>4. /\ N = {} => First(table) = Sentinel /\ Last(table) = Sentinel
      /\ N # {} => /\ First(table) \in N /\ \A k \in N : First(table) <= k
                   /\ Last(table) \in N /\ \A k \in N : k <= Last(table)
  BY <1>2, Answers
<1>5. ASSUME N # {} PROVE Abs!Least(N) = First(table) /\ Abs!Greatest(N) = Last(table)
  BY <1>3, <1>4, <1>5, Ends
<1>6. Held = Abs!Nothing <=> N = {}
  BY <1>2 DEF Abs!Nothing
<1> QED
  BY <1>1, <1>2, <1>3, <1>4, <1>5, <1>6

LEMMA GetKeyStays ==
  ASSUME TreeInv
  PROVE  /\ GetKeyAt(First(table)) => TreeInv' /\ Abs!FirstKey
         /\ GetKeyAt(Last(table)) => TreeInv' /\ Abs!LastKey
<1> DEFINE N == DOMAIN Held
<1>1. ASSUME NEW n, GetKeyAt(n)
      PROVE  /\ TreeInv' /\ Abs!SameIterator /\ Held' = Held
             /\ ret' = IF n = Sentinel THEN Abs!Refused(Abs!CC_ERR_KEY_NOT_FOUND)
                       ELSE Abs!Got(<<n>>)
  <2>1. CASE n = Sentinel /\ Answer(Refused(CC_ERR_KEY_NOT_FOUND))
    BY <2>1, Answered, SameResults DEF Abs!CC_ERR_KEY_NOT_FOUND, CC_ERR_KEY_NOT_FOUND
  <2>2. CASE n # Sentinel /\ Answer(GotNumber(n))
    <3>1. GotNumber(n) = Abs!Got(<<n>>)
      BY SameResults DEF GotNumber
    <3> QED
      BY <2>2, <3>1, Answered
  <2> QED
    BY <1>1, <2>1, <2>2 DEF GetKeyAt
<1>2. /\ N = {} => First(table) = Sentinel /\ Last(table) = Sentinel
      /\ N # {} => /\ First(table) # Sentinel /\ Last(table) # Sentinel
                   /\ Abs!Least(N) = First(table) /\ Abs!Greatest(N) = Last(table)
  BY EndKeys
<1>3. ASSUME GetKeyAt(First(table)) PROVE TreeInv' /\ Abs!FirstKey
  <2>1. /\ TreeInv' /\ Abs!SameIterator /\ Held' = Held
        /\ ret' = IF N = {} THEN Abs!Refused(Abs!CC_ERR_KEY_NOT_FOUND)
                  ELSE Abs!Got(<<Abs!Least(N)>>)
    BY <1>1, <1>2, <1>3
  <2> QED
    BY <2>1 DEF Abs!FirstKey, Abs!AnswerFrom
<1>4. ASSUME GetKeyAt(Last(table)) PROVE TreeInv' /\ Abs!LastKey
  <2>1. /\ TreeInv' /\ Abs!SameIterator /\ Held' = Held
        /\ ret' = IF N = {} THEN Abs!Refused(Abs!CC_ERR_KEY_NOT_FOUND)
                  ELSE Abs!Got(<<Abs!Greatest(N)>>)
    BY <1>1, <1>2, <1>4
  <2> QED
    BY <2>1 DEF Abs!LastKey, Abs!AnswerFrom
<1> QED
  BY <1>3, <1>4

LEMMA GetValueStays ==
  ASSUME TreeInv
  PROVE  /\ GetValueAt(First(table)) => TreeInv' /\ Abs!FirstValue
         /\ GetValueAt(Last(table)) => TreeInv' /\ Abs!LastValue
<1> DEFINE N == DOMAIN Held
<1>1. ASSUME NEW n, GetValueAt(n)
      PROVE  /\ TreeInv' /\ Abs!SameIterator /\ Held' = Held
             /\ ret' = IF n = Sentinel THEN Abs!Refused(Abs!CC_ERR_VALUE_NOT_FOUND)
                       ELSE Abs!Got(table.node[n].value)
  <2>1. CASE n = Sentinel /\ Answer(Refused(CC_ERR_VALUE_NOT_FOUND))
    BY <2>1, Answered, SameResults DEF Abs!CC_ERR_VALUE_NOT_FOUND, CC_ERR_VALUE_NOT_FOUND
  <2>2. CASE n # Sentinel /\ Answer(Got(table.node[n].value))
    BY <2>2, Answered, SameResults
  <2> QED
    BY <1>1, <2>1, <2>2 DEF GetValueAt
<1>2. /\ N = {} => First(table) = Sentinel /\ Last(table) = Sentinel
      /\ N # {} => /\ First(table) # Sentinel /\ Last(table) # Sentinel
                   /\ First(table) \in N /\ Last(table) \in N
                   /\ Abs!Least(N) = First(table) /\ Abs!Greatest(N) = Last(table)
      /\ \A n \in N : Held[n] = table.node[n].value
  BY EndKeys
<1>3. ASSUME GetValueAt(First(table)) PROVE TreeInv' /\ Abs!FirstValue
  <2>1. /\ TreeInv' /\ Abs!SameIterator /\ Held' = Held
        /\ ret' = IF N = {} THEN Abs!Refused(Abs!CC_ERR_VALUE_NOT_FOUND)
                  ELSE Abs!Got(Held[Abs!Least(N)])
    BY <1>1, <1>2, <1>3
  <2> QED
    BY <2>1 DEF Abs!FirstValue, Abs!AnswerFrom
<1>4. ASSUME GetValueAt(Last(table)) PROVE TreeInv' /\ Abs!LastValue
  <2>1. /\ TreeInv' /\ Abs!SameIterator /\ Held' = Held
        /\ ret' = IF N = {} THEN Abs!Refused(Abs!CC_ERR_VALUE_NOT_FOUND)
                  ELSE Abs!Got(Held[Abs!Greatest(N)])
    BY <1>1, <1>2, <1>4
  <2> QED
    BY <2>1 DEF Abs!LastValue, Abs!AnswerFrom
<1> QED
  BY <1>3, <1>4

\* The neighbour of a key, for the map.
LEMMA NeighbourIs ==
  ASSUME NEW N, N \subseteq Int, Sentinel \notin N, NEW k \in N, NEW r, NEW S
  PROVE  /\ FirstBeyond(N, k, "right", r) /\ S = {j \in N : j > k} =>
              IF r = Sentinel THEN S = {} ELSE S # {} /\ Abs!Least(S) = r
         /\ FirstBeyond(N, k, "left", r) /\ S = {j \in N : j < k} =>
              IF r = Sentinel THEN S = {} ELSE S # {} /\ Abs!Greatest(S) = r
<1>1. ASSUME FirstBeyond(N, k, "right", r), S = {j \in N : j > k}
      PROVE  IF r = Sentinel THEN S = {} ELSE S # {} /\ Abs!Least(S) = r
  <2>0. \A m, n : On("right", m, n) <=> n < m
    BY DEF On
  <2>1. CASE r = Sentinel
    BY <1>1, <2>0, <2>1 DEF FirstBeyond
  <2>2. CASE r # Sentinel
    <3>1. r \in N /\ k < r /\ \A j \in N : k < j => j = r \/ r < j
      BY <1>1, <2>0, <2>2 DEF FirstBeyond
    <3>2. S \subseteq Int /\ r \in S
      BY <1>1, <3>1
    <3>3. \A j \in S : r <= j
      BY <1>1, <3>1
    <3>4. Abs!Least(S) = r
      BY <3>2, <3>3, Ends
    <3> QED
      BY <2>2, <3>2, <3>4
  <2> QED
    BY <2>1, <2>2
<1>2. ASSUME FirstBeyond(N, k, "left", r), S = {j \in N : j < k}
      PROVE  IF r = Sentinel THEN S = {} ELSE S # {} /\ Abs!Greatest(S) = r
  <2>0. \A m, n : On("left", m, n) <=> m < n
    BY DEF On
  <2>1. CASE r = Sentinel
    BY <1>2, <2>0, <2>1 DEF FirstBeyond
  <2>2. CASE r # Sentinel
    <3>1. r \in N /\ r < k /\ \A j \in N : j < k => j = r \/ j < r
      BY <1>2, <2>0, <2>2 DEF FirstBeyond
    <3>2. S \subseteq Int /\ r \in S
      BY <1>2, <3>1
    <3>3. \A j \in S : j <= r
      BY <1>2, <3>1
    <3>4. Abs!Greatest(S) = r
      BY <3>2, <3>3, Ends
    <3> QED
      BY <2>2, <3>2, <3>4
  <2> QED
    BY <2>1, <2>2
<1> QED
  BY <1>1, <1>2

LEMMA GetNeighbourStays ==
  ASSUME TreeInv, NEW k \in Keys
  PROVE  /\ GetNeighbour(k, "right") =>
              TreeInv' /\ Abs!SameIterator /\ (Abs!Successor(k) \/ Abs!Absent(k))
         /\ GetNeighbour(k, "left") =>
              TreeInv' /\ Abs!SameIterator /\ (Abs!Predecessor(k) \/ Abs!Absent(k))
<1>1. PICK N : N = Live(table)
  OBVIOUS
<1>2. Holds(table, N) /\ DOMAIN Held = N
  BY <1>1, HeldFacts DEF TreeInv
<1>3. N \subseteq Int /\ Sentinel \notin N
  BY <1>2, HoldsFacts
<1>4. ASSUME NEW side \in Sides, GetNeighbour(k, side), ~Missing(k)
      PROVE  /\ k \in N /\ TreeInv' /\ Abs!SameIterator /\ Held' = Held
             /\ FirstBeyond(N, k, side, NextOn(table, k, side))
             /\ ret' = IF NextOn(table, k, side) = Sentinel THEN Abs!Got(NoElement)
                       ELSE Abs!GotNumber(NextOn(table, k, side))
  <2> DEFINE n == NextOn(table, k, side)
  <2>1. Found(table, k) /\ Answer(IF n = Sentinel THEN Got(Null) ELSE GotNumber(n))
    BY <1>4 DEF GetNeighbour
  <2>2. k \in N
    BY <1>2, <2>1, Answers
  <2>3. FirstBeyond(N, k, side, n)
    BY <1>2, <2>2, Answers
  <2> HIDE DEF n
  <2>4. /\ TreeInv' /\ Abs!SameIterator /\ Held' = Held
        /\ ret' = IF n = Sentinel THEN Got(Null) ELSE GotNumber(n)
    BY <2>1, Answered
  <2>5. ret' = IF n = Sentinel THEN Abs!Got(NoElement) ELSE Abs!GotNumber(n)
    BY <2>4, SameResults DEF Null
  <2> QED
    BY <2>2, <2>3, <2>4, <2>5 DEF n
<1>5. "left" \in Sides /\ "right" \in Sides
  BY DEF Sides
<1>6. ASSUME GetNeighbour(k, "right"), ~Missing(k)
      PROVE  TreeInv' /\ Abs!SameIterator /\ Abs!Successor(k)
  <2> DEFINE r == NextOn(table, k, "right")
             S == Abs!Above(k)
  <2>1. /\ k \in N /\ TreeInv' /\ Abs!SameIterator /\ Held' = Held
        /\ FirstBeyond(N, k, "right", r)
        /\ ret' = IF r = Sentinel THEN Abs!Got(NoElement) ELSE Abs!GotNumber(r)
    BY <1>4, <1>5, <1>6
  <2>2. S = {j \in N : j > k}
    BY <1>2 DEF Abs!Above
  <2> HIDE DEF r, S
  <2>3. IF r = Sentinel THEN S = {} ELSE S # {} /\ Abs!Least(S) = r
    BY <1>3, <2>1, <2>2, NeighbourIs
  <2>4. ret' = IF S = {} THEN Abs!Got(NoElement) ELSE Abs!GotNumber(Abs!Least(S))
    BY <2>1, <2>3
  <2> QED
    BY <1>2, <2>1, <2>4 DEF S, Abs!Successor, Abs!Neighbour
<1>7. ASSUME GetNeighbour(k, "left"), ~Missing(k)
      PROVE  TreeInv' /\ Abs!SameIterator /\ Abs!Predecessor(k)
  <2> DEFINE r == NextOn(table, k, "left")
             S == Abs!Below(k)
  <2>1. /\ k \in N /\ TreeInv' /\ Abs!SameIterator /\ Held' = Held
        /\ FirstBeyond(N, k, "left", r)
        /\ ret' = IF r = Sentinel THEN Abs!Got(NoElement) ELSE Abs!GotNumber(r)
    BY <1>4, <1>5, <1>7
  <2>2. S = {j \in N : j < k}
    BY <1>2 DEF Abs!Below
  <2> HIDE DEF r, S
  <2>3. IF r = Sentinel THEN S = {} ELSE S # {} /\ Abs!Greatest(S) = r
    BY <1>3, <2>1, <2>2, NeighbourIs
  <2>4. ret' = IF S = {} THEN Abs!Got(NoElement) ELSE Abs!GotNumber(Abs!Greatest(S))
    BY <2>1, <2>3
  <2> QED
    BY <1>2, <2>1, <2>4 DEF S, Abs!Predecessor, Abs!Neighbour
<1> QED
  BY <1>6, <1>7, MissingStays

\* The removal of a node, whatever becomes of the iterator.
LEMMA Taken ==
  ASSUME TreeInv, NEW N, N = Live(table), NEW n \in N, TakeOut(n)
  PROVE  /\ Holds(table', N \ {n}) /\ Live(table') = N \ {n}
         /\ Abs!Delete(n)
<1>1. PICK t : t = table
  OBVIOUS
<1>2. Holds(t, N)
  BY <1>1 DEF TreeInv
<1>3. table' = RemoveNode(t, n) /\ ret' = Got(table.node[n].value)
  BY <1>1 DEF TakeOut, Return
<1>4. Holds(table', N \ {n}) /\ \A m \in N \ {n} : Value(table', m) = Value(t, m)
  BY <1>2, <1>3, RemovedHolds
<1>5. /\ Held = [m \in N |-> Value(t, m)] /\ DOMAIN Held = N
      /\ \A m \in N : Held[m] = table.node[m].value /\ Held[m] = Value(t, m)
  BY <1>1, HeldFacts
<1>6. Live(table') = N \ {n}
  BY <1>4, HoldsFacts
<1>7. Held' = [m \in N \ {n} |-> Value(table', m)]
  BY <1>6 DEF Held, Value
<1>8. Held' = [m \in N \ {n} |-> Held[m]]
  BY <1>4, <1>5, <1>7
<1>9. ret' = Abs!Got(Held[n])
  BY <1>3, <1>5, SameResults
<1>10. Abs!Delete(n)
  BY <1>5, <1>8, <1>9 DEF Abs!Delete, Abs!Without
<1> QED
  BY <1>4, <1>6, <1>10

LEMMA TakenEnds ==
  ASSUME TreeInv, NEW n \in Live(table), TakeOut(n), iter' = NoIter
  PROVE  TreeInv' /\ Abs!DeleteAny(n)
<1>1. PICK N : N = Live(table)
  OBVIOUS
<1>2. Holds(table', N \ {n}) /\ Abs!Delete(n)
  BY <1>1, Taken
<1>3. TreeInv' /\ Abs!NoIterator
  BY <1>2, Ended
<1> QED
  BY <1>2, <1>3 DEF Abs!DeleteAny

LEMMA RemoveStays ==
  ASSUME TreeInv, NEW k \in Keys, Remove(k)
  PROVE  TreeInv' /\ (Abs!DeleteAny(k) \/ (Abs!Absent(k) /\ Abs!SameIterator))
<1>1. CASE Missing(k)
  BY <1>1, MissingStays
<1>2. CASE Found(table, k) /\ TakeOut(k) /\ iter' = NoIter
  <2>1. Holds(table, Live(table))
    BY DEF TreeInv
  <2>2. k \in Live(table)
    BY <1>2, <2>1, Answers
  <2> QED
    BY <1>2, <2>2, TakenEnds
<1> QED
  BY <1>1, <1>2 DEF Remove

LEMMA RemoveFirstStays ==
  ASSUME TreeInv, RemoveFirst
  PROVE  TreeInv' /\ (Abs!DeleteFirst \/ Abs!NoneToDelete)
<1>1. CASE table.size = 0 /\ Answer(Refused(CC_ERR_KEY_NOT_FOUND))
  <2>1. Held = Abs!Nothing
    BY <1>1, EndKeys
  <2>2. TreeInv' /\ Abs!SameIterator /\ Held' = Held /\ ret' = Refused(CC_ERR_KEY_NOT_FOUND)
    BY <1>1, Answered
  <2>3. Abs!Refuse({Abs!CC_ERR_KEY_NOT_FOUND})
    BY <2>2, SameResults DEF Abs!Refuse, Abs!CC_ERR_KEY_NOT_FOUND, CC_ERR_KEY_NOT_FOUND
  <2> QED
    BY <2>1, <2>2, <2>3 DEF Abs!NoneToDelete
<1>2. CASE table.size # 0 /\ TakeOut(First(table)) /\ iter' = NoIter
  <2>1. /\ First(table) \in Live(table) /\ Held # Abs!Nothing
        /\ Abs!Least(DOMAIN Held) = First(table)
    BY <1>2, EndKeys
  <2>2. TreeInv' /\ Abs!DeleteAny(First(table))
    BY <1>2, <2>1, TakenEnds
  <2> QED
    BY <2>1, <2>2 DEF Abs!DeleteFirst
<1> QED
  BY <1>1, <1>2 DEF RemoveFirst

LEMMA RemoveLastStays ==
  ASSUME TreeInv, RemoveLast
  PROVE  TreeInv' /\ Abs!DeleteLast
<1>1. table.size # 0 /\ TakeOut(Last(table)) /\ iter' = NoIter
  BY DEF RemoveLast
<1>2. /\ Last(table) \in Live(table) /\ Held # Abs!Nothing
      /\ Abs!Greatest(DOMAIN Held) = Last(table)
  BY <1>1, EndKeys
<1>3. TreeInv' /\ Abs!DeleteAny(Last(table))
  BY <1>1, <1>2, TakenEnds
<1> QED
  BY <1>2, <1>3 DEF Abs!DeleteLast

LEMMA RemoveAllStays ==
  ASSUME TreeInv, RemoveAll
  PROVE  TreeInv' /\ Abs!Clear /\ Abs!NoIterator
<1>1. PICK t : t = table
  OBVIOUS
<1>2. Holds(t, Live(t))
  BY <1>1 DEF TreeInv
<1>3. table' = Cleared(t) /\ iter' = NoIter /\ ret' = Done
  BY <1>1 DEF RemoveAll, Update, Return, Cleared
<1>4. Holds(table', {})
  BY <1>2, <1>3, ClearedIsEmpty
<1>5. TreeInv' /\ Abs!NoIterator /\ Held' = [n \in {} |-> Value(table', n)]
  BY <1>3, <1>4, Ended
<1>6. Held' = Abs!Nothing
  BY <1>5 DEF Abs!Nothing
<1> QED
  BY <1>3, <1>5, <1>6, SameResults DEF Abs!Clear

-----------------------------------------------------------------------------
\* The iterator

LEMMA IterInitStays ==
  ASSUME TreeInv, IterInit
  PROVE  TreeInv' /\ Abs!StartOver
<1>1. PICK N : N = Live(table)
  OBVIOUS
<1> DEFINE f == First(table)
<1>2. table' = table /\ ret' = Done
      /\ iter' = [on |-> TRUE, current |-> Sentinel, next |-> f]
  BY DEF IterInit, Return
<1>3. Holds(table, N) /\ DOMAIN Held = N
  BY <1>1, HeldFacts DEF TreeInv
<1>4. Sentinel \notin N /\ N \subseteq Int /\ Sentinel # Null
  BY <1>3, HoldsFacts
<1>5. /\ N = {} => f = Sentinel
      /\ N # {} => f \in N /\ \A k \in N : f <= k
  BY <1>3, Answers
<1> HIDE DEF f
<1>6. iter'.next = f /\ iter'.current = Sentinel
      /\ iter' = [on |-> iter'.on, current |-> iter'.current, next |-> iter'.next]
  BY <1>2
<1>7. TreeInv'
  BY <1>1, <1>2, <1>3, <1>4, <1>5, <1>6 DEF TreeInv, IterInv
<1>8. Held' = Held
  BY <1>2 DEF Held
<1>9. Owed' = N
  <2>1. Owed' = IF f = Sentinel THEN {} ELSE {n \in N : n >= f}
    BY <1>1, <1>2, <1>6 DEF Owed
  <2>2. CASE N = {}
    BY <1>5, <2>1, <2>2
  <2>3. CASE N # {}
    <3>1. f \in N /\ f # Sentinel /\ \A k \in N : k >= f
      BY <1>4, <1>5, <2>3
    <3> QED
      BY <2>1, <3>1
  <2> QED
    BY <2>2, <2>3
<1>10. Latest' = NoElement
  BY <1>6 DEF Latest, Null
<1>11. Abs!Keep
  BY <1>2, <1>8, SameResults DEF Abs!Keep
<1> QED
  BY <1>3, <1>7, <1>9, <1>10, <1>11 DEF Abs!StartOver

LEMMA IterNextStays ==
  ASSUME TreeInv, IterNext
  PROVE  TreeInv' /\ (Abs!NextInOrder \/ Abs!EndOfOrder)
<1>1. PICK N : N = Live(table)
  OBVIOUS
<1>2. /\ Holds(table, N) /\ DOMAIN Held = N
      /\ \A n \in N : Held[n] = table.node[n].value
  BY <1>1, HeldFacts DEF TreeInv
<1>3. Sentinel \notin N /\ N \subseteq Int /\ IsFiniteSet(N)
  BY <1>2, HoldsFacts
<1>4. /\ iter = [on |-> iter.on, current |-> iter.current, next |-> iter.next]
      /\ iter.next \in N \cup {Sentinel}
  BY <1>1 DEF TreeInv, IterInv
<1>5. CASE iter.next = Sentinel /\ Answer(Refused(CC_ITER_END))
  <2>1. TreeInv' /\ Abs!SameIterator /\ Held' = Held /\ ret' = Refused(CC_ITER_END)
    BY <1>5, Answered
  <2>2. Abs!WalkOver
    BY <2>1, SameResults DEF Abs!WalkOver, Abs!Refuse, Abs!CC_ITER_END, CC_ITER_END
  <2>3. Owed = {}
    BY <1>5 DEF Owed
  <2> QED
    BY <2>1, <2>2, <2>3 DEF Abs!EndOfOrder
<1>6. CASE /\ iter.next # Sentinel
           /\ iter' = [iter EXCEPT !.current = iter.next,
                                   !.next = NextOn(table, iter.next, "right")]
           /\ Return(Got(<<iter.next, table.node[iter.next].value>>))
           /\ UNCHANGED table
  <2> DEFINE n == iter.next
             r == NextOn(table, n, "right")
             o == iter.on
             c == iter.current
  <2>1. n \in N
    BY <1>4, <1>6
  <2>2. FirstBeyond(N, n, "right", r)
    <3>1. "right" \in Sides
      BY DEF Sides
    <3> QED
      BY <1>2, <2>1, <3>1, Answers
  <2>3. iter' = [iter EXCEPT !.current = n, !.next = r]
    BY <1>6
  <2>4. iter = [on |-> o, current |-> c, next |-> n]
    BY <1>4
  <2>5. table' = table /\ ret' = Got(<<n, table.node[n].value>>) /\ n # Sentinel
    BY <1>6 DEF Return
  <2>6. Owed = {k \in N : k >= n}
    BY <1>1, <2>5 DEF Owed
  <2> HIDE DEF n, r, o, c
  <2>7. iter' = [on |-> o, current |-> n, next |-> r]
    BY <2>3, <2>4
  <2>8. iter'.next = r /\ iter'.current = n
        /\ iter' = [on |-> iter'.on, current |-> iter'.current, next |-> iter'.next]
    BY <2>7
  <2>9. r \in N \cup {Sentinel} /\ (r \in N => n < r)
        /\ \A k \in N : n < k => r \in N /\ (k = r \/ r < k)
    <3>1. \A j, k : On("right", j, k) <=> k < j
      BY DEF On
    <3>2. CASE r = Sentinel
      BY <1>3, <2>2, <3>1, <3>2 DEF FirstBeyond
    <3>3. CASE r # Sentinel
      BY <2>2, <3>1, <3>3 DEF FirstBeyond
    <3> QED
      BY <3>2, <3>3
  <2>10. TreeInv'
    BY <1>1, <1>2, <1>3, <2>1, <2>5, <2>8, <2>9 DEF TreeInv, IterInv
  <2>11. Held' = Held
    BY <2>5 DEF Held
  <2>12. Owed' = IF r = Sentinel THEN {} ELSE {k \in N : k >= r}
    BY <1>1, <2>5, <2>8 DEF Owed
  <2>13. \A k \in N : k # n => (k >= n <=> r # Sentinel /\ k >= r)
    <3> SUFFICES ASSUME NEW k \in N, k # n PROVE k >= n <=> r # Sentinel /\ k >= r
      OBVIOUS
    <3>1. k \in Int /\ n \in Int /\ (r \in N => r \in Int) /\ (r # Sentinel <=> r \in N)
      BY <1>3, <2>1, <2>9
    <3> QED
      BY <2>9, <3>1
  <2>14. ~(r # Sentinel /\ n >= r)
    <3>1. n \in Int /\ (r # Sentinel => r \in Int /\ n < r)
      BY <1>3, <2>1, <2>9
    <3> QED
      BY <3>1
  <2>15. Owed' = Owed \ {n}
    <3>1. \A k : k \in Owed' <=> k \in N /\ r # Sentinel /\ k >= r
      BY <2>12
    <3>2. \A k : k \in Owed \ {n} <=> k \in N /\ k # n /\ k >= n
      BY <2>6
    <3>3. \A k : k \in Owed' <=> k \in Owed \ {n}
      BY <2>13, <2>14, <3>1, <3>2
    <3> QED
      BY <3>3
  <2>16. Abs!Least(Owed) = n /\ Owed # {}
    <3>1. n \in Owed /\ Owed \subseteq Int /\ \A j \in Owed : n <= j
      <4>1. n >= n
        BY <1>3, <2>1
      <4> QED
        BY <1>3, <2>1, <2>6, <4>1
    <3> QED
      BY <3>1, Ends
  <2>17. Latest' = n
    BY <2>5, <2>8 DEF Latest
  <2>18. Abs!NextPair(n)
    BY <1>2, <2>1, <2>5, <2>11, SameResults DEF Abs!NextPair
  <2>19. Abs!NextInOrder
    BY <2>15, <2>16, <2>17, <2>18 DEF Abs!NextInOrder
  <2> QED
    BY <2>10, <2>19
<1> QED
  BY <1>5, <1>6 DEF IterNext

LEMMA IterRemoveStays ==
  ASSUME TreeInv, IterRemove
  PROVE  TreeInv' /\ (Abs!DropLatest \/ Abs!DropNone)
<1>1. PICK N : N = Live(table)
  OBVIOUS
<1>2. Holds(table, N)
  BY <1>1 DEF TreeInv
<1>3. Sentinel \notin N /\ N \subseteq Int /\ Null \notin N /\ Null # Sentinel
  BY <1>2, HoldsFacts
<1> DEFINE n == iter.next
           o == iter.on
           c == iter.current
<1>4. iter = [on |-> o, current |-> c, next |-> n]
  BY <1>1 DEF TreeInv, IterInv
<1>5. /\ n \in N \cup {Sentinel} /\ c \in N \cup {Sentinel, Null}
      /\ c \in N /\ n \in N => c < n
  BY <1>1 DEF TreeInv, IterInv
<1>6. c # Sentinel
  BY DEF IterRemove
<1>7. CASE c = Null /\ Answer(Refused(CC_ERR_KEY_NOT_FOUND))
  <2>1. TreeInv' /\ Abs!SameIterator /\ Held' = Held /\ ret' = Refused(CC_ERR_KEY_NOT_FOUND)
    BY <1>7, Answered
  <2>2. Abs!Refuse({Abs!CC_ERR_KEY_NOT_FOUND})
    BY <2>1, SameResults DEF Abs!Refuse, Abs!CC_ERR_KEY_NOT_FOUND, CC_ERR_KEY_NOT_FOUND
  <2>3. Latest = NoElement
    BY <1>7 DEF Latest, Null
  <2> QED
    BY <2>1, <2>2, <2>3 DEF Abs!DropNone
<1>8. CASE c # Null /\ TakeOut(c) /\ iter' = [iter EXCEPT !.current = Null]
  <2>1. c \in N
    BY <1>5, <1>6, <1>8
  <2>2. Latest = c
    BY <1>6 DEF Latest
  <2>3. Owed = IF n = Sentinel THEN {} ELSE {k \in N : k >= n}
    BY <1>1 DEF Owed
  <2> HIDE DEF n, o, c
  <2>4. iter' = [on |-> o, current |-> Null, next |-> n]
    BY <1>4, <1>8
  <2>5. iter'.next = n /\ iter'.current = Null
        /\ iter' = [on |-> iter'.on, current |-> iter'.current, next |-> iter'.next]
    BY <2>4
  <2>6. Holds(table', N \ {c}) /\ Live(table') = N \ {c} /\ Abs!Delete(c)
    BY <1>1, <1>8, <2>1, Taken
  <2>7. n \in (N \ {c}) \cup {Sentinel}
    <3>1. n # c
      <4>1. CASE n \in N
        BY <1>3, <1>5, <2>1, <4>1
      <4>2. CASE n \notin N
        BY <2>1, <4>2
      <4> QED
        BY <4>1, <4>2
    <3> QED
      BY <1>5, <3>1
  <2>8. IterInv'
    BY <1>3, <2>5, <2>6, <2>7 DEF IterInv
  <2>9. TreeInv'
    BY <2>6, <2>8 DEF TreeInv
  <2>10. Owed' = IF n = Sentinel THEN {} ELSE {k \in N \ {c} : k >= n}
    BY <2>5, <2>6 DEF Owed
  <2>11. n # Sentinel => ~(c >= n)
    <3>1. n # Sentinel => n \in Int /\ c \in Int /\ c < n
      BY <1>3, <1>5, <2>1
    <3> QED
      BY <3>1
  <2>12. Owed' = Owed
    BY <2>3, <2>10, <2>11
  <2>13. Latest' = NoElement
    BY <1>3, <2>5 DEF Latest, Null
  <2>14. Abs!DropLatest
    BY <2>2, <2>6, <2>12, <2>13 DEF Abs!DropLatest
  <2> QED
    BY <2>9, <2>14
<1> QED
  BY <1>7, <1>8 DEF IterRemove

-----------------------------------------------------------------------------
\* All calls together

LEMMA CallsAreMapCalls ==
  ASSUME TreeInv
  PROVE  CallsKeepPromise
<1>1. ASSUME NEW k \in Keys, NEW v \in Values, Add(k, v)
      PROVE  Abs!Store(k, v) \/ Abs!NoMemory
  BY <1>1, AddStays
<1>2. ASSUME NEW k \in Keys
      PROVE  /\ Get(k) => Abs!Get(k) \/ Abs!Absent(k)
             /\ ContainsKey(k) => Abs!Contains(k)
             /\ Remove(k) => Abs!DeleteAny(k) \/ Abs!Absent(k)
  <2>1. Get(k) => Abs!Get(k) \/ Abs!Absent(k)
    BY GetStays
  <2>2. ContainsKey(k) => Abs!Contains(k)
    BY ContainsKeyStays
  <2>3. Remove(k) => Abs!DeleteAny(k) \/ Abs!Absent(k)
    BY RemoveStays
  <2> QED
    BY <2>1, <2>2, <2>3
<1>3. ASSUME NEW k \in Keys
      PROVE  /\ GetNeighbour(k, "right") => Abs!Successor(k) \/ Abs!Absent(k)
             /\ GetNeighbour(k, "left") => Abs!Predecessor(k) \/ Abs!Absent(k)
  BY GetNeighbourStays
<1>4. \A v \in Values : ContainsValue(v) => Abs!Occurrences(v)
  BY ContainsValueStays
<1>5. /\ GetKeyAt(First(table)) => Abs!FirstKey
      /\ GetKeyAt(Last(table)) => Abs!LastKey
  BY GetKeyStays
<1>6. /\ GetValueAt(First(table)) => Abs!FirstValue
      /\ GetValueAt(Last(table)) => Abs!LastValue
  BY GetValueStays
<1>7. /\ RemoveFirst => Abs!DeleteFirst \/ Abs!NoneToDelete
      /\ RemoveLast => Abs!DeleteLast
      /\ RemoveAll => Abs!Clear
  <2>1. RemoveFirst => Abs!DeleteFirst \/ Abs!NoneToDelete
    BY RemoveFirstStays
  <2>2. RemoveLast => Abs!DeleteLast
    BY RemoveLastStays
  <2>3. RemoveAll => Abs!Clear
    BY RemoveAllStays
  <2> QED
    BY <2>1, <2>2, <2>3
<1>8. /\ IterInit => Abs!StartOver
      /\ IterNext => Abs!NextInOrder \/ Abs!EndOfOrder
      /\ IterRemove => Abs!DropLatest \/ Abs!DropNone
  <2>1. IterInit => Abs!StartOver
    BY IterInitStays
  <2>2. IterNext => Abs!NextInOrder \/ Abs!EndOfOrder
    BY IterNextStays
  <2>3. IterRemove => Abs!DropLatest \/ Abs!DropNone
    BY IterRemoveStays
  <2> QED
    BY <2>1, <2>2, <2>3
<1> QED
  BY <1>1, <1>2, <1>3, <1>4, <1>5, <1>6, <1>7, <1>8 DEF CallsKeepPromise

LEMMA StepKeepsInv ==
  ASSUME TreeInv, [Next]_vars
  PROVE  TreeInv' /\ [Abs!OrderedNext]_(Abs!orderedVars)
<1>1. ASSUME NEW m \in Mappings, Add(m[1], m[2]) PROVE TreeInv' /\ Abs!OrderedNext
  <2>1. m[1] \in Keys /\ m[2] \in Values
    BY TreeTableConstants DEF Values
  <2>2. TreeInv' /\ (Abs!Store(m[1], m[2]) \/ Abs!NoMemory)
    BY <1>1, <2>1, AddStays
  <2> QED
    BY <2>1, <2>2 DEF Abs!OrderedNext
<1>2. ASSUME NEW k \in Keys, Get(k) PROVE TreeInv' /\ Abs!OrderedNext
  <2>1. TreeInv' /\ (Abs!Get(k) \/ Abs!Absent(k)) /\ Abs!SameIterator
    BY <1>2, GetStays
  <2> QED
    BY <2>1 DEF Abs!OrderedNext
<1>3. ASSUME NEW k \in Keys, ContainsKey(k) PROVE TreeInv' /\ Abs!OrderedNext
  <2>1. TreeInv' /\ Abs!Contains(k) /\ Abs!SameIterator
    BY <1>3, ContainsKeyStays
  <2> QED
    BY <2>1 DEF Abs!OrderedNext
<1>4. ASSUME NEW k \in Keys, Remove(k) PROVE TreeInv' /\ Abs!OrderedNext
  <2>1. TreeInv' /\ (Abs!DeleteAny(k) \/ (Abs!Absent(k) /\ Abs!SameIterator))
    BY <1>4, RemoveStays
  <2> QED
    BY <2>1 DEF Abs!OrderedNext
<1>5. ASSUME NEW k \in Keys, NEW side \in {"left", "right"}, GetNeighbour(k, side)
      PROVE  TreeInv' /\ Abs!OrderedNext
  <2>1. /\ TreeInv' /\ Abs!SameIterator
        /\ Abs!Successor(k) \/ Abs!Predecessor(k) \/ Abs!Absent(k)
    BY <1>5, GetNeighbourStays
  <2> QED
    BY <2>1 DEF Abs!OrderedNext
<1>6. ASSUME NEW v \in Values, ContainsValue(v) PROVE TreeInv' /\ Abs!OrderedNext
  <2>1. TreeInv' /\ Abs!Occurrences(v)
    BY <1>6, ContainsValueStays
  <2> QED
    BY <2>1 DEF Abs!OrderedNext
<1>7. ASSUME NEW n \in {First(table), Last(table)}, GetKeyAt(n) \/ GetValueAt(n)
      PROVE  TreeInv' /\ Abs!OrderedNext
  <2>1. /\ TreeInv'
        /\ Abs!FirstKey \/ Abs!LastKey \/ Abs!FirstValue \/ Abs!LastValue
    BY <1>7, GetKeyStays, GetValueStays
  <2> QED
    BY <2>1 DEF Abs!OrderedNext
<1>8. ASSUME RemoveFirst PROVE TreeInv' /\ Abs!OrderedNext
  <2>1. TreeInv' /\ (Abs!DeleteFirst \/ Abs!NoneToDelete)
    BY <1>8, RemoveFirstStays
  <2> QED
    BY <2>1 DEF Abs!OrderedNext
<1>9. ASSUME RemoveLast PROVE TreeInv' /\ Abs!OrderedNext
  <2>1. TreeInv' /\ Abs!DeleteLast
    BY <1>9, RemoveLastStays
  <2> QED
    BY <2>1 DEF Abs!OrderedNext
<1>10. ASSUME RemoveAll PROVE TreeInv' /\ Abs!OrderedNext
  <2>1. TreeInv' /\ Abs!Clear /\ Abs!NoIterator
    BY <1>10, RemoveAllStays
  <2> QED
    BY <2>1 DEF Abs!OrderedNext
<1>11. ASSUME IterInit PROVE TreeInv' /\ Abs!OrderedNext
  <2>1. TreeInv' /\ Abs!StartOver
    BY <1>11, IterInitStays
  <2> QED
    BY <2>1 DEF Abs!OrderedNext
<1>12. ASSUME IterNext PROVE TreeInv' /\ Abs!OrderedNext
  <2>1. TreeInv' /\ (Abs!NextInOrder \/ Abs!EndOfOrder)
    BY <1>12, IterNextStays
  <2> QED
    BY <2>1 DEF Abs!OrderedNext
<1>13. ASSUME IterRemove PROVE TreeInv' /\ Abs!OrderedNext
  <2>1. TreeInv' /\ (Abs!DropLatest \/ Abs!DropNone)
    BY <1>13, IterRemoveStays
  <2> QED
    BY <2>1 DEF Abs!OrderedNext
<1>14. ASSUME UNCHANGED vars PROVE TreeInv' /\ UNCHANGED Abs!orderedVars
  <2>1. table' = table /\ iter' = iter /\ ret' = ret
    BY <1>14 DEF vars
  <2>2. TreeInv' /\ Abs!SameIterator /\ Held' = Held
    BY <2>1, Nothing
  <2> QED
    BY <2>1, <2>2 DEF Abs!orderedVars, Abs!SameIterator
<1> QED
  BY <1>1, <1>2, <1>3, <1>4, <1>5, <1>6, <1>7, <1>8, <1>9, <1>10, <1>11, <1>12, <1>13,
     <1>14 DEF Next

LEMMA InitKeepsInv ==
  ASSUME Init
  PROVE  TreeInv /\ Abs!OrderedInit
<1>1. table = Empty /\ iter = NoIter /\ ret = Done
  BY DEF Init
<1>2. Holds(table, {})
  BY <1>1, EmptyHolds, EmptyIsEmpty
<1>3. Live(table) = {}
  BY <1>2, HoldsFacts
<1>4. iter.next = Sentinel /\ iter.current = Sentinel
      /\ iter = [on |-> iter.on, current |-> iter.current, next |-> iter.next]
  BY <1>1 DEF NoIter
<1>5. TreeInv
  BY <1>2, <1>3, <1>4 DEF TreeInv, IterInv
<1>6. Held = Abs!Nothing
  BY <1>3 DEF Held, Abs!Nothing
<1>7. Owed = {} /\ Latest = NoElement
  BY <1>4 DEF Owed, Latest, Null
<1>8. Abs!Init
  BY <1>1, <1>6, SameResults DEF Abs!Init
<1> QED
  BY <1>5, <1>7, <1>8 DEF Abs!OrderedInit

-----------------------------------------------------------------------------
\* What the invariant says in the terms of the tree table.

LEMMA LinksFollow ==
  ASSUME TreeInv
  PROVE  LinksAgree
<1>1. PICK t : t = table
  OBVIOUS
<1>2. PICK N : N = Live(t)
  OBVIOUS
<1>3. Holds(t, N)
  BY <1>1, <1>2 DEF TreeInv
<1>4. PICK sub, bh : Good(t, N \cup {Sentinel}, N, sub, bh)
  BY <1>3 DEF Holds
<1>5. Shape(t, N \cup {Sentinel}, N, sub)
  BY <1>4 DEF Good
<1>6. t.root # Sentinel => Parent(t, t.root) = Sentinel
  BY <1>5 DEF Shape
<1>7. \A n \in N : \A s \in Sides :
        Kid(t, n, s) # Sentinel => Parent(t, Kid(t, n, s)) = n
  BY <1>5 DEF Shape, Below
<1> QED
  BY <1>1, <1>2, <1>6, <1>7 DEF LinksAgree, Kid, Sides

LEMMA RulesFollow ==
  ASSUME TreeInv
  PROVE  RedBlackRules
<1>1. PICK t : t = table
  OBVIOUS
<1>2. PICK N : N = Live(t)
  OBVIOUS
<1> DEFINE D == N \cup {Sentinel}
<1>3. Holds(t, N)
  BY <1>1, <1>2 DEF TreeInv
<1>4. PICK sub, bh : Good(t, D, N, sub, bh)
  BY <1>3 DEF Holds
<1>5. /\ Shape(t, D, N, sub) /\ Heights(bh, N) /\ Even(t, N, bh, Null, "left")
      /\ Color(t, Sentinel) = Black /\ Color(t, t.root) = Black
      /\ RedApart(t, N, Null, Null)
  BY <1>4 DEF Good
<1>6. Null \notin N /\ Sentinel \notin N /\ N \subseteq D /\ TreeOn(t, D)
      /\ t.root \in N \cup {Sentinel}
  BY <1>3, HoldsFacts
<1> HIDE DEF D
<1>7. ASSUME NEW n \in N, Color(t, n) = Red PROVE Color(t, Parent(t, n)) = Black
  <2>1. n # t.root
    BY <1>5, <1>7, ColorFacts
  <2>2. Parent(t, n) \in N /\ \E s \in Sides : Kid(t, Parent(t, n), s) = n
    BY <1>5, <2>1, HasParent
  <2>3. Color(t, Parent(t, n)) # Red
    BY <1>5, <1>6, <1>7, <2>2 DEF RedApart
  <2>4. Color(t, Parent(t, n)) \in Colors
    BY <1>6, <2>2, TwoColors
  <2> QED
    BY <2>3, <2>4, ColorFacts
<1>8. BlackHeights(t, t.root) = {bh[t.root]}
  BY <1>2, <1>5, <1>6, HeightsAre
<1>9. Cardinality(BlackHeights(t, t.root)) = 1
  BY <1>8, FS_Singleton
<1> QED
  BY <1>1, <1>2, <1>5, <1>7, <1>9 DEF RedBlackRules

LEMMA NodesAreReached ==
  ASSUME TreeInv
  PROVE  EveryNodeIsReached
<1>1. Holds(table, Live(table))
  BY DEF TreeInv
<1>2. Visited(table, First(table)) = Live(table)
      /\ \A k \in Keys : Found(table, k) <=> k \in Live(table)
  BY <1>1, Answers
<1>3. table.size = Cardinality(Live(table))
  BY <1>1, HoldsFacts
<1> QED
  BY <1>2, <1>3 DEF EveryNodeIsReached

-----------------------------------------------------------------------------
\* Theorems

\* After every call the nodes that are allocated, and no others, make up a red-black
\* search tree, size counts them, and an iterator stands at nodes that are in it.
THEOREM TreeTableStaysSound == Spec => []TreeInv
<1>1. Init => TreeInv
  BY InitKeepsInv
<1>2. TreeInv /\ [Next]_vars => TreeInv'
  BY StepKeepsInv
<1> QED
  BY <1>1, <1>2, PTL DEF Spec

\* The parent and child links, which rotations, transplants and the two rebalancing
\* loops rewrite one by one, agree after every call, for every set of keys.
THEOREM LinksStayInAgreement == Spec => []LinksAgree
<1>1. TreeInv => LinksAgree
  BY LinksFollow
<1> QED
  BY <1>1, TreeTableStaysSound, PTL

\* After every call the root and the sentinel are black, no red node is below a red
\* one, and every way down passes as many black nodes: what rebalance_after_insert and
\* rebalance_after_delete are there for.
THEOREM TreeStaysRedBlack == Spec => []RedBlackRules
<1>1. TreeInv => RedBlackRules
  BY RulesFollow
<1> QED
  BY <1>1, TreeTableStaysSound, PTL

\* After every call a walk along get_successor_node visits every node that is
\* allocated, size is their number, and exactly their keys are found.
THEOREM NodesStayReachable == Spec => []EveryNodeIsReached
<1>1. TreeInv => EveryNodeIsReached
  BY NodesAreReached
<1> QED
  BY <1>1, TreeTableStaysSound, PTL

\* The tree table is an ordered map: each call of cc_treetable.c and of its iterator
\* is the call of its name on the map, or its refusal, and an iterator that removes on
\* its way still hands out every mapping, in order.
THEOREM TreeTableIsAnOrderedMap == Spec => IsAnOrderedMap
<1>1. Init => Abs!OrderedInit
  BY InitKeepsInv
<1>2. TreeInv /\ [Next]_vars => [Abs!OrderedNext]_(Abs!orderedVars)
  BY StepKeepsInv
<1>3. TreeInv => CallsKeepPromise
  BY CallsAreMapCalls
<1>4. TreeInv /\ [Next]_vars => [CallsKeepPromise]_vars
  BY <1>3
<1> QED
  BY <1>1, <1>2, <1>4, TreeTableStaysSound, PTL DEF Spec, Abs!OrderedSpec, IsAnOrderedMap

-----------------------------------------------------------------------------
\* The tree set over the tree table.

CONSTANT Dummy  \* set->dummy

VARIABLE answer  \* what the set makes of the table's result

Set == INSTANCE CCTreeSet WITH Elements <- Keys, inner <- ret, ret <- answer

\* The set's instance of the table is the table.

LEMMA SameCodes ==
  /\ Set!T!Done = Done
  /\ \A e : Set!T!Got(e) = Got(e)
  /\ \A n : Set!T!GotNumber(n) = GotNumber(n)
  /\ \A st : Set!T!Refused(st) = Refused(st)
  /\ \A b : Set!T!Truth(b) = Truth(b)
  /\ Set!T!CC_ERR_ALLOC = CC_ERR_ALLOC
  /\ Set!T!CC_ERR_KEY_NOT_FOUND = CC_ERR_KEY_NOT_FOUND
  /\ Set!T!CC_ITER_END = CC_ITER_END
  /\ Set!T!Null = Null /\ Set!T!NoIter = NoIter
  /\ Set!T!Red = Red /\ Set!T!Black = Black
BY DEF Set!T!Done, Set!T!Got, Set!T!Refused, Set!T!Truth, Set!T!Result, Set!T!CC_OK,
       Set!T!GotNumber, GotNumber, Set!T!NoIter, NoIter, Set!T!Red, Red, Set!T!Black, Black,
       Done, Got, Refused, Truth, Result, CC_OK, Set!T!CC_ERR_ALLOC, CC_ERR_ALLOC,
       Set!T!CC_ERR_KEY_NOT_FOUND, CC_ERR_KEY_NOT_FOUND, Set!T!CC_ITER_END, CC_ITER_END,
       Set!T!Null, Null

LEMMA SameFields ==
  /\ \A v, c, p : Set!T!Node(v, c, p) = Node(v, c, p)
  /\ Set!T!Empty = Empty
  /\ \A t : Set!T!Live(t) = Live(t)
  /\ \A t, n : Set!T!Parent(t, n) = Parent(t, n)
  /\ \A t, n : Set!T!Color(t, n) = Color(t, n)
  /\ \A t, n : Set!T!SideOf(t, n) = SideOf(t, n)
  /\ \A s : Set!T!Other(s) = Other(s)
  /\ \A t, n, c : Set!T!Painted(t, n, c) = Painted(t, n, c)
  /\ \A t, n, p : Set!T!WithParent(t, n, p) = WithParent(t, n, p)
  /\ \A t, n, s, c : Set!T!WithChild(t, n, s, c) = WithChild(t, n, s, c)
BY DEF Set!T!Node, Node, Set!T!Empty, Empty, Set!T!SentinelNode, SentinelNode, Set!T!Null, Null,
       Set!T!Black, Black, Set!T!Live, Live, Set!T!Parent, Parent, Set!T!Color, Color,
       Set!T!SideOf, SideOf, Set!T!Other, Other, Set!T!Painted, Painted,
       Set!T!WithParent, WithParent, Set!T!WithChild, WithChild

LEMMA SameWays ==
  /\ \A t, n, k : Set!T!Descend(t, n, k) = Descend(t, n, k)
  /\ \A t, k : Set!T!Found(t, k) <=> Found(t, k)
  /\ \A t, n, s : Set!T!Extreme(t, n, s) = Extreme(t, n, s)
  /\ \A t : Set!T!First(t) = First(t)
  /\ \A t : Set!T!Last(t) = Last(t)
  /\ \A t, n, s : Set!T!NextOn(t, n, s) = NextOn(t, n, s)
<1>1. \A next, n : Set!T!WayEnd(next, n) = WayEnd(next, n)
  BY Zenon DEF Set!T!WayEnd, WayEnd
<1>2. \A t, n, k : Set!T!Descend(t, n, k) = Descend(t, n, k)
  BY <1>1, SameFields DEF Set!T!Descend, Descend
<1>3. \A t, n, s : Set!T!Extreme(t, n, s) = Extreme(t, n, s)
  BY <1>1, SameFields DEF Set!T!Extreme, Extreme
<1>4. \A t, n, s : Set!T!Climb(t, n, s) = Climb(t, n, s)
  BY <1>1, SameFields DEF Set!T!Climb, Climb
<1>5. \A t, n, s : Set!T!NextOn(t, n, s) = NextOn(t, n, s)
  BY <1>3, <1>4, SameFields DEF Set!T!NextOn, NextOn
<1>6. \A t, k : Set!T!Found(t, k) <=> Found(t, k)
  BY <1>2 DEF Set!T!Found, Found
<1>7. \A t : Set!T!First(t) = First(t) /\ Set!T!Last(t) = Last(t)
  BY <1>3 DEF Set!T!First, First, Set!T!Last, Last
<1> QED
  BY <1>2, <1>3, <1>5, <1>6, <1>7

LEMMA SameRounds ==
  /\ \A t, z : Set!T!InsertRound(t, z) = InsertRound(t, z)
  /\ \A t, x : Set!T!DeleteRound(t, x) = DeleteRound(t, x)
  /\ \A t, u, v : Set!T!Transplant(t, u, v) = Transplant(t, u, v)
<1>1. \A t, u, v : Set!T!Transplant(t, u, v) = Transplant(t, u, v)
  BY SameFields DEF Set!T!Transplant, Transplant
<1>2. \A t, x, y, i, s : Set!T!Swung(t, x, y, i, s) = Swung(t, x, y, i, s)
  BY <1>1, SameFields DEF Set!T!Swung, Swung
<1>3. \A t, x, s : Set!T!Rotate(t, x, s) = Rotate(t, x, s)
  BY <1>2, SameFields DEF Set!T!Rotate, Rotate
<1>4. \A t, h, g, s : Set!T!Raised(t, h, g, s) = Raised(t, h, g, s)
  BY <1>3, SameFields, SameCodes DEF Set!T!Raised, Raised
<1>5. \A t, z : Set!T!InsertRound(t, z) = InsertRound(t, z)
  BY <1>3, <1>4, SameFields, SameCodes DEF Set!T!InsertRound, InsertRound
<1>6. \A t, p, s : /\ Set!T!RedSiblingUp(t, p, s) = RedSiblingUp(t, p, s)
                   /\ Set!T!InnerUp(t, p, s) = InnerUp(t, p, s)
                   /\ Set!T!SiblingUp(t, p, s) = SiblingUp(t, p, s)
  BY <1>3, SameFields, SameCodes
     DEF Set!T!RedSiblingUp, RedSiblingUp, Set!T!InnerUp, InnerUp, Set!T!SiblingUp, SiblingUp
<1>7. \A t, x : Set!T!DeleteRound(t, x) = DeleteRound(t, x)
  BY <1>6, SameFields, SameCodes DEF Set!T!DeleteRound, DeleteRound
<1> QED
  BY <1>1, <1>5, <1>7

LEMMA SameBalance ==
  /\ \A t, z : Set!T!RebalanceAfterInsert(t, z) = RebalanceAfterInsert(t, z)
  /\ \A t, x : Set!T!RebalanceAfterDelete(t, x) = RebalanceAfterDelete(t, x)
<1>1. \A S : Set!T!Cardinality(S) = Cardinality(S)
  BY DEF Set!T!Cardinality, Cardinality
<1>2. \A t : Set!T!Cardinality(Set!T!Live(t)) = Cardinality(Live(t))
  BY <1>1, SameFields
<1>3. ASSUME NEW t, NEW z
      PROVE  Set!T!RebalanceAfterInsert(t, z) = RebalanceAfterInsert(t, z)
  <2> DEFINE n == Cardinality(Live(t))
             n2 == Set!T!Cardinality(Set!T!Live(t))
             step(f, i) == IF i = 0 THEN [tree |-> t, at |-> z]
                           ELSE LET b == f[i - 1]
                                IN  IF Color(b.tree, Parent(b.tree, b.at)) = Black THEN b
                                    ELSE InsertRound(b.tree, b.at)
             step2(f, i) == IF i = 0 THEN [tree |-> t, at |-> z]
                            ELSE LET b == f[i - 1]
                                 IN  IF Set!T!Color(b.tree, Set!T!Parent(b.tree, b.at)) = Set!T!Black
                                     THEN b ELSE Set!T!InsertRound(b.tree, b.at)
             round == CHOOSE f : f = [i \in 0..n |-> step(f, i)]
             round2 == CHOOSE f : f = [i \in 0..n2 |-> step2(f, i)]
  <2>1. \A f, i : step2(f, i) = step(f, i)
    BY SameRounds, SameFields, SameCodes
  <2>2. round2 = round
    <3>1. n2 = n
      BY <1>2
    <3> HIDE DEF step, step2, n, n2
    <3>2. \A f : f = [i \in 0..n |-> step(f, i)] <=> f = [i \in 0..n2 |-> step2(f, i)]
      BY <2>1, <3>1
    <3> QED
      BY Zenon, <3>2
  <2>3. RebalanceAfterInsert(t, z) = Painted(round[n].tree, round[n].tree.root, Black)
    BY Zenon DEF RebalanceAfterInsert
  <2>4. Set!T!RebalanceAfterInsert(t, z)
          = Set!T!Painted(round2[n2].tree, round2[n2].tree.root, Set!T!Black)
    BY Zenon DEF Set!T!RebalanceAfterInsert
  <2>5. n2 = n
    BY <1>2
  <2> HIDE DEF n, n2, round, round2
  <2> QED
    BY <2>2, <2>3, <2>4, <2>5, SameFields, SameCodes
<1>4. ASSUME NEW t, NEW z
      PROVE  Set!T!RebalanceAfterDelete(t, z) = RebalanceAfterDelete(t, z)
  <2> DEFINE n == Cardinality(Live(t))
             n2 == Set!T!Cardinality(Set!T!Live(t))
             step(f, i) == IF i = 0 THEN [tree |-> t, at |-> z]
                           ELSE LET b == f[i - 1]
                                IN  IF b.at = b.tree.root \/ Color(b.tree, b.at) = Red THEN b
                                    ELSE DeleteRound(b.tree, b.at)
             step2(f, i) == IF i = 0 THEN [tree |-> t, at |-> z]
                            ELSE LET b == f[i - 1]
                                 IN  IF b.at = b.tree.root \/ Set!T!Color(b.tree, b.at) = Set!T!Red
                                     THEN b ELSE Set!T!DeleteRound(b.tree, b.at)
             round == CHOOSE f : f = [i \in 0..n |-> step(f, i)]
             round2 == CHOOSE f : f = [i \in 0..n2 |-> step2(f, i)]
  <2>1. \A f, i : step2(f, i) = step(f, i)
    BY SameRounds, SameFields, SameCodes
  <2>2. round2 = round
    <3>1. n2 = n
      BY <1>2
    <3> HIDE DEF step, step2, n, n2
    <3>2. \A f : f = [i \in 0..n |-> step(f, i)] <=> f = [i \in 0..n2 |-> step2(f, i)]
      BY <2>1, <3>1
    <3> QED
      BY Zenon, <3>2
  <2>3. RebalanceAfterDelete(t, z) = Painted(round[n].tree, round[n].at, Black)
    BY Zenon DEF RebalanceAfterDelete
  <2>4. Set!T!RebalanceAfterDelete(t, z)
          = Set!T!Painted(round2[n2].tree, round2[n2].at, Set!T!Black)
    BY Zenon DEF Set!T!RebalanceAfterDelete
  <2>5. n2 = n
    BY <1>2
  <2> HIDE DEF n, n2, round, round2
  <2> QED
    BY <2>2, <2>3, <2>4, <2>5, SameFields, SameCodes
<1> QED
  BY <1>3, <1>4

LEMMA SameTrees ==
  /\ \A k, v : Set!T!Inserted(k, v) = Inserted(k, v)
  /\ \A t, z : Set!T!RemoveNode(t, z) = RemoveNode(t, z)
<1>1. \A k, v : Set!T!Inserted(k, v) = Inserted(k, v)
  <2> SUFFICES ASSUME NEW k, NEW v PROVE Set!T!Inserted(k, v) = Inserted(k, v)
    OBVIOUS
  <2> DEFINE y == IF table.root = Sentinel THEN Sentinel ELSE Descend(table, table.root, k)
             y2 == IF table.root = Sentinel THEN Sentinel
                   ELSE Set!T!Descend(table, table.root, k)
             node == [n \in DOMAIN table.node \cup {k} |->
                        IF n = k THEN Node(v, IF y = Sentinel THEN Black ELSE Red, y)
                        ELSE table.node[n]]
             node2 == [n \in DOMAIN table.node \cup {k} |->
                         IF n = k THEN Set!T!Node(v, IF y2 = Sentinel THEN Set!T!Black
                                                     ELSE Set!T!Red, y2)
                         ELSE table.node[n]]
             grown(f) == [table EXCEPT !.node = f, !.size = @ + 1]
             linked(f, m) == [grown(f) EXCEPT !.node[m][IF k < m THEN "left" ELSE "right"] = k]
  <2>1. y2 = y
    BY SameWays
  <2>2. node2 = node
    <3> HIDE DEF y, y2
    <3> QED
      BY <2>1, SameFields, SameCodes
  <2>3. Inserted(k, v) = IF y = Sentinel THEN [grown(node) EXCEPT !.root = k]
                         ELSE RebalanceAfterInsert(linked(node, y), k)
    BY DEF Inserted
  <2>4. Set!T!Inserted(k, v) = IF y2 = Sentinel THEN [grown(node2) EXCEPT !.root = k]
                               ELSE Set!T!RebalanceAfterInsert(linked(node2, y2), k)
    BY DEF Set!T!Inserted
  <2> HIDE DEF y, y2, node, node2, grown, linked
  <2> QED
    BY <2>1, <2>2, <2>3, <2>4, SameBalance
<1>2. \A t, z, y : Set!T!Promoted(t, z, y) = Promoted(t, z, y)
  BY SameRounds, SameFields DEF Set!T!Promoted, Promoted
<1>3. \A t, z : Set!T!Unlinked(t, z) = Unlinked(t, z)
  BY <1>2, SameRounds, SameWays, SameFields DEF Set!T!Unlinked, Unlinked
<1>4. \A t, z : Set!T!RemoveNode(t, z) = RemoveNode(t, z)
  <2>1. \A t, z : Set!T!Without(t, z) = Without(t, z)
    BY DEF Set!T!Without, Without
  <2> QED
    BY <1>3, <2>1, SameBalance, SameCodes DEF Set!T!RemoveNode, RemoveNode
<1> QED
  BY <1>1, <1>4

LEMMA SameCalls ==
  /\ \A k, v : Set!T!Add(k, v) <=> Add(k, v)
  /\ \A k : Set!T!Remove(k) <=> Remove(k)
  /\ Set!T!RemoveAll <=> RemoveAll
  /\ \A k : Set!T!ContainsKey(k) <=> ContainsKey(k)
  /\ \A n : Set!T!GetKeyAt(n) <=> GetKeyAt(n)
  /\ \A k, s : Set!T!GetNeighbour(k, s) <=> GetNeighbour(k, s)
  /\ Set!T!IterInit <=> IterInit
  /\ Set!T!IterNext <=> IterNext
  /\ Set!T!IterRemove <=> IterRemove
  /\ Set!T!Init <=> Init
<1>1. /\ \A t, r : Set!T!Update(t, r) <=> Update(t, r)
      /\ \A r : Set!T!Answer(r) <=> Answer(r)
      /\ \A r : Set!T!Return(r) <=> Return(r)
  BY SameCodes DEF Set!T!Update, Update, Set!T!Answer, Answer, Set!T!Return, Return
<1>2. /\ \A k : Set!T!Missing(k) <=> Missing(k)
      /\ \A n : Set!T!TakeOut(n) <=> TakeOut(n)
  BY <1>1, SameCodes, SameWays, SameTrees
     DEF Set!T!Missing, Missing, Set!T!TakeOut, TakeOut
<1>3. \A k, v : Set!T!Add(k, v) <=> Add(k, v)
  BY <1>1, SameCodes, SameWays, SameTrees DEF Set!T!Add, Add
<1>4. \A k : Set!T!Remove(k) <=> Remove(k)
  BY <1>2, SameCodes, SameWays DEF Set!T!Remove, Remove
<1>5. Set!T!RemoveAll <=> RemoveAll
  BY <1>1, SameCodes DEF Set!T!RemoveAll, RemoveAll
<1>6. /\ \A k : Set!T!ContainsKey(k) <=> ContainsKey(k)
      /\ \A n : Set!T!GetKeyAt(n) <=> GetKeyAt(n)
  BY <1>1, SameCodes, SameWays DEF Set!T!ContainsKey, ContainsKey, Set!T!GetKeyAt, GetKeyAt,
     Set!T!Truth, Truth, Set!T!Result, Result
<1>7. \A k, s : Set!T!GetNeighbour(k, s) <=> GetNeighbour(k, s)
  BY <1>1, <1>2, SameCodes, SameWays DEF Set!T!GetNeighbour, GetNeighbour
<1>8. /\ Set!T!IterInit <=> IterInit
      /\ Set!T!IterNext <=> IterNext
      /\ Set!T!IterRemove <=> IterRemove
  BY <1>1, <1>2, SameCodes, SameWays
     DEF Set!T!IterInit, IterInit, Set!T!IterNext, IterNext, Set!T!IterRemove, IterRemove
<1>9. Set!T!Init <=> Init
  BY SameCodes, SameFields DEF Set!T!Init, Init
<1> QED
  BY <1>3, <1>4, <1>5, <1>6, <1>7, <1>8, <1>9

\* The state of the ordered set is that of the ordered map, but for the values.
LEMMA SameState ==
  /\ Set!T!Live(table) = DOMAIN Held /\ Set!T!Owed = Owed /\ Set!T!Latest = Latest
  /\ Set!T!Live(table') = DOMAIN Held' /\ Set!T!Owed' = Owed' /\ Set!T!Latest' = Latest'
<1>1. Set!T!Live(table) = DOMAIN Held /\ Set!T!Owed = Owed /\ Set!T!Latest = Latest
  BY SameCodes, SameFields DEF Held, Set!T!Owed, Owed, Set!T!Latest, Latest
<1>2. Set!T!Live(table') = DOMAIN Held' /\ Set!T!Owed' = Owed' /\ Set!T!Latest' = Latest'
  BY SameCodes, SameFields DEF Held, Set!T!Owed, Owed, Set!T!Latest, Latest
<1> QED
  BY <1>1, <1>2

LEMMA SameAnswers ==
  /\ Set!Abs!Done = Done
  /\ \A e : Set!Abs!Got(e) = Got(e)
  /\ \A n : Set!Abs!GotNumber(n) = Got(<<n>>)
  /\ \A st : Set!Abs!Refused(st) = Refused(st)
  /\ \A b : Set!Abs!Truth(b) = Truth(b)
  /\ \A S : Set!Abs!Least(S) = Abs!Least(S)
  /\ \A S : Set!Abs!Greatest(S) = Abs!Greatest(S)
  /\ Set!Abs!CC_ERR_ALLOC = CC_ERR_ALLOC /\ Set!Abs!CC_ITER_END = CC_ITER_END
  /\ Set!Abs!CC_ERR_KEY_NOT_FOUND = CC_ERR_KEY_NOT_FOUND
  /\ Set!Abs!CC_ERR_VALUE_NOT_FOUND = CC_ERR_VALUE_NOT_FOUND
  /\ Set!Abs!CC_OK = CC_OK /\ Set!CC_OK = CC_OK
  /\ Set!CC_ERR_VALUE_NOT_FOUND = CC_ERR_VALUE_NOT_FOUND
BY DEF Set!Abs!Done, Set!Abs!Got, Set!Abs!GotNumber, Set!Abs!Refused, Set!Abs!Truth,
       Set!Abs!Result, Set!Abs!CC_OK, Done, Got, Refused, Truth, Result, CC_OK, Set!CC_OK,
       Set!Abs!Least, Abs!Least, Set!Abs!Greatest, Abs!Greatest,
       Set!Abs!CC_ERR_ALLOC, CC_ERR_ALLOC, Set!Abs!CC_ITER_END, CC_ITER_END,
       Set!Abs!CC_ERR_KEY_NOT_FOUND, CC_ERR_KEY_NOT_FOUND, Set!Abs!CC_ERR_VALUE_NOT_FOUND,
       CC_ERR_VALUE_NOT_FOUND, Set!CC_ERR_VALUE_NOT_FOUND

\* What the set's client is told, for what the table tells the set.
LEMMA TranslatedIs ==
  /\ \A e : Set!Translated(Got(e)) = Got(e)
  /\ Set!Translated(Refused(CC_ERR_KEY_NOT_FOUND)) = Refused(CC_ERR_VALUE_NOT_FOUND)
BY DEF Set!Translated, Set!Refused, Set!Result, Set!CC_OK, Set!CC_ERR_KEY_NOT_FOUND,
       Set!CC_ERR_VALUE_NOT_FOUND, Got, Refused, Result, CC_OK, CC_ERR_KEY_NOT_FOUND,
       CC_ERR_VALUE_NOT_FOUND

LEMMA MapToSet ==
  ASSUME NEW k, NEW v
  PROVE  LET D == DOMAIN Held
         IN  /\ Abs!Put(k, v) => ret' = Done /\ DOMAIN Held' = D \cup {k}
             /\ Abs!Delete(k) => (\E e : ret' = Got(e)) /\ k \in D /\ DOMAIN Held' = D \ {k}
             /\ Abs!Absent(k) =>
                  ret' = Refused(CC_ERR_KEY_NOT_FOUND) /\ k \notin D /\ DOMAIN Held' = D
             /\ Abs!Contains(k) => ret' = Truth(k \in D) /\ DOMAIN Held' = D
             /\ Abs!Clear => ret' = Done /\ DOMAIN Held' = {}
             /\ Abs!Keep => ret' = Done /\ DOMAIN Held' = D
             /\ Abs!NextPair(k) => /\ ret'.stat = CC_OK /\ ret'.out[1] = k
                                   /\ DOMAIN Held' = D
<1>1. Abs!Put(k, v) => ret' = Done /\ DOMAIN Held' = DOMAIN Held \cup {k}
  BY SameResults DEF Abs!Put, Abs!With
<1>2. Abs!Delete(k) => (\E e : ret' = Got(e)) /\ k \in DOMAIN Held
                       /\ DOMAIN Held' = DOMAIN Held \ {k}
  BY SameResults DEF Abs!Delete, Abs!Without
<1>3. Abs!Absent(k) => ret' = Refused(CC_ERR_KEY_NOT_FOUND) /\ k \notin DOMAIN Held
                       /\ DOMAIN Held' = DOMAIN Held
  BY SameResults
     DEF Abs!Absent, Abs!Refuse, Abs!CC_ERR_KEY_NOT_FOUND, CC_ERR_KEY_NOT_FOUND
<1>4. Abs!Contains(k) => ret' = Truth(k \in DOMAIN Held) /\ DOMAIN Held' = DOMAIN Held
  BY DEF Abs!Contains, Abs!Truth, Truth, Abs!Result, Result
<1>5. Abs!Clear => ret' = Done /\ DOMAIN Held' = {}
  BY SameResults DEF Abs!Clear, Abs!Nothing
<1>6. Abs!Keep => ret' = Done /\ DOMAIN Held' = DOMAIN Held
  BY SameResults DEF Abs!Keep
<1>7. Abs!NextPair(k) => /\ ret'.stat = CC_OK /\ ret'.out[1] = k
                         /\ DOMAIN Held' = DOMAIN Held
  BY SameResults DEF Abs!NextPair, Got, Result
<1> QED
  BY <1>1, <1>2, <1>3, <1>4, <1>5, <1>6, <1>7

\* What the two iterators share.
LEMMA IteratorAfter ==
  /\ Abs!NoIterator => Set!Abs!NoIterator
  /\ Abs!SameIterator => Set!Abs!SameIterator
BY SameState DEF Abs!NoIterator, Set!Abs!NoIterator, Abs!SameIterator, Set!Abs!SameIterator

LEMMA SetAdd ==
  ASSUME TreeInv, NEW e \in Keys, Set!Add(e)
  PROVE  TreeInv' /\ (Set!Abs!Insert(e) \/ Set!Abs!NoRoom)
<1>1. Add(e, Dummy) /\ answer' = ret'
  BY SameCalls DEF Set!Add, Set!Pass
<1>2. TreeInv' /\ (Abs!Store(e, Dummy) \/ Abs!NoMemory)
  BY <1>1, AddStays
<1>3. CASE Abs!Store(e, Dummy)
  BY <1>1, <1>2, <1>3, MapToSet, IteratorAfter, SameState, SameAnswers
     DEF Abs!Store, Set!Abs!Insert
<1>4. CASE Abs!NoMemory
  <2>1. ret' = Refused(CC_ERR_ALLOC) /\ Held' = Held /\ Abs!SameIterator
    BY <1>4, SameResults DEF Abs!NoMemory, Abs!Refuse, Abs!CC_ERR_ALLOC, CC_ERR_ALLOC
  <2> QED
    BY <1>1, <1>2, <2>1, IteratorAfter, SameState, SameAnswers
       DEF Set!Abs!NoRoom, Set!Abs!Refuse
<1> QED
  BY <1>2, <1>3, <1>4

LEMMA SetRemove ==
  ASSUME TreeInv, NEW e \in Keys, Set!Remove(e)
  PROVE  TreeInv' /\ (Set!Abs!Discard(e) \/ Set!Abs!Absent(e, CC_ERR_VALUE_NOT_FOUND))
<1>1. Remove(e) /\ answer' = Set!Translated(ret')
  BY SameCalls DEF Set!Remove, Set!Translate
<1>2. TreeInv' /\ (Abs!DeleteAny(e) \/ (Abs!Absent(e) /\ Abs!SameIterator))
  BY <1>1, RemoveStays
<1>3. CASE Abs!DeleteAny(e)
  <2>1. /\ \E x : ret' = Got(x)
        /\ e \in DOMAIN Held /\ DOMAIN Held' = DOMAIN Held \ {e} /\ Abs!NoIterator
    BY <1>3, MapToSet DEF Abs!DeleteAny
  <2>2. answer'.stat = CC_OK
    BY <1>1, <2>1, TranslatedIs DEF Got, Result
  <2> QED
    BY <1>2, <2>1, <2>2, IteratorAfter, SameState, SameAnswers
       DEF Set!Abs!Discard, Set!Abs!Delete
<1>4. CASE Abs!Absent(e) /\ Abs!SameIterator
  <2>1. /\ ret' = Refused(CC_ERR_KEY_NOT_FOUND)
        /\ e \notin DOMAIN Held /\ DOMAIN Held' = DOMAIN Held
    BY <1>4, MapToSet
  <2> QED
    BY <1>1, <1>2, <1>4, <2>1, TranslatedIs, IteratorAfter, SameState, SameAnswers
       DEF Set!Abs!Absent, Set!Abs!Refuse
<1> QED
  BY <1>2, <1>3, <1>4

LEMMA SetContains ==
  ASSUME TreeInv, NEW e \in Keys, Set!Contains(e)
  PROVE  TreeInv' /\ Set!Abs!Contains(e)
<1>1. ContainsKey(e) /\ answer' = ret'
  BY SameCalls DEF Set!Contains, Set!Pass
<1>2. TreeInv' /\ Abs!Contains(e) /\ Abs!SameIterator
  BY <1>1, ContainsKeyStays
<1>3. ret' = Truth(e \in DOMAIN Held) /\ DOMAIN Held' = DOMAIN Held
  BY <1>2, MapToSet
<1> QED
  BY <1>1, <1>2, <1>3, IteratorAfter, SameState, SameAnswers DEF Set!Abs!Contains

LEMMA SetNeighbours ==
  ASSUME TreeInv, NEW e \in Keys
  PROVE  /\ Set!GetGreaterThan(e) =>
              /\ TreeInv'
              /\ Set!Abs!Successor(e) \/ Set!Abs!Absent(e, CC_ERR_VALUE_NOT_FOUND)
         /\ Set!GetLesserThan(e) =>
              /\ TreeInv'
              /\ Set!Abs!Predecessor(e) \/ Set!Abs!Absent(e, CC_ERR_VALUE_NOT_FOUND)
<1> DEFINE D == DOMAIN Held
<1>1. ASSUME Abs!Absent(e), Abs!SameIterator, answer' = Set!Translated(ret')
      PROVE  Set!Abs!Absent(e, CC_ERR_VALUE_NOT_FOUND)
  <2>1. ret' = Refused(CC_ERR_KEY_NOT_FOUND) /\ e \notin D /\ DOMAIN Held' = D
    BY <1>1, MapToSet
  <2> QED
    BY <1>1, <2>1, TranslatedIs, IteratorAfter, SameState, SameAnswers
       DEF Set!Abs!Absent, Set!Abs!Refuse
<1>2. ASSUME NEW S, NEW r, Abs!SameIterator, answer' = Set!Translated(ret'),
             ret' = IF S = {} THEN Abs!Got(NoElement) ELSE Abs!GotNumber(r), Held' = Held
      PROVE  IF S = {} THEN Set!Abs!NoNeighbour ELSE Set!Abs!Pick(r)
  <2>1. answer' = IF S = {} THEN Got(NoElement) ELSE Got(<<r>>)
    BY <1>2, TranslatedIs, SameResults DEF GotNumber
  <2> QED
    BY <1>2, <2>1, IteratorAfter, SameState, SameAnswers
       DEF Set!Abs!NoNeighbour, Set!Abs!Pick
<1>3. ASSUME Set!GetGreaterThan(e)
      PROVE  /\ TreeInv'
             /\ Set!Abs!Successor(e) \/ Set!Abs!Absent(e, CC_ERR_VALUE_NOT_FOUND)
  <2>1. GetNeighbour(e, "right") /\ answer' = Set!Translated(ret')
    BY <1>3, SameCalls DEF Set!GetGreaterThan, Set!Translate
  <2>2. TreeInv' /\ Abs!SameIterator /\ (Abs!Successor(e) \/ Abs!Absent(e))
    BY <2>1, GetNeighbourStays
  <2>3. CASE Abs!Successor(e)
    <3> DEFINE S == Abs!Above(e)
    <3>1. /\ e \in D /\ Held' = Held /\ S = {f \in D : f > e}
          /\ ret' = IF S = {} THEN Abs!Got(NoElement) ELSE Abs!GotNumber(Abs!Least(S))
      BY <2>3 DEF Abs!Successor, Abs!Neighbour, Abs!Above
    <3> HIDE DEF S
    <3>2. IF S = {} THEN Set!Abs!NoNeighbour ELSE Set!Abs!Pick(Set!Abs!Least(S))
      BY <1>2, <2>1, <2>2, <3>1, SameAnswers
    <3>3. S = {f \in Set!T!Live(table) : f > e} /\ e \in Set!T!Live(table)
      BY <3>1, SameState
    <3> QED
      BY <2>2, <3>2, <3>3 DEF Set!Abs!Successor
  <2> QED
    BY <1>1, <2>1, <2>2, <2>3
<1>4. ASSUME Set!GetLesserThan(e)
      PROVE  /\ TreeInv'
             /\ Set!Abs!Predecessor(e) \/ Set!Abs!Absent(e, CC_ERR_VALUE_NOT_FOUND)
  <2>1. GetNeighbour(e, "left") /\ answer' = Set!Translated(ret')
    BY <1>4, SameCalls DEF Set!GetLesserThan, Set!Translate
  <2>2. TreeInv' /\ Abs!SameIterator /\ (Abs!Predecessor(e) \/ Abs!Absent(e))
    BY <2>1, GetNeighbourStays
  <2>3. CASE Abs!Predecessor(e)
    <3> DEFINE S == Abs!Below(e)
    <3>1. /\ e \in D /\ Held' = Held /\ S = {f \in D : f < e}
          /\ ret' = IF S = {} THEN Abs!Got(NoElement) ELSE Abs!GotNumber(Abs!Greatest(S))
      BY <2>3 DEF Abs!Predecessor, Abs!Neighbour, Abs!Below
    <3> HIDE DEF S
    <3>2. IF S = {} THEN Set!Abs!NoNeighbour ELSE Set!Abs!Pick(Set!Abs!Greatest(S))
      BY <1>2, <2>1, <2>2, <3>1, SameAnswers
    <3>3. S = {f \in Set!T!Live(table) : f < e} /\ e \in Set!T!Live(table)
      BY <3>1, SameState
    <3> QED
      BY <2>2, <3>2, <3>3 DEF Set!Abs!Predecessor
  <2> QED
    BY <1>1, <2>1, <2>2, <2>3
<1> QED
  BY <1>3, <1>4

LEMMA SetEnds ==
  ASSUME TreeInv
  PROVE  /\ Set!GetFirst => TreeInv' /\ Set!Abs!FirstMember
         /\ Set!GetLast => TreeInv' /\ Set!Abs!LastMember
<1> DEFINE D == DOMAIN Held
<1>1. ASSUME NEW r, Abs!SameIterator, answer' = Set!Translated(ret'), Held' = Held,
             ret' = IF D = {} THEN Abs!Refused(Abs!CC_ERR_KEY_NOT_FOUND) ELSE Abs!Got(<<r>>)
      PROVE  \/ D # {} /\ Set!Abs!Pick(r)
             \/ D = {} /\ Set!Abs!Refuse({Set!Abs!CC_ERR_VALUE_NOT_FOUND})
                /\ Set!Abs!SameIterator
  <2>1. answer' = IF D = {} THEN Refused(CC_ERR_VALUE_NOT_FOUND) ELSE Got(<<r>>)
    BY <1>1, TranslatedIs, SameResults DEF Abs!CC_ERR_KEY_NOT_FOUND, CC_ERR_KEY_NOT_FOUND
  <2> QED
    BY <1>1, <2>1, IteratorAfter, SameState, SameAnswers DEF Set!Abs!Refuse, Set!Abs!Pick
<1>2. ASSUME Set!GetFirst PROVE TreeInv' /\ Set!Abs!FirstMember
  <2>1. GetKeyAt(First(table)) /\ answer' = Set!Translated(ret')
    BY <1>2, SameCalls, SameWays DEF Set!GetFirst, Set!Translate
  <2>2. TreeInv' /\ Abs!FirstKey
    BY <2>1, GetKeyStays
  <2>3. /\ Held' = Held /\ Abs!SameIterator
        /\ ret' = IF D = {} THEN Abs!Refused(Abs!CC_ERR_KEY_NOT_FOUND)
                  ELSE Abs!Got(<<Abs!Least(D)>>)
    BY <2>2 DEF Abs!FirstKey, Abs!AnswerFrom
  <2> QED
    BY <1>1, <2>1, <2>2, <2>3, SameState, SameAnswers DEF Set!Abs!FirstMember
<1>3. ASSUME Set!GetLast PROVE TreeInv' /\ Set!Abs!LastMember
  <2>1. GetKeyAt(Last(table)) /\ answer' = Set!Translated(ret')
    BY <1>3, SameCalls, SameWays DEF Set!GetLast, Set!Translate
  <2>2. TreeInv' /\ Abs!LastKey
    BY <2>1, GetKeyStays
  <2>3. /\ Held' = Held /\ Abs!SameIterator
        /\ ret' = IF D = {} THEN Abs!Refused(Abs!CC_ERR_KEY_NOT_FOUND)
                  ELSE Abs!Got(<<Abs!Greatest(D)>>)
    BY <2>2 DEF Abs!LastKey, Abs!AnswerFrom
  <2> QED
    BY <1>1, <2>1, <2>2, <2>3, SameState, SameAnswers DEF Set!Abs!LastMember
<1> QED
  BY <1>2, <1>3

LEMMA SetRemoveAll ==
  ASSUME TreeInv, Set!RemoveAll
  PROVE  TreeInv' /\ Set!Abs!Clear
<1>1. RemoveAll /\ answer' = ret'
  BY SameCalls DEF Set!RemoveAll, Set!Pass
<1>2. TreeInv' /\ Abs!Clear /\ Abs!NoIterator
  BY <1>1, RemoveAllStays
<1>3. ret' = Done /\ DOMAIN Held' = {}
  BY <1>2, MapToSet
<1> QED
  BY <1>1, <1>2, <1>3, IteratorAfter, SameState, SameAnswers DEF Set!Abs!Clear

LEMMA SetIterInit ==
  ASSUME TreeInv, Set!IterInit
  PROVE  TreeInv' /\ Set!Abs!StartOver
<1>1. IterInit /\ answer' = ret'
  BY SameCalls DEF Set!IterInit, Set!Pass
<1>2. TreeInv' /\ Abs!StartOver
  BY <1>1, IterInitStays
<1>3. ret' = Done /\ DOMAIN Held' = DOMAIN Held
  BY <1>2, MapToSet DEF Abs!StartOver
<1> QED
  BY <1>1, <1>2, <1>3, SameState, SameAnswers DEF Abs!StartOver, Set!Abs!StartOver

LEMMA SetIterNext ==
  ASSUME TreeInv, Set!IterNext
  PROVE  TreeInv' /\ (Set!Abs!VisitLeast \/ Set!Abs!WalkOver)
<1>1. /\ IterNext
      /\ answer' = IF ret'.stat = CC_OK THEN Got(<<ret'.out[1]>>) ELSE Refused(CC_ITER_END)
  BY SameCalls DEF Set!IterNext, Set!CC_OK, CC_OK, Set!GotNumber, Set!Got, Got,
     Set!Result, Result, Set!Refused, Refused, Set!CC_ITER_END, CC_ITER_END
<1>2. TreeInv' /\ (Abs!NextInOrder \/ Abs!EndOfOrder)
  BY <1>1, IterNextStays
<1>3. CASE Abs!NextInOrder
  <2> DEFINE k == Abs!Least(Owed)
  <2>1. Owed # {} /\ Abs!NextPair(k) /\ Owed' = Owed \ {k} /\ Latest' = k
    BY <1>3 DEF Abs!NextInOrder
  <2>2. ret'.stat = CC_OK /\ ret'.out[1] = k /\ DOMAIN Held' = DOMAIN Held
    BY <2>1, MapToSet
  <2>3. answer' = Got(<<k>>)
    BY <1>1, <2>2
  <2> QED
    BY <1>2, <2>1, <2>2, <2>3, SameState, SameAnswers DEF Set!Abs!VisitLeast
<1>4. CASE Abs!EndOfOrder
  <2>1. Owed = {} /\ ret' = Refused(CC_ITER_END) /\ Held' = Held /\ Abs!SameIterator
    BY <1>4, SameResults
       DEF Abs!EndOfOrder, Abs!WalkOver, Abs!Refuse, Abs!CC_ITER_END, CC_ITER_END
  <2>2. answer' = Refused(CC_ITER_END)
    BY <1>1, <2>1 DEF Refused, Result, CC_OK, CC_ITER_END
  <2> QED
    BY <1>2, <2>1, <2>2, IteratorAfter, SameState, SameAnswers
       DEF Set!Abs!WalkOver, Set!Abs!Refuse
<1> QED
  BY <1>2, <1>3, <1>4

LEMMA SetIterRemove ==
  ASSUME TreeInv, Set!IterRemove
  PROVE  TreeInv' /\ (Set!Abs!DropLatest \/ Set!Abs!DropNone)
<1>1. IterRemove /\ answer' = ret'
  BY SameCalls DEF Set!IterRemove, Set!Pass
<1>2. TreeInv' /\ (Abs!DropLatest \/ Abs!DropNone)
  BY <1>1, IterRemoveStays
<1>3. CASE Abs!DropLatest
  <2>1. Abs!Delete(Latest) /\ Latest' = NoElement /\ Owed' = Owed
    BY <1>3 DEF Abs!DropLatest
  <2>2. /\ \E x : ret' = Got(x)
        /\ Latest \in DOMAIN Held /\ DOMAIN Held' = DOMAIN Held \ {Latest}
    BY <2>1, MapToSet
  <2>3. answer'.stat = CC_OK
    BY <1>1, <2>2 DEF Got, Result
  <2> QED
    BY <1>2, <2>1, <2>2, <2>3, SameState, SameAnswers DEF Set!Abs!DropLatest, Set!Abs!Delete
<1>4. CASE Abs!DropNone
  <2>1. /\ Latest = NoElement /\ ret' = Refused(CC_ERR_KEY_NOT_FOUND) /\ Held' = Held
        /\ Abs!SameIterator
    BY <1>4, SameResults
       DEF Abs!DropNone, Abs!Refuse, Abs!CC_ERR_KEY_NOT_FOUND, CC_ERR_KEY_NOT_FOUND
  <2> QED
    BY <1>1, <1>2, <2>1, IteratorAfter, SameState, SameAnswers
       DEF Set!Abs!DropNone, Set!Abs!Refuse
<1> QED
  BY <1>2, <1>3, <1>4

LEMMA SetCalls ==
  ASSUME TreeInv
  PROVE  Set!CallsKeepPromise
<1>1. \A e \in Keys : Set!Add(e) => Set!Abs!Insert(e) \/ Set!Abs!NoRoom
  BY SetAdd
<1>2. \A e \in Keys : Set!Remove(e) =>
        Set!Abs!Discard(e) \/ Set!Abs!Absent(e, Set!CC_ERR_VALUE_NOT_FOUND)
  BY SetRemove, SameAnswers
<1>3. \A e \in Keys : Set!Contains(e) => Set!Abs!Contains(e)
  BY SetContains
<1>4. \A e \in Keys :
        /\ Set!GetGreaterThan(e) =>
             Set!Abs!Successor(e) \/ Set!Abs!Absent(e, Set!CC_ERR_VALUE_NOT_FOUND)
        /\ Set!GetLesserThan(e) =>
             Set!Abs!Predecessor(e) \/ Set!Abs!Absent(e, Set!CC_ERR_VALUE_NOT_FOUND)
  BY SetNeighbours, SameAnswers
<1>5. /\ Set!GetFirst => Set!Abs!FirstMember
      /\ Set!GetLast => Set!Abs!LastMember
  BY SetEnds
<1>6. Set!RemoveAll => Set!Abs!Clear
  BY SetRemoveAll
<1>7. Set!IterInit => Set!Abs!StartOver
  BY SetIterInit
<1>8. Set!IterNext => Set!Abs!VisitLeast \/ Set!Abs!WalkOver
  BY SetIterNext
<1>9. Set!IterRemove => Set!Abs!DropLatest \/ Set!Abs!DropNone
  BY SetIterRemove
<1> QED
  BY <1>1, <1>2, <1>3, <1>4, <1>5, <1>6, <1>7, <1>8, <1>9 DEF Set!CallsKeepPromise

LEMMA SetStep ==
  ASSUME TreeInv, [Set!Next]_(Set!vars)
  PROVE  TreeInv' /\ [Set!Abs!OrderedNext]_(Set!Abs!vars)
<1>1. ASSUME NEW e \in Keys, Set!Add(e) PROVE TreeInv' /\ Set!Abs!OrderedNext
  BY <1>1, SetAdd DEF Set!Abs!OrderedNext
<1>2. ASSUME NEW e \in Keys, Set!Remove(e) PROVE TreeInv' /\ Set!Abs!OrderedNext
  BY <1>2, SetRemove, SameAnswers DEF Set!Abs!OrderedNext
<1>3. ASSUME NEW e \in Keys, Set!Contains(e) PROVE TreeInv' /\ Set!Abs!OrderedNext
  BY <1>3, SetContains DEF Set!Abs!OrderedNext
<1>4. ASSUME NEW e \in Keys, Set!GetGreaterThan(e) \/ Set!GetLesserThan(e)
      PROVE  TreeInv' /\ Set!Abs!OrderedNext
  BY <1>4, SetNeighbours, SameAnswers DEF Set!Abs!OrderedNext
<1>5. ASSUME Set!RemoveAll PROVE TreeInv' /\ Set!Abs!OrderedNext
  BY <1>5, SetRemoveAll DEF Set!Abs!OrderedNext
<1>6. ASSUME Set!GetFirst \/ Set!GetLast PROVE TreeInv' /\ Set!Abs!OrderedNext
  BY <1>6, SetEnds DEF Set!Abs!OrderedNext
<1>7. ASSUME Set!IterInit PROVE TreeInv' /\ Set!Abs!OrderedNext
  BY <1>7, SetIterInit DEF Set!Abs!OrderedNext
<1>8. ASSUME Set!IterNext PROVE TreeInv' /\ Set!Abs!OrderedNext
  BY <1>8, SetIterNext DEF Set!Abs!OrderedNext
<1>9. ASSUME Set!IterRemove PROVE TreeInv' /\ Set!Abs!OrderedNext
  BY <1>9, SetIterRemove DEF Set!Abs!OrderedNext
<1>10. CASE UNCHANGED Set!vars
  <2>1. UNCHANGED <<table, iter, ret, answer>>
    BY <1>10 DEF Set!vars
  <2>2. TreeInv' /\ Abs!SameIterator /\ Held' = Held
    BY <2>1, Nothing
  <2>3. UNCHANGED Set!Abs!vars
    BY <2>1, <2>2, SameState DEF Set!Abs!vars, Abs!SameIterator
  <2> QED
    BY <2>2, <2>3
<1> QED
  BY <1>1, <1>2, <1>3, <1>4, <1>5, <1>6, <1>7, <1>8, <1>9, <1>10 DEF Set!Next

\* The tree set is an ordered set, call by call: each call of cc_treeset.c and of its
\* iterator is the call of its name on a set of the elements, or its refusal, under the
\* status codes that the set makes of those of the table.
THEOREM TreeSetIsAnOrderedSet == Set!Spec => Set!IsAnOrderedSet
<1>1. Set!Init => TreeInv /\ Set!Abs!Init
  <2> SUFFICES ASSUME Set!Init PROVE TreeInv /\ Set!Abs!Init
    OBVIOUS
  <2>1. Init /\ answer = Done
    BY SameCalls DEF Set!Init, Set!Done, Done, Set!Result, Result, Set!CC_OK, CC_OK
  <2>2. TreeInv /\ Abs!OrderedInit
    BY <2>1, InitKeepsInv
  <2>3. DOMAIN Held = {} /\ Owed = {} /\ Latest = NoElement
    BY <2>2 DEF Abs!OrderedInit, Abs!Init, Abs!Nothing
  <2> QED
    BY <2>1, <2>2, <2>3, SameState, SameAnswers DEF Set!Abs!Init
<1>2. TreeInv /\ [Set!Next]_(Set!vars) => TreeInv' /\ [Set!Abs!OrderedNext]_(Set!Abs!vars)
  BY SetStep
<1>3. TreeInv /\ [Set!Next]_(Set!vars) => [Set!CallsKeepPromise]_(Set!vars)
  BY SetCalls
<1> QED
  BY <1>1, <1>2, <1>3, PTL DEF Set!Spec, Set!Abs!OrderedSpec, Set!IsAnOrderedSet
=============================================================================
