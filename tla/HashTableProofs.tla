-------------------------- MODULE HashTableProofs --------------------------
(***************************************************************************)
(* Proofs on CCHashTable, for every set of keys, hash function, capacity   *)
(* and load factor: entries are where lookups search, the calls are those  *)
(* of a map, and an iteration returns every entry once.  From that, at the *)
(* end: the hash set is a set.                                             *)
(***************************************************************************)
EXTENDS CCHashTable, SharedLemmas

-----------------------------------------------------------------------------
\* Flattening a sequence of sequences

Flattens(flat, ss, n) ==
  flat[1] = ss[1] /\ \A i \in 2..n : flat[i] = flat[i - 1] \o ss[i]

LEMMA Flattening ==
  ASSUME NEW S, NEW ss, NEW N \in Nat \ {0}, ss \in [1..N -> Seq(S)]
  PROVE  \E flat \in [1..N -> Seq(S)] :
           Flattens(flat, ss, N) /\ SX!FlattenSeq(ss) = flat[N]
<1> DEFINE L(f) == [i \in 1..Len(ss) |-> IF i = 1 THEN ss[i] ELSE f[i - 1] \o ss[i]]
           flat == CHOOSE f : f = L(f)
           M == N - 1
           h == [p \in (1..M) \X Seq(S) |-> p[2] \o ss[p[1] + 1]]
           G == [n \in 0..M |-> Seq(S)]
<1>1. Len(ss) = N /\ M \in Nat /\ N # 0 /\ N = M + 1
  OBVIOUS
<1>2. SX!FlattenSeq(ss) = flat[N]
  BY <1>1 DEF SX!FlattenSeq
<1>3. \A f : L(f) = [i \in 1..N |-> IF i = 1 THEN ss[i] ELSE f[i - 1] \o ss[i]]
  BY <1>1
<1>4. ASSUME NEW n \in 1..M, NEW y \in Seq(S)
      PROVE  h[<<n, y>>] = y \o ss[n + 1] /\ h[<<n, y>>] \in Seq(S)
  <2>1. h[<<n, y>>] = y \o ss[n + 1]
    OBVIOUS
  <2>2. n + 1 \in 1..N
    BY <1>1
  <2> HIDE DEF h, M
  <2>3. ss[n + 1] \in Seq(S)
    BY <2>2
  <2> QED
    BY <2>1, <2>3, Concatenation
<1>5. \A n \in 0..M : G[n] = Seq(S)
  OBVIOUS
<1> HIDE DEF L, h, G, M
<1>6. Leads(h, M, G)
  <2> SUFFICES ASSUME NEW n \in 1..M, NEW y \in G[n - 1] PROVE h[<<n, y>>] \in G[n]
    BY DEF Leads
  <2>1. n \in 0..M /\ n - 1 \in 0..M
    BY <1>1
  <2> QED
    BY <1>4, <1>5, <2>1
<1>7. 0 \in 0..M /\ ss[1] \in G[0]
  <2>1. 0 \in 0..M /\ 1 \in 1..N
    BY <1>1
  <2> QED
    BY <1>5, <2>1
<1>8. PICK f : Iterates(f, M, G, ss[1], h)
  BY <1>1, <1>6, <1>7, Recursion
<1> DEFINE g == [i \in 1..N |-> f[i - 1]]
<1>9. g = L(g)
  <2>1. ASSUME NEW i \in 1..N
        PROVE  g[i] = IF i = 1 THEN ss[i] ELSE g[i - 1] \o ss[i]
    <3>1. CASE i = 1
      <4>1. g[i] = f[0] /\ f[0] = ss[1]
        BY <1>8, <3>1 DEF Iterates
      <4> QED
        BY <3>1, <4>1
    <3>2. CASE i # 1
      <4> DEFINE n == i - 1
      <4>1. n \in 1..M /\ n - 1 \in 0..M /\ n + 1 = i /\ n \in 1..N
        BY <1>1, <3>2
      <4>2. g[i] = f[n] /\ g[n] = f[n - 1]
        BY <4>1
      <4> HIDE DEF n, g
      <4>3. f[n] = h[<<n, f[n - 1]>>] /\ f[n - 1] \in G[n - 1]
        BY <1>8, <4>1 DEF Iterates
      <4>4. f[n - 1] \in Seq(S)
        BY <1>5, <4>1, <4>3
      <4>5. g[i] = g[n] \o ss[i]
        BY <1>4, <4>1, <4>2, <4>3, <4>4
      <4> QED
        BY <3>2, <4>5 DEF n
    <3> QED
      BY <3>1, <3>2
  <2>2. g = [i \in 1..N |-> g[i]]
    OBVIOUS
  <2> HIDE DEF g
  <2> QED
    BY <1>3, <2>1, <2>2
<1>10. flat = L(flat)
  BY <1>9
<1> HIDE DEF flat
<1>11. flat = [i \in 1..N |-> IF i = 1 THEN ss[i] ELSE flat[i - 1] \o ss[i]]
  BY <1>3, <1>10
<1>12. flat[1] = ss[1] /\ \A i \in 2..N : flat[i] = flat[i - 1] \o ss[i]
  <2>1. 1 \in 1..N /\ \A i \in 2..N : i \in 1..N /\ i # 1
    OBVIOUS
  <2> QED
    BY <1>11, <2>1
<1> DEFINE A == {n \in 0..M : flat[n + 1] \in Seq(S)}
<1>13. 0 \in A
  BY <1>1, <1>12
<1>14. ASSUME NEW n \in 1..M, n - 1 \in A PROVE n \in A
  <2> DEFINE i == n + 1
  <2>1. i \in 2..N /\ i \in 1..N /\ (n - 1) + 1 = i - 1 /\ n \in 0..M
    BY <1>1
  <2> HIDE DEF i
  <2>2. flat[i - 1] \in Seq(S)
    BY <1>14, <2>1
  <2>3. flat[i] = flat[i - 1] \o ss[i] /\ ss[i] \in Seq(S)
    BY <1>12, <2>1
  <2>4. flat[i] \in Seq(S)
    BY <2>2, <2>3, Concatenation
  <2> QED
    BY <2>1, <2>4 DEF i
<1> HIDE DEF A
<1>15. 0..M \subseteq A
  BY <1>1, <1>13, <1>14, Induction
<1>16. flat \in [1..N -> Seq(S)]
  <2>1. ASSUME NEW i \in 1..N PROVE flat[i] \in Seq(S)
    <3> DEFINE n == i - 1
    <3>1. n \in 0..M /\ n + 1 = i
      BY <1>1
    <3> HIDE DEF n
    <3>2. flat[n + 1] \in Seq(S)
      BY <1>15, <3>1 DEF A
    <3> QED
      BY <3>1, <3>2
  <2> QED
    BY <1>11, <2>1
<1> QED
  BY <1>2, <1>12, <1>16 DEF Flattens

-----------------------------------------------------------------------------
\* Sequences of entries

EntrySet == [key : Keys, value : Values, hash : Nat]

\* No two entries of a sequence have the same key.
Apart(c) == \A i, j \in DOMAIN c : c[i].key = c[j].key => i = j

\* Two sequences without a common key.
Strangers(c, d) == \A i \in DOMAIN c, j \in DOMAIN d : c[i].key # d[j].key

LEMMA Members ==
  ASSUME NEW c \in Seq(EntrySet)
  PROVE  /\ DOMAIN c = 1..Len(c) /\ Len(c) \in Nat
         /\ SX!ToSet(c) = {c[i] : i \in 1..Len(c)} /\ SX!ToSet(c) \subseteq EntrySet
         /\ \A i \in 1..Len(c) : c[i] \in EntrySet /\ c[i] \in SX!ToSet(c)
         /\ \A e \in SX!ToSet(c) : \E i \in 1..Len(c) : c[i] = e
BY DEF SX!ToSet

LEMMA JoinedChains ==
  ASSUME NEW c \in Seq(EntrySet), NEW d \in Seq(EntrySet)
  PROVE  /\ c \o d \in Seq(EntrySet)
         /\ SX!ToSet(c \o d) = SX!ToSet(c) \cup SX!ToSet(d)
         /\ Apart(c) /\ Apart(d) /\ Strangers(c, d) => Apart(c \o d)
<1> DEFINE w == c \o d
           m == Len(c)
           n == Len(d)
<1>1. /\ m \in Nat /\ n \in Nat /\ w \in Seq(EntrySet) /\ Len(w) = m + n
      /\ DOMAIN c = 1..m /\ DOMAIN d = 1..n
  BY Concatenation
<1>2. \A i \in 1..m : w[i] = c[i]
  BY JoinedFirst
<1>3. \A i \in (m + 1)..(m + n) : w[i] = d[i - m]
  BY JoinedSecond
<1> HIDE DEF w, m, n
<1>4. DOMAIN w = 1..(m + n)
  BY <1>1
<1>5. ASSUME NEW i \in 1..(m + n)
      PROVE  \/ i \in 1..m /\ w[i] = c[i]
             \/ i \in (m + 1)..(m + n) /\ i - m \in 1..n /\ w[i] = d[i - m]
  <2>1. i \in 1..m \/ (i \in (m + 1)..(m + n) /\ i - m \in 1..n)
    BY <1>1
  <2> QED
    BY <1>2, <1>3, <2>1
<1>6. ASSUME NEW i \in 1..n PROVE i + m \in 1..(m + n) /\ w[i + m] = d[i]
  <2> DEFINE j == i + m
  <2>1. j \in (m + 1)..(m + n) /\ j \in 1..(m + n) /\ j - m = i
    BY <1>1
  <2> HIDE DEF j
  <2>2. w[j] = d[j - m]
    BY <1>3, <2>1
  <2> QED
    BY <2>1, <2>2 DEF j
<1>7. SX!ToSet(w) = SX!ToSet(c) \cup SX!ToSet(d)
  <2>1. ASSUME NEW e \in SX!ToSet(w) PROVE e \in SX!ToSet(c) \cup SX!ToSet(d)
    <3>1. PICK i \in 1..(m + n) : w[i] = e
      BY <1>4 DEF SX!ToSet
    <3> QED
      BY <1>1, <1>5, <3>1 DEF SX!ToSet
  <2>2. ASSUME NEW e \in SX!ToSet(c) PROVE e \in SX!ToSet(w)
    <3>1. PICK i \in 1..m : c[i] = e
      BY <1>1 DEF SX!ToSet
    <3>2. i \in 1..(m + n)
      BY <1>1
    <3> QED
      BY <1>2, <1>4, <3>1, <3>2 DEF SX!ToSet
  <2>3. ASSUME NEW e \in SX!ToSet(d) PROVE e \in SX!ToSet(w)
    <3>1. PICK i \in 1..n : d[i] = e
      BY <1>1 DEF SX!ToSet
    <3> QED
      BY <1>4, <1>6, <3>1 DEF SX!ToSet
  <2> QED
    BY <2>1, <2>2, <2>3
<1>8. ASSUME Apart(c), Apart(d), Strangers(c, d),
             NEW i \in 1..(m + n), NEW j \in 1..(m + n), w[i].key = w[j].key
      PROVE  i = j
  <2>1. CASE i \in 1..m /\ w[i] = c[i]
    <3>1. CASE j \in 1..m /\ w[j] = c[j]
      BY <1>1, <1>8, <2>1, <3>1 DEF Apart
    <3>2. CASE j - m \in 1..n /\ w[j] = d[j - m]
      BY <1>1, <1>8, <2>1, <3>2 DEF Strangers
    <3> QED
      BY <1>5, <3>1, <3>2
  <2>2. CASE i - m \in 1..n /\ w[i] = d[i - m]
    <3>1. CASE j \in 1..m /\ w[j] = c[j]
      BY <1>1, <1>8, <2>2, <3>1 DEF Strangers
    <3>2. CASE j - m \in 1..n /\ w[j] = d[j - m]
      <4>1. i - m = j - m
        BY <1>1, <1>8, <2>2, <3>2 DEF Apart
      <4>2. i \in Int /\ j \in Int
        OBVIOUS
      <4> QED
        BY <1>1, <4>1, <4>2
    <3> QED
      BY <1>5, <3>1, <3>2
  <2> QED
    BY <1>5, <2>1, <2>2
<1> QED
  BY <1>1, <1>4, <1>7, <1>8 DEF w, Apart

LEMMA Single ==
  ASSUME NEW e \in EntrySet
  PROVE  /\ <<e>> \in Seq(EntrySet) /\ SX!ToSet(<<e>>) = {e} /\ Apart(<<e>>)
         /\ DOMAIN <<e>> = 1..1 /\ <<e>>[1] = e
<1>1. DOMAIN <<e>> = 1..1 /\ <<e>>[1] = e /\ <<e>> \in Seq(EntrySet)
  OBVIOUS
<1>2. \A i \in 1..1 : i = 1
  OBVIOUS
<1> QED
  BY <1>1, <1>2 DEF SX!ToSet, Apart

\* What a selection keeps, and that it keeps keys apart.
LEMMA Chosen ==
  ASSUME NEW c \in Seq(EntrySet), Apart(c), NEW keep
  PROVE  LET w == Selected(c, keep)
         IN  /\ w \in Seq(EntrySet) /\ Apart(w)
             /\ SX!ToSet(w) = SX!ToSet(c) \cap keep
<1> DEFINE N == Len(c)
<1>1. PICK last \in [0..Len(c) -> Seq(EntrySet)] :
        Selects(last, c, keep) /\ Selected(c, keep) = last[Len(c)]
  BY Selecting
<1>2. N \in Nat /\ DOMAIN c = 1..N
  OBVIOUS
<1> DEFINE From(n) == {c[i] : i \in (N + 1 - n)..N}
           A == {n \in 0..N : SX!ToSet(last[n]) = From(n) \cap keep /\ Apart(last[n])}
<1>3. 0 \in A
  <2>1. From(0) = {}
    BY <1>2
  <2>2. last[0] = <<>>
    BY <1>1 DEF Selects
  <2>3. SX!ToSet(<<>>) = {} /\ Apart(<<>>)
    BY DEF SX!ToSet, Apart
  <2> HIDE DEF From
  <2> QED
    BY <1>2, <2>1, <2>2, <2>3
<1>4. ASSUME NEW n \in 1..N, n - 1 \in A PROVE n \in A
  <2> DEFINE p == N + 1 - n
             x == c[p]
             t == last[n - 1]
  <2>1. /\ p \in 1..N /\ n - 1 \in 0..N /\ n \in 0..N
        /\ N + 1 - (n - 1) = p + 1 /\ p..N = {p} \cup ((p + 1)..N)
    BY <1>2
  <2>2. x \in EntrySet /\ t \in Seq(EntrySet)
    <3> HIDE DEF p
    <3>1. x \in EntrySet
      BY <1>2, <2>1
    <3> QED
      BY <2>1, <3>1
  <2>3. SX!ToSet(t) = From(n - 1) \cap keep /\ Apart(t)
    BY <1>4
  <2>4. last[n] = IF x \in keep THEN <<x>> \o t ELSE t
    BY <1>1 DEF Selects
  <2> HIDE DEF p
  <2>5. From(n) = {x} \cup From(n - 1) /\ From(n - 1) = {c[i] : i \in (p + 1)..N}
    BY <2>1 DEF p
  <2> HIDE DEF x, t, From
  <2>6. CASE x \notin keep
    BY <2>1, <2>3, <2>4, <2>5, <2>6
  <2>7. CASE x \in keep
    <3>1. Strangers(<<x>>, t)
      <4> SUFFICES ASSUME NEW i \in DOMAIN <<x>>, NEW j \in DOMAIN t
                   PROVE  <<x>>[i].key # t[j].key
        BY DEF Strangers
      <4>1. <<x>>[i] = x
        OBVIOUS
      <4>2. t[j] \in From(n - 1)
        BY <2>3 DEF SX!ToSet
      <4>3. PICK k \in (p + 1)..N : t[j] = c[k]
        BY <2>5, <4>2
      <4>4. k \in 1..N /\ k # p
        BY <1>2, <2>1
      <4> QED
        BY <1>2, <2>1, <4>1, <4>3, <4>4 DEF Apart, x
    <3>2. /\ SX!ToSet(<<x>> \o t) = {x} \cup SX!ToSet(t) /\ Apart(<<x>> \o t)
      <4> DEFINE s == <<x>>
      <4>1. s \in Seq(EntrySet) /\ SX!ToSet(s) = {x} /\ Apart(s) /\ Strangers(s, t)
        BY <2>2, <3>1, Single
      <4> HIDE DEF s
      <4>2. SX!ToSet(s \o t) = {x} \cup SX!ToSet(t) /\ Apart(s \o t)
        BY <2>2, <2>3, <4>1, JoinedChains
      <4> QED
        BY <4>2 DEF s
    <3> QED
      BY <2>1, <2>3, <2>4, <2>5, <2>7, <3>2
  <2> QED
    BY <2>6, <2>7
<1> HIDE DEF A
<1>5. 0..N \subseteq A
  BY <1>2, <1>3, <1>4, Induction
<1>6. N \in 0..N
  BY <1>2
<1>7. SX!ToSet(last[N]) = From(N) \cap keep /\ Apart(last[N]) /\ last[N] \in Seq(EntrySet)
  BY <1>5, <1>6 DEF A
<1>8. From(N) = SX!ToSet(c)
  <2>1. N + 1 - N = 1
    BY <1>2
  <2> QED
    BY <1>2, <2>1, Members
<1> QED
  BY <1>1, <1>7, <1>8

LEMMA Backwards ==
  ASSUME NEW c \in Seq(EntrySet), Apart(c)
  PROVE  LET w == SX!Reverse(c)
         IN  w \in Seq(EntrySet) /\ Apart(w) /\ SX!ToSet(w) = SX!ToSet(c)
<1> DEFINE n == Len(c)
           w == SX!Reverse(c)
           Back(i) == n - i + 1
<1>1. n \in Nat /\ DOMAIN c = 1..n /\ \A i \in 1..n : c[i] \in EntrySet
  OBVIOUS
<1>2. w = [i \in 1..n |-> c[Back(i)]]
  BY DEF SX!Reverse
<1>3. ASSUME NEW i \in 1..n PROVE Back(i) \in 1..n /\ Back(Back(i)) = i
  BY <1>1
<1> HIDE DEF w, n, Back
<1>4. /\ DOMAIN w = 1..n /\ \A i \in 1..n : w[i] = c[Back(i)]
  BY <1>2
<1>5. w \in Seq(EntrySet)
  <2>1. w \in [1..n -> EntrySet]
    BY <1>1, <1>2, <1>3
  <2> QED
    BY <1>1, <2>1
<1>6. Apart(w)
  <2> SUFFICES ASSUME NEW i \in 1..n, NEW j \in 1..n, w[i].key = w[j].key PROVE i = j
    BY <1>4 DEF Apart
  <2>1. Back(i) = Back(j)
    BY <1>1, <1>3, <1>4 DEF Apart
  <2> QED
    BY <1>3, <2>1
<1>7. SX!ToSet(w) = SX!ToSet(c)
  <2>1. ASSUME NEW e \in SX!ToSet(w) PROVE e \in SX!ToSet(c)
    BY <1>1, <1>3, <1>4 DEF SX!ToSet
  <2>2. ASSUME NEW e \in SX!ToSet(c) PROVE e \in SX!ToSet(w)
    <3>1. PICK i \in 1..n : e = c[i]
      BY <1>1 DEF SX!ToSet
    <3>2. w[Back(i)] = e /\ Back(i) \in DOMAIN w
      BY <1>3, <1>4, <3>1
    <3> QED
      BY <3>2 DEF SX!ToSet
  <2> QED
    BY <2>1, <2>2
<1> QED
  BY <1>5, <1>6, <1>7 DEF w

LEMMA TakenOut ==
  ASSUME NEW c \in Seq(EntrySet), Apart(c), NEW i \in 1..Len(c)
  PROVE  LET w == SX!RemoveAt(c, i)
         IN  /\ w \in Seq(EntrySet) /\ Len(w) = Len(c) - 1 /\ Apart(w)
             /\ SX!ToSet(w) = SX!ToSet(c) \ {c[i]}
             /\ \A j \in 1..Len(w) : w[j] = IF j < i THEN c[j] ELSE c[j + 1]
<1> DEFINE n == Len(c)
           w == SX!RemoveAt(c, i)
           Was(j) == IF j < i THEN j ELSE j + 1
           Now(j) == IF j < i THEN j ELSE j - 1
<1>1. n \in Nat /\ DOMAIN c = 1..n /\ i \in 1..n
  OBVIOUS
<1>2. /\ w \in Seq(EntrySet) /\ Len(w) = n - 1
      /\ \A j \in 1..Len(w) : w[j] = IF j < i THEN c[j] ELSE c[j + 1]
  BY WithoutOne DEF SX!RemoveAt
<1> HIDE DEF w, n
<1>3. ASSUME NEW j \in 1..(n - 1)
      PROVE  Was(j) \in 1..n /\ Was(j) # i /\ Now(Was(j)) = j
  BY <1>1
<1>4. ASSUME NEW j \in 1..n, j # i
      PROVE  Now(j) \in 1..(n - 1) /\ Was(Now(j)) = j
  <2>1. j \in Int /\ i \in Int
    BY <1>1
  <2>2. CASE j < i
    BY <1>1, <2>1, <2>2
  <2>3. CASE j > i
    <3>1. Now(j) = j - 1 /\ ~(j - 1 < i)
      BY <2>1, <2>3
    <3> QED
      BY <1>1, <2>1, <2>3, <3>1
  <2> QED
    BY <1>4, <2>1, <2>2, <2>3
<1>5. DOMAIN w = 1..(n - 1) /\ \A j \in 1..(n - 1) : w[j] = c[Was(j)]
  BY <1>2
<1> HIDE DEF Was, Now
<1>6. Apart(w)
  <2> SUFFICES ASSUME NEW j \in 1..(n - 1), NEW k \in 1..(n - 1), w[j].key = w[k].key
               PROVE  j = k
    BY <1>5 DEF Apart
  <2>1. Was(j) = Was(k)
    BY <1>1, <1>3, <1>5 DEF Apart
  <2> QED
    BY <1>3, <2>1
<1>7. SX!ToSet(w) = SX!ToSet(c) \ {c[i]}
  <2>1. ASSUME NEW e \in SX!ToSet(w) PROVE e \in SX!ToSet(c) \ {c[i]}
    <3>1. PICK j \in 1..(n - 1) : e = w[j]
      BY <1>5 DEF SX!ToSet
    <3>2. e = c[Was(j)] /\ Was(j) \in 1..n /\ Was(j) # i
      BY <1>3, <1>5, <3>1
    <3>3. e # c[i]
      BY <1>1, <3>2 DEF Apart
    <3> QED
      BY <1>1, <3>2, <3>3 DEF SX!ToSet
  <2>2. ASSUME NEW e \in SX!ToSet(c), e # c[i] PROVE e \in SX!ToSet(w)
    <3>1. PICK j \in 1..n : e = c[j]
      BY <1>1 DEF SX!ToSet
    <3>2. Now(j) \in DOMAIN w /\ w[Now(j)] = e
      BY <1>4, <1>5, <2>2, <3>1
    <3> QED
      BY <3>2 DEF SX!ToSet
  <2> QED
    BY <2>1, <2>2
<1> QED
  BY <1>2, <1>6, <1>7 DEF w, n

-----------------------------------------------------------------------------
\* Buckets

HashOf(k) == IF k = NullKey THEN 0 ELSE Hash[k]

\* Every entry of a chain has the hash of its key, and belongs in bucket b of n.
Placed(c, n, b) == \A i \in DOMAIN c : c[i].hash = HashOf(c[i].key) /\ c[i].hash % n = b

Chains(B, n) ==
  /\ B \in [0..(n - 1) -> Seq(EntrySet)]
  /\ \A b \in 0..(n - 1) : Apart(B[b]) /\ Placed(B[b], n, b)

\* The entries of all chains.
In(B) == UNION {SX!ToSet(B[b]) : b \in DOMAIN B}

LEMMA HashFacts ==
  ASSUME NEW k \in Keys, NEW n \in Nat \ {0}
  PROVE  HashOf(k) \in Nat /\ HashOf(k) % n \in 0..(n - 1)
<1>1. HashOf(k) \in Nat
  BY HashTableConstants DEF HashOf
<1> HIDE DEF HashOf
<1> QED
  BY <1>1

LEMMA Whereabouts ==
  ASSUME NEW n \in Nat \ {0}, NEW B, Chains(B, n), NEW e \in In(B)
  PROVE  /\ e \in EntrySet /\ e.hash = HashOf(e.key)
         /\ HashOf(e.key) % n \in 0..(n - 1)
         /\ e \in SX!ToSet(B[HashOf(e.key) % n])
<1>1. PICK b \in 0..(n - 1) : e \in SX!ToSet(B[b])
  BY DEF In, Chains
<1>2. B[b] \in Seq(EntrySet) /\ Placed(B[b], n, b)
  BY DEF Chains
<1>3. PICK i \in 1..Len(B[b]) : B[b][i] = e
  BY <1>1, <1>2, Members
<1>4. e \in EntrySet /\ i \in DOMAIN B[b]
  BY <1>2, <1>3
<1>5. e.hash = HashOf(e.key) /\ e.hash % n = b /\ e.key \in Keys
  BY <1>2, <1>3, <1>4 DEF Placed, EntrySet
<1> QED
  BY <1>1, <1>4, <1>5

\* A bucket has exactly the entries that belong in it.
LEMMA InBucket ==
  ASSUME NEW n \in Nat \ {0}, NEW B, Chains(B, n), NEW b \in 0..(n - 1),
         NEW e \in SX!ToSet(B[b])
  PROVE  e \in In(B) /\ HashOf(e.key) % n = b
<1>1. B[b] \in Seq(EntrySet) /\ Placed(B[b], n, b) /\ DOMAIN B = 0..(n - 1)
  BY DEF Chains
<1>2. PICK i \in DOMAIN B[b] : B[b][i] = e
  BY DEF SX!ToSet
<1> QED
  BY <1>1, <1>2 DEF Placed, In

\* No two entries of a table have the same key.
Unique(E) == \A e, f \in E : e.key = f.key => e = f

LEMMA OneEntry ==
  ASSUME NEW n \in Nat \ {0}, NEW B, Chains(B, n)
  PROVE  Unique(In(B)) /\ In(B) \subseteq EntrySet
<1>1. ASSUME NEW e \in In(B), NEW f \in In(B), e.key = f.key PROVE e = f
  <2> DEFINE b == HashOf(e.key) % n
             c == B[b]
  <2>1. b \in 0..(n - 1) /\ e \in SX!ToSet(c) /\ f \in SX!ToSet(c)
    BY <1>1, Whereabouts
  <2> HIDE DEF b
  <2>2. Apart(c)
    BY <2>1 DEF Chains
  <2>3. PICK i \in DOMAIN c, j \in DOMAIN c : c[i] = e /\ c[j] = f
    BY <2>1 DEF SX!ToSet
  <2> QED
    BY <1>1, <2>2, <2>3 DEF Apart
<1>2. In(B) \subseteq EntrySet
  BY Whereabouts
<1> QED
  BY <1>1, <1>2 DEF Unique

\* The chains one after another: every entry once.
LEMMA Listing ==
  ASSUME NEW n \in Nat \ {0}, NEW B, Chains(B, n)
  PROVE  LET all == SX!FlattenSeq([b \in 1..n |-> B[b - 1]])
         IN  /\ all \in Seq(EntrySet) /\ Apart(all) /\ SX!ToSet(all) = In(B)
             /\ IsFiniteSet(In(B)) /\ Cardinality(In(B)) = Len(all)
<1> DEFINE ss == [b \in 1..n |-> B[b - 1]]
           all == SX!FlattenSeq(ss)
           UpTo(m) == {e \in In(B) : HashOf(e.key) % n < m}
<1>1. ASSUME NEW m \in 1..n
      PROVE  /\ m - 1 \in 0..(n - 1) /\ ss[m] = B[m - 1] /\ ss[m] \in Seq(EntrySet)
             /\ Apart(ss[m])
             /\ SX!ToSet(ss[m]) = {e \in In(B) : HashOf(e.key) % n = m - 1}
  <2> DEFINE b == m - 1
  <2>1. b \in 0..(n - 1) /\ ss[m] = B[b]
    OBVIOUS
  <2> HIDE DEF b, ss
  <2>2. ss[m] \in Seq(EntrySet) /\ Apart(ss[m])
    BY <2>1 DEF Chains
  <2>3. SX!ToSet(ss[m]) = {e \in In(B) : HashOf(e.key) % n = b}
    BY <2>1, InBucket, Whereabouts
  <2> QED
    BY <2>1, <2>2, <2>3 DEF b
<1>2. PICK flat \in [1..n -> Seq(EntrySet)] :
        /\ flat[1] = ss[1] /\ \A i \in 2..n : flat[i] = flat[i - 1] \o ss[i]
        /\ all = flat[n]
  <2>1. ss \in [1..n -> Seq(EntrySet)]
    BY <1>1
  <2> HIDE DEF ss
  <2>2. \E flat \in [1..n -> Seq(EntrySet)] :
          Flattens(flat, ss, n) /\ SX!FlattenSeq(ss) = flat[n]
    BY <2>1, Flattening
  <2> QED
    BY <2>2 DEF Flattens
<1> HIDE DEF ss, all
<1> DEFINE A == {m \in 0..n : m # 0 => SX!ToSet(flat[m]) = UpTo(m) /\ Apart(flat[m])}
<1>3. 0 \in A
  OBVIOUS
<1>4. ASSUME NEW m \in 1..n, m - 1 \in A PROVE m \in A
  <2>1. m \in 0..n /\ 1 \in 1..n
    OBVIOUS
  <2>2. \A e \in In(B) : HashOf(e.key) % n \in Nat
    BY Whereabouts
  <2>3. CASE m = 1
    <3>1. UpTo(m) = {e \in In(B) : HashOf(e.key) % n = m - 1}
      BY <2>2, <2>3
    <3> QED
      BY <1>1, <1>2, <2>1, <2>3, <3>1
  <2>4. CASE m # 1
    <3> DEFINE s == flat[m - 1]
               d == ss[m]
    <3>1. m \in 2..n /\ m - 1 \in 1..n /\ m - 1 # 0
      BY <2>4
    <3>2. /\ flat[m] = s \o d /\ s \in Seq(EntrySet) /\ d \in Seq(EntrySet)
          /\ SX!ToSet(s) = UpTo(m - 1) /\ Apart(s)
          /\ SX!ToSet(d) = {e \in In(B) : HashOf(e.key) % n = m - 1} /\ Apart(d)
      BY <1>1, <1>2, <1>4, <3>1
    <3> HIDE DEF s, d
    <3>3. Strangers(s, d)
      <4> SUFFICES ASSUME NEW i \in DOMAIN s, NEW j \in DOMAIN d, s[i].key = d[j].key
                   PROVE  FALSE
        BY DEF Strangers
      <4>1. s[i] \in UpTo(m - 1) /\ d[j] \in SX!ToSet(d)
        BY <3>2 DEF SX!ToSet
      <4>2. HashOf(s[i].key) % n < m - 1 /\ HashOf(d[j].key) % n = m - 1
        BY <3>2, <4>1
      <4> QED
        BY <4>2
    <3>4. UpTo(m) = UpTo(m - 1) \cup {e \in In(B) : HashOf(e.key) % n = m - 1}
      <4>1. \A e \in In(B) : HashOf(e.key) % n < m
              <=> (HashOf(e.key) % n < m - 1 \/ HashOf(e.key) % n = m - 1)
        BY <2>2
      <4> QED
        BY <4>1
    <3> HIDE DEF UpTo
    <3>5. SX!ToSet(flat[m]) = UpTo(m) /\ Apart(flat[m])
      BY <3>2, <3>3, <3>4, JoinedChains
    <3> QED
      BY <2>1, <3>5
  <2> QED
    BY <2>3, <2>4
<1> HIDE DEF A
<1>5. n \in A
  <2>1. n \in Nat /\ n \in 0..n
    OBVIOUS
  <2>2. 0..n \subseteq A
    BY <1>3, <1>4, <2>1, Induction
  <2> QED
    BY <2>1, <2>2
<1>6. all \in Seq(EntrySet) /\ Apart(all) /\ SX!ToSet(all) = In(B)
  <2>1. UpTo(n) = In(B)
    BY Whereabouts
  <2> HIDE DEF UpTo
  <2>2. n \in 1..n /\ n # 0
    OBVIOUS
  <2> QED
    BY <1>2, <1>5, <2>1, <2>2 DEF A
<1>7. IsFiniteSet(In(B)) /\ Cardinality(In(B)) = Len(all)
  <2> DEFINE T == 1..Len(all)
             f == [i \in T |-> all[i]]
  <2>0. Len(all) \in Nat /\ DOMAIN all = T
    BY <1>6
  <2>1. IsFiniteSet(T) /\ Cardinality(T) = Len(all)
    <3> DEFINE k == Len(all)
    <3>1. k \in Nat
      BY <2>0
    <3> HIDE DEF k
    <3>2. IsFiniteSet(1..k) /\ Cardinality(1..k) = k
      BY <3>1, FS_Interval
    <3> QED
      BY <3>2 DEF k
  <2>2. /\ f \in [T -> In(B)] /\ \A x, y \in T : f[x] = f[y] => x = y
        /\ \A e \in In(B) : \E x \in T : f[x] = e
    <3> HIDE DEF T
    <3>1. \A x \in T : f[x] = all[x] /\ all[x] \in SX!ToSet(all)
      BY <2>0 DEF SX!ToSet
    <3>2. f \in [T -> In(B)]
      BY <1>6, <3>1
    <3>3. \A x, y \in T : f[x] = f[y] => x = y
      BY <1>6, <2>0, <3>1 DEF Apart
    <3>4. \A e \in In(B) : \E x \in T : f[x] = e
      BY <1>6, <2>0, <3>1 DEF SX!ToSet
    <3> QED
      BY <3>2, <3>3, <3>4
  <2> HIDE DEF T, f
  <2>3. Cardinality(In(B)) = Cardinality(T)
    BY <2>1, <2>2, SameCount
  <2>4. IsFiniteSet(In(B))
    <3>1. f \in Surjection(T, In(B))
      BY <2>2, Fun_IsSurj
    <3> QED
      BY <2>1, <3>1, FS_Surjection
  <2> QED
    BY <2>1, <2>3, <2>4
<1> QED
  BY <1>6, <1>7 DEF all, ss

-----------------------------------------------------------------------------
\* The mappings of a set of entries

MapFrom(E) ==
  [k \in {e.key : e \in E} |-> (CHOOSE e \in E : e.key = k).value]

LEMMA MapOfTable ==
  ASSUME NEW t
  PROVE  MapOf(t) = MapFrom(In(t.buckets))
<1>1. UNION Entries(t) = In(t.buckets)
  BY DEF Entries, In
<1>2. MapOf(t) = MapFrom(UNION Entries(t))
  BY Zenon DEF MapOf, MapFrom
<1> QED
  BY <1>1, <1>2, Zenon

LEMMA Lookup ==
  ASSUME NEW E, Unique(E), NEW e \in E
  PROVE  e.key \in DOMAIN MapFrom(E) /\ MapFrom(E)[e.key] = e.value
<1>1. e.key \in {f.key : f \in E}
  OBVIOUS
<1> DEFINE d == CHOOSE f \in E : f.key = e.key
<1>2. d \in E /\ d.key = e.key
  OBVIOUS
<1>3. d = e
  BY <1>2 DEF Unique
<1>4. MapFrom(E)[e.key] = d.value
  BY <1>1 DEF MapFrom
<1> QED
  BY <1>1, <1>3, <1>4 DEF MapFrom

\* A function on the keys of some entries that gives each entry's value is
\* their map.
LEMMA MapIs ==
  ASSUME NEW E, Unique(E), NEW D, NEW F, F = [k \in D |-> F[k]],
         D = {e.key : e \in E}, \A e \in E : F[e.key] = e.value
  PROVE  MapFrom(E) = F
<1> DEFINE m == MapFrom(E)
<1>1. m = [k \in D |-> m[k]]
  BY DEF MapFrom
<1>2. ASSUME NEW k \in D PROVE m[k] = F[k]
  <2>1. PICK e \in E : e.key = k
    OBVIOUS
  <2> QED
    BY <2>1, Lookup
<1> HIDE DEF m
<1> QED
  BY <1>1, <1>2 DEF m

\* The map with one more mapping, or with another value, and without one.
MapWith(m, k, v) == [j \in DOMAIN m \cup {k} |-> IF j = k THEN v ELSE m[j]]
MapWithout(m, k) == [j \in DOMAIN m \ {k} |-> m[j]]

LEMMA KeysOf ==
  ASSUME NEW E
  PROVE  DOMAIN MapFrom(E) = {e.key : e \in E}
BY DEF MapFrom

LEMMA Added ==
  ASSUME NEW E, Unique(E), NEW e, e.key \notin DOMAIN MapFrom(E)
  PROVE  /\ Unique(E \cup {e}) /\ e \notin E
         /\ MapFrom(E \cup {e}) = MapWith(MapFrom(E), e.key, e.value)
<1> DEFINE m == MapFrom(E)
           W == E \cup {e}
           D == DOMAIN m \cup {e.key}
           F == MapWith(m, e.key, e.value)
<1>1. \A f \in E : f.key # e.key
  BY KeysOf
<1>2. Unique(W) /\ e \notin E
  BY <1>1 DEF Unique
<1>3. D = {f.key : f \in W}
  <2>1. DOMAIN m = {f.key : f \in E}
    BY KeysOf
  <2> HIDE DEF m
  <2> QED
    BY <2>1
<1>4. F = [k \in D |-> F[k]] /\ \A k \in D : F[k] = IF k = e.key THEN e.value ELSE m[k]
  BY DEF MapWith
<1>5. \A f \in W : F[f.key] = f.value
  <2> SUFFICES ASSUME NEW f \in W PROVE F[f.key] = f.value
    OBVIOUS
  <2>1. f.key \in D
    BY <1>3
  <2>2. CASE f = e
    BY <1>4, <2>1, <2>2
  <2>3. CASE f \in E
    <3>1. m[f.key] = f.value
      BY <2>3, Lookup
    <3> HIDE DEF F, m, D
    <3> QED
      BY <1>1, <1>4, <2>1, <2>3, <3>1
  <2> QED
    BY <2>2, <2>3
<1> HIDE DEF F, W, D
<1>6. MapFrom(W) = F
  BY <1>2, <1>3, <1>4, <1>5, MapIs
<1> QED
  BY <1>2, <1>6 DEF F, W

LEMMA Dropped ==
  ASSUME NEW E, Unique(E), NEW e \in E
  PROVE  /\ Unique(E \ {e}) /\ e.key \notin DOMAIN MapFrom(E \ {e})
         /\ MapFrom(E \ {e}) = MapWithout(MapFrom(E), e.key)
<1> DEFINE m == MapFrom(E)
           W == E \ {e}
           D == DOMAIN m \ {e.key}
           F == MapWithout(m, e.key)
<1>1. \A f \in W : f.key # e.key
  BY DEF Unique
<1>2. Unique(W)
  BY DEF Unique
<1>3. D = {f.key : f \in W}
  <2>1. DOMAIN m = {f.key : f \in E}
    BY KeysOf
  <2> HIDE DEF m
  <2> QED
    BY <1>1, <2>1
<1>4. F = [k \in D |-> F[k]] /\ \A k \in D : F[k] = m[k]
  BY DEF MapWithout
<1>5. \A f \in W : F[f.key] = f.value
  <2> SUFFICES ASSUME NEW f \in W PROVE F[f.key] = f.value
    OBVIOUS
  <2>1. f.key \in D
    BY <1>3
  <2>2. m[f.key] = f.value
    BY Lookup
  <2> QED
    BY <1>4, <2>1, <2>2
<1>6. e.key \notin DOMAIN MapFrom(W)
  <2>1. DOMAIN MapFrom(W) = {f.key : f \in W}
    BY KeysOf
  <2> QED
    BY <1>1, <2>1
<1> HIDE DEF F, W, D
<1>7. MapFrom(W) = F
  BY <1>2, <1>3, <1>4, <1>5, MapIs
<1> QED
  BY <1>2, <1>6, <1>7 DEF F, W

\* An entry in place of the one with the same key.
LEMMA Changed ==
  ASSUME NEW E, Unique(E), NEW e \in E, NEW f, f.key = e.key
  PROVE  /\ Unique((E \ {e}) \cup {f}) /\ f \notin E \ {e}
         /\ MapFrom((E \ {e}) \cup {f}) = MapWith(MapFrom(E), e.key, f.value)
<1> DEFINE W == E \ {e}
           m == MapFrom(E)
<1>1. /\ Unique(W) /\ e.key \notin DOMAIN MapFrom(W)
      /\ MapFrom(W) = MapWithout(m, e.key)
  BY Dropped
<1>2. e.key \in DOMAIN m
  BY Lookup
<1> HIDE DEF W, m
<1>3. /\ Unique(W \cup {f}) /\ f \notin W
      /\ MapFrom(W \cup {f}) = MapWith(MapFrom(W), f.key, f.value)
  BY <1>1, Added
<1>4. MapWith(MapWithout(m, e.key), e.key, f.value) = MapWith(m, e.key, f.value)
  BY <1>2 DEF MapWith, MapWithout
<1> QED
  BY <1>1, <1>3, <1>4 DEF W, m

LEMMA EmptyMap == Unique({}) /\ MapFrom({}) = [k \in {} |-> NoElement]
BY DEF Unique, MapFrom

-----------------------------------------------------------------------------
\* Tables

Count(B) == Cardinality(In(B))

Shaped(t) ==
  t = [capacity |-> t.capacity, threshold |-> t.threshold, size |-> t.size,
       buckets |-> t.buckets]

TableSound(t) ==
  /\ Shaped(t)
  /\ t.capacity \in 1..MaxCapacity /\ IsPowerOfTwo(t.capacity)
  /\ t.capacity >= RoundPowTwo(InitialCapacity)
  /\ t.threshold = Threshold(t.capacity)
  /\ Chains(t.buckets, t.capacity)
  /\ t.size = Count(t.buckets)

\* One chain replaced by another.
LEMMA Rebucketed ==
  ASSUME NEW n \in Nat \ {0}, NEW B, Chains(B, n), NEW b \in 0..(n - 1),
         NEW w \in Seq(EntrySet), Apart(w), Placed(w, n, b)
  PROVE  LET C == [B EXCEPT ![b] = w]
         IN  /\ Chains(C, n)
             /\ In(C) = (In(B) \ SX!ToSet(B[b])) \cup SX!ToSet(w)
<1> DEFINE C == [B EXCEPT ![b] = w]
           T == 0..(n - 1)
<1>1. /\ B \in [T -> Seq(EntrySet)] /\ DOMAIN B = T /\ b \in T
      /\ \A a \in T : Apart(B[a]) /\ Placed(B[a], n, a)
  BY DEF Chains
<1> HIDE DEF T
<1>2. /\ C \in [T -> Seq(EntrySet)] /\ DOMAIN C = T /\ C[b] = w
      /\ \A a \in T : a # b => C[a] = B[a]
  BY <1>1
<1> HIDE DEF C
<1>3. Chains(C, n)
  BY <1>1, <1>2 DEF Chains, T
<1>4. \A a \in T : SX!ToSet(B[a]) \subseteq In(B) /\ SX!ToSet(C[a]) \subseteq In(C)
  BY <1>1, <1>2 DEF In
<1>5. ASSUME NEW e \in In(C) PROVE e \in (In(B) \ SX!ToSet(B[b])) \cup SX!ToSet(w)
  <2>1. PICK a \in T : e \in SX!ToSet(C[a])
    BY <1>2 DEF In
  <2>2. CASE a = b
    BY <1>2, <2>1, <2>2
  <2>3. CASE a # b
    <3>1. e \in SX!ToSet(B[a])
      BY <1>2, <2>1, <2>3
    <3>2. HashOf(e.key) % n = a /\ e \in In(B)
      BY <3>1, InBucket DEF T
    <3>3. e \notin SX!ToSet(B[b])
      BY <2>3, <3>2, InBucket
    <3> QED
      BY <3>2, <3>3
  <2> QED
    BY <2>2, <2>3
<1>6. ASSUME NEW e \in In(B), e \notin SX!ToSet(B[b]) PROVE e \in In(C)
  <2>1. PICK a \in T : e \in SX!ToSet(B[a])
    BY <1>1 DEF In
  <2> QED
    BY <1>2, <1>4, <1>6, <2>1
<1>7. SX!ToSet(w) \subseteq In(C)
  BY <1>1, <1>2, <1>4
<1> QED
  BY <1>3, <1>5, <1>6, <1>7 DEF C

\* The bucket of a key, and how its chain relates to the map.
LEMMA Searched ==
  ASSUME NEW t, TableSound(t), NEW k \in Keys
  PROVE  /\ Bucket(t, k) = HashOf(k) % t.capacity
         /\ Bucket(t, k) \in 0..(t.capacity - 1)
         /\ Chain(t, k) \in Seq(EntrySet) /\ Apart(Chain(t, k))
         /\ Found(t, k) = {i \in 1..Len(Chain(t, k)) : Chain(t, k)[i].key = k}
         /\ Found(t, k) = {} <=> k \notin DOMAIN MapOf(t)
         /\ \A i \in Found(t, k) :
              /\ Found(t, k) = {i} /\ Chain(t, k)[i] \in In(t.buckets)
              /\ k \in DOMAIN MapOf(t) /\ MapOf(t)[k] = Chain(t, k)[i].value
<1> DEFINE n == t.capacity
           B == t.buckets
           b == Bucket(t, k)
           c == Chain(t, k)
<1>1. n \in Nat \ {0} /\ Chains(B, n)
  BY DEF TableSound
<1>2. b = HashOf(k) % n /\ b \in 0..(n - 1)
  <2>1. HashOf(k) \in Nat /\ HashOf(k) % n \in 0..(n - 1)
    BY <1>1, HashFacts
  <2>2. CASE k = NullKey
    <3>1. b = 0 /\ HashOf(k) = 0
      BY <2>2 DEF Bucket, HashOf
    <3>2. 0 % n = 0
      BY <1>1
    <3> QED
      BY <2>1, <3>1, <3>2
  <2>3. CASE k # NullKey
    BY <2>1, <2>3 DEF Bucket, HashOf, TableIndex
  <2> QED
    BY <2>2, <2>3
<1>3. c = B[b]
  BY DEF Chain
<1> HIDE DEF b, c, n, B
<1>4. c \in Seq(EntrySet) /\ Apart(c)
  BY <1>1, <1>2, <1>3 DEF Chains
<1>5. Found(t, k) = Places(c, k)
  BY DEF Found, c
<1>6. Places(c, k) = {i \in 1..Len(c) : c[i].key = k}
  <2>1. DOMAIN c = 1..Len(c) /\ Len(c) \in Nat
    BY <1>4
  <2>2. ASSUME NEW i \in 1..Len(c), c[i].key = k, NEW j \in 1..(i - 1), c[j].key = k
        PROVE  FALSE
    <3>1. j \in DOMAIN c /\ i \in DOMAIN c /\ j # i
      BY <2>1
    <3> QED
      BY <1>4, <2>2, <3>1 DEF Apart
  <2> QED
    BY <2>1, <2>2 DEF Places
<1>7. MapOf(t) = MapFrom(In(B)) /\ Unique(In(B))
  BY <1>1, MapOfTable, OneEntry DEF B
<1>8. ASSUME NEW i \in Places(c, k)
      PROVE  /\ Places(c, k) = {i} /\ c[i] \in In(B)
             /\ k \in DOMAIN MapOf(t) /\ MapOf(t)[k] = c[i].value
  <2>1. i \in DOMAIN c /\ c[i].key = k
    BY <1>4, <1>6
  <2>2. Places(c, k) = {i}
    BY <1>4, <1>6, <2>1 DEF Apart
  <2>3. c[i] \in SX!ToSet(B[b])
    BY <1>3, <2>1 DEF SX!ToSet
  <2>4. c[i] \in In(B)
    BY <1>1, <1>2, <2>3, InBucket
  <2> QED
    BY <1>7, <2>1, <2>2, <2>4, Lookup
<1>9. ASSUME k \in DOMAIN MapOf(t) PROVE Places(c, k) # {}
  <2>1. PICK e \in In(B) : e.key = k
    <3>1. DOMAIN MapOf(t) = {e.key : e \in In(B)}
      BY <1>7, KeysOf
    <3> QED
      BY <1>9, <3>1
  <2>2. e \in SX!ToSet(B[HashOf(e.key) % n])
    BY <1>1, Whereabouts
  <2>3. e \in SX!ToSet(c)
    BY <1>2, <1>3, <2>1, <2>2
  <2>4. PICK i \in 1..Len(c) : c[i] = e
    BY <1>4, <2>3, Members
  <2> QED
    BY <1>6, <2>1, <2>4
<1> QED
  BY <1>2, <1>4, <1>5, <1>6, <1>8, <1>9 DEF b, c, n, B

\* A sound table with other chains is sound when they are chains and the size
\* counts their entries.
LEMMA WithChains ==
  ASSUME NEW t, TableSound(t), NEW B, Chains(B, t.capacity), NEW s, s = Count(B),
         NEW u, u = [capacity |-> t.capacity, threshold |-> t.threshold,
                     size |-> s, buckets |-> B]
  PROVE  TableSound(u) /\ MapOf(u) = MapFrom(In(B)) /\ u.threshold = t.threshold
<1>1. /\ u.capacity = t.capacity /\ u.threshold = t.threshold
      /\ u.size = s /\ u.buckets = B
  OBVIOUS
<1>2. MapOf(u) = MapFrom(In(u.buckets))
  BY MapOfTable
<1> QED
  BY <1>1, <1>2 DEF TableSound, Shaped

LEMMA Counted ==
  ASSUME NEW t, TableSound(t)
  PROVE  /\ IsFiniteSet(In(t.buckets)) /\ Unique(In(t.buckets))
         /\ MapOf(t) = MapFrom(In(t.buckets))
         /\ t.size \in Nat /\ t.size = Len(InOrder(t))
         /\ InOrder(t) \in Seq(EntrySet) /\ Apart(InOrder(t))
         /\ SX!ToSet(InOrder(t)) = In(t.buckets)
<1> DEFINE n == t.capacity
           B == t.buckets
<1>1. n \in Nat \ {0} /\ Chains(B, n) /\ t.size = Cardinality(In(B))
  BY DEF TableSound, Count
<1>2. MapOf(t) = MapFrom(In(B))
  BY MapOfTable
<1>3. InOrder(t) = SX!FlattenSeq([b \in 1..n |-> B[b - 1]])
  BY DEF InOrder
<1> HIDE DEF n, B
<1>4. /\ InOrder(t) \in Seq(EntrySet) /\ Apart(InOrder(t))
      /\ SX!ToSet(InOrder(t)) = In(B)
      /\ IsFiniteSet(In(B)) /\ Cardinality(In(B)) = Len(InOrder(t))
  BY <1>1, <1>3, Listing
<1>5. Unique(In(B))
  BY <1>1, OneEntry
<1> QED
  BY <1>1, <1>2, <1>4, <1>5 DEF B

\* No key has two entries: as many keys as entries.
LEMMA OneEach ==
  ASSUME NEW t, TableSound(t)
  PROVE  Cardinality(DOMAIN MapOf(t)) = t.size
<1> DEFINE E == In(t.buckets)
           D == DOMAIN MapOf(t)
           f == [e \in E |-> e.key]
<1>1. IsFiniteSet(E) /\ Unique(E) /\ t.size = Cardinality(E) /\ MapOf(t) = MapFrom(E)
  BY Counted DEF TableSound, Count
<1> HIDE DEF E
<1>2. D = {e.key : e \in E}
  BY <1>1, KeysOf
<1>3. f \in [E -> D] /\ \A d \in D : \E e \in E : f[e] = d
  BY <1>2
<1>4. \A x, y \in E : f[x] = f[y] => x = y
  BY <1>1 DEF Unique
<1> HIDE DEF D, f
<1>5. Cardinality(D) = Cardinality(E)
  BY <1>1, <1>3, <1>4, SameCount
<1> QED
  BY <1>1, <1>5 DEF D

\* A new entry at the head of its chain.
LEMMA InsertionStays ==
  ASSUME NEW t, TableSound(t), NEW k \in Keys, NEW v \in Values, Found(t, k) = {}
  PROVE  LET u == Inserted(t, k, v)
         IN  /\ TableSound(u) /\ u.size = t.size + 1 /\ u.threshold = t.threshold
             /\ MapOf(u) = MapWith(MapOf(t), k, v)
<1> DEFINE n == t.capacity
           B == t.buckets
           b == Bucket(t, k)
           c == Chain(t, k)
           e == Entry(k, v, HashOf(k))
           w == <<e>> \o c
           C == [B EXCEPT ![b] = w]
           u == [capacity |-> t.capacity, threshold |-> t.threshold,
                 size |-> t.size + 1, buckets |-> C]
<1>1. n \in Nat \ {0} /\ Chains(B, n) /\ t.size = Count(B) /\ Shaped(t)
  BY DEF TableSound
<1>2. /\ b = HashOf(k) % n /\ b \in 0..(n - 1) /\ c \in Seq(EntrySet) /\ Apart(c)
      /\ k \notin DOMAIN MapOf(t)
  BY Searched
<1>3. c = B[b] /\ Placed(c, n, b)
  BY <1>1, <1>2 DEF Chain, Chains
<1>4. e \in EntrySet /\ e.key = k /\ e.value = v /\ e.hash = HashOf(k)
  BY <1>1, HashFacts DEF Entry, EntrySet
<1>5. Inserted(t, k, v) = u
  <2>1. <<Entry(k, v, IF k = NullKey THEN 0 ELSE Hash[k])>> \o B[b] = w
    BY <1>3 DEF HashOf
  <2>2. Inserted(t, k, v) = [t EXCEPT !.buckets = C, !.size = t.size + 1]
    BY <2>1 DEF Inserted
  <2>3. t = [capacity |-> t.capacity, threshold |-> t.threshold, size |-> t.size,
             buckets |-> t.buckets]
    BY <1>1 DEF Shaped
  <2> HIDE DEF C
  <2> QED
    BY <2>2, <2>3
<1>6. MapOf(t) = MapFrom(In(B)) /\ Unique(In(B)) /\ IsFiniteSet(In(B)) /\ t.size \in Nat
  BY Counted
<1> HIDE DEF n, B, b, c, e, w
<1>7. w \in Seq(EntrySet) /\ Apart(w) /\ Placed(w, n, b) /\ SX!ToSet(w) = {e} \cup SX!ToSet(c)
  <2> DEFINE s == <<e>>
  <2>1. s \in Seq(EntrySet) /\ SX!ToSet(s) = {e} /\ Apart(s)
    BY <1>4, Single
  <2>2. Strangers(s, c)
    <3> SUFFICES ASSUME NEW i \in DOMAIN s, NEW j \in DOMAIN c, s[i].key = c[j].key
                 PROVE  FALSE
      BY DEF Strangers
    <3>1. s[i] = e /\ c[j] \in SX!ToSet(c)
      BY DEF SX!ToSet
    <3>2. c[j].key \in DOMAIN MapOf(t)
      <4>1. c[j] \in In(B)
        BY <1>1, <1>2, <1>3, <3>1, InBucket
      <4> QED
        BY <1>6, <4>1, Lookup
    <3> QED
      BY <1>2, <1>4, <3>1, <3>2
  <2> HIDE DEF s
  <2>3. s \o c \in Seq(EntrySet) /\ SX!ToSet(s \o c) = {e} \cup SX!ToSet(c) /\ Apart(s \o c)
    BY <1>2, <2>1, <2>2, JoinedChains
  <2>4. w = s \o c
    BY DEF w, s
  <2>5. Placed(w, n, b)
    <3> SUFFICES ASSUME NEW i \in DOMAIN w
                 PROVE  w[i].hash = HashOf(w[i].key) /\ w[i].hash % n = b
      BY DEF Placed
    <3>1. w[i] \in {e} \cup SX!ToSet(c)
      BY <2>3, <2>4 DEF SX!ToSet
    <3>2. CASE w[i] = e
      BY <1>2, <1>4, <3>2
    <3>3. CASE w[i] \in SX!ToSet(c)
      BY <1>3, <3>3 DEF Placed, SX!ToSet
    <3> QED
      BY <3>1, <3>2, <3>3
  <2> QED
    BY <2>3, <2>4, <2>5
<1>8. Chains(C, n) /\ In(C) = (In(B) \ SX!ToSet(c)) \cup SX!ToSet(w)
  <2>1. Chains([B EXCEPT ![b] = w], n)
    BY <1>1, <1>2, <1>7, Rebucketed
  <2>2. In([B EXCEPT ![b] = w]) = (In(B) \ SX!ToSet(B[b])) \cup SX!ToSet(w)
    BY <1>1, <1>2, <1>7, Rebucketed
  <2> QED
    BY <1>3, <2>1, <2>2
<1> HIDE DEF C
<1>9. In(C) = In(B) \cup {e}
  <2>1. SX!ToSet(c) \subseteq In(B)
    BY <1>1, <1>2, <1>3, InBucket
  <2> QED
    BY <1>7, <1>8, <2>1
<1>10. /\ e \notin In(B)
       /\ MapFrom(In(C)) = MapWith(MapOf(t), k, v)
  BY <1>2, <1>4, <1>6, <1>9, Added
<1>11. t.size + 1 = Count(C)
  BY <1>1, <1>6, <1>9, <1>10, FS_AddElement DEF Count
<1>12. Chains(C, t.capacity)
  BY <1>8 DEF n
<1>13. TableSound(u) /\ MapOf(u) = MapFrom(In(C)) /\ u.threshold = t.threshold
  <2> HIDE DEF u
  <2> DEFINE s == t.size + 1
  <2>1. s = Count(C)
    BY <1>11
  <2>2. u = [capacity |-> t.capacity, threshold |-> t.threshold, size |-> s,
             buckets |-> C]
    BY DEF u
  <2> HIDE DEF s
  <2> QED
    BY <1>12, <2>1, <2>2, WithChains
<1> QED
  BY <1>5, <1>10, <1>13

\* Another value in the entry of a key.
LEMMA ReplacementStays ==
  ASSUME NEW t, TableSound(t), NEW k \in Keys, NEW v \in Values, Found(t, k) # {}
  PROVE  LET u == Replaced(t, k, v)
         IN  /\ TableSound(u) /\ u.size = t.size /\ u.threshold = t.threshold
             /\ MapOf(u) = MapWith(MapOf(t), k, v)
<1> DEFINE n == t.capacity
           B == t.buckets
           b == Bucket(t, k)
           c == Chain(t, k)
<1>1. PICK i \in Found(t, k) : TRUE
  OBVIOUS
<1> DEFINE e == c[i]
           f == [e EXCEPT !.value = v]
           w == [j \in DOMAIN c |-> IF j \in Places(c, k) THEN [c[j] EXCEPT !.value = v]
                                                          ELSE c[j]]
           C == [B EXCEPT ![b] = w]
           u == [capacity |-> t.capacity, threshold |-> t.threshold,
                 size |-> t.size, buckets |-> C]
<1>2. n \in Nat \ {0} /\ Chains(B, n) /\ t.size = Count(B) /\ Shaped(t)
  BY DEF TableSound
<1>3. /\ b = HashOf(k) % n /\ b \in 0..(n - 1) /\ c \in Seq(EntrySet) /\ Apart(c)
      /\ Places(c, k) = {i} /\ i \in 1..Len(c) /\ e.key = k /\ e \in In(B)
  BY <1>1, Searched DEF Found
<1>4. c = B[b] /\ Placed(c, n, b) /\ DOMAIN c = 1..Len(c)
  BY <1>2, <1>3 DEF Chain, Chains
<1>5. /\ e \in EntrySet /\ f \in EntrySet
      /\ f.key = k /\ f.value = v /\ f.hash = e.hash
  <2>1. e \in EntrySet /\ e.key = k
    BY <1>3
  <2> HIDE DEF e
  <2> QED
    BY <2>1 DEF EntrySet
<1>6. Replaced(t, k, v) = u
  <2>1. Replaced(t, k, v) =
          [t EXCEPT !.buckets = [B EXCEPT ![b] =
             [j \in DOMAIN B[b] |-> IF j \in Places(B[b], k) THEN [B[b][j] EXCEPT !.value = v]
                                                             ELSE B[b][j]]]]
    BY DEF Replaced
  <2>2. Replaced(t, k, v) = [t EXCEPT !.buckets = C]
    BY <1>4, <2>1
  <2>3. t = [capacity |-> t.capacity, threshold |-> t.threshold, size |-> t.size,
             buckets |-> t.buckets]
    BY <1>2 DEF Shaped
  <2> HIDE DEF C
  <2> QED
    BY <2>2, <2>3
<1>7. MapOf(t) = MapFrom(In(B)) /\ Unique(In(B)) /\ IsFiniteSet(In(B)) /\ t.size \in Nat
  BY Counted
<1> HIDE DEF n, B, b, c, e, f
<1>8. DOMAIN w = 1..Len(c) /\ \A j \in 1..Len(c) : w[j] = IF j = i THEN f ELSE c[j]
  BY <1>3, <1>4 DEF e, f
<1> HIDE DEF w
<1>9. w \in Seq(EntrySet)
  <2>1. w = [j \in 1..Len(c) |-> w[j]] /\ Len(c) \in Nat
    <3>1. w = [j \in DOMAIN c |-> w[j]]
      BY DEF w
    <3> QED
      BY <1>3, <1>4, <3>1
  <2>2. \A j \in 1..Len(c) : w[j] \in EntrySet
    BY <1>3, <1>5, <1>8
  <2> QED
    BY <2>1, <2>2
<1>10. \A j \in 1..Len(c) : w[j].key = c[j].key /\ w[j].hash = c[j].hash
  BY <1>3, <1>5, <1>8 DEF e
<1>11. Apart(w) /\ Placed(w, n, b)
  BY <1>3, <1>4, <1>8, <1>10 DEF Apart, Placed
<1>12. (In(B) \ SX!ToSet(c)) \cup SX!ToSet(w) = (In(B) \ {e}) \cup {f}
  <2>1. SX!ToSet(w) = (SX!ToSet(c) \ {e}) \cup {f}
    <3>1. ASSUME NEW x \in SX!ToSet(w) PROVE x \in (SX!ToSet(c) \ {e}) \cup {f}
      <4>1. PICK j \in 1..Len(c) : w[j] = x
        BY <1>8 DEF SX!ToSet
      <4>2. CASE j = i
        BY <1>8, <4>1, <4>2
      <4>3. CASE j # i
        <5>1. x = c[j]
          BY <1>8, <4>1, <4>3
        <5>2. x # e
          BY <1>3, <1>4, <4>3, <5>1 DEF Apart, e
        <5> QED
          BY <1>4, <5>1, <5>2 DEF SX!ToSet
      <4> QED
        BY <4>2, <4>3
    <3>2. f \in SX!ToSet(w)
      BY <1>3, <1>8 DEF SX!ToSet
    <3>3. ASSUME NEW x \in SX!ToSet(c), x # e PROVE x \in SX!ToSet(w)
      <4>1. PICK j \in 1..Len(c) : c[j] = x
        BY <1>4 DEF SX!ToSet
      <4>2. j # i
        BY <3>3, <4>1 DEF e
      <4>3. w[j] = x /\ j \in DOMAIN w
        BY <1>8, <4>1, <4>2
      <4> QED
        BY <4>3 DEF SX!ToSet
    <3> QED
      BY <3>1, <3>2, <3>3
  <2>2. SX!ToSet(c) \subseteq In(B)
    BY <1>2, <1>3, <1>4, InBucket
  <2>3. e \in SX!ToSet(c)
    BY <1>3, <1>4 DEF SX!ToSet, e
  <2> QED
    BY <2>1, <2>2, <2>3
<1>13. Chains(C, n) /\ In(C) = (In(B) \ {e}) \cup {f}
  <2>1. Chains([B EXCEPT ![b] = w], n)
    BY <1>2, <1>3, <1>9, <1>11, Rebucketed
  <2>2. In([B EXCEPT ![b] = w]) = (In(B) \ SX!ToSet(B[b])) \cup SX!ToSet(w)
    BY <1>2, <1>3, <1>9, <1>11, Rebucketed
  <2> QED
    BY <1>4, <1>12, <2>1, <2>2
<1> HIDE DEF C
<1>14. /\ f \notin In(B) \ {e}
       /\ MapFrom(In(C)) = MapWith(MapOf(t), k, v)
  <2> DEFINE E == In(B)
  <2>1. Unique(E) /\ e \in E /\ f.key = e.key
    BY <1>3, <1>5, <1>7
  <2> HIDE DEF E
  <2>2. f \notin E \ {e} /\ MapFrom((E \ {e}) \cup {f}) = MapWith(MapFrom(E), e.key, f.value)
    BY <2>1, Changed
  <2> QED
    BY <1>3, <1>5, <1>7, <1>13, <2>2 DEF E
<1>15. t.size = Count(C)
  <2> DEFINE W == In(B) \ {e}
  <2>1. IsFiniteSet(W) /\ Cardinality(W) = t.size - 1
    BY <1>2, <1>3, <1>7, FS_RemoveElement DEF Count
  <2>2. f \notin W
    BY <1>14
  <2>3. Count(C) = Cardinality(W \cup {f})
    BY <1>13 DEF Count
  <2> HIDE DEF W
  <2>4. Count(C) = (t.size - 1) + 1
    BY <2>1, <2>2, <2>3, FS_AddElement
  <2> QED
    BY <1>7, <2>4
<1>16. TableSound(u) /\ MapOf(u) = MapFrom(In(C)) /\ u.threshold = t.threshold
  <2>1. Chains(C, t.capacity)
    BY <1>13 DEF n
  <2> DEFINE s == t.size
  <2>2. s = Count(C)
    BY <1>15
  <2>3. u = [capacity |-> t.capacity, threshold |-> t.threshold, size |-> s,
             buckets |-> C]
    OBVIOUS
  <2> HIDE DEF s, u
  <2> QED
    BY <2>1, <2>2, <2>3, WithChains
<1> QED
  BY <1>6, <1>14, <1>16

\* An entry taken out of its chain.
LEMMA RemovalStays ==
  ASSUME NEW t, TableSound(t), NEW k \in Keys, NEW i \in Found(t, k)
  PROVE  LET u == Removed(t, k, i)
         IN  /\ TableSound(u) /\ u.size = t.size - 1 /\ t.size > 0
             /\ u.threshold = t.threshold
             /\ MapOf(u) = MapWithout(MapOf(t), k)
<1> DEFINE n == t.capacity
           B == t.buckets
           b == Bucket(t, k)
           c == Chain(t, k)
           e == c[i]
           w == SX!RemoveAt(c, i)
           C == [B EXCEPT ![b] = w]
           u == [capacity |-> t.capacity, threshold |-> t.threshold,
                 size |-> t.size - 1, buckets |-> C]
<1>1. n \in Nat \ {0} /\ Chains(B, n) /\ t.size = Count(B) /\ Shaped(t)
  BY DEF TableSound
<1>2. /\ b = HashOf(k) % n /\ b \in 0..(n - 1) /\ c \in Seq(EntrySet) /\ Apart(c)
      /\ i \in 1..Len(c) /\ e.key = k /\ e \in In(B)
  BY Searched
<1>3. c = B[b] /\ Placed(c, n, b) /\ DOMAIN c = 1..Len(c)
  BY <1>1, <1>2 DEF Chain, Chains
<1>4. Removed(t, k, i) = u
  <2>1. Removed(t, k, i) = [t EXCEPT !.buckets = C, !.size = t.size - 1]
    BY <1>3 DEF Removed
  <2>2. t = [capacity |-> t.capacity, threshold |-> t.threshold, size |-> t.size,
             buckets |-> t.buckets]
    BY <1>1 DEF Shaped
  <2> HIDE DEF C
  <2> QED
    BY <2>1, <2>2
<1>5. MapOf(t) = MapFrom(In(B)) /\ Unique(In(B)) /\ IsFiniteSet(In(B)) /\ t.size \in Nat
  BY Counted
<1> HIDE DEF n, B, b, c
<1>6. /\ w \in Seq(EntrySet) /\ Apart(w) /\ SX!ToSet(w) = SX!ToSet(c) \ {e}
      /\ \A j \in 1..Len(w) : w[j] = IF j < i THEN c[j] ELSE c[j + 1]
  BY <1>2, TakenOut
<1> HIDE DEF w
<1>7. Placed(w, n, b)
  <2> SUFFICES ASSUME NEW j \in DOMAIN w
               PROVE  w[j].hash = HashOf(w[j].key) /\ w[j].hash % n = b
    BY DEF Placed
  <2>1. w[j] \in SX!ToSet(c)
    BY <1>6 DEF SX!ToSet
  <2> QED
    BY <1>3, <2>1 DEF Placed, SX!ToSet
<1>8. (In(B) \ SX!ToSet(c)) \cup SX!ToSet(w) = In(B) \ {e}
  <2>1. SX!ToSet(c) \subseteq In(B)
    BY <1>1, <1>2, <1>3, InBucket
  <2>2. e \in SX!ToSet(c)
    BY <1>2, <1>3 DEF SX!ToSet
  <2> QED
    BY <1>6, <2>1, <2>2
<1> HIDE DEF e
<1>9. Chains(C, n) /\ In(C) = In(B) \ {e}
  <2>1. Chains([B EXCEPT ![b] = w], n)
    BY <1>1, <1>2, <1>6, <1>7, Rebucketed
  <2>2. In([B EXCEPT ![b] = w]) = (In(B) \ SX!ToSet(B[b])) \cup SX!ToSet(w)
    BY <1>1, <1>2, <1>6, <1>7, Rebucketed
  <2> QED
    BY <1>3, <1>8, <2>1, <2>2
<1> HIDE DEF C
<1>10. MapFrom(In(C)) = MapWithout(MapOf(t), k)
  BY <1>2, <1>5, <1>9, Dropped
<1>11. Cardinality(In(C)) = t.size - 1 /\ t.size > 0
  <2>1. Cardinality(In(B)) = t.size
    BY <1>1 DEF Count
  <2>2. Cardinality(In(B) \ {e}) = t.size - 1
    BY <1>2, <1>5, <2>1, FS_RemoveElement
  <2>3. t.size # 0
    BY <1>2, <1>5, <2>1, FS_EmptySet
  <2> QED
    BY <1>5, <1>9, <2>2, <2>3
<1>12. TableSound(u) /\ MapOf(u) = MapFrom(In(C)) /\ u.threshold = t.threshold
  <2>1. Chains(C, t.capacity)
    BY <1>9 DEF n
  <2> DEFINE s == t.size - 1
  <2>2. s = Count(C)
    BY <1>11 DEF Count
  <2>3. u = [capacity |-> t.capacity, threshold |-> t.threshold, size |-> s,
             buckets |-> C]
    OBVIOUS
  <2> HIDE DEF s, u
  <2> QED
    BY <2>1, <2>2, <2>3, WithChains
<1> QED
  BY <1>4, <1>10, <1>11, <1>12

\* Entries moved to other chains.
LEMMA MoveStays ==
  ASSUME NEW t, TableSound(t), NEW n \in Nat \ {0}
  PROVE  /\ Chains(MoveEntries(t, n), n)
         /\ In(MoveEntries(t, n)) = In(t.buckets)
<1> DEFINE all == InOrder(t)
           C == MoveEntries(t, n)
           Bag(b) == {e \in In(t.buckets) : e.hash % n = b}
<1>1. all \in Seq(EntrySet) /\ Apart(all) /\ SX!ToSet(all) = In(t.buckets)
  BY Counted
<1>2. \A e \in In(t.buckets) :
        e \in EntrySet /\ e.hash = HashOf(e.key) /\ e.hash % n \in 0..(n - 1)
  <2> SUFFICES ASSUME NEW e \in In(t.buckets)
               PROVE  e \in EntrySet /\ e.hash = HashOf(e.key) /\ e.hash % n \in 0..(n - 1)
    OBVIOUS
  <2>1. e \in EntrySet /\ e.hash = HashOf(e.key)
    BY Whereabouts DEF TableSound
  <2>2. e.hash % n \in 0..(n - 1)
    BY <2>1, HashFacts DEF EntrySet
  <2> QED
    BY <2>1, <2>2
<1>3. C = [b \in 0..(n - 1) |-> SX!Reverse(Selected(all, WithIndex(t, n, b)))]
  BY DEF MoveEntries
<1>4. ASSUME NEW b \in 0..(n - 1)
      PROVE  C[b] \in Seq(EntrySet) /\ Apart(C[b]) /\ SX!ToSet(C[b]) = Bag(b)
  <2> DEFINE keep == WithIndex(t, n, b)
             s == Selected(all, keep)
             w == SX!Reverse(s)
  <2>1. keep = Bag(b)
    BY <1>1 DEF WithIndex
  <2>2. C[b] = w
    BY <1>3
  <2> HIDE DEF all, keep, C
  <2>3. s \in Seq(EntrySet) /\ Apart(s) /\ SX!ToSet(s) = SX!ToSet(all) \cap keep
    BY <1>1, Chosen
  <2> HIDE DEF s
  <2>4. w \in Seq(EntrySet) /\ Apart(w) /\ SX!ToSet(w) = SX!ToSet(s)
    BY <2>3, Backwards
  <2> HIDE DEF w
  <2> QED
    BY <1>1, <2>1, <2>2, <2>3, <2>4
<1>5. DOMAIN C = 0..(n - 1)
  BY <1>3
<1> HIDE DEF C
<1>6. Chains(C, n)
  <2>1. C \in [0..(n - 1) -> Seq(EntrySet)]
    <3>1. C = [b \in 0..(n - 1) |-> C[b]]
      BY <1>3
    <3> QED
      BY <1>4, <3>1
  <2>2. ASSUME NEW b \in 0..(n - 1) PROVE Placed(C[b], n, b)
    <3> SUFFICES ASSUME NEW i \in DOMAIN C[b]
                 PROVE  C[b][i].hash = HashOf(C[b][i].key) /\ C[b][i].hash % n = b
      BY DEF Placed
    <3>1. C[b][i] \in Bag(b)
      BY <1>4 DEF SX!ToSet
    <3> QED
      BY <1>2, <3>1
  <2> QED
    BY <1>4, <2>1, <2>2 DEF Chains
<1>7. In(C) = In(t.buckets)
  <2>1. ASSUME NEW e \in In(C) PROVE e \in In(t.buckets)
    <3>1. PICK b \in 0..(n - 1) : e \in SX!ToSet(C[b])
      BY <1>5 DEF In
    <3> QED
      BY <1>4, <3>1
  <2>2. ASSUME NEW e \in In(t.buckets) PROVE e \in In(C)
    <3> DEFINE b == e.hash % n
    <3>1. b \in 0..(n - 1) /\ e \in Bag(b)
      BY <1>2
    <3> HIDE DEF b
    <3>2. e \in SX!ToSet(C[b])
      BY <1>4, <3>1
    <3> QED
      BY <1>5, <3>1, <3>2 DEF In
  <2> QED
    BY <2>1, <2>2
<1> QED
  BY <1>6, <1>7 DEF C

\* A table of twice the capacity, and the check in front of an insertion.
LEMMA RoomStays ==
  ASSUME NEW t, TableSound(t), NEW u \in MakeRoom(t)
  PROVE  TableSound(u) /\ MapOf(u) = MapOf(t) /\ u.size = t.size
<1>1. CASE t.size < t.threshold
  <2>1. u = t
    BY <1>1 DEF MakeRoom
  <2> QED
    BY <2>1
<1>2. CASE ~(t.size < t.threshold)
  <2> DEFINE n == 2 * t.capacity
             C == MoveEntries(t, n)
  <2>1. u = Resized(t, n) /\ t.capacity # MaxCapacity
    BY <1>2 DEF MakeRoom
  <2>2. /\ t.capacity \in 1..MaxCapacity /\ IsPowerOfTwo(t.capacity) /\ Shaped(t)
        /\ t.capacity >= RoundPowTwo(InitialCapacity)
        /\ MaxCapacity \in Nat \ {0} /\ IsPowerOfTwo(MaxCapacity)
        /\ RoundPowTwo(InitialCapacity) \in Nat /\ t.size = Count(t.buckets)
    <3>1. RoundPowTwo(InitialCapacity) \in Nat
      BY HashTableConstants, RoundingGivesPower DEF RoundPowTwo
    <3> QED
      BY <3>1, HashTableConstants DEF TableSound
  <2>3. n \in 1..MaxCapacity /\ IsPowerOfTwo(n) /\ n >= RoundPowTwo(InitialCapacity)
    <3>1. IsPowerOfTwo(n) /\ n <= MaxCapacity
      BY <2>1, <2>2, DoublingStaysBelow
    <3> QED
      BY <2>2, <3>1
  <2>4. n \in Nat \ {0}
    BY <2>3
  <2>5. Chains(C, n) /\ In(C) = In(t.buckets)
    <3> HIDE DEF n
    <3> QED
      BY <2>4, MoveStays
  <2>6. u = [capacity |-> n, threshold |-> Threshold(n), size |-> t.size, buckets |-> C]
    <3>1. t = [capacity |-> t.capacity, threshold |-> t.threshold, size |-> t.size,
               buckets |-> t.buckets]
      BY <2>2 DEF Shaped
    <3> HIDE DEF n
    <3>2. u = [t EXCEPT !.buckets = C, !.capacity = n, !.threshold = Threshold(n)]
      BY <2>1 DEF Resized
    <3> HIDE DEF C
    <3> QED
      BY <3>1, <3>2
  <2> HIDE DEF n, C
  <2>7. /\ u.capacity = n /\ u.threshold = Threshold(n) /\ u.size = t.size
        /\ u.buckets = C /\ Shaped(u)
    BY <2>6 DEF Shaped
  <2>8. MapOf(u) = MapFrom(In(C)) /\ MapOf(t) = MapFrom(In(t.buckets))
    BY <2>7, MapOfTable
  <2> QED
    BY <2>2, <2>3, <2>5, <2>7, <2>8 DEF TableSound, Count
<1> QED
  BY <1>1, <1>2

LEMMA EmptyChains ==
  ASSUME NEW n \in Nat \ {0}, NEW B, B = [b \in 0..(n - 1) |-> <<>>]
  PROVE  Chains(B, n) /\ In(B) = {} /\ Count(B) = 0
<1>1. <<>> \in Seq(EntrySet) /\ DOMAIN <<>> = {} /\ Apart(<<>>) /\ SX!ToSet(<<>>) = {}
  BY DEF Apart, SX!ToSet
<1>2. \A b \in 0..(n - 1) : Placed(<<>>, n, b)
  BY <1>1 DEF Placed
<1> DEFINE T == 0..(n - 1)
<1> HIDE DEF T
<1>3. B = [b \in T |-> <<>>]
  BY DEF T
<1>4. Chains(B, n) /\ In(B) = {}
  <2>1. B \in [T -> Seq(EntrySet)] /\ DOMAIN B = T /\ \A b \in T : B[b] = <<>>
    BY <1>1, <1>3
  <2> QED
    BY <1>1, <1>2, <2>1 DEF Chains, In, T
<1> QED
  BY <1>4, FS_EmptySet DEF Count

LEMMA ClearedStays ==
  ASSUME NEW t, TableSound(t)
  PROVE  LET u == [t EXCEPT !.buckets = [b \in DOMAIN @ |-> <<>>],
                            !.size = @ - Len(InOrder(t))]
         IN  /\ TableSound(u) /\ u.size = 0 /\ u.threshold = t.threshold
             /\ MapOf(u) = [k \in {} |-> NoElement]
<1> DEFINE n == t.capacity
           C == [b \in 0..(n - 1) |-> <<>>]
           s == t.size - Len(InOrder(t))
           u == [capacity |-> t.capacity, threshold |-> t.threshold, size |-> s,
                 buckets |-> C]
<1>1. n \in Nat \ {0} /\ Chains(t.buckets, n) /\ Shaped(t)
  BY DEF TableSound
<1>2. s = 0
  BY Counted
<1>3. DOMAIN t.buckets = 0..(n - 1)
  BY <1>1 DEF Chains
<1>4. [t EXCEPT !.buckets = [b \in DOMAIN @ |-> <<>>],
                !.size = @ - Len(InOrder(t))] = u
  <2>1. t = [capacity |-> t.capacity, threshold |-> t.threshold, size |-> t.size,
             buckets |-> t.buckets]
    BY <1>1 DEF Shaped
  <2>2. [t EXCEPT !.buckets = [b \in DOMAIN @ |-> <<>>],
                  !.size = @ - Len(InOrder(t))] = [t EXCEPT !.buckets = C, !.size = s]
    BY <1>3
  <2>3. [t EXCEPT !.buckets = C, !.size = s] = u
    <3> HIDE DEF C, s
    <3>1. ASSUME NEW a, NEW b, NEW z, NEW B,
                 t = [capacity |-> a, threshold |-> b, size |-> z, buckets |-> B]
          PROVE  [t EXCEPT !.buckets = C, !.size = s] =
                   [capacity |-> a, threshold |-> b, size |-> s, buckets |-> C]
      <4> DEFINE r == [t EXCEPT !.buckets = C]
      <4>1. r = [capacity |-> a, threshold |-> b, size |-> z, buckets |-> C]
        BY <3>1
      <4> HIDE DEF r
      <4>2. [r EXCEPT !.size = s] =
              [capacity |-> a, threshold |-> b, size |-> s, buckets |-> C]
        BY <4>1
      <4> QED
        BY <4>2 DEF r
    <3> QED
      BY <2>1, <3>1
  <2> QED
    BY <2>2, <2>3, Zenon
<1>5. Chains(C, n) /\ In(C) = {} /\ Count(C) = 0
  <2> HIDE DEF n
  <2> QED
    BY <1>1, EmptyChains
<1>6. TableSound(u) /\ MapOf(u) = MapFrom(In(C)) /\ u.threshold = t.threshold
  <2>1. Chains(C, t.capacity) /\ s = Count(C)
    BY <1>2, <1>5
  <2>2. u = [capacity |-> t.capacity, threshold |-> t.threshold, size |-> s,
             buckets |-> C]
    OBVIOUS
  <2> HIDE DEF C, s, u
  <2> QED
    BY <2>1, <2>2, WithChains
<1> QED
  BY <1>2, <1>4, <1>5, <1>6, EmptyMap

LEMMA EmptySound ==
  TableSound(Empty(RoundPowTwo(InitialCapacity)))
  /\ MapOf(Empty(RoundPowTwo(InitialCapacity))) = [k \in {} |-> NoElement]
<1> DEFINE n == RoundPowTwo(InitialCapacity)
           C == [b \in 0..(n - 1) |-> <<>>]
           t == Empty(n)
<1>1. n \in 1..MaxCapacity /\ IsPowerOfTwo(n)
  BY HashTableConstants, RoundingGivesPower DEF RoundPowTwo
<1>2. n \in Nat \ {0} /\ n >= n
  BY <1>1, HashTableConstants
<1> HIDE DEF n
<1>3. Chains(C, n) /\ In(C) = {} /\ Count(C) = 0
  BY <1>2, EmptyChains
<1>4. t = [capacity |-> n, threshold |-> Threshold(n), size |-> 0, buckets |-> C]
  BY DEF Empty
<1> HIDE DEF C, t
<1>5. /\ t.capacity = n /\ t.threshold = Threshold(n) /\ t.size = 0 /\ t.buckets = C
      /\ Shaped(t)
  BY <1>4 DEF Shaped
<1>6. TableSound(t)
  BY <1>1, <1>2, <1>3, <1>5 DEF TableSound, n
<1>7. MapOf(t) = MapFrom(In(C))
  BY <1>5, MapOfTable
<1> QED
  BY <1>3, <1>6, <1>7, EmptyMap DEF t, n

-----------------------------------------------------------------------------
\* The table's part of the invariant

\* A first doubling makes room for an entry: true of every load factor from one
\* half on, and of a smaller one when the initial capacity makes up for it.
LoadFits == 2 * (RoundPowTwo(InitialCapacity) * LoadNum) >= LoadDen

TableInv == TableSound(table) /\ (LoadFits => table.size <= table.threshold)

\* Twice as much, and at least d, has a greater quotient by d.
LEMMA DoubledQuotient ==
  ASSUME NEW x \in Nat, NEW d \in Nat \ {0}, 2 * x >= d
  PROVE  (2 * x) \div d > x \div d
<1> DEFINE q == x \div d
           r == x % d
           y == 2 * x
           p == y \div d
           s == y % d
<1>1. q \in Nat /\ r \in 0..(d - 1) /\ x = d * q + r
  BY SMTT(30)
<1>2. y \in Nat
  OBVIOUS
<1>3. p \in Nat /\ s \in 0..(d - 1) /\ y = d * p + s
  <2> HIDE DEF y
  <2> QED
    BY <1>2, SMTT(30)
<1>4. y = x + x /\ y >= d
  OBVIOUS
<1> HIDE DEF q, r, y, p, s
<1>5. ASSUME p <= q PROVE FALSE
  <2>1. d * p \in Nat /\ d * q \in Nat /\ d * p <= d * q
    BY <1>1, <1>3, <1>5, SMTT(30)
  <2>2. x < d
    BY <1>1, <1>3, <1>4, <2>1
  <2>3. q = 0
    <3>1. CASE q >= 1
      <4>1. d * q >= d
        BY <1>1, <3>1, SMTT(30)
      <4> QED
        BY <1>1, <2>1, <2>2, <4>1
    <3> QED
      BY <1>1, <3>1
  <2>4. p = 0
    BY <1>3, <1>5, <2>3
  <2>5. d * p = 0
    BY <2>4
  <2> QED
    BY <1>3, <1>4, <2>5
<1> QED
  BY <1>1, <1>3, <1>5 DEF p, q, y

LEMMA Limits ==
  ASSUME NEW t, TableSound(t)
  PROVE  /\ t.capacity \in Nat \ {0} /\ t.threshold \in Nat /\ t.size \in Nat
         /\ LoadFits => Threshold(2 * t.capacity) > t.threshold
<1> DEFINE n == t.capacity
           m == RoundPowTwo(InitialCapacity)
           x == n * LoadNum
<1>1. /\ n \in Nat \ {0} /\ t.threshold = Threshold(n) /\ n >= m
      /\ LoadNum \in Nat /\ LoadDen \in Nat \ {0}
  BY HashTableConstants DEF TableSound
<1>2. m \in Nat
  BY HashTableConstants, RoundingGivesPower DEF RoundPowTwo
<1> HIDE DEF n, m
<1>3. x \in Nat
  BY <1>1
<1>4. t.threshold \in Nat
  <2>1. Threshold(n) = x \div LoadDen
    BY DEF Threshold
  <2> HIDE DEF x
  <2> QED
    BY <1>1, <1>3, <2>1
<1>5. ASSUME LoadFits PROVE Threshold(2 * n) > t.threshold
  <2>1. 2 * (m * LoadNum) >= LoadDen
    BY <1>5 DEF LoadFits, m
  <2>2. x >= m * LoadNum /\ m * LoadNum \in Nat
    BY <1>1, <1>2, SMTT(30)
  <2>3. Threshold(2 * n) = (2 * x) \div LoadDen /\ Threshold(n) = x \div LoadDen
    <3>1. (2 * n) * LoadNum = 2 * x
      BY <1>1, SMTT(30)
    <3> QED
      BY <3>1 DEF Threshold
  <2> HIDE DEF x
  <2>4. 2 * x >= LoadDen
    <3> DEFINE z == m * LoadNum
    <3>1. z \in Nat /\ 2 * z >= LoadDen /\ x >= z
      BY <2>1, <2>2
    <3> HIDE DEF z
    <3> QED
      BY <1>1, <1>3, <3>1
  <2> QED
    BY <1>1, <1>3, <2>3, <2>4, DoubledQuotient
<1>6. t.size \in Nat
  BY Counted
<1> QED
  BY <1>1, <1>4, <1>5, <1>6 DEF n

\* The results of the map and of the table are the same.
LEMMA SameAnswers ==
  /\ Abs!Done = Done
  /\ \A e : Abs!Got(e) = Got(e)
  /\ \A st : Abs!Refused(st) = Refused(st)
  /\ \A b \in BOOLEAN : Abs!Truth(b) = Truth(b)
<1>1. Abs!Done = Done
  BY DEF Abs!Done, Abs!Result, Done, Result, Abs!CC_OK, CC_OK
<1>2. ASSUME NEW e PROVE Abs!Got(e) = Got(e)
  BY DEF Abs!Got, Abs!Result, Got, Result, Abs!CC_OK, CC_OK
<1>3. ASSUME NEW st PROVE Abs!Refused(st) = Refused(st)
  BY DEF Abs!Refused, Abs!Result, Refused, Result
<1>4. ASSUME NEW b \in BOOLEAN PROVE Abs!Truth(b) = Truth(b)
  BY DEF Abs!Truth, Abs!Result, Truth, Result
<1> QED
  BY <1>1, <1>2, <1>3, <1>4

\* A refusal that leaves the mappings alone is one the map makes as well.
LEMMA SameRefusals ==
  ASSUME NEW st, ret' = Refused(st), MapOf(table') = MapOf(table)
  PROVE  /\ st \in {CC_ERR_ALLOC, CC_ERR_MAX_CAPACITY} => Abs!NoRoom
         /\ st = CC_ERR_KEY_NOT_FOUND => Abs!Refuse({Abs!CC_ERR_KEY_NOT_FOUND})
         /\ st \in {CC_ERR_ALLOC, CC_ERR_INVALID_CAPACITY} => Abs!NoKeys
         /\ st = CC_ITER_END => Abs!WalkOver
<1> USE SameAnswers
    DEF Abs!Refuse, Abs!CC_ERR_ALLOC, Abs!CC_ERR_MAX_CAPACITY,
        Abs!CC_ERR_KEY_NOT_FOUND, Abs!CC_ERR_INVALID_CAPACITY, Abs!CC_ITER_END,
        CC_ERR_ALLOC, CC_ERR_MAX_CAPACITY, CC_ERR_KEY_NOT_FOUND,
        CC_ERR_INVALID_CAPACITY, CC_ITER_END
<1>1. st \in {CC_ERR_ALLOC, CC_ERR_MAX_CAPACITY} => Abs!NoRoom
  BY DEF Abs!NoRoom
<1>2. st = CC_ERR_KEY_NOT_FOUND => Abs!Refuse({Abs!CC_ERR_KEY_NOT_FOUND})
  OBVIOUS
<1>3. st \in {CC_ERR_ALLOC, CC_ERR_INVALID_CAPACITY} => Abs!NoKeys
  BY DEF Abs!NoKeys
<1>4. st = CC_ITER_END => Abs!WalkOver
  BY DEF Abs!WalkOver
<1> QED
  BY <1>1, <1>2, <1>3, <1>4

\* What a call that stores or takes out a mapping does to the map.
LEMMA SameChanges ==
  ASSUME NEW k, NEW v
  PROVE  /\ ret' = Done /\ MapOf(table') = MapWith(MapOf(table), k, v) => Abs!Put(k, v)
         /\ /\ k \in DOMAIN MapOf(table) /\ ret' = Got(MapOf(table)[k])
            /\ MapOf(table') = MapWithout(MapOf(table), k)
            => Abs!Delete(k)
BY SameAnswers DEF Abs!Put, Abs!With, Abs!Delete, Abs!Without, MapWith, MapWithout

-----------------------------------------------------------------------------
\* The calls, one after another

LEMMA AddStays ==
  ASSUME TableInv, NEW k \in Keys, NEW v \in Values, Add(k, v)
  PROVE  TableInv' /\ (Abs!Put(k, v) \/ Abs!NoRoom) /\ EndWalk
<1>1. TableSound(table) /\ (LoadFits => table.size <= table.threshold)
  BY DEF TableInv
<1>2. CASE /\ table.size >= table.threshold
           /\ Refuse(IF table.capacity = MaxCapacity THEN CC_ERR_MAX_CAPACITY
                                                     ELSE CC_ERR_ALLOC)
  <2> DEFINE st == IF table.capacity = MaxCapacity THEN CC_ERR_MAX_CAPACITY
                                                   ELSE CC_ERR_ALLOC
  <2>1. st \in {CC_ERR_ALLOC, CC_ERR_MAX_CAPACITY} /\ Refuse(st)
    BY <1>2
  <2> HIDE DEF st
  <2>2. ret' = Refused(st) /\ table' = table /\ EndWalk
    BY <2>1 DEF Refuse, Return
  <2>3. MapOf(table') = MapOf(table)
    BY <2>2
  <2>4. Abs!NoRoom
    BY <2>1, <2>2, <2>3, SameRefusals
  <2>5. TableInv'
    BY <1>1, <2>2 DEF TableInv
  <2> QED
    BY <2>2, <2>4, <2>5
<1>3. ASSUME NEW t \in MakeRoom(table),
             \/ Found(t, k) # {} /\ Update(Replaced(t, k, v), Done)
             \/ Found(t, k) = {} /\ Update(Inserted(t, k, v), Done)
             \/ Found(t, k) = {} /\ Update(t, Refused(CC_ERR_ALLOC))
      PROVE  TableInv' /\ (Abs!Put(k, v) \/ Abs!NoRoom) /\ EndWalk
  <2>1. TableSound(t) /\ MapOf(t) = MapOf(table) /\ t.size = table.size
    BY <1>1, RoomStays
  <2>2. ASSUME LoadFits PROVE t.size < t.threshold
    <3>1. CASE table.size < table.threshold
      BY <3>1 DEF MakeRoom
    <3>2. CASE ~(table.size < table.threshold)
      <4>1. t = Resized(table, 2 * table.capacity)
        BY <3>2 DEF MakeRoom
      <4>2. t.threshold = Threshold(2 * table.capacity)
        <5> DEFINE n == 2 * table.capacity
                   C == MoveEntries(table, n)
                   h == Threshold(n)
        <5>1. table = [capacity |-> table.capacity, threshold |-> table.threshold,
                       size |-> table.size, buckets |-> table.buckets]
          BY <1>1 DEF TableSound, Shaped
        <5>2. t = [table EXCEPT !.buckets = C, !.capacity = n, !.threshold = h]
          BY <4>1 DEF Resized
        <5> HIDE DEF n, C, h
        <5>3. t.threshold = h
          BY <5>1, <5>2
        <5> QED
          BY <5>3 DEF h, n
      <4>3. table.threshold < t.threshold /\ table.threshold \in Nat /\ t.threshold \in Nat
        BY <1>1, <2>1, <2>2, <4>2, Limits
      <4>4. table.size <= table.threshold /\ table.size \in Nat
        BY <1>1, <2>2, Limits
      <4> QED
        BY <2>1, <4>3, <4>4
    <3> QED
      BY <3>1, <3>2
  <2>3. t.size \in Nat /\ t.threshold \in Nat
    BY <2>1, Limits
  <2>4. CASE Found(t, k) # {} /\ Update(Replaced(t, k, v), Done)
    <3> DEFINE u == Replaced(t, k, v)
    <3>1. table' = u /\ ret' = Done /\ EndWalk
      BY <2>4 DEF Update, Return
    <3>2. /\ TableSound(u) /\ u.size = t.size /\ u.threshold = t.threshold
          /\ MapOf(u) = MapWith(MapOf(t), k, v)
      BY <2>1, <2>4, ReplacementStays
    <3> HIDE DEF u
    <3>3. TableInv'
      <4>1. LoadFits => u.size <= u.threshold
        BY <2>2, <2>3, <3>2
      <4> QED
        BY <3>1, <3>2, <4>1 DEF TableInv
    <3>4. Abs!Put(k, v)
      <4>1. MapOf(table') = MapWith(MapOf(table), k, v)
        BY <2>1, <3>1, <3>2
      <4> QED
        BY <3>1, <4>1, SameChanges
    <3> QED
      BY <3>1, <3>3, <3>4
  <2>5. CASE Found(t, k) = {} /\ Update(Inserted(t, k, v), Done)
    <3> DEFINE u == Inserted(t, k, v)
    <3>1. table' = u /\ ret' = Done /\ EndWalk
      BY <2>5 DEF Update, Return
    <3>2. /\ TableSound(u) /\ u.size = t.size + 1 /\ u.threshold = t.threshold
          /\ MapOf(u) = MapWith(MapOf(t), k, v)
      BY <2>1, <2>5, InsertionStays
    <3> HIDE DEF u
    <3>3. TableInv'
      <4>1. LoadFits => u.size <= u.threshold
        BY <2>2, <2>3, <3>2
      <4> QED
        BY <3>1, <3>2, <4>1 DEF TableInv
    <3>4. Abs!Put(k, v)
      <4>1. MapOf(table') = MapWith(MapOf(table), k, v)
        BY <2>1, <3>1, <3>2
      <4> QED
        BY <3>1, <4>1, SameChanges
    <3> QED
      BY <3>1, <3>3, <3>4
  <2>6. CASE Found(t, k) = {} /\ Update(t, Refused(CC_ERR_ALLOC))
    <3>1. table' = t /\ ret' = Refused(CC_ERR_ALLOC) /\ EndWalk
      BY <2>6 DEF Update, Return
    <3>2. TableInv'
      <4>1. LoadFits => t.size <= t.threshold
        BY <2>2, <2>3
      <4> QED
        BY <2>1, <3>1, <4>1 DEF TableInv
    <3>3. MapOf(table') = MapOf(table)
      BY <2>1, <3>1
    <3>4. Abs!NoRoom
      BY <3>1, <3>3, SameRefusals
    <3> QED
      BY <3>1, <3>2, <3>4
  <2> QED
    BY <1>3, <2>4, <2>5, <2>6
<1> QED
  BY <1>2, <1>3 DEF Add

LEMMA GetStays ==
  ASSUME TableInv, NEW k \in Keys, Get(k)
  PROVE  /\ Abs!Get(k) \/ Abs!Absent(k)
         /\ Stale /\ UNCHANGED <<table, iter>>
<1>1. TableSound(table)
  BY DEF TableInv
<1>2. Stale /\ UNCHANGED <<table, iter>>
  BY DEF Get, Answer
<1>3. MapOf(table') = MapOf(table)
  BY <1>2
<1>4. CASE Found(table, k) = {} /\ Answer(Refused(CC_ERR_KEY_NOT_FOUND))
  <2>1. k \notin DOMAIN MapOf(table)
    BY <1>1, <1>4, Searched
  <2>2. ret' = Refused(CC_ERR_KEY_NOT_FOUND)
    BY <1>4 DEF Answer, Return
  <2>3. Abs!Refuse({Abs!CC_ERR_KEY_NOT_FOUND})
    BY <1>3, <2>2, SameRefusals
  <2> QED
    BY <1>2, <2>1, <2>3 DEF Abs!Absent
<1>5. ASSUME NEW i \in Found(table, k), Answer(Got(Chain(table, k)[i].value))
      PROVE  Abs!Get(k)
  <2>1. k \in DOMAIN MapOf(table) /\ MapOf(table)[k] = Chain(table, k)[i].value
    BY <1>1, Searched
  <2>2. ret' = Got(MapOf(table)[k])
    BY <1>5, <2>1 DEF Answer, Return
  <2> QED
    BY <1>3, <2>1, <2>2, SameAnswers DEF Abs!Get
<1> QED
  BY <1>2, <1>4, <1>5 DEF Get

LEMMA TakeOutStays ==
  ASSUME TableInv, NEW k \in Keys, TakeOut(k)
  PROVE  /\ TableInv'
         /\ k \notin DOMAIN MapOf(table) => Abs!Absent(k) /\ table' = table
         /\ k \in DOMAIN MapOf(table) =>
              Abs!Delete(k) /\ \E i \in Found(table, k) : table' = Removed(table, k, i)
<1>1. TableSound(table) /\ (LoadFits => table.size <= table.threshold)
  BY DEF TableInv
<1>2. CASE /\ Found(table, k) = {}
           /\ Return(Refused(CC_ERR_KEY_NOT_FOUND)) /\ UNCHANGED table
  <2>1. k \notin DOMAIN MapOf(table)
    BY <1>1, <1>2, Searched
  <2>2. ret' = Refused(CC_ERR_KEY_NOT_FOUND) /\ table' = table
    BY <1>2 DEF Return
  <2>3. MapOf(table') = MapOf(table)
    BY <2>2
  <2>4. Abs!Absent(k)
    BY <2>1, <2>2, <2>3, SameRefusals DEF Abs!Absent
  <2>5. TableInv'
    BY <1>1, <2>2 DEF TableInv
  <2> QED
    BY <2>1, <2>2, <2>4, <2>5
<1>3. ASSUME NEW i \in Found(table, k),
             Return(Got(Chain(table, k)[i].value)), table' = Removed(table, k, i)
      PROVE  /\ TableInv' /\ k \in DOMAIN MapOf(table) /\ Abs!Delete(k)
             /\ \E j \in Found(table, k) : table' = Removed(table, k, j)
  <2> DEFINE u == Removed(table, k, i)
  <2>1. k \in DOMAIN MapOf(table) /\ MapOf(table)[k] = Chain(table, k)[i].value
    BY <1>1, Searched
  <2>2. /\ TableSound(u) /\ u.size = table.size - 1 /\ table.size > 0
        /\ u.threshold = table.threshold
        /\ MapOf(u) = MapWithout(MapOf(table), k)
    BY <1>1, RemovalStays
  <2>3. table' = u
    BY <1>3
  <2> HIDE DEF u
  <2>4. table.size \in Nat /\ table.threshold \in Nat
    BY <1>1, Limits
  <2>5. TableInv'
    <3>1. LoadFits => u.size <= u.threshold
      BY <1>1, <2>2, <2>4
    <3> QED
      BY <2>2, <2>3, <3>1 DEF TableInv
  <2>6. Abs!Delete(k)
    <3>1. ret' = Got(MapOf(table)[k])
      BY <1>3, <2>1 DEF Return
    <3>2. MapOf(table') = MapWithout(MapOf(table), k)
      BY <2>2, <2>3
    <3> QED
      BY <2>1, <3>1, <3>2, SameChanges
  <2> QED
    BY <1>3, <2>1, <2>5, <2>6
<1> QED
  BY <1>2, <1>3 DEF TakeOut

LEMMA RemoveStays ==
  ASSUME TableInv, NEW k \in Keys, Remove(k)
  PROVE  TableInv' /\ (Abs!Delete(k) \/ Abs!Absent(k)) /\ EndWalk
BY TakeOutStays DEF Remove

LEMMA RemoveAllStays ==
  ASSUME TableInv, RemoveAll
  PROVE  TableInv' /\ Abs!Clear /\ EndWalk
<1> DEFINE u == [table EXCEPT !.buckets = [b \in DOMAIN @ |-> <<>>],
                              !.size = @ - Len(InOrder(table))]
<1>1. TableSound(table)
  BY DEF TableInv
<1>2. table' = u /\ ret' = Done /\ EndWalk
  BY DEF RemoveAll, Update, Return
<1>3. /\ TableSound(u) /\ u.size = 0 /\ u.threshold = table.threshold
      /\ MapOf(u) = [k \in {} |-> NoElement]
  BY <1>1, ClearedStays
<1> HIDE DEF u
<1>4. TableInv'
  <2>1. u.threshold \in Nat
    BY <1>3, Limits
  <2>2. u.size <= u.threshold
    BY <1>3, <2>1
  <2> QED
    BY <1>2, <1>3, <2>2 DEF TableInv
<1>5. Abs!Clear
  <2>1. MapOf(table') = [k \in {} |-> NoElement]
    BY <1>2, <1>3
  <2> QED
    BY <1>2, <2>1, SameAnswers DEF Abs!Clear, Abs!Nothing
<1> QED
  BY <1>2, <1>4, <1>5

LEMMA ContainsKeyStays ==
  ASSUME TableInv, NEW k \in Keys, k # NullKey, ContainsKey(k)
  PROVE  Abs!Contains(k) /\ Stale /\ UNCHANGED <<table, iter>>
<1>1. TableSound(table)
  BY DEF TableInv
<1>2. Places(table.buckets[TableIndex(table, k)], k) = Found(table, k)
  BY DEF Found, Chain, Bucket
<1> DEFINE b == Found(table, k) # {}
<1>3. b = (k \in DOMAIN MapOf(table)) /\ b \in BOOLEAN
  BY <1>1, Searched
<1>4. ret' = Truth(b) /\ Stale /\ UNCHANGED <<table, iter>>
  BY <1>2 DEF ContainsKey, Answer, Return
<1>5. MapOf(table') = MapOf(table)
  BY <1>4
<1> HIDE DEF b
<1>6. ret' = Abs!Truth(k \in DOMAIN MapOf(table))
  BY <1>3, <1>4, SameAnswers
<1> QED
  BY <1>4, <1>5, <1>6 DEF Abs!Contains

LEMMA GetKeysStays ==
  ASSUME TableInv, GetKeys
  PROVE  (Abs!AllKeys \/ Abs!NoKeys) /\ Stale /\ UNCHANGED <<table, iter>>
<1>1. TableSound(table)
  BY DEF TableInv
<1>2. Stale /\ UNCHANGED <<table, iter>>
  BY DEF GetKeys, Answer
<1>3. MapOf(table') = MapOf(table)
  BY <1>2
<1>4. CASE Answer(Refused(CC_ERR_INVALID_CAPACITY)) \/ Answer(Refused(CC_ERR_ALLOC))
  <2>1. PICK st \in {CC_ERR_INVALID_CAPACITY, CC_ERR_ALLOC} : ret' = Refused(st)
    BY <1>4 DEF Answer, Return
  <2> QED
    BY <1>2, <1>3, <2>1, SameRefusals
<1>5. CASE /\ table.size # 0
           /\ Answer(Got([i \in DOMAIN InOrder(table) |-> InOrder(table)[i].key]))
  <2> DEFINE all == InOrder(table)
             m == MapOf(table)
             n == Len(all)
             order == [i \in DOMAIN all |-> all[i].key]
  <2>1. /\ all \in Seq(EntrySet) /\ Apart(all) /\ SX!ToSet(all) = In(table.buckets)
        /\ table.size = n /\ Unique(In(table.buckets)) /\ m = MapFrom(In(table.buckets))
    BY <1>1, Counted
  <2>2. Cardinality(DOMAIN m) = n
    BY <1>1, <2>1, OneEach
  <2>3. ret' = Got(order)
    BY <1>5 DEF Answer, Return
  <2> HIDE DEF all, n, m
  <2>4. DOMAIN all = 1..n /\ n \in Nat /\ \A i \in 1..n : all[i] \in SX!ToSet(all)
    BY <2>1, Members DEF n
  <2>5. \A i \in 1..n : all[i].key \in DOMAIN m
    BY <2>1, <2>4, Lookup
  <2>6. order \in [1..n -> DOMAIN m] /\ \A i \in 1..n : order[i] = all[i].key
    BY <2>4, <2>5
  <2>7. \A i, j \in DOMAIN order : order[i] = order[j] => i = j
    BY <2>1, <2>4, <2>6 DEF Apart
  <2>8. m # Abs!Nothing
    <3>1. DOMAIN m # {}
      BY <1>5, <2>1, <2>2, FS_EmptySet
    <3>2. DOMAIN Abs!Nothing = {}
      BY DEF Abs!Nothing
    <3> QED
      BY <3>1, <3>2
  <2> HIDE DEF order
  <2>9. ret' = Abs!Got(order) /\ m' = m
    BY <1>3, <2>3, SameAnswers DEF m
  <2>10. order \in [1..Cardinality(DOMAIN m) -> DOMAIN m]
    BY <2>2, <2>6
  <2>11. Abs!AllKeys
    <3>1. order \in [1..Cardinality(DOMAIN MapOf(table)) -> DOMAIN MapOf(table)]
      BY <2>10 DEF m
    <3>2. /\ MapOf(table) # Abs!Nothing
          /\ ret' = Abs!Got(order) /\ UNCHANGED MapOf(table)
      BY <1>3, <2>8, <2>9 DEF m
    <3>3. Abs!Cardinality(DOMAIN MapOf(table)) = Cardinality(DOMAIN MapOf(table))
      BY Zenon DEF Abs!Cardinality, Cardinality
    <3> QED
      BY <2>7, <3>1, <3>2, <3>3, Zenon DEF Abs!AllKeys
  <2> QED
    BY <1>2, <2>11
<1> QED
  BY <1>4, <1>5 DEF GetKeys

-----------------------------------------------------------------------------
\* The iteration

\* The keys that are in chain b from place i on, or in a later bucket.
Ahead(t, b, i) ==
  {k \in DOMAIN MapOf(t) :
     Bucket(t, k) > b \/ (Bucket(t, k) = b /\ \E j \in Found(t, k) : j >= i)}

\* An iteration owes its client the entry it stands at and those ahead; the entry
\* it has just returned is still in the table.
WalkInv ==
  /\ walk = [on |-> walk.on, owed |-> walk.owed, fresh |-> walk.fresh]
  /\ iter = [bucket_index |-> iter.bucket_index, prev_entry |-> iter.prev_entry,
             next_entry |-> iter.next_entry]
  /\ walk.on \in BOOLEAN /\ walk.fresh \in BOOLEAN
  /\ walk.on => \/ iter.next_entry = NoEntry /\ walk.owed = {}
                \/ /\ iter.next_entry \in Keys
                   /\ iter.bucket_index = Bucket(table, iter.next_entry)
                   /\ \E i \in Found(table, iter.next_entry) :
                        walk.owed = Ahead(table, iter.bucket_index, i)
  /\ walk.fresh => /\ walk.on
                   /\ iter.prev_entry \in DOMAIN MapOf(table) \ walk.owed

HashTableInv == TableInv /\ WalkInv

LEMMA KeysInMap ==
  ASSUME NEW t, TableSound(t), NEW k \in DOMAIN MapOf(t)
  PROVE  /\ k \in Keys /\ Bucket(t, k) \in 0..(t.capacity - 1)
         /\ \E j \in Found(t, k) : j \in Nat \ {0}
<1>1. k \in Keys
  <2>1. PICK e \in In(t.buckets) : e.key = k
    <3>1. DOMAIN MapOf(t) = {e.key : e \in In(t.buckets)}
      BY MapOfTable, KeysOf
    <3> QED
      BY <3>1
  <2>2. e \in EntrySet
    BY Whereabouts DEF TableSound
  <2> QED
    BY <2>1, <2>2 DEF EntrySet
<1>2. /\ Bucket(t, k) \in 0..(t.capacity - 1) /\ Found(t, k) # {}
      /\ Found(t, k) \subseteq 1..Len(Chain(t, k))
  BY <1>1, Searched
<1> QED
  BY <1>1, <1>2

LEMMA WalkEnds ==
  ASSUME WalkInv, EndWalk
  PROVE  WalkInv'
BY DEF WalkInv, EndWalk, NoWalk

LEMMA WalkStales ==
  ASSUME WalkInv, Stale, UNCHANGED <<table, iter>>
  PROVE  WalkInv'
<1> DEFINE on == walk.on
           owed == walk.owed
<1>1. walk = [on |-> on, owed |-> owed, fresh |-> walk.fresh]
  BY DEF WalkInv
<1>2. walk' = [on |-> on, owed |-> owed, fresh |-> FALSE]
  BY <1>1 DEF Stale
<1>3. walk'.on = walk.on /\ walk'.owed = walk.owed /\ walk'.fresh = FALSE
  BY <1>2
<1>4. walk' = [on |-> walk'.on, owed |-> walk'.owed, fresh |-> walk'.fresh]
  BY <1>2, <1>3
<1>5. table' = table /\ iter' = iter
  OBVIOUS
<1> HIDE DEF on, owed
<1> QED
  BY <1>3, <1>4, <1>5 DEF WalkInv

\* The first of the buckets from b on that are not empty.
LEMMA FirstOccupied ==
  ASSUME TableSound(table), NEW b \in Nat, Occupied(b) # {}
  PROVE  /\ First(b) \in Occupied(b) /\ First(b) >= b
         /\ \A j \in Occupied(b) : First(b) <= j
         /\ Head1(First(b)) \in Keys
         /\ Bucket(table, Head1(First(b))) = First(b)
         /\ 1 \in Found(table, Head1(First(b)))
<1> DEFINE T == Occupied(b)
           x == First(b)
           n == table.capacity
           B == table.buckets
           c == B[x]
           k == c[1].key
<1>1. n \in Nat \ {0} /\ Chains(B, n)
  BY DEF TableSound
<1>2. \A j \in T : j \in b..(n - 1) /\ j \in 0..(n - 1) /\ j \in Nat /\ B[j] # <<>>
  BY <1>1 DEF Occupied
<1> HIDE DEF T
<1>3. \E j \in T : \A i \in T : j <= i
  <2>1. T \subseteq Nat /\ T # {}
    BY <1>2 DEF T
  <2> QED
    BY <2>1, Least
<1>4. x \in T /\ \A i \in T : x <= i
  <2>1. x = CHOOSE j \in T : \A i \in T : j <= i
    BY DEF First, T
  <2> HIDE DEF x
  <2> QED
    BY <1>3, <2>1
<1> HIDE DEF x, n, B
<1>5. x \in b..(n - 1) /\ x \in 0..(n - 1) /\ B[x] # <<>>
  BY <1>2, <1>4
<1>6. c \in Seq(EntrySet) /\ Placed(c, n, x)
  BY <1>1, <1>5 DEF Chains
<1>7. 1 \in 1..Len(c) /\ 1 \in DOMAIN c /\ c[1] \in EntrySet
  BY <1>5, <1>6
<1> HIDE DEF c
<1>8. k \in Keys /\ HashOf(k) % n = x
  BY <1>6, <1>7 DEF Placed, EntrySet
<1>9. Bucket(table, k) = x
  BY <1>8, Searched DEF n
<1>10. Chain(table, k) = c
  BY <1>9 DEF Chain, B, c
<1>11. 1 \in Found(table, k)
  <2>1. Found(table, k) = {i \in 1..Len(c) : c[i].key = k}
    BY <1>8, <1>10, Searched
  <2> QED
    BY <1>7, <2>1
<1>12. Head1(x) = k
  BY DEF Head1, B, c
<1> QED
  BY <1>4, <1>5, <1>8, <1>9, <1>11, <1>12 DEF x, T

\* What is in the buckets from b on is ahead of the head of the first of them,
\* and nothing is there when they are all empty.
LEMMA AheadOfFirst ==
  ASSUME TableSound(table), NEW b \in Nat
  PROVE  LET rest == {k \in DOMAIN MapOf(table) : Bucket(table, k) >= b}
         IN  /\ Occupied(b) = {} => rest = {}
             /\ Occupied(b) # {} => rest = Ahead(table, First(b), 1)
<1> DEFINE rest == {k \in DOMAIN MapOf(table) : Bucket(table, k) >= b}
           n == table.capacity
<1>1. ASSUME NEW k \in rest PROVE Bucket(table, k) \in Occupied(b)
  <2>1. k \in Keys /\ Bucket(table, k) \in 0..(n - 1) /\ Found(table, k) # {}
    BY KeysInMap
  <2>2. Chain(table, k) # <<>>
    BY <2>1, Searched
  <2>3. Bucket(table, k) \in b..(n - 1)
    <3>1. n \in Nat
      BY DEF TableSound
    <3> HIDE DEF n
    <3> QED
      BY <2>1, <3>1
  <2> QED
    BY <2>2, <2>3 DEF Occupied, Chain
<1>2. ASSUME Occupied(b) # {} PROVE rest = Ahead(table, First(b), 1)
  <2> DEFINE x == First(b)
  <2>1. x \in Nat /\ x >= b /\ \A j \in Occupied(b) : x <= j
    <3>1. First(b) \in Occupied(b)
      BY <1>2, FirstOccupied
    <3>2. First(b) \in b..(n - 1) /\ n \in Nat
      BY <3>1 DEF Occupied, TableSound
    <3> HIDE DEF n
    <3>3. First(b) \in Nat
      BY <3>2
    <3> QED
      BY <1>2, <3>3, FirstOccupied
  <2> HIDE DEF x
  <2>2. ASSUME NEW k \in DOMAIN MapOf(table)
        PROVE  k \in rest <=> k \in Ahead(table, x, 1)
    <3> DEFINE a == Bucket(table, k)
    <3>1. a \in Nat /\ \E j \in Found(table, k) : j >= 1
      <4>1. a \in 0..(n - 1) /\ \E j \in Found(table, k) : j \in Nat \ {0}
        BY KeysInMap
      <4> HIDE DEF a
      <4> QED
        BY <4>1
    <3>2. k \in rest <=> a >= b
      OBVIOUS
    <3>3. k \in Ahead(table, x, 1) <=> a > x \/ a = x
      BY <3>1 DEF Ahead
    <3>4. a >= b => x <= a
      BY <1>1, <2>1, <3>2
    <3> HIDE DEF a, rest
    <3> QED
      BY <2>1, <3>1, <3>2, <3>3, <3>4
  <2>3. rest \subseteq DOMAIN MapOf(table) /\ Ahead(table, x, 1) \subseteq DOMAIN MapOf(table)
    BY DEF Ahead
  <2> HIDE DEF rest
  <2> QED
    BY <2>2, <2>3 DEF x
<1> HIDE DEF rest
<1> QED
  BY <1>1, <1>2 DEF rest

LEMMA IterInitStays ==
  ASSUME TableInv, IterInit
  PROVE  WalkInv' /\ Abs!Keep /\ UNCHANGED table
<1>1. TableSound(table) /\ table' = table
  BY DEF TableInv, IterInit
<1> DEFINE all == DOMAIN MapOf(table)
<1>2. all = {k \in all : Bucket(table, k) >= 0}
  BY <1>1, KeysInMap
<1>3. /\ walk' = [on |-> TRUE, owed |-> all, fresh |-> FALSE]
      /\ ret' = Done
  BY DEF IterInit, Return
<1>4. Abs!Keep
  <2>1. MapOf(table') = MapOf(table)
    BY <1>1
  <2> QED
    BY <1>3, <2>1, SameAnswers DEF Abs!Keep
<1>5. CASE Occupied(0) = {}
  <2>1. iter' = [bucket_index |-> 0, prev_entry |-> NoEntry, next_entry |-> NoEntry]
    BY <1>5 DEF IterInit
  <2>2. all = {}
    BY <1>1, <1>2, <1>5, AheadOfFirst
  <2> HIDE DEF all
  <2>3. WalkInv'
    BY <1>3, <2>1, <2>2 DEF WalkInv
  <2> QED
    BY <1>1, <1>4, <2>3
<1>6. CASE Occupied(0) # {}
  <2> DEFINE x == First(0)
             k == Head1(x)
  <2>1. iter' = [bucket_index |-> x, prev_entry |-> NoEntry, next_entry |-> k]
    BY <1>6 DEF IterInit
  <2>2. k \in Keys /\ x = Bucket(table, k) /\ 1 \in Found(table, k)
    BY <1>1, <1>6, FirstOccupied
  <2>3. all = Ahead(table, x, 1)
    BY <1>1, <1>2, <1>6, AheadOfFirst
  <2> HIDE DEF all, x, k
  <2>4. /\ walk'.on = TRUE /\ walk'.owed = all /\ walk'.fresh = FALSE
        /\ walk' = [on |-> walk'.on, owed |-> walk'.owed, fresh |-> walk'.fresh]
        /\ iter'.bucket_index = x /\ iter'.next_entry = k
        /\ iter' = [bucket_index |-> iter'.bucket_index,
                    prev_entry |-> iter'.prev_entry, next_entry |-> iter'.next_entry]
    BY <1>3, <2>1
  <2>5. WalkInv'
    BY <1>1, <2>2, <2>3, <2>4 DEF WalkInv
  <2> QED
    BY <1>1, <1>4, <2>5
<1> QED
  BY <1>5, <1>6

\* What an iteration still owes when it has passed the entry of k, at place i.
LEMMA AheadOfNext ==
  ASSUME TableSound(table), NEW k \in Keys, NEW i \in Found(table, k)
  PROVE  LET b == Bucket(table, k)
             c == Chain(table, k)
         IN  /\ k \in Ahead(table, b, i)
             /\ i < Len(c) =>
                  /\ c[i + 1].key \in Keys /\ Bucket(table, c[i + 1].key) = b
                  /\ i + 1 \in Found(table, c[i + 1].key)
                  /\ Ahead(table, b, i) \ {k} = Ahead(table, b, i + 1)
             /\ ~(i < Len(c)) =>
                  Ahead(table, b, i) \ {k} =
                    {h \in DOMAIN MapOf(table) : Bucket(table, h) >= b + 1}
<1> DEFINE b == Bucket(table, k)
           c == Chain(table, k)
           all == DOMAIN MapOf(table)
           n == table.capacity
           L == Len(c)
<1>1. /\ b \in 0..(n - 1) /\ b = HashOf(k) % n /\ c \in Seq(EntrySet) /\ Apart(c)
      /\ i \in 1..L /\ c[i].key = k /\ Found(table, k) = {i} /\ k \in all
  BY Searched
<1>2. n \in Nat \ {0} /\ Chains(table.buckets, n)
  BY DEF TableSound
<1>3. c = table.buckets[b] /\ DOMAIN c = 1..L /\ L \in Nat
  BY <1>1 DEF Chain
<1> HIDE DEF n
<1>4. b \in Nat
  BY <1>1, <1>2
<1> HIDE DEF b
<1>5. ASSUME NEW h \in Keys, Bucket(table, h) = b, NEW j \in Found(table, h)
      PROVE  j \in 1..L /\ c[j].key = h /\ Found(table, h) = {j} /\ (j = i <=> h = k)
  <2>1. Chain(table, h) = c
    BY <1>3, <1>5 DEF Chain
  <2> HIDE DEF c
  <2>2. j \in 1..L /\ c[j].key = h /\ Found(table, h) = {j}
    BY <2>1, Searched
  <2>3. j = i => h = k
    BY <1>1, <2>2
  <2>4. h = k => j = i
    BY <1>1, <2>2
  <2> QED
    BY <2>2, <2>3, <2>4
<1> HIDE DEF c, L
<1>6. i \in Nat /\ \A j \in 1..L : j \in Nat
  BY <1>1, <1>3
<1>7. k \in Ahead(table, b, i)
  BY <1>1, <1>6 DEF Ahead, b
<1>8. ASSUME NEW h \in all
      PROVE  /\ h \in Keys /\ Bucket(table, h) \in Nat
             /\ Bucket(table, h) = b => \E j \in 1..L : Found(table, h) = {j}
  <2>1. h \in Keys /\ Bucket(table, h) \in 0..(n - 1) /\ \E j \in Found(table, h) : TRUE
    BY KeysInMap DEF n
  <2> QED
    BY <1>2, <1>5, <2>1
<1>9. ASSUME i < L
      PROVE  /\ c[i + 1].key \in Keys /\ Bucket(table, c[i + 1].key) = b
             /\ i + 1 \in Found(table, c[i + 1].key)
             /\ Ahead(table, b, i) \ {k} = Ahead(table, b, i + 1)
  <2> DEFINE m == i + 1
             e == c[m]
  <2>1. m \in 1..L /\ m \in Nat
    BY <1>3, <1>6, <1>9
  <2> HIDE DEF m
  <2>2. e \in EntrySet /\ e \in SX!ToSet(c)
    BY <1>1, <1>3, <2>1 DEF SX!ToSet
  <2>3. e.key \in Keys /\ HashOf(e.key) % n = b
    <3>1. b \in 0..(n - 1)
      BY <1>1
    <3> QED
      BY <1>2, <1>3, <2>2, <3>1, InBucket DEF EntrySet
  <2>4. Bucket(table, e.key) = b
    BY <2>3, Searched DEF n
  <2>5. m \in Found(table, e.key)
    <3>1. Chain(table, e.key) = c
      BY <1>3, <2>4 DEF Chain
    <3> HIDE DEF e
    <3>2. Found(table, e.key) = {j \in 1..Len(c) : c[j].key = e.key}
      BY <2>3, <3>1, Searched
    <3> QED
      BY <2>1, <3>2 DEF e, L
  <2>6. ASSUME NEW h \in all
        PROVE  h \in Ahead(table, b, i) \ {k} <=> h \in Ahead(table, b, m)
    <3>1. CASE Bucket(table, h) = b
      <4>1. PICK j \in 1..L : Found(table, h) = {j}
        BY <1>8, <3>1
      <4>2. h \in Ahead(table, b, i) <=> j >= i
        BY <1>4, <1>6, <3>1, <4>1 DEF Ahead
      <4>3. h \in Ahead(table, b, m) <=> j >= m
        BY <1>4, <1>6, <2>1, <3>1, <4>1 DEF Ahead
      <4>4. j = i <=> h = k
        BY <1>5, <1>8, <3>1, <4>1
      <4>5. j \in Nat
        BY <1>6
      <4> QED
        BY <1>6, <4>2, <4>3, <4>4, <4>5 DEF m
    <3>2. CASE Bucket(table, h) # b
      <4>1. h # k
        BY <3>2 DEF b
      <4> QED
        BY <3>2, <4>1 DEF Ahead
    <3> QED
      BY <3>1, <3>2
  <2>7. Ahead(table, b, i) \subseteq all /\ Ahead(table, b, m) \subseteq all
    BY DEF Ahead
  <2> HIDE DEF all
  <2>8. Ahead(table, b, i) \ {k} = Ahead(table, b, m)
    BY <2>6, <2>7
  <2> QED
    BY <2>3, <2>4, <2>5, <2>8 DEF m
<1>10. ASSUME ~(i < L)
       PROVE  Ahead(table, b, i) \ {k} = {h \in all : Bucket(table, h) >= b + 1}
  <2>1. ASSUME NEW h \in all
        PROVE  h \in Ahead(table, b, i) \ {k} <=> Bucket(table, h) >= b + 1
    <3> DEFINE a == Bucket(table, h)
    <3>1. a \in Nat
      BY <1>8
    <3>2. CASE a = b
      <4>1. PICK j \in 1..L : Found(table, h) = {j}
        BY <1>8, <3>2
      <4>2. h \in Ahead(table, b, i) <=> j >= i
        BY <1>4, <1>6, <3>2, <4>1 DEF Ahead
      <4>3. j = i <=> h = k
        BY <1>5, <1>8, <3>2, <4>1
      <4>4. j >= i => j = i
        BY <1>1, <1>3, <1>10
      <4>5. ~(a >= b + 1)
        BY <1>4, <3>2
      <4> QED
        BY <4>2, <4>3, <4>4, <4>5
    <3>3. CASE a # b
      <4>1. h # k
        BY <3>3 DEF b
      <4>2. h \in Ahead(table, b, i) <=> a > b
        BY <3>3 DEF Ahead
      <4>3. a > b <=> a >= b + 1
        <5> HIDE DEF a
        <5> QED
          BY <1>4, <3>1
      <4> QED
        BY <4>1, <4>2, <4>3
    <3> QED
      BY <3>2, <3>3
  <2>2. Ahead(table, b, i) \subseteq all
    BY DEF Ahead
  <2> HIDE DEF all
  <2> QED
    BY <2>1, <2>2
<1> QED
  BY <1>7, <1>9, <1>10 DEF b, c, L, all

LEMMA IterNextStays ==
  ASSUME TableInv, WalkInv, IterNext
  PROVE  /\ WalkInv' /\ UNCHANGED table
         /\ \/ ret' = Refused(CC_ITER_END) /\ walk.owed = {} /\ Abs!WalkOver
            \/ /\ ret'.stat = CC_OK /\ ret'.out[1] \in walk.owed
               /\ iter.next_entry \in Keys /\ Abs!NextPair(iter.next_entry)
<1> DEFINE k == iter.next_entry
           c == Chain(table, k)
<1>1. TableSound(table) /\ walk.on
  BY DEF TableInv, IterNext
<1>2. CASE k = NoEntry /\ Answer(Refused(CC_ITER_END))
  <2>1. ret' = Refused(CC_ITER_END) /\ Stale /\ table' = table /\ iter' = iter
    BY <1>2 DEF Answer, Return
  <2>2. walk.owed = {}
    BY <1>1, <1>2, HashTableConstants DEF WalkInv, NoEntry
  <2>3. WalkInv'
    BY <2>1, WalkStales
  <2>4. MapOf(table') = MapOf(table)
    BY <2>1
  <2>5. Abs!WalkOver
    BY <2>1, <2>4, SameRefusals
  <2> QED
    BY <2>1, <2>2, <2>3, <2>5
<1>3. CASE k # NoEntry
  <2> DEFINE b == Bucket(table, k)
             i == CHOOSE j \in Places(c, k) : TRUE
             beyond == b + 1
             owed == walk.owed \ {k}
  <2>1. k \in Keys /\ iter.bucket_index = b
    BY <1>1, <1>3 DEF WalkInv
  <2>2. PICK j \in Found(table, k) : walk.owed = Ahead(table, b, j)
    BY <1>1, <1>3, <2>1 DEF WalkInv
  <2>3. Found(table, k) = Places(c, k) /\ Found(table, k) = {j}
    BY <1>1, <2>1, Searched DEF Found
  <2>4. i = j
    BY <2>3
  <2>5. k \in DOMAIN MapOf(table) /\ MapOf(table)[k] = c[j].value
    BY <1>1, <2>1, <2>3, Searched
  <2>6. /\ ret' = Got(<<k, c[i].value>>) /\ table' = table
        /\ walk' = [walk EXCEPT !.owed = @ \ {k}, !.fresh = TRUE]
        /\ iter' =
             IF i < Len(c)
             THEN [iter EXCEPT !.prev_entry = k, !.next_entry = c[i + 1].key]
             ELSE IF Occupied(beyond) = {}
             THEN [iter EXCEPT !.prev_entry = k, !.next_entry = NoEntry]
             ELSE [bucket_index |-> First(beyond), prev_entry |-> k,
                   next_entry |-> Head1(First(beyond))]
    <3>1. iter.bucket_index + 1 = beyond
      BY <2>1
    <3> HIDE DEF i, c, k, beyond
    <3> QED
      BY <1>1, <1>3, <3>1 DEF IterNext, Return, i, c, k
  <2>7. k \in walk.owed
    BY <1>1, <2>1, <2>2, AheadOfNext
  <2>8. Abs!NextPair(k)
    <3>1. MapOf(table') = MapOf(table) /\ ret' = Got(<<k, MapOf(table)[k]>>)
      BY <2>4, <2>5, <2>6
    <3> QED
      BY <2>5, <3>1, SameAnswers DEF Abs!NextPair
  <2>9. ret'.stat = CC_OK /\ ret'.out[1] = k
    BY <2>6 DEF Got, Result
  <2> HIDE DEF k, c, b, i, owed
  <2>10. walk' = [on |-> TRUE, owed |-> owed, fresh |-> TRUE]
    <3> DEFINE o == walk.owed
               n == walk.on
               r == walk.fresh
    <3>1. walk = [on |-> n, owed |-> o, fresh |-> r] /\ n = TRUE /\ owed = o \ {k}
      BY <1>1 DEF WalkInv, owed
    <3> HIDE DEF o, n, r
    <3> QED
      BY <2>6, <3>1
  <2>11. k \in DOMAIN MapOf(table) \ owed
    BY <2>5 DEF owed
  <2>12. ASSUME NEW a, NEW h, iter' = [bucket_index |-> a, prev_entry |-> k, next_entry |-> h],
                \/ h = NoEntry /\ owed = {}
                \/ /\ h \in Keys /\ a = Bucket(table, h)
                   /\ \E m \in Found(table, h) : owed = Ahead(table, a, m)
         PROVE  WalkInv'
    <3>1. /\ walk'.on = TRUE /\ walk'.owed = owed /\ walk'.fresh = TRUE
          /\ walk' = [on |-> walk'.on, owed |-> walk'.owed, fresh |-> walk'.fresh]
      BY <2>10
    <3>2. /\ iter'.bucket_index = a /\ iter'.prev_entry = k /\ iter'.next_entry = h
          /\ iter' = [bucket_index |-> iter'.bucket_index,
                      prev_entry |-> iter'.prev_entry, next_entry |-> iter'.next_entry]
      BY <2>12
    <3>3. table' = table
      BY <2>6
    <3> QED
      BY <2>11, <2>12, <3>1, <3>2, <3>3 DEF WalkInv
  <2>13. \A h : [iter EXCEPT !.prev_entry = k, !.next_entry = h] =
                  [bucket_index |-> b, prev_entry |-> k, next_entry |-> h]
    <3> DEFINE p == iter.prev_entry
               x == iter.next_entry
    <3>1. iter = [bucket_index |-> b, prev_entry |-> p, next_entry |-> x]
      BY <2>1 DEF WalkInv
    <3> HIDE DEF p, x
    <3> SUFFICES ASSUME NEW h
                 PROVE  [iter EXCEPT !.prev_entry = k, !.next_entry = h] =
                          [bucket_index |-> b, prev_entry |-> k, next_entry |-> h]
      OBVIOUS
    <3> DEFINE r == [iter EXCEPT !.prev_entry = k]
    <3>2. r = [bucket_index |-> b, prev_entry |-> k, next_entry |-> x]
      BY <3>1
    <3> HIDE DEF r
    <3>3. [r EXCEPT !.next_entry = h] =
            [bucket_index |-> b, prev_entry |-> k, next_entry |-> h]
      BY <3>2
    <3> QED
      BY <3>3 DEF r
  <2>14. CASE i < Len(c)
    <3> DEFINE h == c[i + 1].key
    <3>1. iter' = [bucket_index |-> b, prev_entry |-> k, next_entry |-> h]
      BY <2>6, <2>13, <2>14
    <3>2. h \in Keys /\ Bucket(table, h) = b /\ j + 1 \in Found(table, h)
          /\ owed = Ahead(table, b, j + 1)
      BY <1>1, <2>1, <2>2, <2>4, <2>14, AheadOfNext DEF b, c, owed
    <3> HIDE DEF h
    <3>3. WalkInv'
      BY <2>12, <3>1, <3>2
    <3> QED
      BY <2>6, <2>7, <2>8, <2>9, <2>1, <3>3 DEF k
  <2>15. CASE ~(i < Len(c))
    <3> DEFINE rest == {h \in DOMAIN MapOf(table) : Bucket(table, h) >= beyond}
    <3>1. owed = rest
      BY <1>1, <2>1, <2>2, <2>4, <2>15, AheadOfNext DEF b, c, owed
    <3>2. beyond \in Nat
      <4>1. b \in 0..(table.capacity - 1) /\ table.capacity \in Nat
        BY <1>1, <2>1, Searched DEF b, TableSound
      <4> QED
        BY <4>1
    <3> HIDE DEF beyond
    <3>3. CASE Occupied(beyond) = {}
      <4>1. iter' = [bucket_index |-> b, prev_entry |-> k, next_entry |-> NoEntry]
        BY <2>6, <2>13, <2>15, <3>3
      <4>2. owed = {}
        BY <1>1, <3>1, <3>2, <3>3, AheadOfFirst
      <4>3. WalkInv'
        BY <2>12, <4>1, <4>2
      <4> QED
        BY <2>6, <2>7, <2>8, <2>9, <2>1, <4>3 DEF k
    <3>4. CASE Occupied(beyond) # {}
      <4> DEFINE x == First(beyond)
                 h == Head1(x)
      <4>1. iter' = [bucket_index |-> x, prev_entry |-> k, next_entry |-> h]
        BY <2>6, <2>15, <3>4
      <4>2. owed = Ahead(table, x, 1)
        BY <1>1, <3>1, <3>2, <3>4, AheadOfFirst
      <4>3. h \in Keys /\ x = Bucket(table, h) /\ 1 \in Found(table, h)
        BY <1>1, <3>2, <3>4, FirstOccupied
      <4> HIDE DEF x, h
      <4>4. WalkInv'
        BY <2>12, <4>1, <4>2, <4>3
      <4> QED
        BY <2>6, <2>7, <2>8, <2>9, <2>1, <4>4 DEF k
    <3> QED
      BY <3>3, <3>4
  <2> QED
    BY <2>14, <2>15
<1> QED
  BY <1>2, <1>3 DEF IterNext

\* Where the other keys are when k is taken out of place p.
LEMMA FoundAfter ==
  ASSUME NEW t, TableSound(t), NEW k \in Keys, NEW p \in Found(t, k),
         NEW h \in Keys, h # k, NEW j \in Found(t, h), NEW u, u = Removed(t, k, p)
  PROVE  /\ Bucket(u, h) = Bucket(t, h)
         /\ IF Bucket(t, h) # Bucket(t, k) \/ j < p THEN j \in Found(u, h)
                                                    ELSE j > p /\ j - 1 \in Found(u, h)
<1> DEFINE b == Bucket(t, k)
           a == Bucket(t, h)
           c == Chain(t, k)
           d == Chain(t, h)
           w == SX!RemoveAt(c, p)
           B == t.buckets
           C == [B EXCEPT ![b] = w]
           n == t.capacity
           s == t.size - 1
<1>1. /\ TableSound(u) /\ Shaped(t) /\ n \in Nat \ {0} /\ Chains(B, n)
  BY RemovalStays DEF TableSound
<1>2. /\ b \in 0..(n - 1) /\ c \in Seq(EntrySet) /\ Apart(c) /\ p \in 1..Len(c)
      /\ c[p].key = k
  BY Searched
<1>3. /\ a = HashOf(h) % n /\ a \in 0..(n - 1) /\ d \in Seq(EntrySet)
      /\ j \in 1..Len(d) /\ d[j].key = h
  BY Searched
<1>4. u.capacity = n /\ u.buckets = C
  <2>1. c = B[b]
    BY DEF Chain
  <2>2. u = [t EXCEPT !.buckets = C, !.size = s]
    BY <2>1 DEF Removed
  <2>3. t = [capacity |-> t.capacity, threshold |-> t.threshold, size |-> t.size,
             buckets |-> t.buckets]
    BY <1>1 DEF Shaped
  <2> HIDE DEF C, s
  <2> QED
    BY <2>2, <2>3
<1>5. Bucket(u, h) = a
  <2>1. Bucket(u, h) = HashOf(h) % u.capacity
    BY <1>1, Searched
  <2> QED
    BY <1>3, <1>4, <2>1
<1> DEFINE z == Chain(u, h)
<1>6. Found(u, h) = {i \in 1..Len(z) : z[i].key = h} /\ z = C[a]
  <2>1. z = C[a]
    BY <1>4, <1>5 DEF Chain
  <2> QED
    BY <1>1, <2>1, Searched
<1>7. /\ w \in Seq(EntrySet) /\ Len(w) = Len(c) - 1
      /\ \A i \in 1..Len(w) : w[i] = IF i < p THEN c[i] ELSE c[i + 1]
  BY <1>2, TakenOut
<1>8. /\ a # b => C[a] = B[a]
      /\ a = b => C[a] = w
      /\ d = B[a] /\ c = B[b]
  <2>1. DOMAIN B = 0..(n - 1)
    BY <1>1 DEF Chains
  <2> HIDE DEF a, b
  <2> QED
    BY <1>2, <1>3, <2>1 DEF Chain, a, b
<1>9. CASE a # b
  <2>1. z = d
    BY <1>6, <1>8, <1>9
  <2> QED
    BY <1>3, <1>5, <1>6, <1>9, <2>1
<1>10. CASE a = b
  <2>1. z = w /\ d = c
    BY <1>6, <1>8, <1>10
  <2>2. j # p
    BY <1>2, <1>3, <2>1
  <2> DEFINE L == Len(c)
  <2>3. L \in Nat /\ j \in 1..L /\ p \in 1..L /\ Len(w) = L - 1
    BY <1>2, <1>3, <1>7, <2>1
  <2> HIDE DEF w, L, z, a, b, c, d
  <2>4. CASE j < p
    <3>1. j \in 1..Len(w) /\ w[j] = c[j]
      BY <1>7, <2>3, <2>4
    <3> QED
      BY <1>3, <1>5, <1>6, <2>1, <2>4, <3>1 DEF a, b
  <2>5. CASE ~(j < p)
    <3> DEFINE i == j - 1
    <3>1. i \in 1..Len(w) /\ ~(i < p) /\ i + 1 = j /\ j > p
      BY <2>2, <2>3, <2>5
    <3> HIDE DEF i
    <3>2. w[i] = c[j]
      BY <1>7, <3>1
    <3>3. i \in Found(u, h)
      BY <1>3, <1>6, <2>1, <3>1, <3>2
    <3> QED
      BY <1>5, <1>10, <2>5, <3>1, <3>3 DEF a, b, i
  <2> QED
    BY <2>4, <2>5
<1> QED
  BY <1>9, <1>10 DEF a, b

LEMMA IterRemoveStays ==
  ASSUME TableInv, WalkInv, IterRemove
  PROVE  TableInv' /\ WalkInv' /\ iter.prev_entry \in Keys /\ Abs!Delete(iter.prev_entry)
<1> DEFINE k == iter.prev_entry
           h == iter.next_entry
           b == iter.bucket_index
           owed == walk.owed
<1>1. TableSound(table) /\ walk.fresh /\ TakeOut(k) /\ Stale /\ iter' = iter
  BY DEF TableInv, IterRemove
<1>2. walk.on = TRUE /\ k \in DOMAIN MapOf(table) /\ k \notin owed
  BY <1>1 DEF WalkInv
<1>3. k \in Keys
  BY <1>1, <1>2, KeysInMap
<1>4. /\ TableInv' /\ Abs!Delete(k)
      /\ \E i \in Found(table, k) : table' = Removed(table, k, i)
  BY <1>1, <1>2, <1>3, TakeOutStays
<1>5. PICK p \in Found(table, k) : table' = Removed(table, k, p)
  BY <1>4
<1> DEFINE u == Removed(table, k, p)
<1>6. table' = u
  BY <1>5
<1>7. TableSound(u) /\ DOMAIN MapOf(u) = DOMAIN MapOf(table) \ {k}
  <2>1. TableSound(u) /\ MapOf(u) = MapWithout(MapOf(table), k)
    BY <1>1, <1>3, <1>5, RemovalStays
  <2>2. \A m : DOMAIN MapWithout(m, k) = DOMAIN m \ {k}
    BY DEF MapWithout
  <2> HIDE DEF k, u
  <2> QED
    BY <2>1, <2>2
<1>8. ASSUME NEW g \in Keys, g # k, NEW j \in Found(table, g)
      PROVE  /\ Bucket(u, g) = Bucket(table, g)
             /\ IF Bucket(table, g) # Bucket(table, k) \/ j < p
                THEN j \in Found(u, g) ELSE j > p /\ j - 1 \in Found(u, g)
  BY <1>1, <1>3, <1>5, <1>8, FoundAfter
<1> HIDE DEF u
<1>9. /\ walk' = [on |-> TRUE, owed |-> owed, fresh |-> FALSE]
  <2> DEFINE n == walk.on
             r == walk.fresh
  <2>1. walk = [on |-> n, owed |-> owed, fresh |-> r] /\ n = TRUE
    BY <1>2 DEF WalkInv
  <2> HIDE DEF n, r, owed
  <2> QED
    BY <1>1, <2>1 DEF Stale
<1>10. \/ h = NoEntry /\ owed = {}
       \/ h \in Keys /\ b = Bucket(u, h) /\ \E m \in Found(u, h) : owed = Ahead(u, b, m)
  <2>1. CASE h = NoEntry /\ owed = {}
    BY <2>1
  <2>2. CASE /\ h \in Keys /\ b = Bucket(table, h)
             /\ \E m \in Found(table, h) : owed = Ahead(table, b, m)
    <3>1. PICK i \in Found(table, h) : owed = Ahead(table, b, i)
      BY <2>2
    <3>2. /\ Found(table, h) = {i} /\ h \in DOMAIN MapOf(table)
          /\ Found(table, k) = {p}
      BY <1>1, <1>3, <1>5, <2>2, <3>1, Searched
    <3>3. i \in Nat /\ p \in Nat
      BY <1>1, <1>3, <1>5, <2>2, <3>1, Searched
    <3>4. h \in owed
      BY <2>2, <3>1, <3>2, <3>3 DEF Ahead
    <3>5. h # k
      BY <1>2, <3>4
    <3>6. Bucket(u, h) = b
      BY <1>8, <2>2, <3>1, <3>5
    <3>7. /\ Bucket(table, k) \in Nat /\ b \in Nat
      <4>1. /\ Bucket(table, k) \in 0..(table.capacity - 1)
            /\ Bucket(table, h) \in 0..(table.capacity - 1)
        BY <1>1, <1>3, <2>2, Searched
      <4> QED
        BY <2>2, <4>1
    <3>8. ~(Bucket(table, k) > b) /\ (Bucket(table, k) = b => p < i)
      <4>1. ~(Bucket(table, k) > b \/ (Bucket(table, k) = b /\ \E j \in Found(table, k) : j >= i))
        BY <1>2, <3>1 DEF Ahead
      <4> QED
        BY <3>2, <3>3, <4>1
    <3> DEFINE m == IF Bucket(table, k) = b THEN i - 1 ELSE i
    <3>9. m \in Found(u, h) /\ m \in Nat
      <4>1. CASE Bucket(table, k) = b
        BY <1>8, <2>2, <3>1, <3>3, <3>5, <3>8, <4>1
      <4>2. CASE Bucket(table, k) # b
        BY <1>8, <2>2, <3>1, <3>3, <3>5, <4>2
      <4> QED
        BY <4>1, <4>2
    <3>10. ASSUME NEW g \in DOMAIN MapOf(u)
           PROVE  g \in Ahead(table, b, i) <=> g \in Ahead(u, b, m)
      <4>1. g \in DOMAIN MapOf(table) /\ g # k /\ g \in Keys
        BY <1>1, <1>7, <3>10, KeysInMap
      <4>2. PICK j \in Found(table, g) : j \in Nat \ {0}
        BY <1>1, <4>1, KeysInMap
      <4>3. Found(table, g) = {j}
        BY <1>1, <4>1, <4>2, Searched
      <4>4. Bucket(u, g) = Bucket(table, g)
        BY <1>8, <4>1, <4>2
      <4>5. CASE Bucket(table, g) # b
        BY <1>7, <4>1, <4>4, <4>5 DEF Ahead
      <4>6. CASE Bucket(table, g) = b
        <5>1. ~(Bucket(table, g) > b) /\ ~(Bucket(u, g) > b)
          BY <3>7, <4>4, <4>6
        <5>2. g \in Ahead(table, b, i) <=> j >= i
          BY <4>1, <4>3, <4>6, <5>1 DEF Ahead
        <5>3. PICK y \in Found(u, g) :
                y = IF Bucket(table, k) # b \/ j < p THEN j ELSE j - 1
          BY <1>8, <4>1, <4>2, <4>6
        <5>4. Found(u, g) = {y}
          BY <1>7, <4>1, <5>3, Searched
        <5>5. g \in Ahead(u, b, m) <=> y >= m
          BY <3>10, <4>4, <4>6, <5>1, <5>4 DEF Ahead
        <5>6. Bucket(table, k) = b => j # p
          <6>1. ASSUME Bucket(table, k) = b PROVE j < p \/ j > p
            BY <1>8, <4>1, <4>2, <4>6, <6>1
          <6> QED
            BY <3>3, <4>2, <6>1
        <5>7. j >= i <=> y >= m
          <6>1. CASE Bucket(table, k) # b
            BY <5>3, <6>1
          <6>2. CASE Bucket(table, k) = b
            BY <3>3, <3>8, <4>2, <5>3, <5>6, <6>2
          <6> QED
            BY <6>1, <6>2
        <5> QED
          BY <5>2, <5>5, <5>7
      <4> QED
        BY <4>5, <4>6
    <3>11. owed = Ahead(u, b, m)
      <4>1. Ahead(u, b, m) \subseteq DOMAIN MapOf(u)
        BY DEF Ahead
      <4>2. owed \subseteq DOMAIN MapOf(u)
        <5>1. Ahead(table, b, i) \subseteq DOMAIN MapOf(table)
          BY DEF Ahead
        <5> QED
          BY <1>2, <1>7, <3>1, <5>1
      <4> HIDE DEF m, owed
      <4> QED
        BY <3>1, <3>10, <4>1, <4>2
    <3> HIDE DEF m
    <3> QED
      BY <2>2, <3>6, <3>9, <3>11
  <2> QED
    BY <1>2, <2>1, <2>2 DEF WalkInv
<1>11. WalkInv'
  <2>1. /\ walk'.on = TRUE /\ walk'.owed = owed /\ walk'.fresh = FALSE
        /\ walk' = [on |-> walk'.on, owed |-> walk'.owed, fresh |-> walk'.fresh]
    BY <1>9
  <2>2. iter' = [bucket_index |-> iter'.bucket_index,
                 prev_entry |-> iter'.prev_entry, next_entry |-> iter'.next_entry]
    BY <1>1 DEF WalkInv
  <2> HIDE DEF owed
  <2> QED
    BY <1>1, <1>6, <1>10, <2>1, <2>2 DEF WalkInv
<1> QED
  BY <1>3, <1>4, <1>11

-----------------------------------------------------------------------------
\* The theorems

\* One step keeps the invariant and the promises, whichever call it is.
LEMMA CallsAreMapCalls ==
  ASSUME HashTableInv
  PROVE  CallsKeepPromise
<1>1. TableInv /\ WalkInv
  BY DEF HashTableInv
<1>2. \A k \in Keys, v \in Values : Add(k, v) => Abs!Put(k, v) \/ Abs!NoRoom
  BY <1>1, AddStays
<1>3. \A k \in Keys : Get(k) => Abs!Get(k) \/ Abs!Absent(k)
  BY <1>1, GetStays
<1>4. \A k \in Keys : Remove(k) => Abs!Delete(k) \/ Abs!Absent(k)
  BY <1>1, RemoveStays
<1>5. \A k \in Keys : k # NullKey /\ ContainsKey(k) => Abs!Contains(k)
  BY <1>1, ContainsKeyStays
<1>6. RemoveAll => Abs!Clear
  BY <1>1, RemoveAllStays
<1>7. GetKeys => Abs!AllKeys \/ Abs!NoKeys
  BY <1>1, GetKeysStays
<1>8. IterNext => Abs!NextPair(iter.next_entry) \/ Abs!WalkOver
  BY <1>1, IterNextStays
<1>9. IterRemove => Abs!Delete(iter.prev_entry)
  BY <1>1, IterRemoveStays
<1> QED
  BY <1>2, <1>3, <1>4, <1>5, <1>6, <1>7, <1>8, <1>9 DEF CallsKeepPromise

LEMMA StepKeepsInv ==
  ASSUME HashTableInv, [Next]_vars
  PROVE  HashTableInv' /\ [Abs!Next]_(Abs!vars)
<1>1. TableInv /\ WalkInv
  BY DEF HashTableInv
<1>2. ASSUME UNCHANGED table, WalkInv' PROVE HashTableInv'
  BY <1>1, <1>2 DEF HashTableInv, TableInv
<1>3. ASSUME NEW k \in Keys, NEW v \in Values, Add(k, v)
      PROVE  HashTableInv' /\ Abs!Next
  <2>1. TableInv' /\ (Abs!Put(k, v) \/ Abs!NoRoom) /\ EndWalk
    BY <1>1, <1>3, AddStays
  <2> QED
    BY <1>1, <2>1, WalkEnds DEF HashTableInv, Abs!Next
<1>4. ASSUME NEW k \in Keys, Get(k) PROVE HashTableInv' /\ Abs!Next
  <2>1. (Abs!Get(k) \/ Abs!Absent(k)) /\ Stale /\ UNCHANGED <<table, iter>>
    BY <1>1, <1>4, GetStays
  <2> QED
    BY <1>1, <1>2, <2>1, WalkStales DEF Abs!Next
<1>5. ASSUME NEW k \in Keys, Remove(k) PROVE HashTableInv' /\ Abs!Next
  <2>1. TableInv' /\ (Abs!Delete(k) \/ Abs!Absent(k)) /\ EndWalk
    BY <1>1, <1>5, RemoveStays
  <2> QED
    BY <1>1, <2>1, WalkEnds DEF HashTableInv, Abs!Next
<1>6. ASSUME NEW k \in Keys, k # NullKey, ContainsKey(k) PROVE HashTableInv' /\ Abs!Next
  <2>1. Abs!Contains(k) /\ Stale /\ UNCHANGED <<table, iter>>
    BY <1>1, <1>6, ContainsKeyStays
  <2> QED
    BY <1>1, <1>2, <2>1, WalkStales DEF Abs!Next
<1>7. ASSUME RemoveAll PROVE HashTableInv' /\ Abs!Next
  <2>1. TableInv' /\ Abs!Clear /\ EndWalk
    BY <1>1, <1>7, RemoveAllStays
  <2> QED
    BY <1>1, <2>1, WalkEnds DEF HashTableInv, Abs!Next
<1>8. ASSUME GetKeys PROVE HashTableInv' /\ Abs!Next
  <2>1. (Abs!AllKeys \/ Abs!NoKeys) /\ Stale /\ UNCHANGED <<table, iter>>
    BY <1>1, <1>8, GetKeysStays
  <2> QED
    BY <1>1, <1>2, <2>1, WalkStales DEF Abs!Next
<1>9. ASSUME IterInit PROVE HashTableInv' /\ Abs!Next
  <2>1. WalkInv' /\ Abs!Keep /\ UNCHANGED table
    BY <1>1, <1>9, IterInitStays
  <2> QED
    BY <1>2, <2>1 DEF Abs!Next
<1>10. ASSUME IterNext PROVE HashTableInv' /\ Abs!Next
  <2>1. /\ WalkInv' /\ UNCHANGED table
        /\ Abs!WalkOver \/ (iter.next_entry \in Keys /\ Abs!NextPair(iter.next_entry))
    BY <1>1, <1>10, IterNextStays
  <2> QED
    BY <1>2, <2>1 DEF Abs!Next
<1>11. ASSUME IterRemove PROVE HashTableInv' /\ Abs!Next
  <2>1. TableInv' /\ WalkInv' /\ iter.prev_entry \in Keys /\ Abs!Delete(iter.prev_entry)
    BY <1>1, <1>11, IterRemoveStays
  <2> QED
    BY <2>1 DEF HashTableInv, Abs!Next
<1>12. CASE UNCHANGED vars
  <2>1. table' = table /\ iter' = iter /\ walk' = walk /\ ret' = ret
    BY <1>12 DEF vars
  <2>2. MapOf(table') = MapOf(table)
    BY <2>1
  <2>3. WalkInv'
    BY <1>1, <2>1 DEF WalkInv
  <2> QED
    BY <1>2, <2>1, <2>2, <2>3 DEF Abs!vars
<1> QED
  BY <1>3, <1>4, <1>5, <1>6, <1>7, <1>8, <1>9, <1>10, <1>11, <1>12 DEF Next

LEMMA InitKeepsInv ==
  ASSUME Init
  PROVE  HashTableInv /\ Abs!Init
<1>1. /\ table = Empty(RoundPowTwo(InitialCapacity)) /\ ret = Done /\ walk = NoWalk
      /\ iter = [bucket_index |-> 0, prev_entry |-> NoEntry, next_entry |-> NoEntry]
  BY DEF Init
<1>2. TableSound(table) /\ MapOf(table) = [k \in {} |-> NoElement]
  BY <1>1, EmptySound
<1>3. table.size = 0 /\ table.threshold \in Nat
  <2>1. table.threshold \in Nat
    BY <1>2, Limits
  <2> QED
    BY <1>1, <2>1 DEF Empty
<1>4. TableInv
  <2>1. table.size <= table.threshold
    BY <1>3
  <2> QED
    BY <1>2, <2>1 DEF TableInv
<1>5. WalkInv
  BY <1>1 DEF WalkInv, NoWalk
<1>6. Abs!Init
  BY <1>1, <1>2, SameAnswers DEF Abs!Init, Abs!Nothing
<1> QED
  BY <1>4, <1>5, <1>6 DEF HashTableInv

\* Every state of every run: capacities are powers of two at most the largest, every
\* chain holds the entries that belong in it and no key twice, size counts them, and
\* an iteration owes what is from its next entry on.
THEOREM HashTableStaysSound == Spec => []HashTableInv
<1>1. Init => HashTableInv
  BY InitKeepsInv
<1>2. HashTableInv /\ [Next]_vars => HashTableInv'
  BY StepKeepsInv
<1> QED
  BY <1>1, <1>2, PTL DEF Spec

\* Every entry is in the bucket where get, remove and add search for its key, after
\* any number of resizes, and no key has two entries.
THEOREM EntriesStayReachable == Spec => []EntriesAreReachable
<1>1. HashTableInv => EntriesAreReachable
  <2> SUFFICES ASSUME HashTableInv PROVE EntriesAreReachable
    OBVIOUS
  <2>1. TableSound(table)
    BY DEF HashTableInv, TableInv
  <2>2. Cardinality(DOMAIN MapOf(table)) = Len(InOrder(table))
    BY <2>1, OneEach, Counted
  <2>3. ASSUME NEW b \in DOMAIN table.buckets, NEW i \in DOMAIN table.buckets[b]
        PROVE  Bucket(table, table.buckets[b][i].key) = b
    <3> DEFINE n == table.capacity
               B == table.buckets
               e == B[b][i]
    <3>1. n \in Nat \ {0} /\ Chains(B, n)
      BY <2>1 DEF TableSound
    <3>2. b \in 0..(n - 1) /\ e \in SX!ToSet(B[b])
      BY <2>3, <3>1 DEF Chains, SX!ToSet
    <3> HIDE DEF n, B, e
    <3>3. e \in In(B) /\ HashOf(e.key) % n = b
      BY <3>1, <3>2, InBucket
    <3>4. e.key \in Keys
      BY <3>1, <3>3, Whereabouts DEF EntrySet
    <3> QED
      BY <2>1, <3>3, <3>4, Searched DEF n, B, e
  <2> QED
    BY <2>2, <2>3 DEF EntriesAreReachable
<1> QED
  BY <1>1, HashTableStaysSound, PTL

\* size counts the entries and stays at most the threshold, whatever calls and failed
\* allocations there were, for every load factor that leaves room for one entry when
\* the initial capacity is doubled.
THEOREM LoadStaysBounded ==
  ASSUME LoadFits
  PROVE  Spec => []LoadIsBounded
<1>1. HashTableInv => LoadIsBounded
  BY Counted DEF HashTableInv, TableInv, LoadIsBounded
<1> QED
  BY <1>1, HashTableStaysSound, PTL

\* An iteration returns every entry once, also when it removes entries on its way,
\* and ends when none is left.
THEOREM WalksAreComplete == Spec => WalkIsComplete
<1>1. HashTableInv /\ [Next]_vars =>
        [IterNext => \/ ret' = Refused(CC_ITER_END) /\ walk.owed = {}
                     \/ ret'.stat = CC_OK /\ ret'.out[1] \in walk.owed]_vars
  BY IterNextStays DEF HashTableInv
<1> QED
  BY <1>1, HashTableStaysSound, PTL DEF Spec, WalkIsComplete

\* The table is a map: each call of cc_hashtable.c and of its iterator is the call of
\* its name on a map, or its refusal, whatever the hash function and the resizes.
THEOREM HashTableIsAMap == Spec => IsAMap
<1>1. Init => Abs!Init
  BY InitKeepsInv
<1>2. HashTableInv /\ [Next]_vars => [Abs!Next]_(Abs!vars)
  BY StepKeepsInv
<1>3. HashTableInv => CallsKeepPromise
  BY CallsAreMapCalls
<1>4. HashTableInv /\ [Next]_vars => [CallsKeepPromise]_vars
  BY <1>3
<1> QED
  BY <1>1, <1>2, <1>4, HashTableStaysSound, PTL DEF Spec, Abs!Spec, IsAMap

-----------------------------------------------------------------------------
\* The hash set over the hash table.

CONSTANT Dummy  \* set->dummy

VARIABLE answer  \* what the set makes of the table's result

Set == INSTANCE CCHashSet WITH Elements <- Keys, inner <- ret, ret <- answer

-----------------------------------------------------------------------------
\* The set's instance of the table is the table.

LEMMA SameCodes ==
  /\ Set!H!Done = Done
  /\ \A e : Set!H!Got(e) = Got(e)
  /\ \A st : Set!H!Refused(st) = Refused(st)
  /\ \A b : Set!H!Truth(b) = Truth(b)
  /\ Set!H!CC_ERR_ALLOC = CC_ERR_ALLOC
  /\ Set!H!CC_ERR_MAX_CAPACITY = CC_ERR_MAX_CAPACITY
  /\ Set!H!CC_ERR_KEY_NOT_FOUND = CC_ERR_KEY_NOT_FOUND
  /\ Set!H!CC_ITER_END = CC_ITER_END
  /\ Set!H!NoEntry = NoEntry
BY DEF Set!H!Done, Set!H!Got, Set!H!Refused, Set!H!Truth, Set!H!Result, Set!H!CC_OK,
       Done, Got, Refused, Truth, Result, CC_OK, Set!H!CC_ERR_ALLOC, CC_ERR_ALLOC,
       Set!H!CC_ERR_MAX_CAPACITY, CC_ERR_MAX_CAPACITY, Set!H!CC_ERR_KEY_NOT_FOUND,
       CC_ERR_KEY_NOT_FOUND, Set!H!CC_ITER_END, CC_ITER_END, Set!H!NoEntry, NoEntry

LEMMA SamePlaces ==
  /\ \A c, k : Set!H!Places(c, k) = Places(c, k)
  /\ \A t, k : Set!H!TableIndex(t, k) = TableIndex(t, k)
  /\ \A t, k : Set!H!Bucket(t, k) = Bucket(t, k)
  /\ \A t, k : Set!H!Chain(t, k) = Chain(t, k)
  /\ \A t, k : Set!H!Found(t, k) = Found(t, k)
  /\ \A t : Set!H!MapOf(t) = MapOf(t)
<1>1. \A c, k : Set!H!Places(c, k) = Places(c, k)
  BY DEF Set!H!Places, Places
<1>2. \A t, k : Set!H!Bucket(t, k) = Bucket(t, k) /\ Set!H!TableIndex(t, k) = TableIndex(t, k)
  BY DEF Set!H!Bucket, Bucket, Set!H!TableIndex, TableIndex
<1>3. \A t, k : Set!H!Chain(t, k) = Chain(t, k)
  BY <1>2 DEF Set!H!Chain, Chain
<1>4. \A t, k : Set!H!Found(t, k) = Found(t, k)
  BY <1>1, <1>3 DEF Set!H!Found, Found
<1>5. \A t : Set!H!MapOf(t) = MapOf(t)
  BY DEF Set!H!MapOf, MapOf, Set!H!Entries, Entries, Set!H!SX!ToSet, SX!ToSet
<1> QED
  BY <1>1, <1>2, <1>3, <1>4, <1>5

LEMMA SameSelection == \A s, keep : Set!H!Selected(s, keep) = Selected(s, keep)
BY Zenon DEF Set!H!Selected, Selected

LEMMA SameOrder == \A t : Set!H!InOrder(t) = InOrder(t)
BY Zenon DEF Set!H!InOrder, InOrder, Set!H!SX!FlattenSeq, SX!FlattenSeq

LEMMA SameTables ==
  /\ \A t : Set!H!MakeRoom(t) = MakeRoom(t)
  /\ \A t, k, v : Set!H!Replaced(t, k, v) = Replaced(t, k, v)
  /\ \A t, k, v : Set!H!Inserted(t, k, v) = Inserted(t, k, v)
  /\ \A t, k, i : Set!H!Removed(t, k, i) = Removed(t, k, i)
<1>1. \A t, n : Set!H!MoveEntries(t, n) = MoveEntries(t, n)
  <2>1. \A t, n, b : Set!H!WithIndex(t, n, b) = WithIndex(t, n, b)
    BY SameOrder DEF Set!H!WithIndex, WithIndex, Set!H!SX!ToSet, SX!ToSet
  <2> QED
    BY <2>1, SameOrder, SameSelection
       DEF Set!H!MoveEntries, MoveEntries, Set!H!SX!Reverse, SX!Reverse
<1>2. \A t, n : Set!H!Resized(t, n) = Resized(t, n)
  BY <1>1 DEF Set!H!Resized, Resized, Set!H!Threshold, Threshold
<1>3. \A t : Set!H!MakeRoom(t) = MakeRoom(t)
  BY <1>2 DEF Set!H!MakeRoom, MakeRoom
<1>4. \A t, k, v : Set!H!Replaced(t, k, v) = Replaced(t, k, v)
  BY SamePlaces DEF Set!H!Replaced, Replaced
<1>5. \A t, k, v : Set!H!Inserted(t, k, v) = Inserted(t, k, v)
  BY SamePlaces DEF Set!H!Inserted, Inserted, Set!H!Entry, Entry
<1>6. \A t, k, i : Set!H!Removed(t, k, i) = Removed(t, k, i)
  BY SamePlaces DEF Set!H!Removed, Removed, Set!H!SX!RemoveAt, SX!RemoveAt
<1> QED
  BY <1>3, <1>4, <1>5, <1>6

LEMMA SameWays ==
  /\ \A t, r : Set!H!Update(t, r) <=> Update(t, r)
  /\ \A st : Set!H!Refuse(st) <=> Refuse(st)
  /\ \A r : Set!H!Answer(r) <=> Answer(r)
  /\ \A r : Set!H!Return(r) <=> Return(r)
  /\ Set!H!EndWalk <=> EndWalk
  /\ Set!H!Stale <=> Stale
BY SameCodes
   DEF Set!H!Update, Set!H!Refuse, Set!H!Answer, Set!H!Return, Set!H!EndWalk,
       Set!H!NoWalk, Set!H!Stale, Update, Refuse, Answer, Return, EndWalk, NoWalk, Stale

LEMMA SameCalls ==
  /\ \A k, v : Set!H!Add(k, v) <=> Add(k, v)
  /\ \A k : Set!H!Remove(k) <=> Remove(k)
  /\ Set!H!RemoveAll <=> RemoveAll
  /\ \A k : Set!H!ContainsKey(k) <=> ContainsKey(k)
<1>1. \A k, v : Set!H!Add(k, v) <=> Add(k, v)
  BY SameCodes, SamePlaces, SameTables, SameWays DEF Set!H!Add, Add
<1>2. \A k : Set!H!Remove(k) <=> Remove(k)
  BY SameCodes, SamePlaces, SameTables, SameWays
     DEF Set!H!Remove, Remove, Set!H!TakeOut, TakeOut
<1>3. Set!H!RemoveAll <=> RemoveAll
  BY SameCodes, SameOrder, SameWays DEF Set!H!RemoveAll, RemoveAll
<1>4. \A k : Set!H!ContainsKey(k) <=> ContainsKey(k)
  BY SameCodes, SamePlaces, SameWays DEF Set!H!ContainsKey, ContainsKey
<1> QED
  BY <1>1, <1>2, <1>3, <1>4

LEMMA SameIteration ==
  /\ Set!H!IterInit <=> IterInit
  /\ Set!H!IterNext <=> IterNext
  /\ Set!H!IterRemove <=> IterRemove
<1>1. /\ \A b : Set!H!Occupied(b) = Occupied(b)
      /\ \A b : Set!H!First(b) = First(b)
      /\ \A b : Set!H!Head1(b) = Head1(b)
  BY DEF Set!H!Occupied, Occupied, Set!H!First, First, Set!H!Head1, Head1
<1>2. Set!H!IterInit <=> IterInit
  BY <1>1, SameCodes, SamePlaces, SameWays DEF Set!H!IterInit, IterInit
<1>3. Set!H!IterNext <=> IterNext
  BY <1>1, SameCodes, SamePlaces, SameWays DEF Set!H!IterNext, IterNext
<1>4. Set!H!IterRemove <=> IterRemove
  BY SameCodes, SamePlaces, SameTables, SameWays
     DEF Set!H!IterRemove, IterRemove, Set!H!TakeOut, TakeOut
<1> QED
  BY <1>2, <1>3, <1>4

LEMMA SameStart == Set!H!Init <=> Init
<1>1. Set!H!RoundPowTwo(InitialCapacity) = RoundPowTwo(InitialCapacity)
  BY DEF Set!H!RoundPowTwo, RoundPowTwo, Set!H!UpperPowTwo, UpperPowTwo,
         Set!H!IsPowerOfTwo, IsPowerOfTwo
<1>2. \A n : Set!H!Empty(n) = Empty(n)
  BY DEF Set!H!Empty, Empty, Set!H!Threshold, Threshold
<1> QED
  BY <1>1, <1>2, SameCodes DEF Set!H!Init, Init, Set!H!NoWalk, NoWalk

-----------------------------------------------------------------------------
\* What a call does to the members

Held == DOMAIN MapOf(table)

\* The entry a removal through the iterator would take out.
Latest == IF walk.fresh THEN iter.prev_entry ELSE NoElement

LEMMA SameAnswersOfSet ==
  /\ Set!Abs!Done = Done
  /\ \A e : Set!Abs!Got(e) = Got(e)
  /\ \A st : Set!Abs!Refused(st) = Refused(st)
  /\ \A b : Set!Abs!Truth(b) = Truth(b)
  /\ Set!CC_ERR_KEY_NOT_FOUND = CC_ERR_KEY_NOT_FOUND
  /\ CC_ERR_KEY_NOT_FOUND \in Set!Abs!Errors
BY DEF Set!Abs!Done, Set!Abs!Got, Set!Abs!Refused, Set!Abs!Truth, Set!Abs!Result,
       Set!Abs!CC_OK, Done, Got, Refused, Truth, Result, CC_OK,
       Set!CC_ERR_KEY_NOT_FOUND, CC_ERR_KEY_NOT_FOUND, Set!Abs!Errors,
       Set!Abs!CC_ERR_KEY_NOT_FOUND

LEMMA MapToSet ==
  ASSUME NEW k, NEW v
  PROVE  /\ Abs!Put(k, v) => ret' = Done /\ Held' = Held \cup {k}
         /\ Abs!NoRoom => /\ \E st \in {CC_ERR_ALLOC, CC_ERR_MAX_CAPACITY} : ret' = Refused(st)
                          /\ Held' = Held
         /\ Abs!Delete(k) => /\ ret'.stat = CC_OK /\ k \in Held
                             /\ Held' = Held \ {k}
         /\ Abs!Absent(k) => /\ ret' = Refused(CC_ERR_KEY_NOT_FOUND) /\ k \notin Held
                             /\ Held' = Held
         /\ Abs!Contains(k) => ret' = Truth(k \in Held) /\ Held' = Held
         /\ Abs!Clear => ret' = Done /\ Held' = {}
         /\ Abs!Keep => ret' = Done /\ Held' = Held
<1>1. Abs!Put(k, v) => ret' = Done /\ Held' = Held \cup {k}
  BY SameAnswers DEF Abs!Put, Abs!With, Held
<1>2. Abs!NoRoom => /\ \E st \in {CC_ERR_ALLOC, CC_ERR_MAX_CAPACITY} : ret' = Refused(st)
                    /\ Held' = Held
  BY SameAnswers
     DEF Abs!NoRoom, Abs!Refuse, Abs!CC_ERR_ALLOC, Abs!CC_ERR_MAX_CAPACITY,
         CC_ERR_ALLOC, CC_ERR_MAX_CAPACITY, Held
<1>3. Abs!Delete(k) => /\ ret'.stat = CC_OK /\ k \in Held
                       /\ Held' = Held \ {k}
  BY SameAnswers DEF Abs!Delete, Abs!Without, Held, Got, Result
<1>4. Abs!Absent(k) => /\ ret' = Refused(CC_ERR_KEY_NOT_FOUND) /\ k \notin Held
                       /\ Held' = Held
  BY SameAnswers
     DEF Abs!Absent, Abs!Refuse, Abs!CC_ERR_KEY_NOT_FOUND, CC_ERR_KEY_NOT_FOUND, Held
<1>5. Abs!Contains(k) => ret' = Truth(k \in Held) /\ Held' = Held
  BY DEF Abs!Contains, Abs!Truth, Truth, Abs!Result, Result, Held
<1>6. Abs!Clear => ret' = Done /\ Held' = {}
  BY SameAnswers DEF Abs!Clear, Abs!Nothing, Held
<1>7. Abs!Keep => ret' = Done /\ Held' = Held
  BY SameAnswers DEF Abs!Keep, Held
<1> QED
  BY <1>1, <1>2, <1>3, <1>4, <1>5, <1>6, <1>7

\* The client of the set has no iterator in use behind a change, and may lose the
\* latest entry of it behind an answer.
LEMMA IteratorAfter ==
  ASSUME WalkInv
  PROVE  /\ EndWalk => Set!Abs!NoIterator
         /\ Stale => walk'.owed = walk.owed /\ Latest' = NoElement
<1>1. EndWalk => Set!Abs!NoIterator
  BY DEF EndWalk, NoWalk, Set!Abs!NoIterator
<1>2. ASSUME Stale PROVE walk'.owed = walk.owed /\ Latest' = NoElement
  <2> DEFINE on == walk.on
             owed == walk.owed
             fresh == walk.fresh
  <2>1. walk = [on |-> on, owed |-> owed, fresh |-> fresh]
    BY DEF WalkInv
  <2> HIDE DEF on, owed, fresh
  <2>2. walk' = [on |-> on, owed |-> owed, fresh |-> FALSE]
    BY <1>2, <2>1 DEF Stale
  <2> QED
    BY <2>2 DEF Latest, owed
<1> QED
  BY <1>1, <1>2

-----------------------------------------------------------------------------
\* The calls, one after another

LEMMA SetAdd ==
  ASSUME HashTableInv, NEW e \in Keys, Values = {Dummy}, Set!Add(e)
  PROVE  HashTableInv' /\ (Set!Abs!Insert(e) \/ Set!Abs!NoRoom)
<1>1. Add(e, Dummy) /\ answer' = ret' /\ Dummy \in Values
  BY SameCalls DEF Set!Add, Set!Pass
<1>2. TableInv' /\ (Abs!Put(e, Dummy) \/ Abs!NoRoom) /\ EndWalk
  BY <1>1, AddStays DEF HashTableInv
<1>3. HashTableInv' /\ Set!Abs!NoIterator
  BY <1>2, WalkEnds, IteratorAfter DEF HashTableInv
<1>4. CASE Abs!Put(e, Dummy)
  BY <1>1, <1>3, <1>4, MapToSet, SamePlaces, SameAnswersOfSet DEF Set!Abs!Insert, Held
<1>5. CASE Abs!NoRoom
  BY <1>1, <1>3, <1>5, MapToSet, SamePlaces, SameAnswersOfSet
     DEF Set!Abs!NoRoom, Set!Abs!Refuse, Held, Set!Abs!CC_ERR_ALLOC,
         Set!Abs!CC_ERR_MAX_CAPACITY, CC_ERR_ALLOC, CC_ERR_MAX_CAPACITY
<1> QED
  BY <1>2, <1>3, <1>4, <1>5

LEMMA SetRemove ==
  ASSUME HashTableInv, NEW e \in Keys, Set!Remove(e)
  PROVE  /\ HashTableInv'
         /\ Set!Abs!Discard(e) \/ Set!Abs!Absent(e, CC_ERR_KEY_NOT_FOUND)
<1>1. Remove(e) /\ answer' = ret'
  BY SameCalls DEF Set!Remove, Set!Pass
<1>2. TableInv' /\ (Abs!Delete(e) \/ Abs!Absent(e)) /\ EndWalk
  BY <1>1, RemoveStays DEF HashTableInv
<1>3. HashTableInv' /\ Set!Abs!NoIterator
  BY <1>2, WalkEnds, IteratorAfter DEF HashTableInv
<1>4. CASE Abs!Delete(e)
  BY <1>1, <1>3, <1>4, MapToSet, SamePlaces
     DEF Set!Abs!Discard, Set!Abs!Delete, Held, Set!Abs!CC_OK, CC_OK
<1>5. CASE Abs!Absent(e)
  BY <1>1, <1>3, <1>5, MapToSet, SamePlaces, SameAnswersOfSet
     DEF Set!Abs!Absent, Set!Abs!Refuse, Held
<1> QED
  BY <1>2, <1>3, <1>4, <1>5

LEMMA SetRemoveAll ==
  ASSUME HashTableInv, Set!RemoveAll
  PROVE  HashTableInv' /\ Set!Abs!Clear
<1>1. RemoveAll /\ answer' = ret'
  BY SameCalls DEF Set!RemoveAll, Set!Pass
<1>2. TableInv' /\ Abs!Clear /\ EndWalk
  BY <1>1, RemoveAllStays DEF HashTableInv
<1>3. HashTableInv' /\ Set!Abs!NoIterator
  BY <1>2, WalkEnds, IteratorAfter DEF HashTableInv
<1> QED
  BY <1>1, <1>2, <1>3, MapToSet, SamePlaces, SameAnswersOfSet DEF Set!Abs!Clear, Held

LEMMA SetContains ==
  ASSUME HashTableInv, NEW e \in Keys, e # NullKey, Set!Contains(e)
  PROVE  HashTableInv' /\ Set!Abs!Contains(e)
<1>1. ContainsKey(e) /\ answer' = ret'
  BY SameCalls DEF Set!Contains, Set!Pass
<1>2. Abs!Contains(e) /\ Stale /\ table' = table /\ iter' = iter
  BY <1>1, ContainsKeyStays DEF HashTableInv
<1>3. HashTableInv'
  BY <1>2, WalkStales DEF HashTableInv, TableInv
<1>4. walk'.owed = walk.owed /\ Latest' = NoElement
  BY <1>2, IteratorAfter DEF HashTableInv
<1>5. Set!Abs!SameIterator
  BY <1>4 DEF Set!Abs!SameIterator, Latest
<1>6. answer' = Set!Abs!Truth(e \in Held) /\ Held' = Held
  BY <1>1, <1>2, MapToSet, SameAnswersOfSet
<1> QED
  BY <1>3, <1>5, <1>6, SamePlaces DEF Set!Abs!Contains, Held

LEMMA SetIterInit ==
  ASSUME HashTableInv, Set!IterInit
  PROVE  HashTableInv' /\ Set!Abs!StartOver
<1>1. IterInit /\ answer' = ret'
  BY SameIteration DEF Set!IterInit, Set!Pass
<1>2. WalkInv' /\ Abs!Keep /\ table' = table
  BY <1>1, IterInitStays DEF HashTableInv
<1>3. HashTableInv'
  BY <1>2 DEF HashTableInv, TableInv
<1>4. walk'.owed = Held /\ Latest' = NoElement
  BY <1>1 DEF IterInit, Latest, Held
<1>5. answer' = Done /\ Held' = Held
  BY <1>1, <1>2, MapToSet
<1> QED
  BY <1>3, <1>4, <1>5, SamePlaces, SameAnswersOfSet DEF Set!Abs!StartOver, Held, Latest

LEMMA SetIterNext ==
  ASSUME HashTableInv, Set!IterNext
  PROVE  HashTableInv' /\ (Set!Abs!WalkOver \/ \E e \in Keys : Set!Abs!Visit(e))
<1> DEFINE k == iter.next_entry
<1>1. /\ IterNext
      /\ answer' = IF ret'.stat = CC_OK THEN Got(ret'.out[1]) ELSE ret'
  BY SameIteration DEF Set!IterNext, Set!CC_OK, CC_OK, Set!Got, Got, Set!Result, Result
<1>2. /\ WalkInv' /\ table' = table
      /\ \/ ret' = Refused(CC_ITER_END) /\ walk.owed = {} /\ Abs!WalkOver
         \/ /\ ret'.stat = CC_OK /\ ret'.out[1] \in walk.owed
            /\ k \in Keys /\ Abs!NextPair(k)
  BY <1>1, IterNextStays DEF HashTableInv
<1>3. HashTableInv' /\ Held' = Held
  BY <1>2 DEF HashTableInv, TableInv, Held
<1>4. CASE ret' = Refused(CC_ITER_END) /\ walk.owed = {}
  <2>1. answer' = Refused(CC_ITER_END) /\ ret'.stat # CC_OK
    BY <1>1, <1>4 DEF Refused, Result, CC_OK, CC_ITER_END
  <2>2. Stale
    BY <1>1, <1>4, <2>1 DEF IterNext, Answer, Return, Got, Result
  <2>3. walk'.owed = walk.owed /\ Latest' = NoElement
    BY <2>2, IteratorAfter DEF HashTableInv
  <2>4. Set!Abs!SameIterator
    BY <2>3 DEF Set!Abs!SameIterator, Latest
  <2> QED
    BY <1>3, <1>4, <2>1, <2>4, SamePlaces, SameAnswersOfSet
       DEF Set!Abs!WalkOver, Set!Abs!Refuse, Held, Set!Abs!CC_ITER_END, CC_ITER_END
<1>5. CASE /\ ret'.stat = CC_OK /\ ret'.out[1] \in walk.owed
           /\ k \in Keys /\ Abs!NextPair(k)
  <2>1. ret'.out[1] = k
    BY <1>5, SameAnswers DEF Abs!NextPair, Got, Result
  <2>2. answer' = Got(k) /\ k \in walk.owed
    BY <1>1, <1>5, <2>1
  <2>3. k # NoEntry
    BY <1>5, HashTableConstants DEF NoEntry
  <2>4. walk' = [walk EXCEPT !.owed = @ \ {k}, !.fresh = TRUE]
    BY <1>1, <2>3 DEF IterNext
  <2>5. iter'.prev_entry = k
    <3> DEFINE b == iter.bucket_index
               p == iter.prev_entry
    <3>1. iter = [bucket_index |-> b, prev_entry |-> p, next_entry |-> k]
      BY DEF HashTableInv, WalkInv
    <3>2. \/ \E h : iter' = [iter EXCEPT !.prev_entry = k, !.next_entry = h]
          \/ \E a, h : iter' = [bucket_index |-> a, prev_entry |-> k, next_entry |-> h]
      BY <1>1, <2>3 DEF IterNext
    <3> HIDE DEF k, b, p
    <3>3. ASSUME NEW h PROVE [iter EXCEPT !.prev_entry = k, !.next_entry = h].prev_entry = k
      <4> DEFINE r == [iter EXCEPT !.prev_entry = k]
      <4>1. r = [bucket_index |-> b, prev_entry |-> k, next_entry |-> k]
        BY <3>1
      <4> HIDE DEF r
      <4>2. [r EXCEPT !.next_entry = h].prev_entry = k
        BY <4>1
      <4> QED
        BY <4>2 DEF r
    <3>4. CASE \E h : iter' = [iter EXCEPT !.prev_entry = k, !.next_entry = h]
      <4>1. PICK h : iter' = [iter EXCEPT !.prev_entry = k, !.next_entry = h]
        BY <3>4
      <4> DEFINE r == [iter EXCEPT !.prev_entry = k, !.next_entry = h]
      <4>2. r.prev_entry = k /\ iter' = r
        BY <3>3, <4>1
      <4> HIDE DEF r
      <4> QED
        BY <4>2
    <3>5. CASE \E a, h : iter' = [bucket_index |-> a, prev_entry |-> k, next_entry |-> h]
      BY <3>5
    <3> QED
      BY <3>2, <3>4, <3>5
  <2>6. walk'.owed = walk.owed \ {k} /\ walk'.fresh = TRUE
    <3> DEFINE on == walk.on
               owed == walk.owed
               fresh == walk.fresh
    <3>1. walk = [on |-> on, owed |-> owed, fresh |-> fresh]
      BY DEF HashTableInv, WalkInv
    <3> HIDE DEF on, owed, fresh, k
    <3> QED
      BY <2>4, <3>1 DEF owed
  <2>7. Set!Abs!Visit(k)
    <3> HIDE DEF k
    <3> QED
      BY <1>3, <2>2, <2>5, <2>6, SamePlaces, SameAnswersOfSet
         DEF Set!Abs!Visit, Held
  <2> QED
    BY <1>3, <1>5, <2>7
<1> QED
  BY <1>2, <1>4, <1>5

LEMMA SetIterRemove ==
  ASSUME HashTableInv, Set!IterRemove
  PROVE  HashTableInv' /\ Set!Abs!DropLatest
<1> DEFINE k == iter.prev_entry
<1>1. IterRemove /\ answer' = ret'
  BY SameIteration DEF Set!IterRemove, Set!Pass
<1>2. TableInv' /\ WalkInv' /\ k \in Keys /\ Abs!Delete(k)
  BY <1>1, IterRemoveStays DEF HashTableInv
<1>3. HashTableInv'
  BY <1>2 DEF HashTableInv
<1>4. walk'.owed = walk.owed /\ Latest' = NoElement /\ Latest = k
  <2>1. Stale /\ walk.fresh
    BY <1>1 DEF IterRemove
  <2> QED
    BY <2>1, IteratorAfter DEF HashTableInv, Latest
<1>5. answer'.stat = CC_OK /\ k \in Held /\ Held' = Held \ {k}
  BY <1>1, <1>2, MapToSet
<1> HIDE DEF k
<1>6. Set!Abs!Delete(Latest)
  BY <1>4, <1>5, SamePlaces DEF Set!Abs!Delete, Held, Set!Abs!CC_OK, CC_OK
<1> QED
  BY <1>3, <1>4, <1>6 DEF Set!Abs!DropLatest, Latest

-----------------------------------------------------------------------------
\* The theorem

LEMMA SetCalls ==
  ASSUME HashTableInv, Values = {Dummy}
  PROVE  Set!CallsKeepPromise
<1>1. \A e \in Keys : Set!Add(e) => Set!Abs!Insert(e) \/ Set!Abs!NoRoom
  BY SetAdd
<1>2. \A e \in Keys : Set!Remove(e) =>
        Set!Abs!Discard(e) \/ Set!Abs!Absent(e, Set!CC_ERR_KEY_NOT_FOUND)
  BY SetRemove, SameAnswersOfSet
<1>3. \A e \in Keys : e # NullKey /\ Set!Contains(e) => Set!Abs!Contains(e)
  BY SetContains
<1>4. Set!RemoveAll => Set!Abs!Clear
  BY SetRemoveAll
<1>5. Set!IterInit => Set!Abs!StartOver
  BY SetIterInit
<1>6. Set!IterNext => Set!Abs!WalkOver \/ \E e \in Keys : Set!Abs!Visit(e)
  BY SetIterNext
<1>7. Set!IterRemove => Set!Abs!DropLatest
  BY SetIterRemove
<1> QED
  BY <1>1, <1>2, <1>3, <1>4, <1>5, <1>6, <1>7 DEF Set!CallsKeepPromise

LEMMA SetStep ==
  ASSUME HashTableInv, Values = {Dummy}, [Set!Next]_(Set!vars)
  PROVE  HashTableInv' /\ [Set!Abs!Next]_(Set!Abs!vars)
<1>1. ASSUME NEW e \in Keys, Set!Add(e) PROVE HashTableInv' /\ Set!Abs!Next
  BY <1>1, SetAdd DEF Set!Abs!Next
<1>2. ASSUME NEW e \in Keys, Set!Remove(e) PROVE HashTableInv' /\ Set!Abs!Next
  BY <1>2, SetRemove, SameAnswersOfSet DEF Set!Abs!Next
<1>3. ASSUME NEW e \in Keys, e # NullKey, Set!Contains(e)
      PROVE  HashTableInv' /\ Set!Abs!Next
  BY <1>3, SetContains DEF Set!Abs!Next
<1>4. ASSUME Set!RemoveAll PROVE HashTableInv' /\ Set!Abs!Next
  BY <1>4, SetRemoveAll DEF Set!Abs!Next
<1>5. ASSUME Set!IterInit PROVE HashTableInv' /\ Set!Abs!Next
  BY <1>5, SetIterInit DEF Set!Abs!Next
<1>6. ASSUME Set!IterNext PROVE HashTableInv' /\ Set!Abs!Next
  BY <1>6, SetIterNext DEF Set!Abs!Next
<1>7. ASSUME Set!IterRemove PROVE HashTableInv' /\ Set!Abs!Next
  BY <1>7, SetIterRemove DEF Set!Abs!Next
<1>8. CASE UNCHANGED Set!vars
  <2>1. UNCHANGED <<table, iter, walk, ret, answer>>
    BY <1>8 DEF Set!vars
  <2>2. HashTableInv'
    BY <2>1, StepKeepsInv DEF vars
  <2>3. UNCHANGED Set!Abs!vars
    BY <2>1 DEF Set!Abs!vars
  <2> QED
    BY <2>2, <2>3
<1> QED
  BY <1>1, <1>2, <1>3, <1>4, <1>5, <1>6, <1>7, <1>8 DEF Set!Next

\* The hash set is a set, call by call: each call of cc_hashset.c and of its iterator
\* is the call of its name on a set of the elements, or its refusal.  An element that
\* is added twice is in it once, NULL among them, and an iteration visits every member
\* once, also while it removes.
THEOREM HashSetIsASet ==
  ASSUME Values = {Dummy}
  PROVE  Set!Spec => Set!IsASet
<1>1. Set!Init => HashTableInv /\ Set!Abs!Init
  <2> SUFFICES ASSUME Set!Init PROVE HashTableInv /\ Set!Abs!Init
    OBVIOUS
  <2>1. Init /\ answer = Done
    BY SameStart DEF Set!Init, Set!Done, Done, Set!Result, Result, Set!CC_OK, CC_OK
  <2>2. HashTableInv /\ Abs!Init
    BY <2>1, InitKeepsInv
  <2>3. Held = {}
    BY <2>2 DEF Abs!Init, Abs!Nothing, Held
  <2>4. walk.owed = {} /\ walk.fresh = FALSE
    BY <2>1 DEF Init, NoWalk
  <2> QED
    BY <2>1, <2>2, <2>3, <2>4, SamePlaces, SameAnswersOfSet DEF Set!Abs!Init, Held
<1>2. HashTableInv /\ [Set!Next]_(Set!vars) => HashTableInv' /\ [Set!Abs!Next]_(Set!Abs!vars)
  BY SetStep
<1>3. HashTableInv /\ [Set!Next]_(Set!vars) => [Set!CallsKeepPromise]_(Set!vars)
  BY SetCalls
<1> QED
  BY <1>1, <1>2, <1>3, PTL DEF Set!Spec, Set!Abs!Spec, Set!IsASet
=============================================================================
