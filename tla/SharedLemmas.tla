---------------------------- MODULE SharedLemmas ----------------------------
(***************************************************************************)
(* Facts on numbers and sequences that the proofs on several components   *)
(* need.                                                                   *)
(***************************************************************************)
EXTENDS CCCommon, FiniteSets, FiniteSetTheorems, FunctionTheorems,
        WellFoundedInduction, TLAPS

-----------------------------------------------------------------------------
\* Induction comes down to this: a set of natural numbers has a least one.

Less == {p \in Nat \X Nat : p[1] < p[2]}

LEMMA LessIsWellFounded == IsWellFoundedOn(Less, Nat)
BY NatLessThanWellFounded DEF OpToRel, Less

LEMMA Least ==
  ASSUME NEW T, T \subseteq Nat, T # {}
  PROVE  \E x \in T : \A y \in T : x <= y
<1>1. PICK x \in T : \A y \in T : ~(<<y, x>> \in Less)
  BY LessIsWellFounded, WFMin
<1>2. ASSUME NEW y \in T PROVE x <= y
  <2>1. x \in Nat /\ y \in Nat /\ <<y, x>> \in Nat \X Nat
    OBVIOUS
  <2>2. ~(<<y, x>>[1] < <<y, x>>[2])
    BY <1>1, <2>1 DEF Less
  <2> QED
    BY <2>1, <2>2
<1> QED
  BY <1>2

LEMMA Induction ==
  ASSUME NEW N \in Nat, NEW A, 0 \in A, \A n \in 1..N : n - 1 \in A => n \in A
  PROVE  0..N \subseteq A
<1> DEFINE T == {n \in 0..N : n \notin A}
<1>1. SUFFICES ASSUME T # {} PROVE FALSE
  OBVIOUS
<1>2. PICK m \in T : \A y \in T : m <= y
  <2>1. T \subseteq Nat
    OBVIOUS
  <2> HIDE DEF T
  <2> QED
    BY <1>1, <2>1, Least
<1>3. m \in 1..N /\ m - 1 \in 0..N /\ ~(m <= m - 1)
  BY <1>2
<1> QED
  BY <1>2, <1>3

\* A function by recursion: f starts at x and takes the step h, which leads from
\* G[n - 1] into G[n].  The recursive functions of the modules are such functions.
Leads(h, N, G)         == \A n \in 1..N : \A y \in G[n - 1] : h[<<n, y>>] \in G[n]
Iterates(f, N, G, x, h) ==
  /\ f = [n \in 0..N |-> f[n]] /\ f[0] = x
  /\ \A n \in 1..N : f[n] = h[<<n, f[n - 1]>>]
  /\ \A n \in 0..N : f[n] \in G[n]

LEMMA Recursion ==
  ASSUME NEW N \in Nat, NEW G, NEW x \in G[0], NEW h, Leads(h, N, G)
  PROVE  \E f : Iterates(f, N, G, x, h)
<1> USE DEF Leads, Iterates
<1> DEFINE P(m) == \E f : Iterates(f, m, G, x, h)
           A == {m \in 0..N : P(m)}
<1>1. 0 \in A
  <2> DEFINE f == [i \in 0..0 |-> x]
  <2>1. /\ f = [n \in 0..0 |-> f[n]] /\ f[0] = x /\ 1..0 = {}
        /\ \A n \in 0..0 : f[n] \in G[n]
    OBVIOUS
  <2> HIDE DEF f
  <2>2. P(0)
    BY <2>1
  <2> QED
    BY <2>2
<1>2. ASSUME NEW m \in 1..N, m - 1 \in A PROVE m \in A
  <2>1. PICK f : Iterates(f, m - 1, G, x, h)
    BY <1>2
  <2> DEFINE g == [i \in 0..m |-> IF i = m THEN h[<<m, f[m - 1]>>] ELSE f[i]]
  <2>2. 0 # m /\ m - 1 # m /\ 0 \in 0..m /\ m \in 0..m /\ m - 1 \in 0..m
        /\ m - 1 \in 0..(m - 1) /\ 0 \in 0..(m - 1)
    OBVIOUS
  <2>3. g[0] = f[0] /\ g[m - 1] = f[m - 1] /\ g[m] = h[<<m, f[m - 1]>>]
    BY <2>2
  <2>4. g[0] = x /\ g[m] = h[<<m, g[m - 1]>>] /\ g[m] \in G[m] /\ g[0] \in G[0]
    BY <2>1, <2>2, <2>3
  <2>5. ASSUME NEW n \in 1..m, n # m
        PROVE  g[n] = h[<<n, g[n - 1]>>] /\ g[n] \in G[n]
    <3>1. n \in 1..(m - 1) /\ n - 1 \in 0..(m - 1) /\ n - 1 # m /\ n \in 0..m
          /\ n \in 0..(m - 1) /\ n - 1 \in 0..m
      BY <2>5
    <3>2. g[n] = f[n] /\ g[n - 1] = f[n - 1]
      BY <2>5, <3>1
    <3> QED
      BY <2>1, <3>1, <3>2
  <2>6. g = [n \in 0..m |-> g[n]]
    OBVIOUS
  <2> HIDE DEF g
  <2>7. \A n \in 0..m : g[n] \in G[n]
    <3>1. \A n \in 0..m : n = 0 \/ n = m \/ (n \in 1..m /\ n # m)
      BY <2>2
    <3> QED
      BY <2>4, <2>5, <3>1
  <2>8. \A n \in 1..m : g[n] = h[<<n, g[n - 1]>>]
    BY <2>4, <2>5
  <2>9. P(m)
    BY <2>4, <2>6, <2>7, <2>8
  <2>10. m \in 0..N
    OBVIOUS
  <2> QED
    BY <2>9, <2>10
<1> HIDE DEF A
<1>3. 0..N \subseteq A
  BY <1>1, <1>2, Induction
<1>4. N \in A
  BY <1>3
<1> QED
  BY <1>4 DEF A

-----------------------------------------------------------------------------
\* Remainders within three rounds of a ring, which is all the rings need.

LEMMA Wrap ==
  ASSUME NEW c \in Nat \ {0}, NEW x \in Int
  PROVE  /\ x % c \in 0..(c - 1)
         /\ 0 - c <= x /\ x < 0 => x % c = x + c
         /\ 0 <= x /\ x < c => x % c = x
         /\ c <= x /\ x < 2 * c => x % c = x - c
<1>1. x % c \in 0..(c - 1)
  OBVIOUS
<1>2. ASSUME 0 - c <= x, x < 0 PROVE x % c = x + c
  BY <1>2, SMTT(30)
<1>3. ASSUME 0 <= x, x < c PROVE x % c = x
  BY <1>3
<1>4. ASSUME c <= x, x < 2 * c PROVE x % c = x - c
  BY <1>4, SMTT(30)
<1> QED
  BY <1>1, <1>2, <1>3, <1>4

-----------------------------------------------------------------------------
LEMMA Concatenation ==
  ASSUME NEW S, NEW s \in Seq(S), NEW t \in Seq(S)
  PROVE  s \o t \in Seq(S) /\ Len(s \o t) = Len(s) + Len(t)
OBVIOUS

\* What one element appended, or the first one taken away, makes of a sequence.
LEMMA Appended ==
  ASSUME NEW S, NEW q \in Seq(S), NEW e \in S
  PROVE  /\ Append(q, e) \in Seq(S) /\ Len(Append(q, e)) = Len(q) + 1
         /\ \A i \in 1..Len(q) : Append(q, e)[i] = q[i]
         /\ Append(q, e)[Len(q) + 1] = e
OBVIOUS

LEMMA Beheaded ==
  ASSUME NEW S, NEW q \in Seq(S), Len(q) > 0
  PROVE  /\ Tail(q) \in Seq(S) /\ Len(Tail(q)) = Len(q) - 1
         /\ \A i \in 1..(Len(q) - 1) : Tail(q)[i] = q[i + 1]
         /\ Head(q) = q[1]
OBVIOUS

LEMMA JoinedFirst ==
  ASSUME NEW S, NEW s \in Seq(S), NEW t \in Seq(S), NEW j \in 1..Len(s)
  PROVE  (s \o t)[j] = s[j]
OBVIOUS

LEMMA JoinedSecond ==
  ASSUME NEW S, NEW s \in Seq(S), NEW t \in Seq(S),
         NEW n, n = Len(s), NEW j \in (n + 1)..(n + Len(t))
  PROVE  (s \o t)[j] = t[j - n]
OBVIOUS

LEMMA JoinedOne ==
  ASSUME NEW S, NEW s \in Seq(S), NEW e \in S, NEW n, n = Len(s)
  PROVE  (s \o <<e>>)[n + 1] = e
OBVIOUS

LEMMA OnePut ==
  ASSUME NEW S, NEW e \in S, NEW t \in Seq(S)
  PROVE  /\ <<e>> \o t \in Seq(S) /\ Len(<<e>> \o t) = Len(t) + 1
         /\ (<<e>> \o t)[1] = e
         /\ \A j \in 1..Len(t) : (<<e>> \o t)[j + 1] = t[j]
<1>1. <<e>> \in Seq(S) /\ Len(<<e>>) = 1 /\ Len(t) \in Nat
  OBVIOUS
<1>2. <<e>> \o t \in Seq(S) /\ Len(<<e>> \o t) = 1 + Len(t)
  BY <1>1, Concatenation
<1>3. (<<e>> \o t)[1] = e
  OBVIOUS
<1>4. ASSUME NEW j \in 1..Len(t) PROVE (<<e>> \o t)[j + 1] = t[j]
  OBVIOUS
<1> QED
  BY <1>1, <1>2, <1>3, <1>4

LEMMA Joined ==
  ASSUME NEW S, NEW s \in Seq(S), NEW t \in Seq(S), NEW n, n = Len(s)
  PROVE  /\ s \o t \in Seq(S) /\ Len(s \o t) = n + Len(t) /\ n \in Nat
         /\ \A j \in 1..n : (s \o t)[j] = s[j]
         /\ \A j \in 1..Len(t) : (s \o t)[n + j] = t[j]
<1>1. s \o t \in Seq(S) /\ Len(s \o t) = n + Len(t) /\ n \in Nat
  OBVIOUS
<1>2. ASSUME NEW j \in 1..n PROVE (s \o t)[j] = s[j]
  OBVIOUS
<1>3. ASSUME NEW j \in 1..Len(t) PROVE (s \o t)[n + j] = t[j]
  OBVIOUS
<1> QED
  BY <1>1, <1>2, <1>3

LEMMA SameSequence ==
  ASSUME NEW S, NEW s \in Seq(S), NEW t \in Seq(S), Len(s) = Len(t),
         \A i \in 1..Len(s) : s[i] = t[i]
  PROVE  s = t
<1>1. s = [i \in 1..Len(s) |-> s[i]] /\ t = [i \in 1..Len(t) |-> t[i]]
  OBVIOUS
<1> QED
  BY <1>1

\* What one element put in behind the first i makes of a sequence.
OneMore(s, e, i) == SubSeq(s, 1, i) \o <<e>> \o SubSeq(s, i + 1, Len(s))

LEMMA WithOneMore ==
  ASSUME NEW S, NEW s \in Seq(S), NEW e \in S, NEW i \in 0..Len(s)
  PROVE  /\ OneMore(s, e, i) \in Seq(S) /\ Len(OneMore(s, e, i)) = Len(s) + 1
         /\ \A j \in 1..(Len(s) + 1) :
              OneMore(s, e, i)[j] = IF j <= i THEN s[j]
                                    ELSE IF j = i + 1 THEN e ELSE s[j - 1]
<1> DEFINE a == SubSeq(s, 1, i)
           m == <<e>>
           z == SubSeq(s, i + 1, Len(s))
           w == a \o m \o z
<1>0. OneMore(s, e, i) = w
  BY DEF OneMore
<1>1. a \in Seq(S) /\ Len(a) = i /\ \A j \in 1..i : a[j] = s[j]
  OBVIOUS
<1>2. z \in Seq(S) /\ Len(z) = Len(s) - i /\ \A j \in 1..(Len(s) - i) : z[j] = s[j + i]
  OBVIOUS
<1>3. m \in Seq(S) /\ Len(m) = 1 /\ m[1] = e
  OBVIOUS
<1>4. Len(s) \in Nat /\ i \in Nat /\ i <= Len(s)
  OBVIOUS
<1> HIDE DEF a, m, z
<1>5. /\ a \o m \in Seq(S) /\ Len(a \o m) = i + 1
      /\ \A j \in 1..i : (a \o m)[j] = s[j]
      /\ (a \o m)[i + 1] = e
  <2>1. a \o m \in Seq(S) /\ Len(a \o m) = i + 1
    BY <1>1, <1>3, <1>4, Concatenation
  <2>2. \A j \in 1..i : (a \o m)[j] = s[j]
    BY <1>1, <1>3, JoinedFirst
  <2>3. (a \o m)[i + 1] = e
    BY <1>1, JoinedOne DEF m
  <2> QED
    BY <1>3, <2>1, <2>2, <2>3
<1> DEFINE am == a \o m
<1> HIDE DEF am
<1>6. /\ w \in Seq(S) /\ Len(w) = Len(s) + 1
      /\ w = am \o z /\ am \in Seq(S) /\ Len(am) = i + 1
  <2>1. w = am \o z /\ am \in Seq(S) /\ Len(am) = i + 1
    BY <1>5 DEF am
  <2>2. w \in Seq(S) /\ Len(w) = Len(am) + Len(z)
    BY <1>2, <2>1, Concatenation
  <2> QED
    BY <1>2, <1>4, <2>1, <2>2
<1> HIDE DEF w
<1>7. ASSUME NEW j \in 1..(Len(s) + 1)
      PROVE  /\ j <= i => w[j] = s[j]
             /\ j = i + 1 => w[j] = e
             /\ j > i + 1 => w[j] = s[j - 1]
  <2>1. j <= i + 1 => w[j] = am[j]
    <3>1. j <= i + 1 => j \in 1..Len(am)
      BY <1>4, <1>6
    <3> QED
      BY <1>2, <1>6, <3>1, JoinedFirst
  <2>2. j > i + 1 => w[j] = z[j - (i + 1)] /\ j - (i + 1) \in 1..(Len(s) - i)
    <3>1. j > i + 1 => /\ j - (i + 1) \in 1..(Len(s) - i)
                       /\ j \in ((i + 1) + 1)..((i + 1) + Len(z))
      BY <1>2, <1>4
    <3> QED
      BY <1>2, <1>6, <3>1, JoinedSecond
  <2>3. j > i + 1 => w[j] = s[j - 1]
    <3>1. j - (i + 1) + i = j - 1
      BY <1>4
    <3> QED
      BY <1>2, <2>2, <3>1
  <2>4. j <= i => w[j] = s[j]
    BY <1>4, <1>5, <2>1 DEF am
  <2>5. j = i + 1 => w[j] = e
    BY <1>4, <1>5, <2>1 DEF am
  <2> QED
    BY <2>3, <2>4, <2>5
<1>8. ASSUME NEW j \in 1..(Len(s) + 1)
      PROVE  w[j] = IF j <= i THEN s[j] ELSE IF j = i + 1 THEN e ELSE s[j - 1]
  <2>1. j <= i \/ (~(j <= i) /\ j = i + 1) \/ (~(j <= i) /\ j # i + 1 /\ j > i + 1)
    BY <1>4
  <2> QED
    BY <1>7, <2>1
<1> QED
  BY <1>0, <1>6, <1>8

\* What the removal of one element leaves of a sequence.
LEMMA WithoutOne ==
  ASSUME NEW S, NEW s \in Seq(S), NEW i \in 1..Len(s)
  PROVE  LET w == SubSeq(s, 1, i - 1) \o SubSeq(s, i + 1, Len(s))
         IN  /\ w \in Seq(S) /\ Len(w) = Len(s) - 1
             /\ \A j \in 1..Len(w) : w[j] = IF j < i THEN s[j] ELSE s[j + 1]
<1> DEFINE a == SubSeq(s, 1, i - 1)
           z == SubSeq(s, i + 1, Len(s))
<1>1. a \in Seq(S) /\ Len(a) = i - 1 /\ \A j \in 1..(i - 1) : a[j] = s[j]
  OBVIOUS
<1>2. /\ z \in Seq(S) /\ Len(z) = Len(s) - i
      /\ \A j \in 1..(Len(s) - i) : z[j] = s[j + i]
  OBVIOUS
<1>3. a \o z \in Seq(S) /\ Len(a \o z) = Len(s) - 1
  <2> HIDE DEF a, z
  <2>1. Len(s) \in Nat /\ i \in Int
    OBVIOUS
  <2>2. a \o z \in Seq(S) /\ Len(a \o z) = Len(a) + Len(z)
    BY <1>1, <1>2, Concatenation
  <2> QED
    BY <1>1, <1>2, <2>1, <2>2
<1>4. ASSUME NEW j \in 1..Len(a \o z)
      PROVE  (a \o z)[j] = IF j < i THEN s[j] ELSE s[j + 1]
  <2> HIDE DEF a, z
  <2>1. CASE j < i
    BY <1>1, <1>2, <1>3, <2>1
  <2>2. CASE ~(j < i)
    <3>1. (a \o z)[j] = z[j - (i - 1)]
      BY <1>1, <1>2, <1>3, <2>2
    <3>2. j - (i - 1) \in 1..(Len(s) - i)
      BY <1>3, <2>2
    <3> QED
      BY <1>2, <2>2, <3>1, <3>2, SMTT(30)
  <2> QED
    BY <2>1, <2>2
<1> QED
  BY <1>3, <1>4

-----------------------------------------------------------------------------
\* What is selected from the last n elements, for every n.

Selects(last, s, keep) ==
  /\ last[0] = <<>>
  /\ \A n \in 1..Len(s) :
       last[n] = IF s[Len(s) + 1 - n] \in keep
                 THEN <<s[Len(s) + 1 - n]>> \o last[n - 1]
                 ELSE last[n - 1]

LEMMA Selecting ==
  ASSUME NEW S, NEW s \in Seq(S), NEW keep
  PROVE  \E last \in [0..Len(s) -> Seq(S)] :
           Selects(last, s, keep) /\ Selected(s, keep) = last[Len(s)]
<1> DEFINE N == Len(s)
           R(n, t) == IF s[N + 1 - n] \in keep THEN <<s[N + 1 - n]>> \o t ELSE t
           L(f) == [n \in 0..N |->
                  IF n = 0 THEN <<>>
                  ELSE IF s[N + 1 - n] \in keep
                       THEN <<s[N + 1 - n]>> \o f[n - 1]
                       ELSE f[n - 1]]
           last == CHOOSE f : f = L(f)
           h == [p \in (1..N) \X Seq(S) |-> R(p[1], p[2])]
           G == [n \in 0..N |-> Seq(S)]
<1>1. Selected(s, keep) = last[N]
  BY DEF Selected
<1>2. N \in Nat
  OBVIOUS
<1>3. ASSUME NEW n \in 1..N, NEW t \in Seq(S) PROVE R(n, t) \in Seq(S)
  <2>1. <<s[N + 1 - n]>> \in Seq(S)
    OBVIOUS
  <2> QED
    BY <2>1, Concatenation
<1>4. \A f : L(f) = [n \in 0..N |-> IF n = 0 THEN <<>> ELSE R(n, f[n - 1])]
  OBVIOUS
<1> HIDE DEF R
<1>5. ASSUME NEW n \in 1..N, NEW t \in Seq(S) PROVE h[<<n, t>>] = R(n, t)
  OBVIOUS
<1> HIDE DEF h, L, N
<1>6. \A n \in 0..N : G[n] = Seq(S)
  OBVIOUS
<1> HIDE DEF G
<1>7. Leads(h, N, G)
  <2> SUFFICES ASSUME NEW n \in 1..N, NEW y \in G[n - 1]
               PROVE  h[<<n, y>>] \in G[n]
    BY DEF Leads
  <2>1. n \in 0..N /\ n - 1 \in 0..N
    BY <1>2
  <2>2. y \in Seq(S)
    BY <1>6, <2>1
  <2> QED
    BY <1>3, <1>5, <1>6, <2>1, <2>2
<1>8. PICK f : Iterates(f, N, G, <<>>, h)
  <2>1. <<>> \in Seq(S)
    OBVIOUS
  <2>2. <<>> \in G[0]
    <3>1. 0 \in 0..N
      BY <1>2
    <3> QED
      BY <1>6, <2>1, <3>1
  <2> QED
    BY <1>2, <1>7, <2>2, Recursion
<1>9. f = L(f)
  <2>1. ASSUME NEW n \in 1..N PROVE f[n] = R(n, f[n - 1])
    <3>1. n - 1 \in 0..N
      BY <1>2
    <3>2. f[n] = h[<<n, f[n - 1]>>] /\ f[n - 1] \in G[n - 1]
      BY <1>8, <3>1 DEF Iterates
    <3>3. f[n - 1] \in Seq(S)
      BY <1>6, <3>1, <3>2
    <3> QED
      BY <1>5, <3>2, <3>3
  <2>2. \A n \in 0..N : f[n] = IF n = 0 THEN <<>> ELSE R(n, f[n - 1])
    <3>1. f[0] = <<>>
      BY <1>8 DEF Iterates
    <3>2. \A n \in 0..N : n # 0 => n \in 1..N
      BY <1>2
    <3> QED
      BY <2>1, <3>1, <3>2
  <2>3. f = [n \in 0..N |-> f[n]]
    BY <1>8 DEF Iterates
  <2> QED
    BY <1>4, <2>2, <2>3
<1>10. last = L(last)
  BY <1>9
<1> HIDE DEF last
<1>11. last = [n \in 0..N |-> IF n = 0 THEN <<>> ELSE R(n, last[n - 1])]
  BY <1>4, <1>10
<1>12. last[0] = <<>> /\ \A n \in 1..N : last[n] = R(n, last[n - 1])
  BY <1>2, <1>11
<1>13. last \in [0..N -> Seq(S)]
  <2> DEFINE A == {n \in 0..N : last[n] \in Seq(S)}
  <2>1. 0 \in A
    <3>1. <<>> \in Seq(S)
      OBVIOUS
    <3>2. last[0] \in Seq(S)
      BY <1>12, <3>1
    <3> QED
      BY <1>2, <3>2
  <2>2. ASSUME NEW n \in 1..N, n - 1 \in A PROVE n \in A
    BY <1>2, <1>3, <1>12, <2>2
  <2> HIDE DEF A
  <2>3. 0..N \subseteq A
    BY <1>2, <2>1, <2>2, Induction
  <2> QED
    BY <1>11, <2>3 DEF A
<1> QED
  BY <1>1, <1>12, <1>13 DEF R, N, Selects

\* No more is selected than there is.
LEMMA SelectedShort ==
  ASSUME NEW S, NEW s \in Seq(S), NEW keep
  PROVE  /\ Selected(s, keep) \in Seq(S) /\ Len(Selected(s, keep)) <= Len(s)
<1>1. PICK last \in [0..Len(s) -> Seq(S)] :
        Selects(last, s, keep) /\ Selected(s, keep) = last[Len(s)]
  BY Selecting
<1> DEFINE A == {n \in 0..Len(s) : Len(last[n]) <= n}
<1>2. Len(s) \in Nat /\ \A n \in 0..Len(s) : last[n] \in Seq(S)
  OBVIOUS
<1>3. 0 \in A
  BY <1>1, <1>2 DEF Selects
<1>4. ASSUME NEW n \in 1..Len(s), n - 1 \in A PROVE n \in A
  <2> DEFINE x == s[Len(s) + 1 - n]
  <2>1. /\ n \in Nat /\ n - 1 \in 0..Len(s) /\ n \in 0..Len(s)
        /\ Len(s) + 1 - n \in 1..Len(s)
    BY <1>2
  <2>2. last[n - 1] \in Seq(S) /\ Len(last[n - 1]) <= n - 1 /\ <<x>> \in Seq(S)
    BY <1>2, <1>4, <2>1
  <2>3. last[n] = IF x \in keep THEN <<x>> \o last[n - 1] ELSE last[n - 1]
    BY <1>1 DEF Selects
  <2> HIDE DEF x
  <2>4. Len(<<x>> \o last[n - 1]) = 1 + Len(last[n - 1])
    BY <2>2, Concatenation
  <2>5. Len(last[n]) <= n
    BY <2>1, <2>2, <2>3, <2>4
  <2> QED
    BY <2>1, <2>5
<1> HIDE DEF A
<1>5. 0..Len(s) \subseteq A
  BY <1>2, <1>3, <1>4, Induction
<1>6. Len(s) \in A
  BY <1>2, <1>5
<1> QED
  BY <1>1, <1>2, <1>6 DEF A

-----------------------------------------------------------------------------
\* Sets that f pairs off have as many members.
LEMMA SameCount ==
  ASSUME NEW T, NEW U, IsFiniteSet(T), NEW f \in [T -> U],
         \A x, y \in T : f[x] = f[y] => x = y,
         \A u \in U : \E x \in T : f[x] = u
  PROVE  Cardinality(U) = Cardinality(T)
<1>1. f \in Bijection(T, U)
  BY Fun_IsBij
<1>2. ExistsBijection(T, U)
  BY <1>1, Fun_ExistsBij
<1> QED
  BY <1>2, FS_Bijection

-----------------------------------------------------------------------------
\* Powers of two.  The provers know nothing of exponentiation: 2^k comes in as the
\* number of subsets of 1..k.

\* There are 2^k subsets of 1..k.
LEMMA PowerCounts ==
  ASSUME NEW k \in Nat
  PROVE  /\ IsFiniteSet(SUBSET (1..k))
         /\ Cardinality(SUBSET (1..k)) = 2^k
<1>1. IsFiniteSet(1..k) /\ Cardinality(1..k) = k
  BY FS_Interval
<1> QED
  BY <1>1, FS_SUBSET

\* A power of two is a positive number above its exponent or equal to it.
LEMMA PowerIsPositive ==
  ASSUME NEW k \in Nat
  PROVE  2^k \in Nat /\ 2^k > 0
<1>1. 2^k \in Nat
  BY PowerCounts, FS_CardinalityType
<1>2. SUBSET (1..k) # {}
  OBVIOUS
<1>3. 2^k # 0
  BY <1>2, PowerCounts, FS_EmptySet
<1> QED
  BY <1>1, <1>3

\* Powers grow with their exponents.
LEMMA PowerIsMonotonic ==
  ASSUME NEW k \in Nat, NEW m \in Nat, k <= m
  PROVE  2^k <= 2^m
<1>1. SUBSET (1..k) \in SUBSET (SUBSET (1..m))
  OBVIOUS
<1>2. IsFiniteSet(SUBSET (1..m)) /\ Cardinality(SUBSET (1..m)) = 2^m
  BY PowerCounts
<1>3. Cardinality(SUBSET (1..k)) = 2^k
  BY PowerCounts
<1>4. Cardinality(SUBSET (1..k)) <= Cardinality(SUBSET (1..m))
  BY <1>1, <1>2, FS_Subset
<1> QED
  BY <1>2, <1>3, <1>4

\* The next power is the double: a subset of 1..(k + 1) has k + 1 in it or not.
LEMMA PowerDoubles ==
  ASSUME NEW k \in Nat
  PROVE  2^(k + 1) = 2 * 2^k
<1> DEFINE without == SUBSET (1..k)
           with    == {T \cup {k + 1} : T \in without}
           f       == [T \in without |-> T \cup {k + 1}]
<1>1. SUBSET (1..(k + 1)) = without \cup with
  <2>1. ASSUME NEW T \in SUBSET (1..(k + 1)) PROVE T \in without \cup with
    <3>1. CASE k + 1 \notin T
      BY <3>1
    <3>2. CASE k + 1 \in T
      <4>1. T \ {k + 1} \in without
        OBVIOUS
      <4>2. T = (T \ {k + 1}) \cup {k + 1}
        BY <3>2
      <4> QED
        BY <4>1, <4>2
    <3> QED
      BY <3>1, <3>2
  <2>2. ASSUME NEW T \in without \cup with PROVE T \in SUBSET (1..(k + 1))
    <3>1. 1..k \subseteq 1..(k + 1) /\ k + 1 \in 1..(k + 1)
      OBVIOUS
    <3> QED
      BY <3>1
  <2> QED
    BY <2>1, <2>2
<1>2. without \cap with = {}
  <2>1. k + 1 \notin 1..k
    OBVIOUS
  <2> QED
    BY <2>1
<1>3. f \in Bijection(without, with)
  <2>1. f \in [without -> with]
    OBVIOUS
  <2>2. ASSUME NEW S \in without, NEW T \in without, f[S] = f[T]
        PROVE  S = T
    <3>1. S \cup {k + 1} = T \cup {k + 1}
      BY <2>2
    <3>2. k + 1 \notin S /\ k + 1 \notin T
      OBVIOUS
    <3> QED
      BY <3>1, <3>2
  <2>3. \A U \in with : \E T \in without : f[T] = U
    OBVIOUS
  <2> QED
    BY <2>1, <2>2, <2>3 DEF Bijection, Injection, IsInjective, Surjection
<1>4. IsFiniteSet(without) /\ Cardinality(without) = 2^k
  BY PowerCounts
<1>5. IsFiniteSet(with) /\ Cardinality(with) = 2^k
  <2>1. ExistsBijection(without, with)
    BY <1>3 DEF ExistsBijection
  <2> HIDE DEF without, with
  <2> QED
    BY <2>1, <1>4, FS_Bijection
<1>6. Cardinality(without \cup with) = 2^k + 2^k
  <2> HIDE DEF without, with
  <2>1. Cardinality(without \cup with)
          = Cardinality(without) + Cardinality(with) - Cardinality({})
    BY <1>2, <1>4, <1>5, FS_Union
  <2>2. Cardinality({}) = 0
    BY FS_EmptySet
  <2> QED
    BY <2>1, <2>2, <1>4, <1>5, PowerIsPositive
<1>7. Cardinality(SUBSET (1..(k + 1))) = 2^(k + 1)
  <2>1. k + 1 \in Nat
    OBVIOUS
  <2> QED
    BY <2>1, PowerCounts
<1>8. 2^k \in Nat
  BY PowerIsPositive
<1>9. 2^(k + 1) = 2^k + 2^k
  BY <1>1, <1>6, <1>7, Zenon
<1> QED
  BY <1>8, <1>9

\* The exponent of a power is at most the power, so that IsPowerOfTwo, which
\* looks for it there, finds it.
LEMMA ExponentIsBounded ==
  ASSUME NEW k \in Nat
  PROVE  k <= 2^k
<1> DEFINE f == [i \in 1..k |-> {i}]
<1>1. f \in Injection(1..k, SUBSET (1..k))
  BY DEF Injection, IsInjective
<1>2. Cardinality(1..k) <= Cardinality(SUBSET (1..k))
  <2> HIDE DEF f
  <2> QED
    BY <1>1, PowerCounts, FS_Injection
<1>3. Cardinality(SUBSET (1..k)) = 2^k
  BY PowerCounts
<1>4. Cardinality(1..k) = k
  BY FS_Interval
<1> QED
  BY <1>2, <1>3, <1>4

LEMMA PowersAreFound ==
  ASSUME NEW k \in Nat
  PROVE  IsPowerOfTwo(2^k)
BY PowerIsPositive, ExponentIsBounded DEF IsPowerOfTwo

\* What expand_capacity relies on: doubling a power of two below `max', a
\* power of two as well, gives a power of two that is not above it.
THEOREM DoublingStaysBelow ==
  ASSUME NEW n \in Nat, NEW max \in Nat,
         IsPowerOfTwo(n), IsPowerOfTwo(max), n <= max, n # max
  PROVE  IsPowerOfTwo(2 * n) /\ 2 * n <= max
<1>1. PICK k \in 0..n : n = 2^k
  BY DEF IsPowerOfTwo
<1>2. PICK m \in 0..max : max = 2^m
  BY DEF IsPowerOfTwo
<1>3. k + 1 <= m
  <2>1. ASSUME m <= k PROVE FALSE
    <3>1. 2^m <= 2^k
      BY <2>1, PowerIsMonotonic
    <3> QED
      BY <3>1, <1>1, <1>2
  <2> QED
    BY <2>1
<1>4. 2 * n = 2^(k + 1)
  BY <1>1, PowerDoubles
<1>5. 2^(k + 1) <= 2^m
  BY <1>3, PowerIsMonotonic
<1>6. IsPowerOfTwo(2^(k + 1))
  BY PowersAreFound
<1> QED
  BY <1>2, <1>4, <1>5, <1>6

\* Rounding gives a power of two, which is not above the largest one and not
\* below what was rounded unless that is; a power of two stays what it is.
THEOREM RoundingGivesPower ==
  ASSUME NEW n \in Nat, NEW max \in Nat, IsPowerOfTwo(max)
  PROVE  /\ UpperPowTwo(n, max) \in 1..max
         /\ IsPowerOfTwo(UpperPowTwo(n, max))
         /\ n <= max => n <= UpperPowTwo(n, max)
         /\ n <= max /\ IsPowerOfTwo(n) => UpperPowTwo(n, max) = n
<1>1. max > 0
  <2>1. PICK m \in 0..max : max = 2^m
    BY DEF IsPowerOfTwo
  <2> QED
    BY <2>1, PowerIsPositive
<1>2. CASE n >= max
  BY <1>1, <1>2 DEF UpperPowTwo
<1>3. CASE n < max
  <2> DEFINE above == {p \in 1..max : IsPowerOfTwo(p) /\ n <= p}
  <2>1. above \subseteq Nat /\ above # {}
    BY <1>1, <1>3
  <2>2. \E p \in above : \A q \in above : ~(<<q, p>> \in OpToRel(<, Nat))
    <3> HIDE DEF above
    <3> QED
      BY <2>1, NatLessThanWellFounded, WFMin
  <2>3. PICK p \in above : \A q \in above : ~(<<q, p>> \in OpToRel(<, Nat))
    BY <2>2
  <2>4. \A q \in 1..(p - 1) : ~(IsPowerOfTwo(q) /\ n <= q)
    <3> SUFFICES ASSUME NEW q \in 1..(p - 1), IsPowerOfTwo(q), n <= q
                 PROVE  FALSE
      OBVIOUS
    <3>1. q \in above /\ q \in Nat /\ p \in Nat /\ q < p
      OBVIOUS
    <3>2. <<q, p>> \in OpToRel(<, Nat)
      BY <3>1 DEF OpToRel
    <3> QED
      BY <2>3, <3>1, <3>2
  <2>5. \E r \in 1..max :
          /\ IsPowerOfTwo(r) /\ n <= r
          /\ \A q \in 1..(r - 1) : ~(IsPowerOfTwo(q) /\ n <= q)
    BY <2>4
  <2>6. UpperPowTwo(n, max) =
          CHOOSE r \in 1..max :
            /\ IsPowerOfTwo(r) /\ n <= r
            /\ \A q \in 1..(r - 1) : ~(IsPowerOfTwo(q) /\ n <= q)
    <3>1. ~(n >= max)
      BY <1>3
    <3> QED
      BY <3>1, Zenon DEF UpperPowTwo
  <2>7. /\ UpperPowTwo(n, max) \in 1..max
        /\ IsPowerOfTwo(UpperPowTwo(n, max)) /\ n <= UpperPowTwo(n, max)
        /\ \A q \in 1..(UpperPowTwo(n, max) - 1) : ~(IsPowerOfTwo(q) /\ n <= q)
    BY <2>5, <2>6
  <2>8. ASSUME IsPowerOfTwo(n) PROVE n > 0
    <3>1. PICK k \in 0..n : n = 2^k
      BY <2>8 DEF IsPowerOfTwo
    <3> QED
      BY <3>1, PowerIsPositive
  <2> QED
    BY <2>7, <2>8
<1> QED
  BY <1>2, <1>3
=============================================================================
