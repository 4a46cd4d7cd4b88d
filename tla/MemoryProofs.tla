----------------------------- MODULE MemoryProofs -----------------------------
(***************************************************************************)
(* Proofs on both pools and on the ring buffer, for every buffer, page     *)
(* size and growth, every capacity and every set of items.  The dynamic    *)
(* pool and the ring are instances in MCMemory, whose properties the       *)
(* theorems state.                                                         *)
(***************************************************************************)
EXTENDS MCMemory, SharedLemmas

-----------------------------------------------------------------------------
\* The static pool, as long as no allocation is of zero bytes: a block of no
\* bytes starts where its successor does, and a free of the one is then taken
\* for a free of the other.

\* The byte counts that reach the allocator are positive: those of malloc, and
\* the products of calloc after they wrapped.
PositiveSizes ==
  /\ 0 \notin Sizes
  /\ \A n \in Sizes, count \in 1..2 : (count * n) % (SizeMax + 1) > 0

Blocks == [ptr : Nat, size : Nat \ {0}]

\* Every block a client holds lies below high_ptr, except the newest one,
\* which lies exactly between high_ptr and free_ptr.
Layout ==
  /\ newest => /\ live # <<>>
               /\ live[Len(live)].ptr = pool.high
               /\ End(live[Len(live)]) = pool.free
  /\ \A i \in DOMAIN live :
       \/ newest /\ i = Len(live)
       \/ End(live[i]) <= pool.high

PoolInv ==
  /\ pool \in [high : Nat, free : Nat]
  /\ live \in Seq(Blocks)
  /\ newest \in BOOLEAN
  /\ ret \in Nat \cup {NULL}
  /\ pool.high <= pool.free
  /\ BlocksAreDisjoint
  /\ Layout

-----------------------------------------------------------------------------

\* A pool in its initial state, with nothing handed out.
LEMMA EmptyPool ==
  ASSUME NEW p, p = [high |-> 0, free |-> 0], NEW s, s = <<>>
  PROVE  /\ p \in [high : Nat, free : Nat] /\ p.high = 0 /\ p.free = 0
         /\ s \in Seq(Blocks) /\ DOMAIN s = {}
<1>1. DOMAIN <<>> = 1..0 /\ <<>> \in Seq(Blocks)
  OBVIOUS
<1>2. 1..0 = {}
  OBVIOUS
<1> QED
  BY <1>1, <1>2

LEMMA InitEstablishes ==
  ASSUME Init
  PROVE  PoolInv
<1>1. /\ pool \in [high : Nat, free : Nat] /\ pool.high = 0 /\ pool.free = 0
      /\ live \in Seq(Blocks) /\ DOMAIN live = {}
  BY EmptyPool DEF Init
<1>2. ret \in Nat \cup {NULL} /\ newest = FALSE
  BY DEF Init
<1>3. BlocksAreDisjoint /\ Layout
  BY <1>1, <1>2, Zenon DEF BlocksAreDisjoint, Layout
<1>4. pool.high <= pool.free
  BY <1>1
<1>5. newest \in BOOLEAN
  BY <1>2
<1> QED
  BY <1>1, <1>2, <1>3, <1>4, <1>5 DEF PoolInv

\* Every block held ends at or before free_ptr.
LEMMA AllBehindFree ==
  ASSUME PoolInv
  PROVE  FreeIsBehindBlocks
<1> SUFFICES ASSUME NEW i \in DOMAIN live
             PROVE  End(live[i]) <= pool.free
  BY DEF FreeIsBehindBlocks
<1>1. live \in Seq(Blocks) /\ pool.high \in Nat /\ pool.free \in Nat
      /\ pool.high <= pool.free
  BY DEF PoolInv
<1>2. live[i] \in Blocks
  BY <1>1
<1>3. End(live[i]) \in Nat
  BY <1>2 DEF Blocks, End
<1>4. CASE newest /\ i = Len(live)
  <2>1. End(live[i]) = pool.free
    BY <1>4 DEF PoolInv, Layout
  <2> QED
    BY <1>1, <2>1
<1>5. CASE ~(newest /\ i = Len(live))
  <2>1. End(live[i]) <= pool.high
    BY <1>5 DEF PoolInv, Layout
  <2> QED
    BY <1>1, <1>3, <2>1
<1> QED
  BY <1>4, <1>5

LEMMA MallocStep ==
  ASSUME PoolInv, NEW n \in Nat \ {0}, Malloc(n)
  PROVE  PoolInv'
<1>1. CASE ~Fits(n) /\ ret' = NULL /\ UNCHANGED <<pool, live, newest>>
  BY <1>1 DEF PoolInv, Layout, BlocksAreDisjoint, End
<1> DEFINE b == [ptr |-> pool.free, size |-> n]
<1>2. CASE /\ pool' = [high |-> pool.free, free |-> pool.free + n]
           /\ live' = Append(live, b) /\ newest' = TRUE /\ ret' = pool.free
  <2>1. pool.free \in Nat /\ pool.high \in Nat /\ live \in Seq(Blocks)
    BY DEF PoolInv
  <2>2. b \in Blocks /\ b.ptr = pool.free /\ End(b) = pool.free + n
    BY <2>1 DEF Blocks, End
  <2>3. /\ live' \in Seq(Blocks) /\ Len(live') = Len(live) + 1
        /\ live'[Len(live')] = b
        /\ \A i \in 1..Len(live) : live'[i] = live[i]
    <3> HIDE DEF b
    <3> QED
      BY <1>2, <2>1, <2>2
  <2>4. \A i \in DOMAIN live : End(live[i]) <= pool.free
    BY AllBehindFree DEF FreeIsBehindBlocks
  <2>5. /\ pool'.high = pool.free /\ pool'.free = pool.free + n
        /\ pool' \in [high : Nat, free : Nat]
    BY <1>2, <2>1
  <2>6. BlocksAreDisjoint'
    <3> SUFFICES ASSUME NEW i \in DOMAIN live', NEW j \in DOMAIN live', i < j
                 PROVE  End(live'[i]) <= live'[j].ptr
      BY DEF BlocksAreDisjoint, End
    <3>1. i \in 1..Len(live) /\ j \in 1..(Len(live) + 1)
      BY <2>1, <2>3
    <3>2. CASE j = Len(live) + 1
      BY <2>1, <2>2, <2>3, <2>4, <3>1, <3>2
    <3>3. CASE j # Len(live) + 1
      BY <2>1, <2>3, <3>1, <3>3 DEF PoolInv, BlocksAreDisjoint
    <3> QED
      BY <3>2, <3>3
  <2>7. Layout'
    <3>1. /\ live' # <<>> /\ live'[Len(live')].ptr = pool'.high
          /\ End(live'[Len(live')]) = pool'.free
      BY <2>1, <2>2, <2>3, <2>5
    <3>2. ASSUME NEW i \in DOMAIN live', i # Len(live')
          PROVE  End(live'[i]) <= pool'.high
      BY <2>1, <2>3, <2>4, <2>5, <3>2, SMTT(30)
    <3> QED
      BY <1>2, <3>1, <3>2 DEF Layout, End
  <2> QED
    BY <1>2, <2>1, <2>3, <2>5, <2>6, <2>7 DEF PoolInv
<1> QED
  BY <1>1, <1>2 DEF Malloc

\* The block that is freed is the newest one, or free has no effect.
LEMMA FreeIsExact ==
  ASSUME PoolInv, NEW i \in DOMAIN live, Free(i)
  PROVE  IF newest /\ i = Len(live)
         THEN pool' = [pool EXCEPT !.free = pool.high] /\ live[i].ptr = pool.high
         ELSE pool' = pool
<1>1. CASE newest /\ i = Len(live)
  BY <1>1 DEF PoolInv, Layout, Free
<1>2. CASE ~(newest /\ i = Len(live))
  <2>1. live[i] \in Blocks /\ pool.high \in Nat
    BY DEF PoolInv
  <2>2. live[i].ptr + live[i].size <= pool.high
    BY <1>2 DEF PoolInv, Layout, End
  <2>3. live[i].ptr # pool.high
    BY <2>1, <2>2 DEF Blocks
  <2> QED
    BY <1>2, <2>3 DEF Free
<1> QED
  BY <1>1, <1>2

LEMMA FreeStep ==
  ASSUME PoolInv, NEW i \in DOMAIN live, Free(i)
  PROVE  PoolInv'
<1>1. /\ pool.free \in Nat /\ pool.high \in Nat /\ live \in Seq(Blocks)
      /\ i \in 1..Len(live) /\ pool.high <= pool.free
      /\ pool \in [high : Nat, free : Nat]
  BY DEF PoolInv
<1>2. /\ live' \in Seq(Blocks) /\ Len(live') = Len(live) - 1
      /\ \A j \in 1..Len(live') :
           live'[j] = IF j < i THEN live[j] ELSE live[j + 1]
  BY <1>1, WithoutOne DEF Free
<1>3. newest' = (newest /\ i # Len(live)) /\ ret' = ret
  BY DEF Free
<1>4. pool'.high = pool.high /\ pool' \in [high : Nat, free : Nat]
      /\ (newest' => pool'.free = pool.free)
      /\ pool'.high <= pool'.free
  <2>1. CASE newest /\ i = Len(live)
    <3>1. pool' = [pool EXCEPT !.free = pool.high]
      BY <2>1, FreeIsExact
    <3>2. pool'.high = pool.high /\ pool'.free = pool.high
          /\ pool' \in [high : Nat, free : Nat]
      BY <1>1, <3>1
    <3>3. ~newest'
      BY <1>3, <2>1, Zenon
    <3> QED
      BY <1>1, <3>2, <3>3
  <2>2. CASE ~(newest /\ i = Len(live))
    <3>1. pool' = pool
      BY <2>2, FreeIsExact
    <3> QED
      BY <1>1, <3>1
  <2> QED
    BY <2>1, <2>2
<1>5. BlocksAreDisjoint'
  <2> SUFFICES ASSUME NEW j \in DOMAIN live', NEW k \in DOMAIN live', j < k
               PROVE  End(live'[j]) <= live'[k].ptr
    BY DEF BlocksAreDisjoint, End
  <2>1. j \in 1..(Len(live) - 1) /\ k \in 1..(Len(live) - 1)
    BY <1>1, <1>2
  <2>2. PICK x \in 1..Len(live), y \in 1..Len(live) :
          x < y /\ live'[j] = live[x] /\ live'[k] = live[y]
    <3>1. i \in Int /\ Len(live) \in Nat /\ j \in Int /\ k \in Int
      BY <1>1, <2>1
    <3>2. CASE k < i
      <4>1. live'[j] = live[j] /\ live'[k] = live[k]
        BY <1>2, <2>1, <3>1, <3>2
      <4>2. j \in 1..Len(live) /\ k \in 1..Len(live)
        BY <2>1, <3>1
      <4> QED
        BY <4>1, <4>2
    <3>3. CASE j < i /\ ~(k < i)
      <4>1. live'[j] = live[j] /\ live'[k] = live[k + 1]
        BY <1>2, <2>1, <3>1, <3>3
      <4>2. j \in 1..Len(live) /\ k + 1 \in 1..Len(live) /\ j < k + 1
        BY <2>1, <3>1
      <4> QED
        BY <4>1, <4>2
    <3>4. CASE ~(j < i) /\ ~(k < i)
      <4>1. live'[j] = live[j + 1] /\ live'[k] = live[k + 1]
        BY <1>2, <2>1, <3>1, <3>4
      <4>2. j + 1 \in 1..Len(live) /\ k + 1 \in 1..Len(live) /\ j + 1 < k + 1
        BY <2>1, <3>1
      <4> QED
        BY <4>1, <4>2
    <3> QED
      BY <3>1, <3>2, <3>3, <3>4
  <2> QED
    BY <1>1, <2>2 DEF PoolInv, BlocksAreDisjoint
<1>6. Layout'
  <2>1. ASSUME newest'
        PROVE  /\ live' # <<>> /\ live'[Len(live')] = live[Len(live)]
    <3>1. i \in Int /\ Len(live) \in Nat /\ i < Len(live) /\ 1 <= i
      <4>1. i # Len(live)
        BY <1>3, <2>1, Zenon
      <4> QED
        BY <1>1, <4>1
    <3>2. Len(live') = Len(live) - 1 /\ Len(live') \in 1..Len(live')
      BY <1>2, <3>1
    <3>3. live'[Len(live')] = live[Len(live') + 1] /\ live' # <<>>
      <4>1. ~(Len(live') < i)
        BY <3>1, <3>2
      <4> QED
        BY <1>2, <3>2, <4>1
    <3> QED
      BY <3>1, <3>2, <3>3
  <2>2. newest' => /\ live' # <<>> /\ live'[Len(live')].ptr = pool'.high
                   /\ End(live'[Len(live')]) = pool'.free
    BY <1>3, <1>4, <2>1 DEF PoolInv, Layout
  <2>3. ASSUME NEW j \in DOMAIN live', ~(newest' /\ j = Len(live'))
        PROVE  End(live'[j]) <= pool'.high
    <3>1. j \in 1..(Len(live) - 1)
      BY <1>1, <1>2
    <3>2. PICK x \in 1..Len(live) :
            live'[j] = live[x] /\ x # i /\ x = (IF j < i THEN j ELSE j + 1)
      BY <1>1, <1>2, <3>1
    <3>3. ~(newest /\ x = Len(live))
      <4>1. i \in Int /\ j \in Int /\ Len(live) \in Nat
        BY <1>1, <3>1
      <4>2. ASSUME newest, x = Len(live)
            PROVE  FALSE
        <5>1. i # Len(live) /\ newest'
          BY <1>3, <3>2, <4>2
        <5>2. j # Len(live) - 1
          BY <1>2, <2>3, <5>1
        <5> QED
          BY <1>1, <3>1, <3>2, <4>1, <4>2, <5>1, <5>2
      <4> QED
        BY <4>2
    <3>4. End(live[x]) <= pool.high
      BY <1>1, <3>2, <3>3 DEF PoolInv, Layout
    <3> QED
      BY <1>4, <3>2, <3>4
  <2> QED
    BY <2>2, <2>3 DEF Layout, End
<1> QED
  BY <1>2, <1>3, <1>4, <1>5, <1>6 DEF PoolInv

LEMMA ResetStep ==
  ASSUME PoolInv, Reset
  PROVE  PoolInv'
<1>1. /\ pool' \in [high : Nat, free : Nat] /\ pool'.high = 0 /\ pool'.free = 0
      /\ live' \in Seq(Blocks) /\ DOMAIN live' = {}
  BY EmptyPool DEF Reset
<1>2. ret' \in Nat \cup {NULL} /\ newest' = FALSE
  BY DEF Reset, PoolInv
<1>3. BlocksAreDisjoint' /\ Layout'
  BY <1>1, <1>2, Zenon DEF BlocksAreDisjoint, Layout
<1>4. pool'.high <= pool'.free
  BY <1>1
<1>5. newest' \in BOOLEAN
  BY <1>2
<1> QED
  BY <1>1, <1>2, <1>3, <1>4, <1>5 DEF PoolInv

LEMMA InvPreserved ==
  ASSUME PositiveSizes, PoolInv, [Next]_vars
  PROVE  PoolInv'
<1>1. ASSUME NEW n \in Sizes, Malloc(n) PROVE PoolInv'
  BY <1>1, MallocStep, PoolConstants DEF PositiveSizes
<1>2. ASSUME NEW n \in Sizes, NEW count \in 1..2, Calloc(count, n)
      PROVE  PoolInv'
  <2> DEFINE m == (count * n) % (SizeMax + 1)
  <2>1. n \in Nat /\ SizeMax \in Nat /\ m > 0
    BY PoolConstants DEF PositiveSizes
  <2>2. m \in Nat \ {0}
    BY <2>1
  <2>3. Malloc(m)
    BY <1>2 DEF Calloc
  <2> HIDE DEF m
  <2> QED
    BY <2>2, <2>3, MallocStep
<1>3. ASSUME UNCHANGED vars PROVE PoolInv'
  BY <1>3 DEF vars, PoolInv, Layout, BlocksAreDisjoint, End
<1> QED
  BY <1>1, <1>2, <1>3, FreeStep, ResetStep DEF Next

-----------------------------------------------------------------------------

\* Whatever is allocated, freed in any order and reset: two blocks a client
\* holds never overlap, and the next one starts behind all of them.
THEOREM StaticPoolBlocks ==
  ASSUME PositiveSizes
  PROVE  Spec => [](BlocksAreDisjoint /\ FreeIsBehindBlocks)
<1>1. Init => PoolInv
  BY InitEstablishes
<1>2. PoolInv /\ [Next]_vars => PoolInv'
  BY InvPreserved
<1>3. PoolInv => BlocksAreDisjoint /\ FreeIsBehindBlocks
  BY AllBehindFree DEF PoolInv
<1> QED
  BY <1>1, <1>2, <1>3, PTL DEF Spec

\* free gives back the bytes of the most recent block and of no other: a stale
\* pointer comparison never rolls the pool back over a block still held.
THEOREM StaticPoolFrees ==
  ASSUME PositiveSizes
  PROVE  Spec => FreesNewestOnly
<1>1. Init => PoolInv
  BY InitEstablishes
<1>2. PoolInv /\ [Next]_vars => PoolInv'
  BY InvPreserved
<1>3. PoolInv /\ [Next]_vars =>
        [\A i \in DOMAIN live :
           Free(i) => IF newest /\ i = Len(live)
                      THEN pool'.free = live[i].ptr
                      ELSE pool' = pool]_vars
  BY FreeIsExact DEF PoolInv
<1> QED
  BY <1>1, <1>2, <1>3, PTL DEF Spec, FreesNewestOnly

-----------------------------------------------------------------------------
\* The ring

Slots == 0..(Capacity - 1)

\* The slot after i; the slot with d others between it and h, going back; the
\* i-th slot from t on; the number of slots from h up to t, going round.
Following(i) == IF i = Capacity - 1 THEN 0 ELSE i + 1
Back(h, d)   == IF d < h THEN h - d - 1 ELSE h - d - 1 + Capacity
From(t, i)   == IF t + i <= Capacity THEN t + i - 1 ELSE t + i - 1 - Capacity
Span(h, t)   == IF h <= t THEN t - h ELSE t - h + Capacity

\* What is queued and what lies between head and tail fit in the ring together,
\* and fill it from the moment the ring was full: tail is then where the queue
\* begins.
RingInv ==
  /\ queued \in Seq(Items) /\ Len(queued) <= Capacity
  /\ primed \in BOOLEAN /\ (primed => queued # <<>>)
  /\ ring \in [size : {Len(queued)}, head : Slots, tail : Slots,
               buf : [Slots -> Items \cup {NoElement}]]
  /\ Span(ring.head, ring.tail) + Len(queued) <= Capacity
  /\ primed => Span(ring.head, ring.tail) + Len(queued) = Capacity
  /\ LatestAreKept

LEMMA FollowingSlot ==
  ASSUME NEW i \in Slots
  PROVE  Rbuf!Step(i) = Following(i) /\ Following(i) \in Slots
<1> DEFINE x == i + 1
<1>1. /\ Capacity \in Nat \ {0} /\ x \in Int
      /\ 0 <= x /\ x <= Capacity /\ x < 2 * Capacity
  BY RingConstants DEF Slots
<1>2. /\ x < Capacity => x % Capacity = x
      /\ Capacity <= x => x % Capacity = x - Capacity
  <2> HIDE DEF x
  <2> QED
    BY <1>1, Wrap
<1> QED
  BY <1>1, <1>2 DEF Rbuf!Step, Following, Slots

LEMMA SlotOfItem ==
  ASSUME NEW h \in Slots, NEW n \in 0..Capacity, NEW i \in 1..n
  PROVE  /\ (h + Capacity - n + i - 1) % Capacity = Back(h, n - i)
         /\ (h + i - 1) % Capacity = From(h, i)
<1> DEFINE x == h + Capacity - n + i - 1
           y == h + i - 1
<1>1. /\ Capacity \in Nat \ {0} /\ h \in Int /\ n \in Int /\ i \in Int
      /\ x \in Int /\ 0 <= x /\ x < 2 * Capacity
      /\ y \in Int /\ 0 <= y /\ y < 2 * Capacity
  BY RingConstants DEF Slots
<1>2. /\ x < Capacity => x % Capacity = x
      /\ Capacity <= x => x % Capacity = x - Capacity
  <2> HIDE DEF x, y
  <2> QED
    BY <1>1, Wrap
<1>3. /\ y < Capacity => y % Capacity = y
      /\ Capacity <= y => y % Capacity = y - Capacity
  <2> HIDE DEF x, y
  <2> QED
    BY <1>1, Wrap
<1>4. x % Capacity = Back(h, n - i)
  <2>1. x < Capacity <=> ~(n - i < h)
    BY <1>1
  <2> QED
    BY <1>1, <1>2, <2>1 DEF Back
<1>5. y % Capacity = From(h, i)
  <2>1. y < Capacity <=> h + i <= Capacity
    BY <1>1
  <2> QED
    BY <1>1, <1>3, <2>1 DEF From
<1> QED
  BY <1>4, <1>5

LEMMA GoingBack ==
  ASSUME NEW h \in Slots, NEW d \in Slots
  PROVE  /\ Back(h, d) \in Slots
         /\ Back(h, d) = h <=> d = Capacity - 1
         /\ d > 0 => Back(Following(h), d) = Back(h, d - 1)
         /\ Back(Following(h), 0) = h
BY RingConstants DEF Slots, Back, Following

LEMMA SpanChanges ==
  ASSUME NEW h \in Slots, NEW t \in Slots
  PROVE  /\ Span(h, t) \in Slots
         /\ Span(h, t) = 0 <=> h = t
         /\ h # t => Span(Following(h), t) = Span(h, t) - 1
         /\ Span(h, h) = 0
         /\ Span(h, t) < Capacity - 1 => Span(h, Following(t)) = Span(h, t) + 1
         /\ Span(h, t) = Capacity - 1 => Span(h, Following(t)) = 0
BY RingConstants DEF Slots, Span, Following

LEMMA SpanMeetsQueue ==
  ASSUME NEW h \in Slots, NEW t \in Slots, NEW n \in 0..Capacity, NEW i \in 1..n,
         Span(h, t) + n = Capacity
  PROVE  From(t, i) = Back(h, n - i)
BY RingConstants DEF Slots, Span, From, Back

\* What LatestAreKept says of the contents, without remainders.
Kept(b, h, q) == \A d \in 0..(Len(q) - 1) : b[Back(h, d)] = q[Len(q) - d]

LEMMA LatestBack ==
  ASSUME NEW h \in Slots, NEW q \in Seq(Items), Len(q) <= Capacity, NEW b
  PROVE  (\A i \in DOMAIN q : b[(h + Capacity - Len(q) + i - 1) % Capacity] = q[i])
         <=> Kept(b, h, q)
<1> DEFINE n == Len(q)
<1>1. n \in 0..Capacity /\ DOMAIN q = 1..n
  BY RingConstants
<1>2. ASSUME NEW i \in 1..n
      PROVE  (h + Capacity - n + i - 1) % Capacity = Back(h, n - i)
  BY <1>1, SlotOfItem
<1> HIDE DEF n
<1>3. ASSUME \A i \in 1..n : b[Back(h, n - i)] = q[i],
             NEW d \in 0..(n - 1)
      PROVE  b[Back(h, d)] = q[n - d]
  <2>1. n - d \in 1..n /\ n - (n - d) = d
    BY <1>1, RingConstants
  <2> QED
    BY <1>3, <2>1
<1>4. ASSUME \A d \in 0..(n - 1) : b[Back(h, d)] = q[n - d],
             NEW i \in 1..n
      PROVE  b[Back(h, n - i)] = q[i]
  <2>1. n - i \in 0..(n - 1) /\ n - (n - i) = i
    BY <1>1, RingConstants
  <2> QED
    BY <1>4, <2>1
<1> QED
  BY <1>1, <1>2, <1>3, <1>4 DEF Kept, n

LEMMA RingStarts ==
  ASSUME Rbuf!Init
  PROVE  RingInv
<1>1. queued = <<>> /\ Len(queued) = 0 /\ DOMAIN queued = {}
  BY DEF Rbuf!Init
<1>2. 0 \in Slots
  BY RingConstants DEF Slots
<1>3. Span(0, 0) = 0 /\ Capacity \in Nat
  BY RingConstants DEF Span
<1>4. /\ ring.head = 0 /\ ring.tail = 0
      /\ ring \in [size : {0}, head : Slots, tail : Slots,
                   buf : [Slots -> Items \cup {NoElement}]]
  BY <1>2 DEF Rbuf!Init, Rbuf!Zero, Slots
<1>5. primed = FALSE /\ LatestAreKept
  BY <1>1 DEF Rbuf!Init, LatestAreKept, Rbuf!LatestAreKept
<1> QED
  BY <1>1, <1>3, <1>4, <1>5 DEF RingInv

\* The queue after an item came in: one more, or as many without the oldest.
LEMMA QueueGrows ==
  ASSUME NEW q \in Seq(Items), Len(q) <= Capacity, NEW e \in Items,
         NEW q2, q2 = IF Len(Append(q, e)) > Capacity THEN Tail(Append(q, e))
                      ELSE Append(q, e)
  PROVE  /\ q2 \in Seq(Items)
         /\ Len(q) < Capacity => Len(q2) = Len(q) + 1
         /\ Len(q) = Capacity => Len(q2) = Capacity
         /\ q2[Len(q2)] = e
         /\ \A d \in 1..(Len(q2) - 1) : q2[Len(q2) - d] = q[Len(q) - (d - 1)]
<1> DEFINE more == Append(q, e)
<1>1. /\ more \in Seq(Items) /\ Len(more) = Len(q) + 1
      /\ \A i \in 1..Len(q) : more[i] = q[i]
      /\ more[Len(q) + 1] = e
  BY Appended
<1>2. Capacity \in Nat /\ Capacity > 0 /\ Len(q) \in Nat
  BY RingConstants
<1> HIDE DEF more
<1>3. CASE Len(q) < Capacity
  <2>1. q2 = more /\ Len(q2) = Len(q) + 1
    BY <1>1, <1>2, <1>3 DEF more
  <2>2. q2[Len(q2)] = e
    BY <1>1, <2>1
  <2>3. ASSUME NEW d \in 1..(Len(q2) - 1)
        PROVE  q2[Len(q2) - d] = q[Len(q) - (d - 1)]
    <3>1. Len(q2) - d = Len(q) - (d - 1) /\ Len(q) - (d - 1) \in 1..Len(q)
      BY <1>2, <2>1
    <3> QED
      BY <1>1, <2>1, <3>1
  <2> QED
    BY <1>1, <1>2, <1>3, <2>1, <2>2, <2>3
<1>4. CASE Len(q) = Capacity
  <2>1. q2 = Tail(more)
    BY <1>1, <1>2, <1>4 DEF more
  <2>2. /\ q2 \in Seq(Items) /\ Len(q2) = Len(q)
        /\ \A i \in 1..Len(q) : q2[i] = more[i + 1]
    BY <1>1, <1>2, <2>1, Beheaded
  <2>3. q2[Len(q2)] = e
    BY <1>1, <1>2, <1>4, <2>2
  <2>4. ASSUME NEW d \in 1..(Len(q2) - 1)
        PROVE  q2[Len(q2) - d] = q[Len(q) - (d - 1)]
    <3>1. /\ Len(q2) - d \in 1..Len(q) /\ (Len(q2) - d) + 1 = Len(q) - (d - 1)
          /\ Len(q) - (d - 1) \in 1..Len(q)
      BY <1>2, <2>2
    <3> QED
      BY <1>1, <2>2, <3>1
  <2>5. ~(Len(q) < Capacity) /\ Len(q2) = Capacity
    BY <1>2, <1>4, <2>2
  <2> QED
    BY <2>2, <2>3, <2>4, <2>5
<1>5. Len(q) < Capacity \/ Len(q) = Capacity
  BY <1>2
<1> QED
  BY <1>3, <1>4, <1>5

LEMMA EnqueueStep ==
  ASSUME RingInv, NEW e \in Items, Rbuf!Enqueue(e)
  PROVE  RingInv'
<1> DEFINE n  == Len(queued)
           h  == ring.head
           t  == ring.tail
           h2 == Following(h)
           t2 == IF h = t THEN h2 ELSE t
           n2 == IF n < Capacity THEN n + 1 ELSE Capacity
           b2 == [ring.buf EXCEPT ![h] = e]
<1>1. /\ Capacity \in Nat /\ Capacity > 0 /\ queued \in Seq(Items)
      /\ n \in 0..Capacity /\ ring.size = n /\ primed \in BOOLEAN
      /\ h \in Slots /\ t \in Slots
      /\ ring.buf \in [Slots -> Items \cup {NoElement}]
      /\ Span(h, t) + n <= Capacity /\ (primed => Span(h, t) + n = Capacity)
  BY RingConstants DEF RingInv
<1>2. Kept(ring.buf, h, queued)
  BY <1>1, LatestBack DEF RingInv, LatestAreKept, Rbuf!LatestAreKept
<1>3. /\ queued' \in Seq(Items) /\ Len(queued') = n2
      /\ queued'[n2] = e
      /\ \A d \in 1..(n2 - 1) : queued'[n2 - d] = queued[n - (d - 1)]
  <2>1. /\ queued' \in Seq(Items) /\ queued'[Len(queued')] = e
        /\ n < Capacity => Len(queued') = n + 1
        /\ n = Capacity => Len(queued') = Capacity
        /\ \A d \in 1..(Len(queued') - 1) :
             queued'[Len(queued') - d] = queued[n - (d - 1)]
    <3>1. queued' = IF Len(Append(queued, e)) > Capacity THEN Tail(Append(queued, e))
                    ELSE Append(queued, e)
      BY DEF Rbuf!Enqueue, Rbuf!Stored
    <3>2. Len(queued) <= Capacity
      BY <1>1
    <3> QED
      BY <1>1, <3>1, <3>2, QueueGrows
  <2>2. Len(queued') = n2
    BY <1>1, <2>1
  <2> QED
    BY <2>1, <2>2
<1>4. /\ h2 \in Slots /\ t2 \in Slots /\ n2 \in 1..Capacity
      /\ Rbuf!Step(h) = h2 /\ Rbuf!NewTail = t2 /\ Rbuf!NewSize = n2
      /\ b2 \in [Slots -> Items \cup {NoElement}]
  BY <1>1, FollowingSlot DEF Rbuf!NewTail, Rbuf!NewSize
<1>5. ring' = [size |-> n2, head |-> h2, tail |-> t2, buf |-> b2]
  BY <1>4 DEF Rbuf!Enqueue, Rbuf!Stored
<1>6. primed' = (primed \/ n + 1 >= Capacity)
  BY <1>1, Appended DEF Rbuf!Enqueue, Rbuf!Stored
<1>7. Span(h2, t2) = IF Span(h, t) = 0 THEN 0 ELSE Span(h, t) - 1
  BY <1>1, <1>4, SpanChanges
<1>8. /\ Span(h2, t2) + n2 <= Capacity
      /\ primed' => Span(h2, t2) + n2 = Capacity
  <2>1. Span(h, t) \in 0..(Capacity - 1)
    BY <1>1, SpanChanges DEF Slots
  <2>2. primed' => primed \/ n + 1 >= Capacity
    BY <1>6
  <2> HIDE DEF h, t, n, h2, t2
  <2> QED
    BY <1>1, <1>7, <2>1, <2>2
<1>9. Kept(b2, h2, queued')
  <2> SUFFICES ASSUME NEW d \in 0..(n2 - 1)
               PROVE  b2[Back(h2, d)] = queued'[n2 - d]
    BY <1>3 DEF Kept
  <2>1. d \in Slots /\ n2 \in Nat
    BY <1>1, <1>4 DEF Slots
  <2>2. CASE d = 0
    <3>1. Back(h2, 0) = h
      BY <1>1, <2>1, GoingBack
    <3> QED
      BY <1>1, <1>3, <2>1, <2>2, <3>1
  <2>3. CASE d > 0
    <3>1. /\ d - 1 \in Slots /\ d - 1 # Capacity - 1 /\ d \in 1..(n2 - 1)
          /\ d - 1 \in 0..(n - 1)
      BY <1>1, <2>1, <2>3 DEF Slots
    <3>2. Back(h2, d) = Back(h, d - 1) /\ Back(h, d - 1) \in Slots /\ Back(h, d - 1) # h
      BY <1>1, <2>1, <2>3, <3>1, GoingBack
    <3>3. b2[Back(h2, d)] = ring.buf[Back(h, d - 1)]
      BY <1>1, <3>2
    <3>4. ring.buf[Back(h, d - 1)] = queued[n - (d - 1)]
      BY <1>2, <3>1 DEF Kept
    <3> QED
      BY <1>3, <3>1, <3>3, <3>4
  <2> QED
    BY <2>1, <2>2, <2>3 DEF Slots
<1> HIDE DEF n2, h2, t2, b2
<1>10. /\ ring'.size = n2 /\ ring'.head = h2 /\ ring'.tail = t2 /\ ring'.buf = b2
       /\ ring' \in [size : {n2}, head : Slots, tail : Slots,
                     buf : [Slots -> Items \cup {NoElement}]]
  BY <1>4, <1>5
<1>11. LatestAreKept'
  BY <1>3, <1>4, <1>9, <1>10, LatestBack DEF LatestAreKept, Rbuf!LatestAreKept
<1>12. primed' \in BOOLEAN /\ queued' # <<>> /\ Len(queued') <= Capacity
  BY <1>1, <1>3, <1>4, <1>6
<1> QED
  BY <1>3, <1>8, <1>10, <1>11, <1>12 DEF RingInv

LEMMA DequeueStep ==
  ASSUME RingInv, Rbuf!Dequeue
  PROVE  RingInv'
<1>1. CASE UNCHANGED <<ring, queued, primed>>
  BY <1>1 DEF RingInv, LatestAreKept, Rbuf!LatestAreKept
<1> DEFINE n  == Len(queued)
           h  == ring.head
           t2 == Following(ring.tail)
<1>2. CASE /\ ring.size # 0
           /\ ring' = [ring EXCEPT !.tail = Rbuf!Step(@), !.size = @ - 1]
           /\ queued' = Tail(queued)
           /\ primed' = (primed /\ Len(queued) > 1)
  <2>1. /\ Capacity \in Nat /\ Capacity > 0 /\ queued \in Seq(Items)
        /\ n \in 1..Capacity /\ ring.size = n /\ primed \in BOOLEAN
        /\ h \in Slots /\ ring.tail \in Slots
        /\ ring.buf \in [Slots -> Items \cup {NoElement}]
        /\ Span(h, ring.tail) + n <= Capacity
        /\ primed => Span(h, ring.tail) + n = Capacity
    BY <1>2, RingConstants DEF RingInv
  <2>2. Kept(ring.buf, h, queued)
    BY <2>1, LatestBack DEF RingInv, LatestAreKept, Rbuf!LatestAreKept
  <2>3. /\ queued' \in Seq(Items) /\ Len(queued') = n - 1
        /\ \A i \in 1..(n - 1) : queued'[i] = queued[i + 1]
    BY <1>2, <2>1, Beheaded
  <2>4. t2 \in Slots /\ Rbuf!Step(ring.tail) = t2
    BY <2>1, FollowingSlot
  <2>5. /\ ring'.size = n - 1 /\ ring'.head = h /\ ring'.tail = t2
        /\ ring'.buf = ring.buf
        /\ ring' \in [size : {n - 1}, head : Slots, tail : Slots,
                      buf : [Slots -> Items \cup {NoElement}]]
    <3> HIDE DEF t2
    <3>1. ring \in [size : {n}, head : Slots, tail : Slots,
                    buf : [Slots -> Items \cup {NoElement}]]
      BY DEF RingInv
    <3>2. ring' = [ring EXCEPT !.tail = t2, !.size = n - 1]
      BY <1>2, <2>1, <2>4, <3>1
    <3> QED
      BY <2>1, <2>4, <3>1, <3>2
  <2>6. /\ Span(h, ring.tail) \in 0..(Capacity - 1)
        /\ Span(h, ring.tail) = Capacity - 1 => Span(h, t2) = 0
        /\ Span(h, ring.tail) # Capacity - 1 => Span(h, t2) = Span(h, ring.tail) + 1
    <3>1. Span(h, ring.tail) \in Slots
      BY <2>1, SpanChanges
    <3>2. /\ Span(h, ring.tail) < Capacity - 1 => Span(h, t2) = Span(h, ring.tail) + 1
          /\ Span(h, ring.tail) = Capacity - 1 => Span(h, t2) = 0
      BY <2>1, SpanChanges
    <3> HIDE DEF h, t2
    <3> QED
      BY <2>1, <3>1, <3>2 DEF Slots
  <2>7. /\ Span(h, t2) + (n - 1) <= Capacity
        /\ primed' => Span(h, t2) + (n - 1) = Capacity
    <3>1. primed' => primed /\ n > 1
      BY <1>2
    <3> HIDE DEF n, h, t2
    <3> QED
      BY <2>1, <2>6, <3>1
  <2>8. Kept(ring.buf, h, queued')
    <3> SUFFICES ASSUME NEW d \in 0..Len(queued') - 1
                 PROVE  ring.buf[Back(h, d)] = queued'[Len(queued') - d]
      BY DEF Kept
    <3>1. d \in 0..(n - 1) /\ n - 1 - d \in 1..(n - 1) /\ (n - 1 - d) + 1 = n - d
          /\ Len(queued') - d = n - 1 - d
      BY <2>1, <2>3
    <3> QED
      BY <2>2, <2>3, <3>1 DEF Kept
  <2> HIDE DEF h, t2
  <2>9. LatestAreKept'
    BY <2>1, <2>3, <2>5, <2>8, LatestBack DEF LatestAreKept, Rbuf!LatestAreKept
  <2>10. primed' \in BOOLEAN /\ (primed' => queued' # <<>>) /\ Len(queued') <= Capacity
    <3>1. primed' \in BOOLEAN /\ (primed' => n > 1)
      BY <1>2, <2>1
    <3>2. n > 1 => queued' # <<>>
      BY <2>1, <2>3
    <3> QED
      BY <2>1, <2>3, <3>1, <3>2
  <2> QED
    BY <2>3, <2>5, <2>7, <2>9, <2>10 DEF RingInv
<1> QED
  BY <1>1, <1>2 DEF Rbuf!Dequeue

\* A ring that was full begins at tail.
LEMMA QueueBeginsAtTail ==
  ASSUME RingInv
  PROVE  PrimedRingHoldsQueue
<1> SUFFICES ASSUME primed, NEW i \in 1..Len(queued)
             PROVE  ring.buf[(ring.tail + i - 1) % Capacity] = queued[i]
  BY DEF RingInv, PrimedRingHoldsQueue, Rbuf!PrimedRingHoldsQueue
<1> DEFINE n == Len(queued)
<1>1. /\ Capacity \in Nat /\ Capacity > 0 /\ queued \in Seq(Items)
      /\ n \in 0..Capacity /\ i \in 1..n /\ i \in 1..Capacity
      /\ ring.head \in Slots /\ ring.tail \in Slots
      /\ Span(ring.head, ring.tail) + n = Capacity
  BY RingConstants DEF RingInv
<1>2. Kept(ring.buf, ring.head, queued)
  BY <1>1, LatestBack DEF RingInv, LatestAreKept, Rbuf!LatestAreKept
<1>3. (ring.tail + i - 1) % Capacity = From(ring.tail, i)
  BY <1>1, SlotOfItem
<1>4. From(ring.tail, i) = Back(ring.head, n - i)
  BY <1>1, SpanMeetsQueue
<1>5. n - i \in 0..(n - 1) /\ n - (n - i) = i
  BY <1>1
<1> QED
  BY <1>2, <1>3, <1>4, <1>5 DEF Kept

LEMMA RingKeepsInv ==
  ASSUME RingInv, Rbuf!Next
  PROVE  RingInv'
<1>1. ASSUME NEW e \in Items, Rbuf!Enqueue(e) PROVE RingInv'
  BY <1>1, EnqueueStep
<1>2. CASE Rbuf!Dequeue
  BY <1>2, DequeueStep
<1>3. CASE UNCHANGED <<ring, queued, primed>>
  BY <1>3 DEF RingInv, LatestAreKept, Rbuf!LatestAreKept
<1> QED
  BY <1>1, <1>2, <1>3 DEF Rbuf!Next, Rbuf!Peek

\* Whatever the calls of a client, also on one that is never full.
THEOREM RingInvariant == MCSpec => []RingInv
<1>1. MCInit => RingInv
  BY RingStarts DEF MCInit
<1>2. RingInv /\ [MCNext]_<<subject, vars, dynamicVars, ringVars>> => RingInv'
  <2> SUFFICES ASSUME RingInv, [MCNext]_<<subject, vars, dynamicVars, ringVars>>
               PROVE  RingInv'
    OBVIOUS
  <2>1. CASE Rbuf!Next
    BY <2>1, RingKeepsInv
  <2>2. CASE UNCHANGED ringVars
    BY <2>2 DEF RingInv, ringVars, LatestAreKept, Rbuf!LatestAreKept
  <2> QED
    BY <2>1, <2>2 DEF MCNext
<1> QED
  BY <1>1, <1>2, PTL DEF MCSpec

\* From the moment a ring is full until it is empty, the slots from tail on hold
\* the queue in order, and size is its length.
THEOREM PrimedRingIsAQueue == MCSpec => []PrimedRingHoldsQueue
BY RingInvariant, QueueBeginsAtTail, PTL

\* No enqueue overwrites one of the latest Capacity items, or of all since the
\* start.
THEOREM LatestItemsAreKept == MCSpec => []LatestAreKept
<1>1. RingInv => LatestAreKept
  BY DEF RingInv
<1> QED
  BY <1>1, RingInvariant, PTL

\* Whatever its client did before, from the moment a ring is full until it is empty
\* a dequeue that succeeds gives back the oldest item.  Before it was full it need
\* not.
THEOREM DequeueGivesOldest == MCSpec => DequeuesOldest
<1>1. ASSUME RingInv, primed, Rbuf!Dequeue, item'.stat = Rbuf!CC_OK
      PROVE  item' = Rbuf!Got(Head(queued))
  <2>1. item' # Rbuf!Refused(Rbuf!CC_ERR_OUT_OF_RANGE)
    BY <1>1 DEF Rbuf!Refused, Rbuf!Result, Rbuf!CC_OK, Rbuf!CC_ERR_OUT_OF_RANGE
  <2>2. item' = Rbuf!Got(ring.buf[ring.tail])
    BY <1>1, <2>1 DEF Rbuf!Dequeue
  <2>3. /\ queued \in Seq(Items) /\ Len(queued) > 0 /\ 1 \in DOMAIN queued
        /\ ring.tail \in Slots
    BY <1>1, <2>2 DEF RingInv
  <2>4. (ring.tail + 1 - 1) % Capacity = ring.tail
    <3> DEFINE x == ring.tail + 1 - 1
    <3>1. /\ Capacity \in Nat \ {0} /\ x \in Int /\ 0 <= x /\ x < Capacity
          /\ x = ring.tail
      BY <2>3, RingConstants DEF Slots
    <3> HIDE DEF x
    <3>2. x % Capacity = x
      BY <3>1, Wrap
    <3> QED
      BY <3>1, <3>2 DEF x
  <2>5. ring.buf[(ring.tail + 1 - 1) % Capacity] = queued[1]
    BY <1>1, <2>2, <2>3, QueueBeginsAtTail
      DEF PrimedRingHoldsQueue, Rbuf!PrimedRingHoldsQueue
  <2>6. Head(queued) = queued[1]
    BY <2>3
  <2> QED
    BY <2>2, <2>4, <2>5, <2>6
<1>2. RingInv =>
        [primed /\ Rbuf!Dequeue /\ item'.stat = Rbuf!CC_OK
           => item' = Rbuf!Got(Head(queued))]_<<ring, queued, primed, item>>
  BY <1>1
<1> QED
  BY <1>2, RingInvariant, PTL DEF DequeuesOldest, Rbuf!DequeuesOldest, Rbuf!vars

-----------------------------------------------------------------------------
\* The dynamic pool

PagedBlock == [page : Nat, ptr : Nat, size : Nat \ {0}]

\* The blocks of the top page end at or below high_ptr, except the newest one,
\* which may lie exactly between high_ptr and free_ptr.
PagedLayout ==
  \A i \in DOMAIN blocks :
    /\ blocks[i].page <= Len(paged.pages)
    /\ blocks[i].page = Len(paged.pages) =>
         \/ blocks[i].ptr + blocks[i].size <= paged.high
         \/ /\ i = Len(blocks)
            /\ blocks[i].ptr = paged.high
            /\ blocks[i].ptr + blocks[i].size = paged.free

PagedInv ==
  /\ paged \in [pages : Seq(Nat), high : Nat, free : Nat]
  /\ Len(paged.pages) > 0 /\ paged.high <= paged.free
  /\ blocks \in Seq(PagedBlock)
  /\ PagedBlocksAreDisjoint
  /\ PagedLayout

LEMMA PagedStarts ==
  ASSUME Dynamic!Init
  PROVE  PagedInv
<1>1. blocks = <<>> /\ DOMAIN blocks = {} /\ blocks \in Seq(PagedBlock)
  BY DEF Dynamic!Init
<1>2. paged \in [pages : Seq(Nat), high : Nat, free : Nat] /\ paged.high <= paged.free
      /\ Len(paged.pages) > 0
  BY DynamicPoolConstants DEF Dynamic!Init
<1> QED
  BY <1>1, <1>2 DEF PagedInv, PagedLayout, PagedBlocksAreDisjoint, Dynamic!BlocksAreDisjoint

\* The blocks of the top page end at or before free_ptr.
LEMMA PagedBehindFree ==
  ASSUME PagedInv, NEW i \in DOMAIN blocks, blocks[i].page = Len(paged.pages)
  PROVE  blocks[i].ptr + blocks[i].size <= paged.free
<1>1. /\ blocks[i] \in PagedBlock /\ paged.high \in Nat /\ paged.free \in Nat
      /\ paged.high <= paged.free
  BY DEF PagedInv
<1>2. \/ blocks[i].ptr + blocks[i].size <= paged.high
      \/ blocks[i].ptr + blocks[i].size = paged.free
  BY DEF PagedInv, PagedLayout
<1> QED
  BY <1>1, <1>2 DEF PagedBlock

\* A block taken at the free_ptr of p, behind every block of p's top page.
LEMMA TakeStep ==
  ASSUME PagedInv, NEW n \in Nat \ {0},
         NEW p \in [pages : Seq(Nat), high : Nat, free : Nat],
         Len(p.pages) > 0,
         \A i \in DOMAIN blocks :
           /\ blocks[i].page <= Len(p.pages)
           /\ blocks[i].page = Len(p.pages) =>
                blocks[i].ptr + blocks[i].size <= p.free,
         Dynamic!Take(p, n)
  PROVE  PagedInv'
<1> DEFINE b == [page |-> Len(p.pages), ptr |-> p.free, size |-> n]
<1>1. /\ blocks \in Seq(PagedBlock) /\ p.free \in Nat /\ p.high \in Nat
      /\ p.pages \in Seq(Nat) /\ Len(p.pages) \in Nat
      /\ \A i \in DOMAIN blocks : blocks[i] \in PagedBlock
  BY DEF PagedInv
<1>2. CASE IsPacked
  <2>1. /\ paged' = [p EXCEPT !.high = p.free, !.free = p.free + n]
        /\ blocks' = Append(blocks, b)
    BY <1>2 DEF Dynamic!Take
  <2>2. /\ paged'.pages = p.pages /\ paged'.high = p.free /\ paged'.free = p.free + n
        /\ paged' \in [pages : Seq(Nat), high : Nat, free : Nat]
    <3>1. p = [pages |-> p.pages, high |-> p.high, free |-> p.free]
      OBVIOUS
    <3>2. paged' = [pages |-> p.pages, high |-> p.free, free |-> p.free + n]
      BY <2>1, <3>1
    <3> QED
      BY <1>1, <3>2
  <2>3. b \in PagedBlock /\ b.page = Len(p.pages) /\ b.ptr = p.free /\ b.size = n
    BY <1>1 DEF PagedBlock
  <2> HIDE DEF b
  <2>4. /\ blocks' \in Seq(PagedBlock) /\ Len(blocks') = Len(blocks) + 1
        /\ DOMAIN blocks' = 1..(Len(blocks) + 1)
        /\ \A i \in 1..Len(blocks) : blocks'[i] = blocks[i]
        /\ blocks'[Len(blocks) + 1] = b
    BY <1>1, <2>1, <2>3, Appended
  <2>5. DOMAIN blocks = 1..Len(blocks) /\ Len(blocks) \in Nat
    BY <1>1
  <2>6. PagedBlocksAreDisjoint'
    <3> SUFFICES ASSUME NEW i \in DOMAIN blocks', NEW j \in DOMAIN blocks', i < j
                 PROVE  \/ blocks'[i].page < blocks'[j].page
                        \/ /\ blocks'[i].page = blocks'[j].page
                           /\ blocks'[i].ptr + blocks'[i].size <= blocks'[j].ptr
      BY DEF PagedBlocksAreDisjoint, Dynamic!BlocksAreDisjoint
    <3>1. i \in DOMAIN blocks /\ blocks'[i] = blocks[i] /\ j \in 1..(Len(blocks) + 1)
      BY <2>4, <2>5
    <3>2. CASE j = Len(blocks) + 1
      <4>1. /\ blocks'[j] = b /\ blocks[i] \in PagedBlock
            /\ blocks[i].page <= Len(p.pages)
            /\ blocks[i].page = Len(p.pages) => blocks[i].ptr + blocks[i].size <= p.free
        BY <1>1, <2>4, <3>1, <3>2
      <4>2. blocks[i].page \in Nat
        BY <4>1 DEF PagedBlock
      <4> QED
        BY <1>1, <2>3, <3>1, <4>1, <4>2
    <3>3. CASE j # Len(blocks) + 1
      <4>1. j \in DOMAIN blocks /\ blocks'[j] = blocks[j]
        BY <2>4, <2>5, <3>1, <3>3
      <4> QED
        BY <3>1, <4>1 DEF PagedInv, PagedBlocksAreDisjoint, Dynamic!BlocksAreDisjoint
    <3> QED
      BY <3>2, <3>3
  <2>7. PagedLayout'
    <3> SUFFICES ASSUME NEW i \in DOMAIN blocks'
                 PROVE  /\ blocks'[i].page <= Len(p.pages)
                        /\ blocks'[i].page = Len(p.pages) =>
                             \/ blocks'[i].ptr + blocks'[i].size <= p.free
                             \/ /\ i = Len(blocks')
                                /\ blocks'[i].ptr = p.free
                                /\ blocks'[i].ptr + blocks'[i].size = p.free + n
      BY <2>2 DEF PagedLayout
    <3>1. CASE i = Len(blocks) + 1
      BY <1>1, <2>3, <2>4, <3>1
    <3>2. CASE i # Len(blocks) + 1
      <4>1. i \in DOMAIN blocks /\ blocks'[i] = blocks[i]
        BY <2>4, <2>5, <3>2
      <4> QED
        BY <4>1
    <3> QED
      BY <3>1, <3>2
  <2>8. paged'.high <= paged'.free
    BY <1>1, <2>2
  <2> QED
    BY <2>2, <2>4, <2>6, <2>7, <2>8 DEF PagedInv
<1>3. CASE ~IsPacked
  <2>1. paged' = [p EXCEPT !.high = p.free] /\ blocks' = blocks
    BY <1>3 DEF Dynamic!Take
  <2>2. /\ paged'.pages = p.pages /\ paged'.high = p.free /\ paged'.free = p.free
        /\ paged' \in [pages : Seq(Nat), high : Nat, free : Nat]
    BY <1>1, <2>1
  <2>3. PagedLayout'
    BY <2>1, <2>2 DEF PagedLayout
  <2>4. PagedBlocksAreDisjoint'
    BY <2>1 DEF PagedInv, PagedBlocksAreDisjoint, Dynamic!BlocksAreDisjoint
  <2> QED
    BY <1>1, <2>1, <2>2, <2>3, <2>4 DEF PagedInv
<1> QED
  BY <1>2, <1>3

LEMMA NextPageSize ==
  ASSUME PagedInv
  PROVE  Dynamic!NextMax \in Nat
<1>1. Dynamic!PageSize \in Nat
  BY DEF PagedInv, Dynamic!PageSize, Dynamic!Top
<1>2. Dynamic!PageSize * ExpNum \in Nat /\ ExpDen \in Nat \ {0}
  BY <1>1, DynamicPoolConstants
<1> DEFINE x == Dynamic!PageSize * ExpNum
<1> HIDE DEF x
<1>3. x \in Nat => x \div ExpDen \in Nat
  BY <1>2
<1> QED
  BY <1>2, <1>3 DEF Dynamic!NextMax, x

LEMMA PagedMallocStep ==
  ASSUME PagedInv, NEW n \in Nat \ {0}, Dynamic!Malloc(n)
  PROVE  PagedInv'
<1>1. CASE UNCHANGED <<paged, blocks>>
  BY <1>1 DEF PagedInv, PagedLayout, PagedBlocksAreDisjoint, Dynamic!BlocksAreDisjoint
<1>2. CASE Dynamic!Take(paged, n)
  <2>1. \A i \in DOMAIN blocks : blocks[i].page <= Len(paged.pages)
    BY DEF PagedInv, PagedLayout
  <2>2. paged \in [pages : Seq(Nat), high : Nat, free : Nat] /\ Len(paged.pages) > 0
    BY DEF PagedInv
  <2>3. \A i \in DOMAIN blocks : blocks[i].page = Len(paged.pages) =>
          blocks[i].ptr + blocks[i].size <= paged.free
    BY PagedBehindFree
  <2> QED
    BY <1>2, <2>1, <2>2, <2>3, TakeStep
<1> DEFINE p == [pages |-> Append(paged.pages, Dynamic!NextMax), high |-> 0, free |-> 0]
<1>3. CASE n < Dynamic!PageSize /\ n <= Dynamic!NextMax /\ Dynamic!Take(p, n)
  <2>1. paged.pages \in Seq(Nat) /\ Dynamic!NextMax \in Nat
    BY NextPageSize DEF PagedInv
  <2>2. /\ p \in [pages : Seq(Nat), high : Nat, free : Nat]
        /\ Len(p.pages) = Len(paged.pages) + 1
    BY <2>1, Appended
  <2>3. Len(paged.pages) \in Nat /\ \A i \in DOMAIN blocks : blocks[i].page \in Nat
    <3>1. blocks \in Seq(PagedBlock)
      BY DEF PagedInv
    <3>2. \A i \in DOMAIN blocks : blocks[i] \in PagedBlock
      BY <3>1
    <3> QED
      BY <2>1, <3>2 DEF PagedBlock
  <2>4. \A i \in DOMAIN blocks : blocks[i].page <= Len(paged.pages)
    BY DEF PagedInv, PagedLayout
  <2> HIDE DEF p
  <2>5. /\ Len(p.pages) > 0
        /\ \A i \in DOMAIN blocks :
             blocks[i].page <= Len(p.pages) /\ blocks[i].page # Len(p.pages)
    BY <2>2, <2>3, <2>4
  <2> QED
    BY <1>3, <2>2, <2>5, TakeStep
<1> QED
  BY <1>1, <1>2, <1>3 DEF Dynamic!Malloc, Dynamic!Fail

\* free only gives something back when it is given the newest block.
LEMMA PagedFreeIsExact ==
  ASSUME PagedInv, NEW i \in DOMAIN blocks,
         blocks[i].page = Len(paged.pages), blocks[i].ptr = paged.high
  PROVE  i = Len(blocks)
<1>1. blocks[i] \in PagedBlock /\ paged.high \in Nat
  BY DEF PagedInv
<1>2. ~(blocks[i].ptr + blocks[i].size <= paged.high)
  BY <1>1 DEF PagedBlock
<1> QED
  BY <1>2 DEF PagedInv, PagedLayout

LEMMA PagedFreeStep ==
  ASSUME PagedInv, NEW i \in DOMAIN blocks, Dynamic!Free(i)
  PROVE  PagedInv'
<1>1. /\ blocks \in Seq(PagedBlock) /\ i \in 1..Len(blocks) /\ Len(blocks) \in Nat
      /\ paged \in [pages : Seq(Nat), high : Nat, free : Nat]
      /\ \A j \in DOMAIN blocks : blocks[j] \in PagedBlock
  BY DEF PagedInv
<1>2. /\ blocks' \in Seq(PagedBlock) /\ Len(blocks') = Len(blocks) - 1
      /\ \A j \in 1..Len(blocks') :
           blocks'[j] = IF j < i THEN blocks[j] ELSE blocks[j + 1]
  BY <1>1, WithoutOne DEF Dynamic!Free
<1> DEFINE was(j) == IF j < i THEN j ELSE j + 1
<1>3. ASSUME NEW j \in DOMAIN blocks'
      PROVE  /\ was(j) \in DOMAIN blocks /\ blocks'[j] = blocks[was(j)]
             /\ was(j) = Len(blocks) => j = Len(blocks') /\ i # Len(blocks)
  <2>1. j \in 1..Len(blocks') /\ j \in Int
    BY <1>2
  <2>2. CASE j < i
    <3>1. was(j) = j
      BY <2>2
    <3> HIDE DEF was
    <3> QED
      BY <1>1, <1>2, <2>1, <2>2, <3>1
  <2>3. CASE ~(j < i)
    <3>1. was(j) = j + 1
      BY <2>3
    <3> HIDE DEF was
    <3> QED
      BY <1>1, <1>2, <2>1, <2>3, <3>1
  <2> QED
    BY <2>2, <2>3
<1>4. ASSUME NEW j \in DOMAIN blocks', NEW k \in DOMAIN blocks', j < k
      PROVE  was(j) < was(k)
  BY <1>1, <1>2, <1>4
<1> HIDE DEF was
<1>5. PagedBlocksAreDisjoint'
  <2> SUFFICES ASSUME NEW j \in DOMAIN blocks', NEW k \in DOMAIN blocks', j < k
               PROVE  \/ blocks'[j].page < blocks'[k].page
                      \/ /\ blocks'[j].page = blocks'[k].page
                         /\ blocks'[j].ptr + blocks'[j].size <= blocks'[k].ptr
    BY DEF PagedBlocksAreDisjoint, Dynamic!BlocksAreDisjoint
  <2> QED
    BY <1>3, <1>4 DEF PagedInv, PagedBlocksAreDisjoint, Dynamic!BlocksAreDisjoint
<1>6. /\ paged'.pages = paged.pages /\ paged'.high = paged.high
      /\ paged' \in [pages : Seq(Nat), high : Nat, free : Nat]
      /\ paged'.high <= paged'.free
      /\ i # Len(blocks) => paged'.free = paged.free
  <2>1. CASE paged' = paged
    BY <1>1, <2>1 DEF PagedInv
  <2>2. CASE /\ blocks[i].page = Dynamic!Top /\ blocks[i].ptr = paged.high
             /\ paged' = [paged EXCEPT !.free = paged.high]
    <3>1. i = Len(blocks)
      BY <2>2, PagedFreeIsExact DEF Dynamic!Top
    <3>2. paged = [pages |-> paged.pages, high |-> paged.high, free |-> paged.free]
      BY <1>1
    <3>3. paged' = [pages |-> paged.pages, high |-> paged.high, free |-> paged.high]
      BY <2>2, <3>2
    <3> QED
      BY <1>1, <3>1, <3>3
  <2> QED
    BY <2>1, <2>2 DEF Dynamic!Free
<1>7. PagedLayout'
  <2> SUFFICES ASSUME NEW j \in DOMAIN blocks'
               PROVE  /\ blocks'[j].page <= Len(paged.pages)
                      /\ blocks'[j].page = Len(paged.pages) =>
                           \/ blocks'[j].ptr + blocks'[j].size <= paged.high
                           \/ /\ j = Len(blocks')
                              /\ blocks'[j].ptr = paged.high
                              /\ blocks'[j].ptr + blocks'[j].size = paged'.free
    BY <1>6 DEF PagedLayout
  <2> QED
    BY <1>3, <1>6 DEF PagedInv, PagedLayout
<1> QED
  BY <1>2, <1>5, <1>6, <1>7 DEF PagedInv

LEMMA PagedResetStep ==
  ASSUME PagedInv, Dynamic!Reset
  PROVE  PagedInv'
<1>1. CASE UNCHANGED <<paged, blocks>>
  BY <1>1 DEF PagedInv, PagedLayout, PagedBlocksAreDisjoint, Dynamic!BlocksAreDisjoint
<1>2. CASE /\ paged' = [pages |-> <<paged.pages[1]>>, high |-> 0, free |-> 0]
           /\ blocks' = <<>>
  <2>1. paged.pages[1] \in Nat
    BY DEF PagedInv
  <2>2. /\ paged' \in [pages : Seq(Nat), high : Nat, free : Nat]
        /\ Len(paged'.pages) > 0 /\ paged'.high <= paged'.free
    BY <1>2, <2>1
  <2>3. DOMAIN blocks' = {} /\ blocks' \in Seq(PagedBlock)
    BY <1>2
  <2> QED
    BY <2>2, <2>3
      DEF PagedInv, PagedLayout, PagedBlocksAreDisjoint, Dynamic!BlocksAreDisjoint
<1> QED
  BY <1>1, <1>2 DEF Dynamic!Reset

LEMMA PagedKeepsInv ==
  ASSUME PositiveSizes, PagedInv, Dynamic!Next
  PROVE  PagedInv'
<1>1. ASSUME NEW n \in Sizes, Dynamic!Malloc(n) PROVE PagedInv'
  BY <1>1, PagedMallocStep, PoolConstants DEF PositiveSizes
<1>2. ASSUME NEW n \in Sizes, NEW count \in 1..2, Dynamic!Calloc(count, n)
      PROVE  PagedInv'
  <2> DEFINE m == (count * n) % (SizeMax + 1)
  <2>1. n \in Nat /\ SizeMax \in Nat /\ m > 0
    BY PoolConstants DEF PositiveSizes
  <2>2. m \in Nat \ {0}
    BY <2>1
  <2>3. Dynamic!Malloc(m)
    BY <1>2 DEF Dynamic!Calloc
  <2> HIDE DEF m
  <2> QED
    BY <2>2, <2>3, PagedMallocStep
<1>3. ASSUME NEW i \in DOMAIN blocks, Dynamic!Free(i) PROVE PagedInv'
  BY <1>3, PagedFreeStep
<1> QED
  BY <1>1, <1>2, <1>3, PagedResetStep DEF Dynamic!Next

LEMMA PagedInvariant ==
  ASSUME PositiveSizes
  PROVE  MCSpec => []PagedInv
<1>1. MCInit => PagedInv
  BY PagedStarts DEF MCInit
<1>2. PagedInv /\ [MCNext]_<<subject, vars, dynamicVars, ringVars>> => PagedInv'
  <2> SUFFICES ASSUME PagedInv, [MCNext]_<<subject, vars, dynamicVars, ringVars>>
               PROVE  PagedInv'
    OBVIOUS
  <2>1. CASE Dynamic!Next
    BY <2>1, PagedKeepsInv
  <2>2. CASE UNCHANGED dynamicVars
    BY <2>2 DEF PagedInv, dynamicVars, PagedLayout, PagedBlocksAreDisjoint,
      Dynamic!BlocksAreDisjoint
  <2> QED
    BY <2>1, <2>2 DEF MCNext
<1> QED
  BY <1>1, <1>2, PTL DEF MCSpec

\* Blocks a client holds never overlap, over any number of pages, frees that had
\* no effect and resets.
THEOREM PagedBlocks ==
  ASSUME PositiveSizes
  PROVE  MCSpec => []PagedBlocksAreDisjoint
<1>1. PagedInv => PagedBlocksAreDisjoint
  BY DEF PagedInv
<1> QED
  BY <1>1, PagedInvariant, PTL

\* A free of any block but the newest one leaves the pool as it is, also when the
\* block lies on an older page at the offset of high_ptr.
THEOREM PagedFrees ==
  ASSUME PositiveSizes
  PROVE  MCSpec => PagedFreesNewestOnly
<1>1. ASSUME PagedInv, NEW i \in DOMAIN blocks, Dynamic!Free(i), i # Len(blocks)
      PROVE  paged' = paged
  BY <1>1, PagedFreeIsExact DEF Dynamic!Free, Dynamic!Top
<1>2. PagedInv =>
        [\A i \in DOMAIN blocks : Dynamic!Free(i) /\ i # Len(blocks) => paged' = paged]_
          <<paged, held, blocks, block, fault>>
  BY <1>1
<1> QED
  BY <1>2, PagedInvariant, PTL
    DEF PagedFreesNewestOnly, Dynamic!FreesNewestOnly, Dynamic!vars
=============================================================================
