----------------------------- MODULE CCHashTable -----------------------------
(***************************************************************************)
(* CC_HashTable (cc_hashtable.c): separate chaining over a power of two of *)
(* buckets, doubled when the size reaches the threshold, with NULL as one  *)
(* more key that always lives in bucket 0.  A bucket is the sequence of    *)
(* its entries from the head of the chain; an entry keeps the hash it was  *)
(* inserted with.  h & (capacity - 1) is h % capacity.                     *)
(*                                                                         *)
(* Pointers to entries, which the iterator holds, are the keys: a key has *)
(* one entry.                                                              *)
(***************************************************************************)
EXTENDS CCCommon, FiniteSets

CONSTANTS
  Keys,            \* the pointers used as keys, NullKey among them or not
  NullKey,         \* NULL
  Values,
  Hash,            \* table->hash, as a function on Keys
  InitialCapacity, \* conf->initial_capacity
  MaxCapacity,     \* MAX_POW_TWO, scaled down
  LoadNum, LoadDen \* table->load_factor = LoadNum / LoadDen

ASSUME HashTableConstants ==
  /\ Hash \in [Keys -> Nat]
  /\ NoElement \notin Keys
  /\ InitialCapacity \in Nat /\ MaxCapacity \in Nat \ {0}
  /\ IsPowerOfTwo(MaxCapacity)
  /\ LoadNum \in Nat /\ LoadDen \in Nat \ {0}

VARIABLES
  table,  \* struct cc_hashtable_s: capacity, threshold, size, buckets
  iter,   \* CC_HashTableIter: bucket_index, prev_entry, next_entry
  walk,   \* history of the iteration: on while only iterator calls were made
          \* since iter_init, owed the keys it has not returned yet, fresh
          \* while the latest call is an iter_next that returned an entry
  ret     \* the result of the latest call

vars == <<table, iter, walk, ret>>

SX == INSTANCE SequencesExt

-----------------------------------------------------------------------------
\* Buckets

NoEntry == NoElement

Entry(k, v, h) == [key |-> k, value |-> v, hash |-> h]

RoundPowTwo(n) == UpperPowTwo(n, MaxCapacity)

Threshold(n) == (n * LoadNum) \div LoadDen

Empty(n) ==
  [capacity |-> n, threshold |-> Threshold(n), size |-> 0,
   buckets |-> [b \in 0..(n - 1) |-> <<>>]]

\* get_table_index, and the bucket that add, get and remove look at.
TableIndex(t, k) == Hash[k] % t.capacity
Bucket(t, k)     == IF k = NullKey THEN 0 ELSE TableIndex(t, k)

\* Mutant of Places: the search gives up after the head of the chain.
PlacesAtHead(c, k) == {i \in DOMAIN c : i = 1 /\ c[i].key = k}

\* Where in a chain the entry of a key is: its first position, if any.
Places(c, k) ==
  {i \in DOMAIN c : c[i].key = k /\ \A j \in 1..(i - 1) : c[j].key # k}

Chain(t, k) == t.buckets[Bucket(t, k)]
Found(t, k) == Places(Chain(t, k), k)

\* move_entries visits the buckets in order and each chain from its head and
\* pushes every entry on the front of its new bucket.
InOrder(t) == SX!FlattenSeq([b \in 1..t.capacity |-> t.buckets[b - 1]])

\* The entries that go to bucket b of n.
WithIndex(t, n, b) == {e \in SX!ToSet(InOrder(t)) : e.hash % n = b}

\* Mutant of MoveEntries: the old capacity masks the hash.
MoveEntriesUnmasked(t, n) ==
  [b \in 0..(n - 1) |->
     SX!Reverse(Selected(InOrder(t), WithIndex(t, t.capacity, b)))]

MoveEntries(t, n) ==
  [b \in 0..(n - 1) |->
     SX!Reverse(Selected(InOrder(t), WithIndex(t, n, b)))]

Resized(t, n) ==
  [t EXCEPT !.buckets = MoveEntries(t, n), !.capacity = n,
            !.threshold = Threshold(n)]

\* Mutant of MakeRoom: > for >=.
MakeRoomLate(t) ==
  IF t.size <= t.threshold THEN {t}
  ELSE IF t.capacity = MaxCapacity THEN {}
  ELSE {Resized(t, 2 * t.capacity)}

\* What the check in front of add can leave.
MakeRoom(t) ==
  IF t.size < t.threshold THEN {t}
  ELSE IF t.capacity = MaxCapacity THEN {}
  ELSE {Resized(t, 2 * t.capacity)}

\* Mutant of Replaced: the head of the chain gets the value.
ReplacedAtHead(t, k, v) == [t EXCEPT !.buckets[Bucket(t, k)][1].value = v]

Replaced(t, k, v) ==
  [t EXCEPT !.buckets[Bucket(t, k)] =
     [i \in DOMAIN @ |-> IF i \in Places(@, k) THEN [@[i] EXCEPT !.value = v]
                                               ELSE @[i]]]

Inserted(t, k, v) ==
  LET h == IF k = NullKey THEN 0 ELSE Hash[k]
  IN  [t EXCEPT !.buckets[Bucket(t, k)] = <<Entry(k, v, h)>> \o @,
                !.size = @ + 1]

Removed(t, k, i) ==
  [t EXCEPT !.buckets[Bucket(t, k)] = SX!RemoveAt(@, i), !.size = @ - 1]

\* The mappings, as every reader that walks the buckets sees them.
Entries(t) == {SX!ToSet(t.buckets[b]) : b \in DOMAIN t.buckets}
MapOf(t) ==
  LET all == UNION Entries(t)
  IN  [k \in {e.key : e \in all} |-> (CHOOSE e \in all : e.key = k).value]

-----------------------------------------------------------------------------
\* Calls

Return(r)  == ret' = r
NoWalk     == [on |-> FALSE, owed |-> {}, fresh |-> FALSE]
EndWalk    == walk' = NoWalk /\ UNCHANGED iter
Stale      == walk' = [walk EXCEPT !.fresh = FALSE]
Refuse(st) == Return(Refused(st)) /\ EndWalk /\ UNCHANGED table

Update(t, r) == Return(r) /\ table' = t /\ EndWalk

\* A query leaves table and iterator alone.
Answer(r) == Return(r) /\ Stale /\ UNCHANGED <<table, iter>>

Init ==
  /\ table = Empty(RoundPowTwo(InitialCapacity))
  /\ iter = [bucket_index |-> 0, prev_entry |-> NoEntry, next_entry |-> NoEntry]
  /\ walk = NoWalk
  /\ ret = Done

\* The capacity check comes before the search for the key, so replacing a
\* value may resize, and may be refused.  An entry that cannot be allocated
\* leaves the table resized.
Add(k, v) ==
  \/ /\ table.size >= table.threshold
     /\ Refuse(IF table.capacity = MaxCapacity THEN CC_ERR_MAX_CAPACITY
                                               ELSE CC_ERR_ALLOC)
  \/ \E t \in MakeRoom(table) :
       \/ Found(t, k) # {} /\ Update(Replaced(t, k, v), Done)
       \/ Found(t, k) = {} /\ Update(Inserted(t, k, v), Done)
       \/ Found(t, k) = {} /\ Update(t, Refused(CC_ERR_ALLOC))

Get(k) ==
  \/ /\ Found(table, k) = {}
     /\ Answer(Refused(CC_ERR_KEY_NOT_FOUND))
  \/ \E i \in Found(table, k) : Answer(Got(Chain(table, k)[i].value))

TakeOut(k) ==
  \/ /\ Found(table, k) = {}
     /\ Return(Refused(CC_ERR_KEY_NOT_FOUND)) /\ UNCHANGED table
  \/ \E i \in Found(table, k) :
       Return(Got(Chain(table, k)[i].value)) /\ table' = Removed(table, k, i)

Remove(k) == TakeOut(k) /\ EndWalk

\* Mutant of RemoveAll: the size is not reset.
RemoveAllButSize ==
  Update([table EXCEPT !.buckets = [b \in DOMAIN @ |-> <<>>]], Done)

RemoveAll ==
  LET gone == Len(InOrder(table))
  IN  Update([table EXCEPT !.buckets = [b \in DOMAIN @ |-> <<>>],
                           !.size = @ - gone], Done)

\* contains_key has no case for NULL and looks for it where its hash is.
ContainsKey(k) ==
  Answer(Truth(Places(table.buckets[TableIndex(table, k)], k) # {}))

\* get_keys collects into an array of capacity size, and cc_array refuses 0.
GetKeys ==
  \/ table.size = 0 /\ Answer(Refused(CC_ERR_INVALID_CAPACITY))
  \/ table.size # 0 /\ Answer(Refused(CC_ERR_ALLOC))
  \/ /\ table.size # 0
     /\ Answer(Got([i \in DOMAIN InOrder(table) |-> InOrder(table)[i].key]))

-----------------------------------------------------------------------------
\* The iterator

\* The buckets from b on that are not empty, and the head of the first.
Occupied(b) == {j \in b..(table.capacity - 1) : table.buckets[j] # <<>>}
First(b)    == CHOOSE j \in Occupied(b) : \A i \in Occupied(b) : j <= i
Head1(b)    == table.buckets[b][1].key

\* Mutant of IterInit: the search for an entry starts at bucket 1.
IterInitAtOne ==
  /\ iter' = IF Occupied(1) = {}
             THEN [bucket_index |-> 0, prev_entry |-> NoEntry,
                   next_entry |-> NoEntry]
             ELSE [bucket_index |-> First(1), prev_entry |-> NoEntry,
                   next_entry |-> Head1(First(1))]
  /\ walk' = [on |-> TRUE, owed |-> DOMAIN MapOf(table), fresh |-> FALSE]
  /\ Return(Done)
  /\ UNCHANGED table

IterInit ==
  /\ iter' = IF Occupied(0) = {}
             THEN [bucket_index |-> 0, prev_entry |-> NoEntry,
                   next_entry |-> NoEntry]
             ELSE [bucket_index |-> First(0), prev_entry |-> NoEntry,
                   next_entry |-> Head1(First(0))]
  /\ walk' = [on |-> TRUE, owed |-> DOMAIN MapOf(table), fresh |-> FALSE]
  /\ Return(Done)
  /\ UNCHANGED table

\* The client advances an iterator only while the table changes through it.
IterNext ==
  LET k == iter.next_entry
      c == Chain(table, k)
      i == CHOOSE j \in Places(c, k) : TRUE
      beyond == iter.bucket_index + 1
  IN  /\ walk.on
      /\ \/ /\ k = NoEntry
            /\ Answer(Refused(CC_ITER_END))
         \/ /\ k # NoEntry
            /\ Return(Got(<<k, c[i].value>>))
            /\ iter' =
                 IF i < Len(c)
                 THEN [iter EXCEPT !.prev_entry = k, !.next_entry = c[i + 1].key]
                 ELSE IF Occupied(beyond) = {}
                 THEN [iter EXCEPT !.prev_entry = k, !.next_entry = NoEntry]
                 ELSE [bucket_index |-> First(beyond), prev_entry |-> k,
                       next_entry |-> Head1(First(beyond))]
            /\ walk' = [walk EXCEPT !.owed = @ \ {k}, !.fresh = TRUE]
            /\ UNCHANGED table

\* "This Function should only ever be called after a call to iter_next":
\* prev_entry is freed here and the field keeps pointing at it.
IterRemove ==
  /\ walk.fresh
  /\ TakeOut(iter.prev_entry)
  /\ Stale
  /\ UNCHANGED iter

-----------------------------------------------------------------------------

\* A client that wants to know whether NULL is a key calls get.
Next ==
  \/ \E k \in Keys :
       \/ \E v \in Values : Add(k, v)
       \/ Get(k) \/ Remove(k)
       \/ k # NullKey /\ ContainsKey(k)
  \/ RemoveAll \/ GetKeys
  \/ IterInit \/ IterNext \/ IterRemove

Spec == Init /\ [][Next]_vars

-----------------------------------------------------------------------------
\* Properties

\* Every entry is in the bucket where a lookup of its key will search, after
\* any number of resizes, and no key has two entries, which lookups, removals
\* and get_keys rely on.
EntriesAreReachable ==
  /\ \A b \in DOMAIN table.buckets : \A i \in DOMAIN table.buckets[b] :
       Bucket(table, table.buckets[b][i].key) = b
  /\ Cardinality(DOMAIN MapOf(table)) = Len(InOrder(table))

\* size counts the entries of all chains, and never exceeds the threshold: they
\* stay short whatever calls and failed allocations there were.
LoadIsBounded == table.size = Len(InOrder(table)) /\ table.size <= table.threshold

\* An iteration returns an entry it has not returned before, and ends only
\* when it has returned all of them, also when it removes entries on its way.
WalkIsComplete ==
  [][IterNext => \/ ret' = Refused(CC_ITER_END) /\ walk.owed = {}
                 \/ ret'.stat = CC_OK /\ ret'.out[1] \in walk.owed]_vars

\* The table is a map with one atomic step per call: whatever the buckets, each
\* call does what the call of its name does to a map.
Abs == INSTANCE MapSpec WITH map <- MapOf(table)

CallsKeepPromise ==
  /\ \A k \in Keys :
       /\ \A v \in Values : Add(k, v) => Abs!Put(k, v) \/ Abs!NoRoom
       /\ Get(k) => Abs!Get(k) \/ Abs!Absent(k)
       /\ Remove(k) => Abs!Delete(k) \/ Abs!Absent(k)
       /\ k # NullKey /\ ContainsKey(k) => Abs!Contains(k)
  /\ RemoveAll => Abs!Clear
  /\ GetKeys => Abs!AllKeys \/ Abs!NoKeys
  /\ IterNext => Abs!NextPair(iter.next_entry) \/ Abs!WalkOver
  /\ IterRemove => Abs!Delete(iter.prev_entry)

IsAMap == Abs!Spec /\ [][CallsKeepPromise]_vars
=============================================================================
