# Collections-C in TLA+

A verification development kept beside the Collections-C library: TLA+ models
of its containers and allocators, the TLC configurations that check them on
small instances, and theorems with proofs checked by TLAPS. Paths below are
relative to the repository (`src/cc_deque.c` is the file of that name in the
library's `src` directory; `PROJECT.json` spells the full path `src/src/...`).

1. The system
2. Modules and how they correspond to the code
3. Runs, bounds, fairness
4. Theorems and proofs
5. Where documentation and code part
6. What is not modelled, and the plan

## 1. The system

Collections-C is a library of sequential containers over `void *`. It starts no
thread, takes no lock, does no I/O and keeps nothing on disk: every function is
a synchronous call by one client on one object. There are therefore no
messages, crashes or timeouts to model. What makes it hard is elsewhere:

* **long call sequences**: which branch of a circular-buffer move or of a
  red-black rebalancing runs depends on the whole history of calls;
* **partial failure**: nearly every growing call allocates in its middle, and
  the allocator (a function pointer of the configuration) may fail each time;
* **two actors on one object**: a client holds an iterator while the container
  changes, through the iterator or behind its back;
* **redundant state**: `first`/`last`/`size`, `size`/chains, child/parent
  links, `capacity`/the memory really allocated;
* **boundaries**: masks that are remainders only for powers of two, full and
  empty rings that look alike, size 0, the maximum capacity.

| Component | Source | State | Operations | Correct when | Status |
|---|---|---|---|---|---|
| Deque | `cc_deque.c` | circular buffer, `first`, `last`, `size`, power-of-two `capacity` | insert, remove, replace, get at both ends and at an index; reverse, filter, copy, trim; iterator, also over two deques | it is a sequence; it stays in its buffer; a refused call changes nothing | modelled, proved |
| Queue | `cc_queue.c` | one deque | enqueue, poll, peek; iterator, also over two queues | first in, first out | modelled, composed of the deque, proved |
| Array | `cc_array.c` | buffer, `size`, `capacity`, expansion factor | the same at one end and at an index; subarray, swap, sort, map, reduce; iterator, also over two arrays | it is a sequence; capacity is what was allocated | modelled, proved |
| HashTable | `cc_hashtable.c` | buckets of chained entries, `size`, `threshold`, `capacity` | add, get, remove, contains, keys, values; iterator | it is a map; each entry is where a lookup searches | modelled, proved |
| TreeTable | `cc_treetable.c` | red-black tree with parent links and one sentinel | add, get, remove, first, last, neighbours; iterator | it is an ordered map; the tree is balanced | modelled, proved |
| RingBuffer | `cc_ring_buffer.c` | slots, `head`, `tail`, `size` | enqueue (overwrites), dequeue, peek | the latest items, oldest first | modelled, proved |
| StaticPool | `memory/cc_static_pool.c` | client's buffer, `high_ptr`, `free_ptr` | malloc, calloc, free, reset | blocks never overlap; free rolls back the newest only | modelled, proved |
| DynamicPool | `memory/cc_dynamic_pool.c` | linked pages, the same pointers in the top page | the same | the same, over pages | modelled, proved |
| Common | `cc_common.c` | status codes, string comparison | | | modelled |
| PQueue | `cc_pqueue.c` | binary heap in a growing buffer | push, pop, top | pop takes an element that no other outranks; none is lost | modelled, proved |
| Stack | `cc_stack.c` | one array | push, pop, peek, filters; iterator | last in, first out | modelled, composed of the array, proved |
| HashSet, TreeSet | `cc_hashset.c`, `cc_treeset.c` | one table | add, remove, contains; iterator | it is a set, in order for the tree | modelled, composed of the tables, proved |
| List, SList | `cc_list.c`, `cc_slist.c` | linked nodes, `head`, `tail`, `size` | everything of the array; splice, merge sort, calls on two lists; iterators | it is a sequence; links, ends and size agree; no node is lost or shared | modelled |
| ArraySized | `sized/cc_array_sized.c` | buffer of bytes, `size`, `capacity` | the array's, by value; calls on two arrays; iterators | it is a sequence of whole elements | modelled; which memory it touches proved |
| TSTTable | `cc_tsttable.c` | ternary search tree over strings, with parent links | add, get, remove; iterator | it is a map; no node is lost; a walk ends | modelled |

Interactions: Queue calls Deque; Stack calls Array; HashSet calls HashTable;
TreeSet calls TreeTable; `cc_hashtable_get_keys` and `_get_values` fill a
CC_Array; the pools can stand behind the `mem_alloc`, `mem_calloc`, `mem_free`
pointers of any container. Client callbacks are the comparison, hash, predicate
and destructor functions.

Hard, component by component: in the lists, five or six links that change one
after the other, an iterator that holds the next node while the loop's body
unlinks and links, and a chain of nodes spliced or copied from another list; in
the search tree, a walk that finds its way back by comparing pointers, and a
removal that frees the nodes above it while the iterator stands among them; in
the sized array, lengths in elements and moves in bytes; in the heap, an element
that sinks past the wrong child and shows only pops later; in stack, queue and
sets, statuses and element order translated from the container beneath.

The hazards these give rise to, each at its line and with the properties that
would catch it going wrong, are listed in `PROJECT.json` under `hazards`.

## 2. Modules

Conventions. A C struct is a record-valued variable with the field names of the
source; one action is one call, from entry to return, with its result in `ret`:
a status and what the out parameter received (`CCCommon.tla`). An allocation
that may fail is a disjunct that returns `CC_ERR_ALLOC` with whatever state the
code leaves then. Memory is a function whose domain is what was really
allocated, and a read or write elsewhere sets `fault`, after which the program
has no behaviour that could be relied on. Elements, values and hash-table keys
are uninterpreted pointers. `walk` variables are history: what an iteration
still owes its client since `iter_init`, as long as only iterator calls change
the container. Definitions headed `Mutant of ...` are deliberate
mistakes used to confirm that a property can fail; no specification uses them.

**Specifications of promises.** `SeqSpec` (a sequence with positional
operations), `SeqPairSpec` (two of them, with the calls that combine, copy, split
or walk both), `FifoSpec` and `LifoSpec`, `PrioritySpec` (a bag whose pop gives a
greatest element), `MapSpec` (a partial function), `OrderedMapSpec` (with
neighbours and an iterator that owes its keys in order), `SetSpec` and
`OrderedSetSpec`. Each is one atomic step per call, with its result, and says when
a call may be refused; each container implements one under a refinement mapping
(`Abs == INSTANCE ... WITH ...`). That the abstract specification has *some* step
that explains a call would let a misplaced insertion pass for another call, so
call is compared with call, in one of two forms. Where the property is a
temporal one (`IsASequence` of the deque, `IsAMap`, `IsFifo`, ...), the
`...KeepPromise` definition of the container says, for every function, that what
it does is the abstract action of the same name with the same arguments. Both
arrays, the lists, the search tree and the iterators over two containers, whose
calls have many arguments, carry the comparison in their next-state relation:
`Keeping(call, promise)` takes the step of the call and records in the history
variable `kept` whether it was the abstract step; the step itself is never
restricted by the promise. `CallsKeepPromise`, `ZipKeepsPromise` and the array's
`IsASequence` say that `kept` stays true.

**`CCCommon`, `MCDeque`.** Status codes, results, what a filter selects, and the
rounding the deque and the hash table use: its definition, and in `MCDeque` the
shift-and-or code of `upper_pow_two` bit by bit.

**`CCDeque`** follows `cc_deque.c`. `Slot` and `Mask` are its index arithmetic,
`CopyBuffer` and `Realigned` are `copy_buffer` and `expand_capacity`,
`ShiftBack`/`ShiftForth` and `CloseFront`/`CloseBack` the memmove cases of
`add_at` and `remove_at` (with the saved slot that crosses the end of the
buffer), then one action per function and per iterator function. `CloseBack` moves
the slots at the start of a wrapped buffer the way the code does, which is the wrong
one (section 5); `TearsAt` says for which deques and indices the result is not the
sequence without the element: behind the middle, wrapped, with two elements or more
at the start of the buffer, or with one in a full deque. `FilterTears` says that one
of the removals of `filter_mut` is such a one. `Calls` names the functions the client
uses, so that a run can say for which of them a promise holds. **`CCQueue`** is
composed of it: every queue function is one action of the deque.

**`CCArray`** follows `cc_array.c`. `capacity` is what the array believes and
the domain of `buffer` what it has, because `expand_capacity` sets the one
before it obtains the other; `refused` remembers that this happened. `Sort`
leaves any arrangement in which `Key`, what the client's comparison looks at,
does not fall: `qsort` promises no more. A deep copy is made with any function on
the elements.

**`CCArrayZip`, `CCDequeZip`** are `CC_ArrayZipIter` and `CC_DequeZipIter`: one
iterator over two containers, whose own calls are the operators of `CCArray` and
`CCDeque` on either. `cc_stack_zip_iter_*` and `cc_queue_zip_iter_*` are
one-line calls of these with no state of their own. Adding is the call in
which one of the two may have room and the other be refused it. The array's asks
for room in both before it touches either, then calls `add_at` twice without
looking at what they return, so that an index past the end of both is `CC_OK`
without effect; the promise is made for an index inside. The deque's may expand
one for nothing. Its elements go through `add_at`, which misplaces some
(section 5), so that in the middle both are only promised to grow; at index 0,
and for everything that is removed, replaced and returned, the sequences are
compared. Its walk may end early, when one of the two is full. A removal that tears
one of the deques (`TearsAt`) has to return the pair and to shorten both; with four
slots only a full deque tears, whose walk is over at once, so that in the run every
removal is compared.

**`CCHashTable`** follows `cc_hashtable.c` for any hash function (`Hash`):
chains with their heads first, `MoveEntries` pushing entries on their new
buckets in the order of the old ones, the capacity check that precedes the
search for the key, the NULL key in bucket 0, and the iterator that holds the
entry it returned and the next one.

**`CCTreeTable`** follows `cc_treetable.c`. The memory is a function from
allocated nodes, named by their keys, to their fields; removal relinks nodes and
never copies a key, so the name is the identity of the node and a removed node
leaves the domain: following a dangling link stops TLC. The sentinel is one of
the nodes: `transplant` and `remove_node` write its parent, rebalancing reads it.
The left and right copies of each case in the C code are one case with the side
as a parameter; they were compared line by line and are mirror images. A loop
down or up the tree is a recursive function on the nodes (`WayEnd`), and each of
the two rebalancing loops is the sequence of its rounds (`InsertRound`,
`DeleteRound`), of which there are no more than nodes.

**`CCRingBuffer`**, **`CCStaticPool`**, **`CCDynamicPool`** follow their
sources function by function; addresses are offsets in the buffer or page.

**`CCStack`**, **`CCHashSet`**, **`CCTreeSet`** are, like the queue, instances
of the whole model of the container beneath, one action per function; what a call
returns is the translation their sources make of the inner result (`inner` is the
latter). `cc_stack_filter` pushes on a new stack without reading a status:
`Pushed` gives the stacks that can come of that.

**`CCPQueue`** follows `cc_pqueue.c`: the swaps of `push` and of `heapify` are
given by the path of slots they go along (`WayUp`, `WayDown`), a function of the
buffer.

**`ListPair`, `CCList`, `CCSList`** follow `cc_list.c` and
`cc_slist.c`. A heap is a function from allocated addresses to nodes with their
links; freed nodes leave its domain. `ListPair` is what both have in common: two
lists in one heap and one iterator, which goes over one list, backwards (the
doubly linked list only) or over both (`zip`). Both modules then have one
operator per function of their source on links (`LinkBehind`, `LinkAfter`,
`Unlinked`, `LinkedIn` for `splice_between`, `Swap` with its two cases, `Merge`
and `Parts` for merge sort) and one action per call. `held` is the contents of
both lists as they are met from their heads; it is what `SeqPairSpec` is about.
`malloc` gives the lowest free address or fails.

**`CCTSTTable`** follows `cc_tsttable.c`. A node is named by the characters on
the way to it; `Search` is `get_last_node`, `WithoutEntry` is `remove_eow_node`
with its climb, and `Advanced` one call of the walk, which knows where it comes
from only by comparing pointers. An iterator over a freed node is a fault.

**`CCArraySized`** follows `sized/cc_array_sized.c` byte by byte: `buffer` is a
function on the bytes that were allocated, `Move`, `Write` and `Buffer` take
lengths and places in elements and touch bytes, and elements are compared over
the bytes of a block. Two arrays, so that the calls that make one from another and the zip
iterator are there.

**Proof modules**: `SharedLemmas`, `DequeProofs`, `QueueProofs` (with the heap), `MemoryProofs`,
`ArrayProofs` (with the stack and the sized arrays), `HashTableProofs` (with the hash set), `RedBlackProofs`,
`TreeTableProofs` (with the tree set) (section 4).
**Model-checking modules** give constants their values, and where components
share a run they declare a variable (`subject`, `kind`, `client`) that says in
each behaviour which of them the client uses: `MCDeque`, `MCArray`
(an array, two arrays, two deques), `MCHashTable` (table and set), `MCTreeTable` (table and set),
`MCMemory` (both pools and the ring), `MCLists` (both lists), `MCAdapters` (queue,
heap), `MCValues` (stack, sized arrays, search tree). `MemoryConf`
declares the constants, and their assumptions, of the two components
`MCMemory` instantiates.

## 3. Runs, bounds, fairness

| Run | Instance | What it shows |
|---|---|---|
| `deque_sound` | two elements; a deque of 2 to 4 slots with the calls that keep their promise, and one of 8 slots with `add_first` and `remove_at`, which reach every contents at every position | implements `SeqSpec`, except for a removal that tears, which returns its element and leaves one less; stays in its buffer, keeps no stray element reachable; iterations that remove visit what they owe; rounding by bits agrees with its definition |
| `deque_all` | capacity 2 to 4, every call of the API | fields stay in range and agree; a refused call changes nothing |
| `deque_add_at` | the same, appends and `add_at` | violation: `add_at` overwrites the first element (section 5) |
| `deque_remove_at` | 8 slots, additions at both ends and `remove_at` | violation: `remove_at` loses an element that was to stay (section 5) |
| `array_any` | one array, capacity 1 expanding to 3, every call and iterator call; two arrays of capacity 1 to 4 and two deques of 2 to 4 slots with an iterator over both | implements `SeqSpec` call by call, also when expansions fail; leaves its buffer in the two ways of section 5 only; what is done to one of two is done to the other |
| `hashtable_map` | table or set; 3 keys and NULL, colliding at some or all capacities, capacity 1 to 4 | implements `MapSpec`, `SetSpec`, with resizes, failures and iterators; entries are where a lookup searches |
| `treetable_map` | table of 4 keys, one of them with two values, or set of 3 elements; every call | implements `OrderedMapSpec`, `OrderedSetSpec` |
| `treetable_shape` | 9 keys, additions and removals | red-black rules, links, reachability and search order |
| `memory` | static pool of 8 bytes, dynamic pool of up to three pages of 4, ring of 4 slots | blocks disjoint, free is exact; the ring gives back the latest items, oldest first |
| `lists` | either kind; all calls on two lists with 3 nodes between them; zip iterator on two lists of 1 or 2; sort and reverse of one list of 4 or 5; 6 nodes in all | links, ends and sizes agree; every call does what `SeqPairSpec` says; loops end |
| `adapters` | queue over deque (2 to 4 slots), heap of 2 to 6 slots with elements of three ranks, two of them equal | `FifoSpec`, `PrioritySpec` |
| `values` | stack over array (1 to 4 slots); search tree of 6 keys that share parts of their ways, the empty one among them; sized arrays of two-byte elements, one with room for 4 or two with 2 each | `LifoSpec`; `MapSpec` and `SeqPairSpec` call by call; no node lost, no byte outside unless an expansion was refused; loops end |

Why the bounds are enough. The deque's arithmetic depends on where `first` and
`last` are and on which half an index lies in: a ring of four slots reaches every
wrapped and unwrapped arrangement and one expansion, and a ring of eight makes
each memmove at least two slots long, so that a wrong length, direction or a missing
carry shows: in four slots the second memmove of a wrapped back half is spoilt in a
full deque only. The two deques of `deque_sound` are `MCDeque!Narrow`, which grows
to half of `MaxCapacity`, and `MCDeque!Wide`, created with `MaxCapacity` slots.
Contents matter only through equality: two elements, or two values, tell
a misplaced or lost one from its neighbour (the sequence refinement compares all
positions at once, over all contents). Elements are interchangeable in the code,
hence the symmetry. The hash table needs colliding and non-colliding keys and two
resizes. A removal from a red-black tree loops upwards only when both subtrees
are all black, from seven nodes on, and every rotation case below the root needs
a few nodes more: nine keys have them all, while the queries and the iterator
do not depend on such shapes and are checked with four. One key in `treetable_map` has two values, which is enough to see
a value replaced or moved to another node, and keeps the run short.

A call on a list changes the links of at most three neighbouring nodes on either
side, so three nodes, on one list or split over two, have every case of ends and
middle; `swap` of nodes that are not neighbours needs four, and merge sort has
parts of parts from four on, with an odd part at five. Two elements of three share
a key, so that stability shows. The zip iterator has two lists of the same or of
different lengths, with room for an addition to each. Of the keys of the search
tree one is a prefix of two others, which are each other's sibling below it; it
has a sibling on either side, and the empty key is there. With them
`remove_eow_node` stops at a node with an entry, at one with a sibling, and at the
root. In the sized array an element of two bytes equals the last byte of one
element with the first of the next, and more than one element moves at once. The
heap needs three levels for a sink of two swaps and children of equal rank: six
slots.

Two containers under one iterator differ in length, in the place of their first
element, and in whether the next addition expands. A buffer that doubles twice,
from 1 to 4 (array), or once, from 2 to 4 (deque), gives every combination. The
client fills both before it walks. It fills a deque with each element at most
once and puts two different ones in both, which is what tells them apart
afterwards.

Every bound is a named constant (`MaxCapacity`, `MemLimit`, `MaxLive`, `MaxPages`,
`MaxElements`, `HeapLimit`, `KeyCount`, `MaxNodes`, `SmallMemory`), but for the two slots of
`MCValues!Small` and the sizes `ZipSizes` and `LongSizes` of `MCLists`.

Deadlock is checked where the model has no fault to stop at. `deque_all`,
`deque_add_at`, `deque_remove_at`, `array_any`, `adapters`, `values` and `memory` say
`CHECK_DEADLOCK FALSE`: there the program can step outside its memory, and the
model stops.

Fairness. The library never waits and schedules nothing; whether a call is ever
made is up to the client. What must eventually happen is the end of a loop: the
`FOREACH` macros of the lists (`cc_list.h:174`, `cc_slist.h:155`), of the search
tree (`cc_tsttable.h:75`), and `cc_tsttable_foreach_key` and `_value` call the
iterator's `next` until it returns `CC_ITER_END`. That is weak fairness of `GoOn`,
the call of `next` while an iteration is on, in `CCList`, `CCSList` and
`CCTSTTable`; no other action has any. `LoopsEnd` says that every iteration ends,
although a body may remove, replace and, in the lists, add at every step, and
although the walk of the search tree goes back through nodes it has been at. A
body that never returns is the client's own loop; weak fairness of `GoOn` says
that it does return. The other loops of the library have no client in them, and
are part of one action each.

Preconditions the models take from the headers: iterator calls only in the order
the comments demand, no use of an iterator after another call changed a tree,
hash table or list, comparison functions that are total orders.

The client of the lists is `Careful` in the run: it adds at most one element
behind each one an iterator returned, does not add through an iterator that has
removed (doubly linked) or remove through one that has added (singly linked), and
does not call `add_all_at` on an empty list. Section 5 says what the code does
to one that is not careful; `Careful = FALSE` lets the models do it.

## 4. Theorems and proofs

TLAPS proves, for every value of the constants:

| Module | Theorems | What they say |
|---|---|---|
| `HashTableProofs` | `HashTableStaysSound`, `EntriesStayReachable`, `LoadStaysBounded`, `WalksAreComplete`, `HashTableIsAMap` | for any hash function, capacity and load factor: every entry is in the bucket where a lookup searches and no key has two; `size` counts them and stays within the threshold; an iteration returns every entry once; the table implements `MapSpec`, call by call (`IsAMap`) |
| | `HashSetIsASet` | over a table whose values are the dummy: the calls of the set and its iterator are those of `SetSpec`, call by call (`IsASet`) |
| `RedBlackProofs` | `RebalancedInsert`, `RebalancedDelete` | for a tree of any size: `rebalance_after_insert` below a new red leaf, and `rebalance_after_delete` where a black node is missing, leave a red-black tree of the same nodes in the same order, within as many rounds as there are nodes |
| `TreeTableProofs` | `TreeTableStaysSound`, `LinksStayInAgreement`, `TreeStaysRedBlack`, `NodesStayReachable` | for any set of keys, whatever a client calls: the live nodes are a red-black search tree, climbed as it is descended (`LinksAgree`, `RedBlackRules`), and each is visited by a walk, counted and found by its key (`EveryNodeIsReached`) |
| | `TreeTableIsAnOrderedMap` | the calls of the table and its iterator are those of `OrderedMapSpec`, call by call (`IsAnOrderedMap`) |
| | `TreeSetIsAnOrderedSet` | the calls of the set and its iterator are those of `OrderedSetSpec`, call by call (`IsAnOrderedSet`) |
| `ArrayProofs` | `ArrayStaysSound`, `ArrayStaysInside`, `ArrayIsASequence` | every call and the iterator do what `SeqSpec` says of the call of that name (`IsASequence`); memory outside the buffer is touched only after a refused expansion or in the trimming of an empty array (`NoStrayAccess`) |
| | `StackIsLifo` | the calls of the stack, its filters and its iterator are those of `LifoSpec`: last in, first out (`IsLifo`) |
| | `BlocksStayInside` | sized arrays, one or two, elements of any length: a byte outside the buffer is touched only by an addition after a refused expansion, with no memory granted since, or in the trimming of an empty array (`StraysOnlyWhenRefused`) |
| `DequeProofs` | `DequeTypeCorrect`, `DequeEndsAgree`, `DequeFailureIsAtomic` | whatever a client calls: the fields keep to their ranges; `first`, `last` and `size` agree modulo the capacity, which stays a power of two; a call that returns an error changes nothing |
| | `DequeStaysInside` | a client that neither copies nor trims never leaves the buffer |
| | `DequeIsASequence`, `DequeHoldsElements`, `DequeWalksInOrder` | the calls at the ends, `replace_at`, `remove_at`, `remove`, `reverse`, `filter_mut` and the iterator that removes do what `SeqSpec` says of the call of that name (`IsASequence`), at any capacity and wherever the elements lie in the buffer, unless they remove where `TearsAt` holds (section 5): such a call returns the right element and leaves one less. Every element counted is one that a client stored, also after that; an iteration owes what the deque holds from its index on, until that |
| `QueueProofs` | `QueueIsFifo` | the calls of the queue and its iterator are those of `FifoSpec`: first in, first out (`IsFifo`) |
| | `HeapIsAPriorityQueue` | for any elements and ranks, any growth factor and capacity: while the heap stays in its buffer, push, pop and top are those of `PrioritySpec`: what is pushed is not lost, and pop and top give what no other outranks (`IsAPriorityQueue`) |
| `MemoryProofs` | `StaticPoolBlocks`, `StaticPoolFrees`, `PagedBlocks`, `PagedFrees` | blocks of both pools never overlap, over any number of pages, and a free gives back exactly the newest |
| | `PrimedRingIsAQueue`, `LatestItemsAreKept`, `DequeueGivesOldest` | for any client: a ring that was full holds, until it is empty, its queue from `tail` on, and a dequeue returns the oldest item; an enqueue drops the oldest item only |
| `SharedLemmas` | `RoundingGivesPower`, `DoublingStaysBelow` | rounding yields a power of two in range, doubling below the maximum stays at most the maximum |

Hypotheses. They are the named assumptions of the modules, and:

* the configured capacity of the deque is a power of two (otherwise the code
  allocates too little, section 5);
* for the three theorems that take the deque as a sequence the client keeps to
  `SequenceCalls`, which are `SoundCalls` of the run `deque_sound`: the calls left
  out do not do what their names say (`add_at`, `iter_add`, `iter_replace`, `get_at`,
  `filter`), or leave `last` outside the buffer (copies and trim; section 5).
  `remove_at` and the calls that use it are in: that they tear some deques is part of
  what the theorems state, not a restriction of the client;
* the queue stands on such a deque, and the hash set on a table with one value,
  `Values = {Dummy}`;
* no pool hands out zero bytes (`PositiveSizes`): such a block shares its address
  with its successor;
* the growth factor of the heap is any fraction, and the allocator grants no buffer
  of `MaxElements` slots (`HeapConstants`): a refused expansion at the limit leaves
  that as the capacity;
* `LoadStaysBounded` supposes `LoadFits`: the load factor times twice the initial
  capacity is at least one. The default factor, 3/4, fits every capacity, as does
  any from 1/2 on. With a smaller one a table of few buckets has the threshold 0,
  before and after its first doublings, and takes the entry all the same. The other
  theorems on the table do not need it.

**The hash table.** `EntriesAreReachable` alone is not inductive: it says where
entries are by their keys, and `move_entries` places them by the hash stored in
them. `TableSound` says both agree (`Placed`), that no chain has a key twice
(`Apart`), that the capacity is a power of two in range and the threshold the one
that belongs to it, and that `size` is the number of entries (`Count`). What the
chains hold is one set of entries, `In`, and the mappings are a function of that
set (`MapFrom`), so each operation is first described by what it does to the set:
`InsertionStays` adds an entry, `ReplacementStays` exchanges one, `RemovalStays`
takes one out, `MoveStays` keeps the set while all chains are rebuilt, for which
`Flattening`, `Chosen` and `Backwards` say what concatenating the chains, selecting
from them and pushing on the front keep. `Added`, `Changed` and `Dropped` turn that
into the map. `Searched` says that a lookup finds a key exactly when the map has
it. For the iterator, `WalkInv` says what an iteration owes: the keys from the
place of the next entry on and those of later buckets (`Ahead`), and that the entry
it has just returned is in the table and not among them. Hence removing through the
iterator disturbs nothing that is owed (`FoundAfter`), and `IterNext` takes the
front of what is owed (`AheadOfNext`, `AheadOfFirst`).

**The red-black tree.** None of `LinksAgree`, `RedBlackRules`, `EveryNodeIsReached`
is inductive, nor are the three together: that the links agree does not keep a cycle
out, and a node in the wrong subtree is found wrong only later. The invariant is
`TreeInv`: the live nodes make a tree that is `Good`, `size` is their number, and the
iterator stands between the node it returned and the next one. `Good(t, D, N, sub, bh)`
has no recursion in it: there are two functions on the nodes, `sub` with the set of
nodes below each and `bh` with its black height, that satisfy the equations of a
search tree at every node (`Below`: the node and what is below its two children, what
is left of it being less and what is right of it greater, parents agreeing) and those
of the black heights (`Even`), and no red node has a red child (`RedApart`). Between
two steps of a call the tree is less than that, and by one place: below an inserted
leaf two red nodes may meet (`RedApart` with an exception, `Inserting`), and where a
node was taken out one side is short of a black node (`Gap`, `Deleting`).

A lemma per step says what it does to `sub` and `bh`: `Rotate`, `Transplant`,
`Promoted` keep the order (`AtRenamed`, `ShapeRenamed` see a successor that takes
another's place as a renaming); `RedGoesUp`, `InnerGoesUp`, `SiblingGoesUp`,
`BothBlack`, `InsideUp`, `OutsideUp` are the cases of the loops, for either side. `RoundInsert`
and `RoundDelete` put the cases together: one round leaves `Good`, or the same
exception nearer the root, which the number of nodes above (`Over`) measures; so
the loops end within as many rounds as there are nodes, and `RebalancedInsert` and `RebalancedDelete`
follow by induction over the rounds. The sentinel, whose parent `transplant` writes
and the deletion loop reads, is one of the nodes of the domain `D` but none of `N`.

What a search, a walk down or up, and a whole walk find is the end of a way along
which a set of nodes shrinks: `WayEndIn` gives the end, `DescendIs`, `ExtremeIs`,
`ClimbIs` and `NextOnIs` say which node it is in the order of the keys, and
`AllVisited` that the walk from the first one meets all. After that each call
(`AddStays`, `RemoveStays`, `IterRemoveStays`, ...) keeps `TreeInv` and is the call of
`OrderedMapSpec`.

**The array.** `ArrayInv` has three parts. `BufferInv`: the first `size` slots hold
elements (`WellFormed`), and the buffer has the slots the array believes in unless an
expansion was refused (`Roomy`). `IterInv`: right after `iter_next` the iterator
stands behind the element it returned. And `kept`, the history of the comparison with `SeqSpec`, is still TRUE. A
lemma per call (`InsertStays`, `RemoveStays`, `FilterMutStays`, ...) says that the
call preserves the first two and is the abstract call on `Contents(array)`, or
leaves the model with `fault`. The in-place filter is a loop over the buffer with
two counters; its state after each round is a function by recursion, and
`ScanGoesOn` relates it to the elements already looked at.

The sized array needs a part of that only, and for two arrays at a time: each
`Believes`, i.e. its buffer has the bytes of a whole number of elements, not fewer
than `size` nor, unless it was refused, than `capacity`. `StraysOnlyWhenRefused`
alone is not inductive: until a call strays it says nothing of capacities. A call is a step between *worlds* (both
arrays, who was refused, where the call strayed); `RoomMadeFor` says that making room
leaves a place or a refusal, and `BlocksAdded` that an addition after it strays only
in the latter case. `cc_array_sized_zip_iter_add`, which makes room in both and then
adds to both, is these two lemmas twice over (`ZipIterAddSane`). Lengths in bytes come
in at two places: a buffer of `m * DataLength` bytes has room for `m`
(`LengthInBlocks`, a division by a constant of any value), and the memmove of the
in-place filter reads inside it (`BlocksAhead`, `ReadingGoesOn`).

**The deque.** `TypeOK` and `EndsAgree` are not inductive: after a
wrap they say nothing about which slots exist. The invariant is `DequeInv`, whose
core `Shape(deque)` adds that `buffer` has exactly `capacity` slots, holding
elements or nothing, that `last` is `size` slots after `first` modulo the
capacity, and that `last` may equal the capacity only as a copy or trim leaves
it. A lemma per pure operation (`PushFrontShape`, `InsertAtShape`,
`DeleteAtShape`, `RealignedShape`, ...) says that it takes shapes to shapes; the
memmove cases reduce to one lemma that a move which reads inside the buffer keeps
it typed. The filters are loops over the buffer, as in the array: `Scanning` and
`FilteredCopyShape` carry the shape along their rounds. A lemma per action lifts that to the state (`AddFirstStep`, ...). Since
`%` by a variable is beyond the SMT backend's reach, `Wrap` reduces remainders to
three linear cases and `EndsLinear` restates agreement of the ends without `%`.
Staying inside needs `Tight` in addition: `last` is below the capacity, which
copying and trimming a full deque break.

What the deque holds is a second invariant on top of this one, `SeqInv`: the places
in use hold elements (`Holding`), and the iterator owes what is held from its index
on (`WalkFits`, which also says what the last `next` returned). Each pure operation
has a lemma in two steps. `PushFrontPlaces`, `DeleteAtPlaces`, `ReversedPlaces`,
`RealignedPlaces`, ... say place by place what the buffer is afterwards: `Around`
replaces the remainder by its two cases, and `CloseFrontPlaces` and
`CloseBackPlaces` follow the memmoves of `remove_at`, wrapped or not, towards either
end, the latter where `TearsAt` does not hold. Where it does, `TornHolds` says that
every place in use still holds an element (`CloseBackHolds`), which is what
`DequeHoldsElements` and every later call need; `TornIsAStep` that the call is the
other disjunct of `SeqStep`. `PushedFront`, `Deleted`, `TurnedRound`, `RoomMade`, ... make sequences of that:
the contents with one in front, without the element at `i`, reversed, unchanged. For
`filter_mut`, `KeptGoesOn` says of each round of the loop that what it has kept and
what it has not looked at make up the deque, so `FilteredOut` ends with what the
promise selects, unless one of its removals tears (`FilteredHolds`). Finally a lemma
per call (`AddFirstKept`, `RemoveKept`,
`IterRemoveKept`, ...) says that the call keeps the invariant and is the call of
`SeqSpec`. `DequeFailureIsAtomic` needs no invariant: no branch that returns an error
assigns the deque.

**The queue, the stack and the sets.** They are instances of the module beneath, whose
operators are, to the prover, not those of the theorems on it. `SameCalls`,
`SameTables`, `SameIteration`, ... say that they are, from their definitions: the
instance of the queue's deque is the deque. After that every call of the queue is a
call of the deque, keeps its invariant by the deque's own lemma, and is left to be
read backwards: the front of the queue is the back of the deque (`Backwards`,
`PutBehind`, `TakenFromFront`). The stack is likewise the back of its array;
`cc_stack_filter`, which pushes on a new stack without reading a status, leaves what
the predicate selects down from some element on, by induction over the pushes. In a set the members are the keys of the map, and
what the iterator owes and may remove comes from `WalkInv` or `IterInv`
(`MapToSet`, `IteratorAfter`).

**The heap.** The invariant, `Heap`, says that the first `size` slots hold elements
(`Filled`), that none outranks the one above it (`Ordered`), and that the buffer has
at least `size` slots and, since the capacity alone may lie after a refusal, not more
than the greatest capacity. Push and pop move one element along a way, up or down;
both ways are recursive functions, and `WaysExist`, `WaysAreWays` and `WayFalls` give
their equations, that they go from place to place as they should, and that no place
is met twice, from a rank that falls at every step (`Falls`). Hence a shift along a
way rearranges the slots (`ShiftRearranges`), and a rearrangement keeps how often each
element is there (`CountKept`): the bag of `PrioritySpec` changes by the one element
pushed or popped. `PushedUp` and `SunkDown` compare, at each slot and the one above
it, what was there and where on the way either lies; `RootIsGreatest` is an induction
over the slots.

**The pools.** That blocks are disjoint is not inductive, since a
free that rolls back could uncover a block still held. `Layout` says that every
block held lies below `high_ptr`, except the newest, which lies exactly between
`high_ptr` and `free_ptr`. A pointer equal to `high_ptr` is then the newest
block, because blocks are not empty; so a free either rolls back that block or
does nothing. `PagedLayout` says the same of the top page of the dynamic pool and
nothing of lower ones, which no free can reach.

**The ring.** `RingInv` measures the way from `head` to `tail` (`Span`): that and the
queue fit in the ring together, and fill it from the moment the ring was full. Then
`tail` is where the queue begins, which `head` and `size` alone do not say.

**Recursion.** The theorems of the library on induction take an operator as a
parameter, which no installed prover instantiates. `SharedLemmas` has what takes
their place, over sets instead of predicates: `Least` (from the well-foundedness of
Nat), `Induction` (a set with 0 and with each successor up to N has them all),
`Recursion` (a step function determines the function it iterates). With them
recursive *functions* are within reach: `Selecting` and `Flattening` give the
equations of `Selected` and of `FlattenSeq`, which the filters and the resizing use.

Only model-checked: the calls on two arrays or deques (`ZipKeepsPromise`),
`RoundsByBits` (its module uses `Bitwise`), that the sized arrays do what `SeqPairSpec`
says (`BlocksKeepPromise`), and everything on lists and the ternary search tree. Out of
the prover's reach: `LoopsEnd`, which holds under fairness only, and whatever would need ENABLED.

## 5. Where documentation and code part

`deque_add_at` and `deque_remove_at` check one each. The others were met while modelling; the
model follows the code, and a run whose property they would break leaves the call
or the configuration out, as described here.

*Deque* (`cc_deque.c`)
* `add_at` (257) takes the branch of a wrapped back half also when the last slot is
  the free one (`l == c`) in a buffer that does not wrap. With capacity 4 and the
  elements in slots 0 to 2, `add_at(e, 1)` moves slots 1 and 2 on, and line 277 then
  stores what slot 3 held before, nothing, in slot 0: the first element is lost and
  an unset slot is counted. The comment (194) promises an insertion at the index.
  *Run `deque_add_at`.* (The shortcut for `index = capacity - 1`, line 223, is never
  taken: there is room by then, so that the index is smaller.)
* `remove_at` (405) closes a wrapped buffer the wrong way: behind the middle, when
  the element lies at the end of the buffer (`p > l`), the elements at its start
  should move down by one and are moved up. With capacity 8 and five elements in
  slots 5, 6, 7, 0, 1, `remove_at(2)` carries slot 0 to slot 7 and leaves it in slot 0
  as well: the last element is lost and the one before it is there twice. It takes two
  elements or more at the start of the buffer (the one slot the memmove writes is free
  otherwise), or one in a full deque, hence with four slots too; no unit test
  calls `remove_at`. `remove`, `filter_mut`, `iter_remove` and `zip_iter_remove` do
  the same. The comment (344) speaks of the element at the index.
  *Run `deque_remove_at`.*
* `new_conf` (80, 88): memory for `conf->capacity` slots, then the capacity is
  rounded up: a capacity that is no power of two is an overflow waiting.
* `get_at` (517) accepts `index = size`.
* `remove` (337) reports `CC_ERR_OUT_OF_RANGE` for a missing element, where the
  comment (330) says `CC_ERR_VALUE_NOT_FOUND`.
* `filter` (891) ignores failed insertions into the copy.
* `copy_shallow` (595) and `trim_capacity` (668) set `last` to `size`, which in a
  full buffer is the slot behind it; `trim_capacity` of an empty deque copies
  into a buffer too small for what `copy_buffer` takes to be a full ring.
* `iter_next` (1033) ends at once on a full deque, whose `first` equals `last`, and
  `zip_iter_next` when either deque is full.
* `iter_replace` (1118) replaces the element after the one returned; the queue
  inherits it (`cc_queue.c:233`).

*HashTable* (`cc_hashtable.c`): `contains_key` (536) looks for NULL where its hash
is, not in bucket 0, and the string comparison (539) may be handed NULL, so the
model's client asks `get` about NULL; `get_keys` of an empty table (604) returns
`CC_ERR_INVALID_CAPACITY`.

*List* (`cc_list.c`)
* `add_at` (224) refuses the index behind the last element, which the array's and
  `add_all_at` accept.
* `add_all_at` (306) at index 0 of an empty list follows its NULL tail (334); the
  comment (292-305) allows the index.
* `iter_remove` (1369) leaves the index where it is and the iterator without a
  last node: `iter_add` (1396) right after it follows NULL; after one more `next`
  the stale index makes `iter_add` take a middle node for the tail (1407). So do
  two `iter_add` behind the last element, and the zip iterator (1691).
* `filter` (1314) reads no status of its additions (1329) and allocates by default
  functions; `remove_all` of an empty list is `CC_ERR_VALUE_NOT_FOUND`.

*SList* (`cc_slist.c`)
* `iter_remove` (1162) unlinks behind a predecessor that `iter_add` (1191) does
  not move: after `iter_add`, `next`, the removal loses the added node, which
  stays in `size`. A second `iter_add` behind one element loses the first.
* `add_at`, `add_all_at`, `splice_at` (420) refuse the index behind the last
  element; `filter` (1073) ignores failed additions.

*Zip macros*: `CC_LIST_FOREACH_ZIP` declares an iterator of one name and initialises
one of another (`cc_list.h:186-187`; the same in `cc_slist.h`, `cc_deque.h`,
`cc_queue.h`), so that no use of it compiles.

*Array* (`cc_array.c`): `expand_capacity` (854) sets the capacity before the
allocation, so after one refusal the next insertion writes behind the buffer;
`trim_capacity` at size 0 (712-719) copies a slot that is not an element;
`NoStrayAccess` says these two are the only ways out. `subarray` (484) leaves the
expansion factor 0; `iter_remove` (962) does not move the index back, so an
element is skipped; `iter_add` (984) moves it on failure too. `zip_iter_remove` and
`zip_iter_add` (1107) do the same with the index, and the latter ignores what its
two additions return (1116-1117).

*RingBuffer* (`cc_ring_buffer.c:96`): `head = tail` is taken for full in an empty
ring as well: the first `enqueue` moves `tail` on with `head`, and an ordinary
`dequeue` after it returns the slot behind the item, which was never written. From the moment the ring is full until it is empty it is a queue, whatever
the client did before, and that is what `DequeuesOldest` and its theorem say. The
unit tests fill the ring before they dequeue.

*StaticPool* (`memory/cc_static_pool.c`): the end-of-buffer check (95) adds the
size to the start of the last block, so the last block may end beyond the buffer;
blocks of zero bytes (136) can be freed in place of their successors; `calloc`
(120) multiplies without a check.

*DynamicPool* (`memory/cc_dynamic_pool.c`): the same end check (178); `reset`
(153-156) frees the wrong page of two and reads a freed one of three, where the
comment (142-143) has it keep one page; a pool that is not packed divides by a
boundary that is always 0 (205); `used_bytes` (257-260) adds up the wrong pages.

*TreeTable* (`cc_treetable.c`): the neighbour beyond either end is the sentinel,
whose NULL key is returned with `CC_OK` where the comments say
`CC_ERR_KEY_NOT_FOUND` (273-305); `remove_last` (672-684) has no check for an
empty table, where `tree_max` gives the sentinel, not NULL; `iter_remove` (925)
before the first `iter_next` would take the sentinel apart. `OrderedMapSpec`
states the neighbour as the code answers; the other two calls are left out.

*ArraySized* (`sized/cc_array_sized.c`): `expand_capacity` as in the array (812);
`trim_capacity` at size 0 (686-692) copies one element into a buffer of none and
sets the capacity 0, where the comment (667-669) says it never shrinks below 1;
`subarray` leaves the factor 0; `iter_remove` leaves the index, so the next element
is skipped; `iter_add` moves it on failure too; `peek` (405) accepts
`index = size`; `zip_iter_add` (1073) ignores what the two additions return.

*PQueue* (`cc_pqueue.c`): the capacity is set before the allocation (191-199);
`heapify` reads both children before it compares indices (309-310), which may lie
behind the buffer; `top` of an empty queue returns another code than documented
(253-260).

*Stack* (`cc_stack.c`): `filter` (225) reads no status and makes the new stack with
the default configuration; `destroy_cb` (121) calls `free`, not the configured
function.

*HashSet* (`cc_hashset.c`): `remove` and `iter_remove` hand out the dummy that the
set stores for every element (135, 249), where the comment (124-131) speaks of the
element, and `CC_ERR_KEY_NOT_FOUND` where it says `CC_ERR_VALUE_NOT_FOUND`.
*TreeSet* (`cc_treeset.c`): `remove` (133) hands out the dummy as well, and takes
every status but `CC_ERR_KEY_NOT_FOUND` for success. The two specifications of
sets promise nothing about that result.

*TSTTable* (`cc_tsttable.c`): the empty key shares the entry of the root (137);
the entry of a root without neighbours is never returned by an iteration (554);
entries are returned again on the way back up (500-577), where the comment (458)
speaks of each value; `iter_remove` advances the iterator, and the `next` after it
returns the status of that step without an entry; the entry of a removed key is
not freed, nor are the nodes made before an allocation fails.

## 6. What is not modelled, and the plan

Every operation that changes a container is an action of a module. Not modelled:
the destructor callbacks of the `..._cb` calls (user code on each element, before
the call that is modelled), `contains_value` with a comparison of the client,
`map`, `foreach` and `reduce` (they do not change the container), the hash
functions (a constant of the model), `qsort` itself, construction with invalid
configurations, and the `..._iter_index` functions, which only report a field.

What is left is proof, in this order:

1. The calls on two arrays; the sized arrays as sequences of whole elements.
2. The search tree: `TreeIsTight`.
3. The lists: `EveryListIsLinked`, with the two chains as sequences of nodes.
