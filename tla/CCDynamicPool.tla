---------------------------- MODULE CCDynamicPool ----------------------------
(***************************************************************************)
(* CC_DynamicPool (memory/cc_dynamic_pool.c): the bump allocator over a   *)
(* stack of heap pages, each linked to the one before it.  Addresses are   *)
(* offsets from the low_ptr of the top page.  A page larger than the       *)
(* client's request is added when the top page is full.                    *)
(*                                                                         *)
(* `fault' is set by a read of a freed page and by a division by zero.     *)
(***************************************************************************)
EXTENDS MemoryConf, Sequences

CONSTANTS
  Sizes,    \* the sizes clients ask for
  SizeMax,  \* SIZE_MAX, scaled down: count * size wraps above it
  MaxLive   \* bound: blocks a client holds at a time

VARIABLES
  pool,  \* pages: their sizes, the first one first; high_ptr, free_ptr
  held,  \* history: the number of pages obtained from mem_alloc, not freed
  live,  \* history: the blocks handed out and not freed, in that order
  ret,   \* the block the latest call returned
  fault

vars == <<pool, held, live, ret, fault>>

NULL == [page |-> 0, ptr |-> 0, size |-> 0]

Top      == Len(pool.pages)
PageSize == pool.pages[Top]

\* alignment_boundary of the configuration never reaches the pool, where
\* calloc left 0: size % 0 for a pool that is not packed.
AlignmentBoundary == 0

Init ==
  /\ pool = [pages |-> <<InitSize>>, high |-> 0, free |-> 0]
  /\ held = 1
  /\ live = <<>> /\ ret = NULL /\ fault = FALSE

Fail == ret' = NULL /\ UNCHANGED <<pool, held, live, fault>>

NextMax == (PageSize * ExpNum) \div ExpDen

Full(n) == pool.high + n >= PageSize

\* A block of n bytes at the free_ptr of pool p.
Take(p, n) ==
  LET b == [page |-> Len(p.pages), ptr |-> p.free, size |-> n]
  IN  IF IsPacked
      THEN /\ pool' = [p EXCEPT !.high = p.free, !.free = p.free + n]
           /\ live' = Append(live, b)
           /\ ret' = b
           /\ UNCHANGED fault
      ELSE /\ fault' = (AlignmentBoundary = 0)
           /\ pool' = [p EXCEPT !.high = p.free]
           /\ UNCHANGED <<live, ret>>

Malloc(n) ==
  /\ Len(live) < MaxLive
  /\ \/ n >= PageSize /\ Fail
     \/ n < PageSize /\ ~Full(n) /\ Take(pool, n) /\ UNCHANGED held
     \/ n < PageSize /\ Full(n) /\ (IsFixed \/ n > NextMax) /\ Fail
     \/ /\ n < PageSize /\ Full(n) /\ ~IsFixed /\ n <= NextMax
        /\ \/ Fail
           \/ /\ held < MaxPages
              /\ held' = held + 1
              /\ Take([pages |-> Append(pool.pages, NextMax),
                       high |-> 0, free |-> 0], n)

Calloc(count, n) == Malloc((count * n) % (SizeMax + 1))

\* Mutants of Free: the block is not compared with high_ptr; the page of the
\* block is not.
FreeUnchecked(i) ==
  /\ pool' = [pool EXCEPT !.free = pool.high]
  /\ live' = SubSeq(live, 1, i - 1) \o SubSeq(live, i + 1, Len(live))
  /\ UNCHANGED <<held, ret, fault>>

FreeOnAnyPage(i) ==
  /\ pool' = IF live[i].ptr = pool.high THEN [pool EXCEPT !.free = pool.high]
                                        ELSE pool
  /\ live' = SubSeq(live, 1, i - 1) \o SubSeq(live, i + 1, Len(live))
  /\ UNCHANGED <<held, ret, fault>>

\* The client frees a block it holds; a block of an older page never starts
\* at the high_ptr of the top page.
Free(i) ==
  /\ pool' = IF live[i].page = Top /\ live[i].ptr = pool.high
             THEN [pool EXCEPT !.free = pool.high] ELSE pool
  /\ live' = SubSeq(live, 1, i - 1) \o SubSeq(live, i + 1, Len(live))
  /\ UNCHANGED <<held, ret, fault>>

\* The loop frees the page below the one it has just moved to and then reads
\* it; with two pages it frees NULL and forgets the top page.
Reset ==
  /\ IF Top <= 2
     THEN /\ pool' = [pages |-> <<pool.pages[1]>>, high |-> 0, free |-> 0]
          /\ live' = <<>>
          /\ UNCHANGED <<held, fault>>
     ELSE fault' = TRUE /\ held' = held - 1 /\ UNCHANGED <<pool, live>>
  /\ UNCHANGED ret

Next ==
  /\ ~fault
  /\ \/ \E n \in Sizes : Malloc(n) \/ \E count \in 1..2 : Calloc(count, n)
     \/ \E i \in DOMAIN live : Free(i)
     \/ Reset

Spec == Init /\ [][Next]_vars

-----------------------------------------------------------------------------
\* Properties

\* Blocks a client holds never overlap, over any number of pages and frees
\* that had no effect.
BlocksAreDisjoint ==
  \A i, j \in DOMAIN live :
    i < j => \/ live[i].page < live[j].page
             \/ /\ live[i].page = live[j].page
                /\ live[i].ptr + live[i].size <= live[j].ptr

\* free: "Frees the block only if it is the most recent block allocated.
\* Otherwise it has no effect", also when that block is on an older page.
FreesNewestOnly ==
  [][\A i \in DOMAIN live : Free(i) /\ i # Len(live) => pool' = pool]_vars
=============================================================================
