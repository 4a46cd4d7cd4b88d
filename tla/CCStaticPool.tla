----------------------------- MODULE CCStaticPool -----------------------------
(***************************************************************************)
(* CC_StaticPool (memory/cc_static_pool.c): a bump allocator inside a     *)
(* buffer its client owns.  Addresses are offsets from low_ptr.  high_ptr *)
(* is the start of the block allocated last, free_ptr the first byte after *)
(* it, and only that block can be rolled back.                             *)
(***************************************************************************)
EXTENDS Integers, Sequences

CONSTANTS
  BufferSize, \* the size argument: low_ptr + size is what malloc takes for
              \* the end of the buffer
  Sizes,      \* the sizes clients ask for
  SizeMax,    \* SIZE_MAX, scaled down: count * size wraps above it
  MaxLive     \* bound: blocks a client holds at a time

ASSUME PoolConstants ==
  /\ BufferSize \in Nat
  /\ Sizes \subseteq Nat
  /\ SizeMax \in Nat /\ MaxLive \in Nat

VARIABLES
  pool,   \* high_ptr and free_ptr
  live,   \* history: the blocks handed out and not freed, in that order
  newest, \* history: the last of them is the most recent block allocated
  ret     \* the pointer the latest call returned, -1 for NULL

vars == <<pool, live, newest, ret>>

NULL == -1

Init ==
  /\ pool = [high |-> 0, free |-> 0]
  /\ live = <<>> /\ newest = FALSE /\ ret = NULL

\* The check adds the size to the start of the last block, not to its end.
Fits(n) == pool.high + n < BufferSize

\* Mutant of Malloc: free_ptr is advanced from the old high_ptr.
MallocFromHigh(n) ==
  /\ Fits(n) /\ Len(live) < MaxLive
  /\ pool' = [high |-> pool.free, free |-> pool.high + n]
  /\ live' = Append(live, [ptr |-> pool.free, size |-> n])
  /\ newest' = TRUE
  /\ ret' = pool.free

Malloc(n) ==
  \/ ~Fits(n) /\ ret' = NULL /\ UNCHANGED <<pool, live, newest>>
  \/ /\ Fits(n) /\ Len(live) < MaxLive
     /\ pool' = [high |-> pool.free, free |-> pool.free + n]
     /\ live' = Append(live, [ptr |-> pool.free, size |-> n])
     /\ newest' = TRUE
     /\ ret' = pool.free

Calloc(count, n) == Malloc((count * n) % (SizeMax + 1))

\* Mutants of Free: the block is not compared with high_ptr; any block rolls the
\* pool back to where it starts.
FreeUnchecked(i) ==
  /\ pool' = [pool EXCEPT !.free = pool.high]
  /\ live' = SubSeq(live, 1, i - 1) \o SubSeq(live, i + 1, Len(live))
  /\ newest' = (newest /\ i # Len(live))
  /\ UNCHANGED ret

FreeBack(i) ==
  /\ pool' = [high |-> live[i].ptr, free |-> live[i].ptr]
  /\ live' = SubSeq(live, 1, i - 1) \o SubSeq(live, i + 1, Len(live))
  /\ newest' = (newest /\ i # Len(live))
  /\ UNCHANGED ret

\* The client frees a block it holds.
Free(i) ==
  /\ pool' = IF live[i].ptr = pool.high THEN [pool EXCEPT !.free = pool.high]
                                        ELSE pool
  /\ live' = SubSeq(live, 1, i - 1) \o SubSeq(live, i + 1, Len(live))
  /\ newest' = (newest /\ i # Len(live))
  /\ UNCHANGED ret

\* All blocks are invalidated.
Reset ==
  /\ pool' = [high |-> 0, free |-> 0]
  /\ live' = <<>> /\ newest' = FALSE
  /\ UNCHANGED ret

Next ==
  \/ \E n \in Sizes : Malloc(n) \/ \E count \in 1..2 : Calloc(count, n)
  \/ \E i \in DOMAIN live : Free(i)
  \/ Reset

Spec == Init /\ [][Next]_vars

-----------------------------------------------------------------------------
\* Properties

End(b) == b.ptr + b.size

\* Two blocks a client holds never overlap, whatever was freed in between and
\* whichever frees had no effect.
BlocksAreDisjoint ==
  \A i, j \in DOMAIN live : i < j => End(live[i]) <= live[j].ptr

\* The next block starts behind every block a client holds.
FreeIsBehindBlocks == \A i \in DOMAIN live : End(live[i]) <= pool.free

\* free: "Frees the block only if it is the most recent block allocated.
\* Otherwise it has no effect."
FreesNewestOnly ==
  [][\A i \in DOMAIN live :
       Free(i) => IF newest /\ i = Len(live)
                  THEN pool'.free = live[i].ptr
                  ELSE pool' = pool]_vars
=============================================================================
