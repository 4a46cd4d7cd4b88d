------------------------------- MODULE MCDeque -------------------------------
(***************************************************************************)
(* One deque, by groups of calls; and upper_pow_two (cc_deque.c),          *)
(* round_pow_two (cc_hashtable.c), the same code, bit by bit: it rounds up *)
(* by smearing the highest bit of n - 1 downwards.                         *)
(***************************************************************************)
EXTENDS CCDeque, Bitwise, TLC

SX == INSTANCE SequencesExt

CONSTANTS
  e1, e2,
  Width  \* the bits of size_t, scaled down

MCElements == {e1, e2}
Symmetry   == Permutations(MCElements)

\* The calls for which the deque is a sequence.  The others, and why they are
\* left out, are in the README: add_at and iter_add, iter_replace, copies,
\* filter, trim_capacity and get_at.
SoundCalls ==
  {"add_first", "add_last", "remove_first", "remove_last", "get_first",
   "get_last", "remove_all", "replace_at", "remove_at", "remove", "reverse",
   "filter_mut", "iter_init", "iter_next", "iter_remove"}
AllCalls == SoundCalls \cup
  {"add_at", "get_at", "filter", "copy_shallow", "copy_deep",
   "trim_capacity", "iter_add", "iter_replace"}

\* Enough to put any contents anywhere in a buffer of eight slots.
WideCalls     == {"add_first", "remove_at"}
RemoveAtCalls == {"add_first", "add_last", "remove_at"}
AddAtCalls    == {"add_last", "add_at"}

\* Two deques in one run: one that grows to half of MaxCapacity, for a client of
\* Calls, and one created with MaxCapacity slots, for a client of WideCalls.
Narrow == INSTANCE CCDeque WITH MaxCapacity <- MaxCapacity \div 2
Wide   == INSTANCE CCDeque WITH InitCapacity <- MaxCapacity, Calls <- WideCalls

InitBoth == Narrow!Init \/ Wide!Init
NextBoth ==
  \/ deque.capacity < MaxCapacity /\ Narrow!Next
  \/ deque.capacity = MaxCapacity /\ Wide!Next
SpecBoth == InitBoth /\ [][NextBoth]_vars

-----------------------------------------------------------------------------
ASSUME Widths == Width \in 2..16

\* The shifts whose distance is below the width.
Shifts == SelectSeq(<<1, 2, 4, 8>>, LAMBDA k : k < Width)

\* n |= n >> k, for every distance in order.
Smeared(n) == SX!FoldLeft(LAMBDA x, k : x | shiftR(x, k), n, Shifts)

\* Mutant of RoundedByBits: n itself is smeared, not n - 1.
RoundedAbove(n) ==
  IF n >= 2^(Width - 1) THEN 2^(Width - 1)
  ELSE IF n = 0 THEN 1
  ELSE Smeared(n) + 1

RoundedByBits(n) ==
  IF n >= 2^(Width - 1) THEN 2^(Width - 1)
  ELSE IF n = 0 THEN 1
  ELSE Smeared(n - 1) + 1

\* The bit operations of upper_pow_two compute the least power of two that is
\* not below n: here for every size the deque has, at which trim_capacity
\* calls it.
RoundsByBits == RoundedByBits(deque.size) = RoundUp(deque.size)
=============================================================================
