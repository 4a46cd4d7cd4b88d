------------------------------ MODULE CCCommon ------------------------------
(***************************************************************************)
(* The status codes every container shares (include/cc_common.h) and the  *)
(* result a call hands back to its caller: a status and, when the call    *)
(* has an out parameter that it set, the value stored there; what every    *)
(* filter selects from a sequence; and the rounding to a power of two.     *)
(***************************************************************************)
EXTENDS Integers, Sequences

CONSTANT NoElement  \* what an untouched slot or out parameter holds

CC_OK                 == "CC_OK"
CC_ERR_ALLOC          == "CC_ERR_ALLOC"
CC_ERR_KEY_NOT_FOUND  == "CC_ERR_KEY_NOT_FOUND"
CC_ERR_VALUE_NOT_FOUND == "CC_ERR_VALUE_NOT_FOUND"
CC_ERR_OUT_OF_RANGE   == "CC_ERR_OUT_OF_RANGE"
CC_ERR_INVALID_CAPACITY == "CC_ERR_INVALID_CAPACITY"
CC_ERR_INVALID_RANGE  == "CC_ERR_INVALID_RANGE"
CC_ERR_MAX_CAPACITY   == "CC_ERR_MAX_CAPACITY"
CC_ITER_END           == "CC_ITER_END"

\* The codes by which a call refuses its arguments or the state it finds.
Errors == {CC_ERR_ALLOC, CC_ERR_KEY_NOT_FOUND, CC_ERR_VALUE_NOT_FOUND,
           CC_ERR_OUT_OF_RANGE, CC_ERR_INVALID_CAPACITY,
           CC_ERR_INVALID_RANGE, CC_ERR_MAX_CAPACITY}

Stats == Errors \cup {CC_OK, CC_ITER_END}

Result(stat, out) == [stat |-> stat, out |-> out]

Done        == Result(CC_OK, NoElement)
Got(e)      == Result(CC_OK, e)
Refused(st) == Result(st, NoElement)
GotNumber(n) == Got(<<n>>)  \* a key or a count: comparable with a pair
Truth(b)    == Result(IF b THEN "true" ELSE "false", NoElement)  \* a bool

-----------------------------------------------------------------------------
\* The elements of a sequence that belong to a set, in their order: what every
\* filter leaves.  last[n] is what is selected from the last n elements.
Selected(s, keep) ==
  LET last[n \in 0..Len(s)] ==
        IF n = 0 THEN <<>>
        ELSE IF s[Len(s) + 1 - n] \in keep
             THEN <<s[Len(s) + 1 - n]>> \o last[n - 1]
             ELSE last[n - 1]
  IN  last[Len(s)]

-----------------------------------------------------------------------------
\* The capacities of the deque and of the hash table are powers of two: both round
\* the configured capacity to one.  MCDeque relates this rounding to the bit
\* operations of the code.
IsPowerOfTwo(n) == \E k \in 0..n : n = 2^k

\* The least power of two that is not below n, at most `max', which is one.
UpperPowTwo(n, max) ==
  IF n >= max THEN max
  ELSE CHOOSE p \in 1..max :
         /\ IsPowerOfTwo(p) /\ n <= p
         /\ \A q \in 1..(p - 1) : ~(IsPowerOfTwo(q) /\ n <= q)
=============================================================================
