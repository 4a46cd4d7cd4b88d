------------------------------- MODULE MCArray -------------------------------
(***************************************************************************)
(* The array, and the iterators over two arrays or two deques, one at a    *)
(* time.                                                                    *)
(***************************************************************************)
EXTENDS CCArray, TLC

CONSTANTS e1, e2, f1, f2

VARIABLES
  subject, \* which one is used
  pair,    \* the two arrays or deques
  denied   \* of the two arrays

MCElements == {e1, e2}
MCKey      == (e1 :> 1) @@ (e2 :> 2)
PairOf     == {f1, f2}
Symmetry   == Permutations(PairOf)

ArrayZip == INSTANCE CCArrayZip
              WITH Elements <- PairOf, ExpNum <- 2, MemLimit <- 4,
                   arrays <- pair, refused <- denied
DequeZip == INSTANCE CCDequeZip
              WITH Elements <- PairOf, InitCapacity <- 2, MaxCapacity <- 4,
                   DefaultCapacity <- 2, deques <- pair

ofArray == <<array, refused>>

MCInit ==
  /\ array = NewArray /\ refused = FALSE /\ denied = {} /\ fault = FALSE
  /\ \/ subject = "array" /\ Init /\ pair = <<>>
     \/ subject = "arrays" /\ ArrayZip!Init
     \/ subject = "deques" /\ DequeZip!Init

MCNext ==
  /\ UNCHANGED subject
  /\ \/ subject = "array" /\ Next /\ UNCHANGED <<pair, denied>>
     \/ subject = "arrays" /\ ArrayZip!Next /\ UNCHANGED ofArray
     \/ subject = "deques" /\ DequeZip!Next /\ UNCHANGED <<ofArray, denied, fault>>

MCSpec == MCInit /\ [][MCNext]_<<subject, vars, pair, denied>>

-----------------------------------------------------------------------------
\* Properties of the other two, by a name of their own.

\* What an iterator over two arrays or two deques does, it does to both of them
\* or to none (CCArrayZip, CCDequeZip).
ZipKeepsPromise ==
  /\ subject = "arrays" => ArrayZip!ZipKeepsPromise
  /\ subject = "deques" => DequeZip!ZipKeepsPromise
=============================================================================
