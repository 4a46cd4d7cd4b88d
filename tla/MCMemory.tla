------------------------------- MODULE MCMemory -------------------------------
(***************************************************************************)
(* The three components that hand out places in a buffer: the static pool, *)
(* the dynamic pool and the ring buffer, one at a time.                    *)
(***************************************************************************)
EXTENDS CCCommon, CCStaticPool, MemoryConf, TLC

CONSTANTS Items, ia, ib, ic

VARIABLES
  subject,                          \* which one the client uses
  paged, held, blocks, block, fault,  \* the dynamic pool
  ring, queued, primed, item          \* the ring

dynamicVars == <<paged, held, blocks, block, fault>>
ringVars    == <<ring, queued, primed, item>>

MCItems  == {ia, ib, ic}
Symmetry == Permutations(MCItems)

Dynamic == INSTANCE CCDynamicPool
             WITH pool <- paged, live <- blocks, ret <- block
Rbuf == INSTANCE CCRingBuffer WITH ret <- item

MCInit ==
  subject \in {"static", "dynamic", "ring"} /\ Init /\ Dynamic!Init /\ Rbuf!Init

MCNext ==
  /\ UNCHANGED subject
  /\ \/ subject = "static" /\ Next /\ UNCHANGED <<dynamicVars, ringVars>>
     \/ subject = "dynamic" /\ Dynamic!Next /\ UNCHANGED <<vars, ringVars>>
     \/ subject = "ring" /\ Rbuf!Next /\ UNCHANGED <<vars, dynamicVars>>

MCSpec == MCInit /\ [][MCNext]_<<subject, vars, dynamicVars, ringVars>>

-----------------------------------------------------------------------------
\* Properties of the other two components, by names of their own.

\* Blocks of a dynamic pool never overlap (CCDynamicPool).
PagedBlocksAreDisjoint == Dynamic!BlocksAreDisjoint

\* free of a dynamic pool gives back the newest block only (CCDynamicPool).
PagedFreesNewestOnly == Dynamic!FreesNewestOnly

\* From full until empty a ring holds its queue in order (CCRingBuffer).
PrimedRingHoldsQueue == Rbuf!PrimedRingHoldsQueue

\* No item of a ring is overwritten too early (CCRingBuffer).
LatestAreKept == Rbuf!LatestAreKept

\* From full until empty a ring gives back its oldest item (CCRingBuffer).
DequeuesOldest == Rbuf!DequeuesOldest
=============================================================================
