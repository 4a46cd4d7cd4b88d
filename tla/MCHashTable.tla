----------------------------- MODULE MCHashTable -----------------------------
(***************************************************************************)
(* The hash table and the set over one, one at a time.                     *)
(***************************************************************************)
EXTENDS CCHashTable, TLC

CONSTANTS null, k1, k2, k3, u, v, dummy

VARIABLES
  subject,                            \* which one the client uses
  hashed, place, passed, inner, answer  \* the set

setVars == <<hashed, place, passed, inner, answer>>

MCKeys   == {null, k1, k2, k3}
MCValues == {u, v}

\* k1 and k2 share a bucket at every capacity, k3 shares it at capacity 1 and 2
\* only; the hash function sends NULL somewhere else than to bucket 0.
MCHash == (null :> 1) @@ (k1 :> 1) @@ (k2 :> 5) @@ (k3 :> 3)

Set == INSTANCE CCHashSet
         WITH Elements <- Keys, Dummy <- dummy, table <- hashed,
              iter <- place, walk <- passed, ret <- answer

MCInit == subject \in {"table", "set"} /\ Init /\ Set!Init

MCNext ==
  /\ UNCHANGED subject
  /\ \/ subject = "table" /\ Next /\ UNCHANGED setVars
     \/ subject = "set" /\ Set!Next /\ UNCHANGED vars

MCSpec == MCInit /\ [][MCNext]_<<subject, vars, setVars>>

Symmetry == Permutations(MCValues)

-----------------------------------------------------------------------------
\* Properties of the set, by names of their own.

\* The hash set is a set (CCHashSet).
IsASet == Set!IsASet
=============================================================================
