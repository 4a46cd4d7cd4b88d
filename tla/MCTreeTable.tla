----------------------------- MODULE MCTreeTable -----------------------------
(***************************************************************************)
(* The tree table and the set over one, one at a time.                     *)
(***************************************************************************)
EXTENDS CCTreeTable

CONSTANTS KeyCount, v1, v2, dummy

MCKeys == 1..KeyCount

\* Every key with one value, and one key with another value as well.
MCMappings == (MCKeys \X {v1}) \cup {<<2, v2>>}

\* The set is a thin layer: one element less is enough for it.
MCElements == 1..(KeyCount - 1)

VARIABLES
  subject,                                    \* which one the client uses
  sorted, sortedIter, sortedInner, sortedRet  \* the set

setVars == <<sorted, sortedIter, sortedInner, sortedRet>>

Set == INSTANCE CCTreeSet
         WITH Elements <- MCElements, Dummy <- dummy, table <- sorted,
              iter <- sortedIter, inner <- sortedInner, ret <- sortedRet

MCInit == subject \in {"table", "set"} /\ Init /\ Set!Init

MCNext ==
  /\ UNCHANGED subject
  /\ \/ subject = "table" /\ Next /\ UNCHANGED setVars
     \/ subject = "set" /\ Set!Next /\ UNCHANGED vars

MCSpec == MCInit /\ [][MCNext]_<<subject, vars, setVars>>

\* A client of the table that only adds and removes.
MCChanges ==
  /\ UNCHANGED subject
  /\ subject = "table" /\ Changes /\ UNCHANGED setVars

MCShapeInit == subject = "table" /\ MCInit
MCShapeSpec == MCShapeInit /\ [][MCChanges]_<<subject, vars, setVars>>

-----------------------------------------------------------------------------
\* Properties of the set, by names of their own.

\* The tree set is an ordered set (CCTreeSet).
IsAnOrderedSet == Set!IsAnOrderedSet
=============================================================================
