------------------------------ MODULE MCValues ------------------------------
(***************************************************************************)
(* Three containers, one at a time: the stack over the array; the array of *)
(* blocks, which keeps what it is given by value, alone with room for four *)
(* or five of them or next to a second one; and the search tree, which     *)
(* keeps it character by character, with keys that share parts of their    *)
(* ways.                                                                   *)
(***************************************************************************)
EXTENDS CCArray, TLC

CONSTANTS
  DefaultCapacity, \* of the stack that a filter makes
  DataLength,      \* of a block
  va, vb

ASSUME ValuesConstants ==
  /\ DefaultCapacity \in 1..MemLimit
  /\ DataLength \in Nat \ {0}

VARIABLES
  subject,                                       \* which one is used
  ars, cursor, passed, denied, got, met, strayed, \* the arrays of blocks
  table, climber, walk, found, mapped, lost      \* the search tree

blockVars == <<ars, cursor, passed, denied, got, met, strayed>>
treeVars  == <<table, climber, walk, found, mapped, lost>>

\* Equal in their first bytes with another one's last.
MCElements == {<<0, 1>>, <<1, 0>>}
MCKey      == (<<0, 1>> :> 0) @@ (<<1, 0>> :> 1)

MCKeys     == {<<>>, <<1>>, <<2>>, <<3>>, <<2, 1>>, <<2, 2>>}
MCMappings == (MCKeys \X {va}) \cup {<<<<2>>, vb>>}

\* The stack has the array to itself.
Stack == INSTANCE CCStack

Sized == INSTANCE CCArraySized
           WITH iter <- cursor, fresh <- passed, refused <- denied,
                ret <- got, kept <- met, fault <- strayed

Tree == INSTANCE CCTSTTable
          WITH Keys <- MCKeys, Mappings <- MCMappings,
               iter <- climber, ret <- found, kept <- mapped, fault <- lost

MCInit ==
  /\ subject \in {"stack", "blocks", "two arrays", "tree"}
  /\ Stack!Init /\ kept = TRUE
  /\ Sized!Init
  /\ Tree!Init

\* A client of two arrays has room for two elements in each.
Small == \A l \in Sized!Pair : Sized!Room(ars'[l]) <= 2

MCNext ==
  /\ UNCHANGED subject
  /\ \/ subject = "stack" /\ Stack!Next /\ UNCHANGED <<kept, blockVars, treeVars>>
     \/ subject = "blocks" /\ Sized!NextAlone /\ UNCHANGED <<vars, treeVars>>
     \/ /\ subject = "two arrays" /\ Sized!NextTogether /\ Small
        /\ UNCHANGED <<vars, treeVars>>
     \/ subject = "tree" /\ Tree!Next /\ UNCHANGED <<vars, blockVars>>

MCFairness == WF_treeVars(subject = "tree" /\ ~lost /\ Tree!GoOn)

MCSpec == MCInit /\ [][MCNext]_<<subject, vars, blockVars, treeVars>> /\ MCFairness

-----------------------------------------------------------------------------
\* Properties of the three components, by names of their own.

\* The stack over the array is last in, first out (CCStack).
IsLifo == Stack!IsLifo

\* Whole elements, at the index that was asked for (CCArraySized).
BlocksKeepPromise == Sized!CallsKeepPromise

\* No byte outside the buffer, but after a refused expansion (CCArraySized).
StraysOnlyWhenRefused == Sized!StraysOnlyWhenRefused

\* No node of the search tree is lost or freed too early (CCTSTTable).
TreeIsTight == Tree!TreeIsTight

\* The search tree is a map, but for what a walk leaves out (CCTSTTable).
TreeKeepsPromise == Tree!CallsKeepPromise

\* Every loop over the search tree comes to its end (CCTSTTable).
LoopsEnd == Tree!LoopsEnd
=============================================================================
