------------------------------- MODULE MCLists -------------------------------
(***************************************************************************)
(* Two lists of either kind in a memory of MaxNodes nodes, from empty; and *)
(* one longer list, so that nodes that are no neighbours are swapped and   *)
(* merge sort merges parts of parts.  Elements ea and ec have the same key. *)
(***************************************************************************)
EXTENDS CCList, TLC

CONSTANTS
  ea, eb, ec,
  SmallMemory  \* bound: the nodes a client of all calls has

VARIABLES
  kind,   \* which kind of list the client uses
  client  \* the calls it makes: all; those of the zip iterator on two lists it
          \* begins with; those that rearrange a longer list

SL == INSTANCE CCSList

MCElements == {ea, eb, ec}
MCOffered  == {ea, eb}
MCKey      == (ea :> 1) @@ (eb :> 2) @@ (ec :> 1)

ZipSizes  == 1..2
LongSizes == 4..5

Chain(ns, es) == IF kind = "list" THEN WithChain(NoNodes, ns, es)
                 ELSE SL!WithChain(NoNodes, ns, es)

\* The lists hold es and fs.
Begin(es, fs) ==
  LET ns == [i \in DOMAIN es |-> i]
      ms == [i \in DOMAIN fs |-> Len(es) + i]
  IN  /\ heap  = Chain(ns, es) @@ Chain(ms, fs)
      /\ lists = <<Chained(ns), IF fs = <<>> THEN NoList ELSE Chained(ms)>>
      /\ held  = <<es, fs>>
      /\ iter = NoIter /\ walk = NoWalk /\ ret = Done /\ kept = TRUE /\ fault = FALSE

MCInit ==
  /\ kind \in {"list", "slist"}
  /\ \/ client = "any" /\ Init
     \/ /\ client = "zip"
        /\ \E m, n \in ZipSizes : \E es \in [1..m -> {ea}], fs \in [1..n -> {eb}] :
             Begin(es, fs)
     \/ /\ client = "long"
        /\ \E n \in LongSizes : \E es \in [1..n -> MCElements] : Begin(es, <<>>)

Zip == \/ walk.stage # "on" /\ Keeping(ZipIterInit, Abs!S(1)!Keep /\ Abs!S(2)!Keep)
       \/ GoOn
       \/ ChangeAtIterator

SZip == \/ walk.stage # "on" /\ Keeping(SL!ZipIterInit, Abs!S(1)!Keep /\ Abs!S(2)!Keep)
        \/ SL!GoOn
        \/ SL!ChangeAtIterator

Small == Cardinality(DOMAIN heap') <= SmallMemory

MCNext ==
  /\ UNCHANGED <<kind, client>>
  /\ \/ client = "any" /\ kind = "list" /\ Next /\ Small
     \/ client = "any" /\ kind = "slist" /\ SL!Next /\ Small
     \/ client = "zip" /\ kind = "list" /\ Zip
     \/ client = "zip" /\ kind = "slist" /\ SZip
     \/ client = "long" /\ kind = "list" /\ Rearrange(1) /\ EndWalk
     \/ client = "long" /\ kind = "slist" /\ Keeping(SL!Reverse(1), Abs!S(1)!Reverse) /\ EndWalk

MCFairness == /\ WF_vars(kind = "list" /\ ~fault /\ GoOn)
              /\ WF_vars(kind = "slist" /\ SL!GoOn)

MCSpec == MCInit /\ [][MCNext]_<<vars, kind, client>> /\ MCFairness

\* Properties

\* Lists of either kind are linked as their code relies on: see ListsAreLinked of
\* CCList and SListsAreLinked of CCSList.
EveryListIsLinked == IF kind = "slist" THEN SL!SListsAreLinked ELSE ListsAreLinked
=============================================================================
