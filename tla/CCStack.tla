------------------------------ MODULE CCStack ------------------------------
(***************************************************************************)
(* CC_Stack (cc_stack.c): a CC_Array whose last element is the top.  Every *)
(* function is one call of the array, but for filter, which pushes what it *)
(* keeps on a stack of default capacity.                                   *)
(***************************************************************************)
EXTENDS CCCommon, FiniteSets

CONSTANTS Elements, InitCapacity, ExpNum, ExpDen, MemLimit, MaxElements,
          DefaultCapacity \* DEFAULT_CAPACITY of cc_array.c, scaled down

VARIABLES array, iter, fresh, refused, ret, fault

vars == <<array, iter, fresh, refused, ret, fault>>

A == INSTANCE CCArray WITH Key <- [e \in Elements |-> 0], kept <- TRUE

Push(e)         == A!Add(e)
\* Mutant of Pop: the oldest element.
PopOldest == A!RemoveAt(0)

Pop == A!RemoveLast

Peek            == A!GetLast
FilterMut(pred) == A!FilterMut(pred)
IterInit        == A!IterInit
IterNext        == A!IterNext
IterReplace(e)  == A!IterReplace(e)

\* Mutant of Pushed: the elements that are kept are pushed from the top down.
PushedFromTop(kept, a) ==
  LET push(s, e) ==
        {IF o.stat = CC_OK THEN A!InsertAt(o.array, e, s.size) ELSE o.array :
           o \in A!MakeRoom(s)}
      made[n \in 0..Len(kept)] ==
        IF n = 0 THEN {a}
        ELSE UNION {push(s, kept[Len(kept) + 1 - n]) : s \in made[n - 1]}
  IN  {s \in made[Len(kept)] : s.size <= Cardinality(DOMAIN s.buffer)}

\* Pushes whose status nobody reads: the arrays that `kept' can make of a, but
\* for those a push left for a slot that is not there.
Pushed(kept, a) ==
  LET push(s, e) ==
        {IF o.stat = CC_OK THEN A!InsertAt(o.array, e, s.size) ELSE o.array :
           o \in {r \in A!MakeRoom(s) : s.size \in DOMAIN r.array.buffer
                                        \/ r.stat # CC_OK}}
      made[n \in 0..Len(kept)] ==
        IF n = 0 THEN {a} ELSE UNION {push(s, kept[n]) : s \in made[n - 1]}
  IN  made[Len(kept)]

\* The status of cc_stack_new is not read either: without the new stack, the
\* first push and the client follow a pointer nobody set.  A push into a slot
\* that is not there ends the program as well.
Filter(pred) ==
  LET kept == Selected(A!Contents(array), pred)
      new  == [size |-> 0, capacity |-> DefaultCapacity, exp |-> ExpNum,
               buffer |-> A!Copied(<<>>, 0, DefaultCapacity)]
  IN  \/ array.size = 0 /\ A!Refuse(CC_ERR_OUT_OF_RANGE)
      \/ array.size # 0 /\ A!Crash /\ A!EndWalk
      \/ /\ array.size # 0
         /\ \E s \in Pushed(kept, new) :
              /\ array' = s
              /\ refused' = (s.capacity > Cardinality(DOMAIN s.buffer))
         /\ A!Return(Done) /\ A!NewIter /\ A!Stale /\ UNCHANGED fault

Init == A!Init

Next ==
  /\ ~fault
  /\ \/ \E e \in Elements :
          \/ Push(e)
          \/ IterReplace(e)
     \/ Pop
     \/ Peek
     \/ \E pred \in SUBSET Elements :
          \/ FilterMut(pred)
          \/ Filter(pred)
     \/ IterInit
     \/ IterNext

Spec == Init /\ [][Next]_vars

-----------------------------------------------------------------------------
\* Properties

Abs == INSTANCE LifoSpec WITH inside <- A!Contents(array)

CallsKeepPromise ==
  /\ \A e \in Elements : Push(e) => Abs!Push(e)
  /\ Pop => Abs!Pop
  /\ Peek => Abs!Peek
  /\ \A pred \in SUBSET Elements : Filter(pred) => Abs!Filter(pred)

\* The stack is last in, first out: pop and peek give the element pushed last
\* of those not yet popped, also on the stack that filter made, which holds in
\* order what the predicate selects, down from some element on.  (A step that is
\* none of the stack's is told first, that TLC need not compare it with the calls.)
IsLifo == Abs!Spec /\ [][UNCHANGED vars \/ fault' \/ CallsKeepPromise]_vars
=============================================================================
