------------------------------ MODULE MemoryConf ------------------------------
(***************************************************************************)
(* What a dynamic pool is made with, CC_DynamicPoolConf and its first      *)
(* page; what a ring buffer is made with, CC_RbufConf.                     *)
(***************************************************************************)
EXTENDS Integers

CONSTANTS
  InitSize,       \* size of the first page
  ExpNum, ExpDen, \* exp_factor = ExpNum / ExpDen
  IsFixed, IsPacked,
  MaxPages        \* bound: pages the pool has obtained and not freed

ASSUME DynamicPoolConstants ==
  /\ InitSize \in Nat /\ MaxPages \in Nat \ {0}
  /\ ExpNum \in Nat /\ ExpDen \in Nat \ {0}
  /\ IsFixed \in BOOLEAN /\ IsPacked \in BOOLEAN

CONSTANT Capacity  \* rconf->capacity

ASSUME RingConstants == Capacity \in Nat \ {0}
=============================================================================
