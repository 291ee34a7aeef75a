-------------------------- MODULE AllocatorTraits --------------------------
(***************************************************************************)
(* What vectors of one type that copy, move and swap with each other agree *)
(* on: their element type, their allocator type and its traits.  Shared by *)
(* the abstract specification (TwoVectorsSpec) and the model of the code   *)
(* (TwoVectors).                                                           *)
(*                                                                         *)
(* An allocator is known by its personality, as in uneq_allocator of       *)
(* testsuite_allocator.h.                                                  *)
(***************************************************************************)
EXTENDS Integers, Sequences, FiniteSets

CONSTANTS
  Vec,          \* the vectors
  Value,        \* the values an element can hold
  Source,       \* the ranges [first, last) to construct from (a bound)
  Raw,          \* the state of a slot that holds no object
  Moved,        \* the value of an object that has been moved from
  MaxSize,      \* the longest vector (a bound)
  Personality,  \* the allocators of the type
  Fresh,        \* the personality of Allocator()
  MayThrow,     \* what can throw: "alloc", "copy", "assign"
  Traits,       \* the element and allocator types, by their traits
  Assignable    \* those the program uses copy assignment with

(* pocca, pocma and pocs are propagate_on_container_copy_assignment, _move_*)
(* assignment and _swap; select tells whether the copy constructor selects *)
(* the allocator of the original or a default-constructed one; nothrow is  *)
(* is_nothrow_move_constructible<T>.                                       *)
AllTraits == [pocca : BOOLEAN, pocma : BOOLEAN, pocs : BOOLEAN,
              always_equal : BOOLEAN, select : {"same", "fresh"},
              nothrow : BOOLEAN]

ASSUME TraitsAssumption ==
  /\ Raw \notin Value /\ Moved \notin Value /\ Raw # Moved
  /\ MaxSize \in Nat
  /\ \A x \in Source : \E n \in 0 .. MaxSize : x \in [1 .. n -> Value]
  /\ Fresh \in Personality
  /\ MayThrow \subseteq {"alloc", "copy", "assign"}
  /\ Traits \subseteq AllTraits /\ Assignable \subseteq AllTraits

VARIABLES
  traits,   \* the traits of the element type and the allocator type
  last      \* history: the last function called, on which vectors and with
            \* which arguments, and what it threw; no function reads it

(* rebound_alloc == other.rebound_alloc.                                   *)
Equal(p, q) == traits.always_equal \/ p = q

(* select_on_container_copy_construction.                                  *)
Select(p) == IF traits.select = "same" THEN p ELSE Fresh

(* Move assignment that may take the other's storage without a look at the *)
(* allocators.                                                             *)
AlwaysTakes == traits.pocma \/ traits.always_equal

(* Containers whose allocators differ may be swapped only if they swap     *)
(* allocators too.                                                         *)
Swappable(p, q) == traits.pocs \/ Equal(p, q)

(* std::move_if_noexcept.                                                  *)
MoveIfNoexcept == IF traits.nothrow THEN "move" ELSE "copy"

NoneYet == [op |-> "none", args |-> <<>>, threw |-> "nothing"]

(* Function op, called with these arguments, returns, or ends with an      *)
(* exception.                                                              *)
Returns(op, args) == last' = [op |-> op, args |-> args, threw |-> "nothing"]
Throws(op, args, what) == last' = [op |-> op, args |-> args, threw |-> what]

=============================================================================
