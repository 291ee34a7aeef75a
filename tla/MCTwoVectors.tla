---------------------------- MODULE MCTwoVectors ----------------------------
(* Small instances of TwoVectors for TLC.                                  *)
EXTENDS Comparisons, TLC

Type(pocca, pocma, pocs, always_equal, select, nothrow) ==
  [pocca : {pocca}, pocma : {pocma}, pocs : {pocs},
   always_equal : {always_equal}, select : {select}, nothrow : nothrow]

(* std::allocator, and the allocators of testsuite_allocator.h; elements   *)
(* are never moved one by one when the allocators are always equal.        *)
StdAllocator == Type(FALSE, TRUE, FALSE, TRUE, "same", {TRUE})
UneqAllocator == Type(FALSE, FALSE, TRUE, FALSE, "same", BOOLEAN)
Propagating == Type(TRUE, TRUE, TRUE, FALSE, "same", BOOLEAN)
NotPropagating == Type(FALSE, FALSE, FALSE, FALSE, "fresh", BOOLEAN)

(* One that propagates on copy assignment alone, and one that never does   *)
(* but is always equal.                                                    *)
PropagatingOnCopy == Type(TRUE, FALSE, FALSE, FALSE, "same", {TRUE})
AlwaysEqual == Type(FALSE, FALSE, FALSE, TRUE, "same", {TRUE})

Types == StdAllocator \cup UneqAllocator \cup Propagating
         \cup NotPropagating \cup PropagatingOnCopy \cup AlwaysEqual

(* Those for which the temporary that copy assignment swaps in has the     *)
(* allocator it is to have; NotPropagating is a finding.                   *)
SoundToAssign == StdAllocator \cup Propagating \cup PropagatingOnCopy \cup AlwaysEqual

(* From these, erase_if and exceptions lead to the others.                 *)
CONSTANTS a, b
Sources == {<<>>, <<a>>, <<a, b>>}

(* The element types of cmp_c++20.cc: int; W, whose values all compare     *)
(* equal; P, of which b is not ordered, not even with itself; L, with <    *)
(* alone; and one with <=> but without ==, and one the other way round.    *)
Both == {<<a, a>>, <<b, b>>}
Element(less, same, equality, three_way) ==
  [less |-> less, same |-> same, equality |-> equality, three_way |-> three_way]
Elements ==
  {Element({<<a, b>>}, Both, TRUE, TRUE), Element({}, Value \X Value, TRUE, TRUE),
   Element({}, {<<a, a>>}, TRUE, TRUE), Element({<<a, b>>}, {}, FALSE, FALSE),
   Element({<<b, a>>}, Both, FALSE, TRUE), Element({<<a, b>>}, Both, TRUE, FALSE)}

(* No function reads last and no invariant names it, so states that differ *)
(* in nothing else have the same future.                                   *)
State == <<vec, heap, faults, traits>>

Symmetric == Permutations(Block) \cup Permutations(Vec)

=============================================================================
