-------------------------- MODULE MCVectorCapacity --------------------------
(* VectorCapacity with a 5-bit size_type: DiffMax = 15, an allocator whose *)
(* own limit of 13 is not a power of two, and at most 26 insertions.       *)
EXTENDS VectorCapacity
=============================================================================
