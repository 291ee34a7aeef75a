------------------------------- MODULE Growth -------------------------------
(***************************************************************************)
(* The size arithmetic of vector.h: max_size(), calculate_growth() and the *)
(* unsigned subtractions the insertion functions make with size_type.      *)
(*                                                                         *)
(* size_type is unsigned and difference_type has one bit less, so with     *)
(* DiffMax the largest difference_type the values of size_type are         *)
(* 0 .. 2 * DiffMax + 1 and sums and differences wrap modulo               *)
(* 2 * DiffMax + 2.                                                        *)
(***************************************************************************)
EXTENDS Integers

CONSTANTS
  DiffMax,   \* numeric_limits<difference_type>::max()
  AllocMax   \* allocator_traits::max_size(rebound_alloc)

ASSUME GrowthAssumption ==
  /\ DiffMax \in Nat \ {0}
  /\ AllocMax \in 1 .. (2 * DiffMax + 1)

SizeTypeMod == 2 * DiffMax + 2
SizeType == 0 .. (SizeTypeMod - 1)

Larger(a, b) == IF a < b THEN b ELSE a
Smaller(a, b) == IF a < b THEN a ELSE b

(* The size_type that holds a sum or a difference of two size_types.       *)
Wrap(x) ==
  IF x < 0 THEN x + SizeTypeMod
  ELSE IF x >= SizeTypeMod THEN x - SizeTypeMod ELSE x

max_size == Smaller(AllocMax, DiffMax)

(* "vector too long": the guard on which calculate_growth throws.          *)
TooLong(size, count) == Wrap(max_size - size) < count

(* Mutants of CalculateGrowth: growth by no more than what is needed, and  *)
(* doubling without the cap at max_size().                                 *)
GrowthByCount(size, count) == Wrap(size + count)
GrowthUncapped(size, count) ==
  LET new_cap == Wrap(size + Larger(size, count))
  IN  IF new_cap < size THEN max_size ELSE new_cap

(* The capacity calculate_growth returns when it does not throw.           *)
CalculateGrowth(size, count) ==
  LET new_cap == Wrap(size + Larger(size, count))
  IN  IF new_cap < size \/ new_cap > max_size THEN max_size ELSE new_cap

=============================================================================
