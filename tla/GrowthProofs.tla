---------------------------- MODULE GrowthProofs ----------------------------
(***************************************************************************)
(* Lemmas about the size arithmetic of module Growth, for every width of   *)
(* size_type and every limit of the allocator.                             *)
(***************************************************************************)
EXTENDS Growth, TLAPS

(* max_size() is at least one and is a difference_type.                    *)
LEMMA MaxSizeRange == max_size \in 1 .. DiffMax
  BY GrowthAssumption DEF max_size, Smaller

(* The guard of calculate_growth is exact: the unsigned subtraction cannot *)
(* wrap, so it throws if and only if the new size would exceed max_size(). *)
LEMMA TooLongExact ==
  ASSUME NEW s \in 0 .. max_size, NEW n \in SizeType
  PROVE  TooLong(s, n) <=> s + n > max_size
  BY MaxSizeRange, GrowthAssumption DEF TooLong, Wrap, SizeType, SizeTypeMod

(* When calculate_growth does not throw, its sum does not wrap, and the    *)
(* capacity it returns holds the new size, does not exceed max_size() and  *)
(* is twice the old size unless max_size() cuts it.                        *)
LEMMA GrowthBounds ==
  ASSUME NEW s \in 0 .. max_size, NEW n \in SizeType, ~TooLong(s, n)
  PROVE  /\ CalculateGrowth(s, n) \in (s + n) .. max_size
         /\ CalculateGrowth(s, n) >= 2 * s \/ CalculateGrowth(s, n) = max_size
<1>1. s + n <= max_size
  BY TooLongExact, MaxSizeRange, GrowthAssumption DEF SizeType, SizeTypeMod
<1>2. s \in Nat /\ n \in Nat /\ DiffMax \in Nat /\ max_size \in 1 .. DiffMax
  BY MaxSizeRange, GrowthAssumption DEF SizeType, SizeTypeMod
<1>3. Larger(s, n) \in Nat /\ Larger(s, n) >= s /\ Larger(s, n) >= n
      /\ Larger(s, n) <= max_size
  BY <1>1, <1>2 DEF Larger
<1>4. Wrap(s + Larger(s, n)) = s + Larger(s, n)
  BY <1>2, <1>3 DEF Wrap, SizeTypeMod
<1> QED
  BY <1>1, <1>2, <1>3, <1>4 DEF CalculateGrowth

=============================================================================
