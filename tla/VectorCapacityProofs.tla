------------------------ MODULE VectorCapacityProofs ------------------------
(***************************************************************************)
(* Proofs about the growth policy (module VectorCapacity), for every width *)
(* of size_type and every limit of the allocator.                          *)
(***************************************************************************)
EXTENDS VectorCapacity, GrowthProofs, TLAPS

(* What the induction needs beside the two invariants: as long as the      *)
(* capacity has not reached max_size(), the spare capacity bounds by how   *)
(* much the relocations exceed twice the insertions.                       *)
Potential ==
  capacity < max_size => relocated + size <= 2 * appended + capacity

IInv ==
  /\ TypeOK
  /\ CapacityInRange
  /\ size <= appended
  /\ AmortisedRelocation
  /\ Potential

LEMMA InitIInv == Init => IInv
  BY MaxSizeRange, GrowthAssumption
     DEF Init, IInv, TypeOK, CapacityInRange, AmortisedRelocation, Potential,
         SizeType, SizeTypeMod

LEMMA NextIInv == IInv /\ [Next]_vars => IInv'
<1> SUFFICES ASSUME IInv, [Next]_vars PROVE IInv'
  OBVIOUS
<1> USE DEF IInv, TypeOK, CapacityInRange, AmortisedRelocation, Potential
<1>1. /\ size \in 0 .. max_size /\ capacity \in 0 .. max_size
      /\ appended \in Nat /\ relocated \in Nat
      /\ max_size \in 1 .. DiffMax /\ DiffMax \in Nat
  BY MaxSizeRange, GrowthAssumption DEF SizeType, SizeTypeMod
<1>2. ASSUME NEW count \in SizeType \ {0}, InsertInPlace(count)
      PROVE  IInv'
  BY <1>1, <1>2 DEF InsertInPlace, SizeType, SizeTypeMod
<1>3. ASSUME NEW count \in SizeType \ {0}, InsertReallocating(count)
      PROVE  IInv'
  <2>1. /\ CalculateGrowth(size, count) \in (size + count) .. max_size
        /\ \/ CalculateGrowth(size, count) >= 2 * size
           \/ CalculateGrowth(size, count) = max_size
    BY <1>1, <1>3, GrowthBounds DEF InsertReallocating
  <2>2. count \in Nat /\ count >= 1 /\ capacity < size + count
    BY <1>1, <1>3 DEF InsertReallocating, SizeType, SizeTypeMod
  <2>3. capacity < max_size /\ relocated + size <= 2 * appended + capacity
    BY <1>1, <1>3, <2>1, <2>2
  <2> QED
    BY <1>1, <1>3, <2>1, <2>2, <2>3
       DEF InsertReallocating, SizeType, SizeTypeMod
<1>4. ASSUME NEW count \in SizeType \ {0}, InsertTooLong(count)
      PROVE  IInv'
  BY <1>4 DEF InsertTooLong, vars
<1>5. ASSUME NEW count \in SizeType \ {0}, Remove(count)
      PROVE  IInv'
  BY <1>1, <1>5 DEF Remove, SizeType, SizeTypeMod
<1>6. CASE UNCHANGED vars
  BY <1>6 DEF vars
<1> QED
  BY <1>2, <1>3, <1>4, <1>5, <1>6 DEF Next

(* Sizes and capacities are values of size_type, the histories numbers.    *)
THEOREM CapacityTypes == Spec => []TypeOK
<1>1. IInv => TypeOK
  BY DEF IInv
<1> QED
  BY InitIInv, NextIInv, <1>1, PTL DEF Spec

(* At every width of size_type the capacity stays in size() .. max_size(). *)
THEOREM CapacityStaysInRange == Spec => []CapacityInRange
<1>1. IInv => CapacityInRange
  BY DEF IInv
<1> QED
  BY InitIInv, NextIInv, <1>1, PTL DEF Spec

(* Insertions and removals in any order cost at most three relocations per *)
(* element inserted, whatever the widths and the number of calls.          *)
THEOREM RelocationIsAmortised == Spec => []AmortisedRelocation
<1>1. IInv => AmortisedRelocation
  BY DEF IInv
<1> QED
  BY InitIInv, NextIInv, <1>1, PTL DEF Spec

=============================================================================
