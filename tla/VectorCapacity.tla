--------------------------- MODULE VectorCapacity ---------------------------
(***************************************************************************)
(* The growth policy of one vector, with the elements left out: how size   *)
(* and capacity follow each other over any sequence of calls, and how many *)
(* elements the reallocations have moved in all.  The arithmetic is that   *)
(* of module Growth, which the storage model of module Vector uses too.    *)
(***************************************************************************)
EXTENDS Growth

CONSTANT
  MaxWork   \* bound on the history variable appended (model checking only)

ASSUME WorkAssumption == MaxWork \in Nat

VARIABLES
  size,       \* m_finish - m_start
  capacity,   \* m_end_of_storage - m_start
  appended,   \* history: the elements inserted since the vector was built
  relocated   \* history: the elements that reallocations have moved

vars == <<size, capacity, appended, relocated>>

Init ==
  /\ size = 0 /\ capacity = 0
  /\ appended = 0 /\ relocated = 0

(* Insertion of count elements where the spare capacity holds them.        *)
InsertInPlace(count) ==
  /\ capacity - size >= count
  /\ size' = size + count
  /\ appended' = appended + count
  /\ UNCHANGED <<capacity, relocated>>

(* Insertion of count elements through calculate_growth.                   *)
InsertReallocating(count) ==
  /\ capacity - size < count
  /\ ~TooLong(size, count)
  /\ capacity' = CalculateGrowth(size, count)
  /\ size' = size + count
  /\ appended' = appended + count
  /\ relocated' = relocated + size

(* calculate_growth throws length_error: nothing has been changed yet.     *)
InsertTooLong(count) ==
  /\ capacity - size < count
  /\ TooLong(size, count)
  /\ UNCHANGED vars

(* Mutant of Remove: pop_back or erase without the check on size().        *)
RemoveUnchecked(count) ==
  /\ size' = size - count
  /\ UNCHANGED <<capacity, appended, relocated>>

(* Elements destroyed at the end: erase, pop_back, resize, clear.          *)
Remove(count) ==
  /\ count <= size
  /\ size' = size - count
  /\ UNCHANGED <<capacity, appended, relocated>>

Next ==
  \E count \in SizeType \ {0} :
    \/ appended + count <= MaxWork /\ InsertInPlace(count)
    \/ appended + count <= MaxWork /\ InsertReallocating(count)
    \/ InsertTooLong(count)
    \/ Remove(count)

Spec == Init /\ [][Next]_vars

-----------------------------------------------------------------------------

TypeOK ==
  /\ size \in SizeType /\ capacity \in SizeType
  /\ appended \in Nat /\ relocated \in Nat

(* Growth by calculate_growth is geometric although it doubles the size    *)
(* and not the capacity: however insertions of any length and removals     *)
(* alternate, the reallocations move at most three elements for every      *)
(* element inserted (the amortised constant cost push_back relies on).     *)
AmortisedRelocation == relocated <= 3 * appended

(* Neither the doubling nor the cap at max_size() lets the capacity leave  *)
(* size() .. max_size(), at any width of size_type.                        *)
CapacityInRange == size <= capacity /\ capacity <= max_size

=============================================================================
