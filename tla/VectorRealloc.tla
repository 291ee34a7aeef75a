---------------------------- MODULE VectorRealloc ----------------------------
(***************************************************************************)
(* The functions of vector.h that move the elements to a new block: grow,  *)
(* realloc_append, realloc_resize, realloc_insert, the first branch of     *)
(* insert(pos, count, value), and shrink_to_fit.  All of them allocate,    *)
(* construct the inserted elements at new_start[lo..hi-1], construct the   *)
(* old elements around them with move_if_noexcept, release the old block   *)
(* and set the three pointers.  They differ in the order of the two        *)
(* constructions and in what their catch blocks undo.                      *)
(***************************************************************************)
EXTENDS VectorState

ReallocFns == {"grow", "realloc_append", "realloc_resize", "realloc_insert",
               "insert_n", "shrink_to_fit"}

(* Where old element j goes.                                               *)
Dest(j) == IF j < lo THEN j ELSE j + (hi - lo)

(* realloc_insert constructs in position order; the other functions        *)
(* construct the inserted elements before they touch the old ones.         *)
TimeToBuild ==
  /\ built < hi - lo
  /\ fn = "realloc_insert" => moved = lo

(* Mutant of TimeToMove: every function moves the old elements early.      *)
EarlyToMove == moved < m_finish

TimeToMove ==
  /\ moved < m_finish
  /\ built = hi - lo \/ (fn = "realloc_insert" /\ moved < lo)

(* allocate(new_cap) at the head of reallocating function f, whose         *)
(* inserted elements will be at [l, h).  No caller asks grow for a capacity*)
(* that the vector has, for which grow would return at once (ReallocValid).*)
StartRealloc(f, l, h, new_cap) ==
  \/ \E b \in Block :
       /\ Allocate(b, new_cap)
       /\ fn' = f /\ new_start' = b
       /\ lo' = l /\ hi' = h /\ built' = 0 /\ moved' = 0
       /\ UNCHANGED <<mem, vec, faults, call, outcome, before, temp, i>>
  \/ AllocationFails

(* The same after calculate_growth(count), which may throw length_error.   *)
StartGrowing(f, l, h, count) ==
  \/ /\ TooLong(size, count)
     /\ Throw(mem, blk, {}, "length_error") /\ UNCHANGED vec
  \/ ~TooLong(size, count) /\ StartRealloc(f, l, h, CalculateGrowth(size, count))

-----------------------------------------------------------------------------

(* One inserted element is constructed in the new block.                   *)
Build ==
  /\ fn \in ReallocFns /\ TimeToBuild
  /\ mem' = [mem EXCEPT ![new_start][lo + built] = Item(m_finish)]
  /\ faults' = faults \cup OnRead(Item(m_finish))
                      \cup OnConstruct(new_start, lo + built)
  /\ built' = built + 1
  /\ UNCHANGED <<blk, vec, call, outcome, before, fn, new_start, lo, hi,
                 moved, temp, i>>

(* Its constructor throws: what was constructed is destroyed, the new      *)
(* block deallocated, and the vector has not been changed.                 *)
BuildThrows ==
  /\ fn \in ReallocFns /\ TimeToBuild
  /\ ArgumentCopied \in MayThrow
  /\ LET undone == IF fn = "realloc_insert" THEN 0 .. (moved - 1)
                   ELSE lo .. (lo + built - 1)
     IN  Throw([mem EXCEPT ![new_start] = RawBlock],
               [blk EXCEPT ![new_start] = 0],
               OnRelease(new_start, undone, blk[new_start]), "exception")
  /\ UNCHANGED vec

(* One old element is constructed in the new block.                        *)
Relocate ==
  /\ fn \in ReallocFns /\ TimeToMove
  /\ LET v == mem[m_start][moved]
     IN  /\ mem' = [mem EXCEPT ![new_start][Dest(moved)] = v,
                               ![m_start][moved] = Left(MoveIfNoexcept, v)]
         /\ faults' = faults \cup OnRead(v)
                             \cup OnConstruct(new_start, Dest(moved))
  /\ moved' = moved + 1
  /\ UNCHANGED <<blk, vec, call, outcome, before, fn, new_start, lo, hi,
                 built, temp, i>>

(* The catch blocks that call destroy_and_deallocate on the new block, and *)
(* so set the three pointers of the vector to nullptr: those of grow,      *)
(* realloc_append and realloc_resize, and the last one of insert_n.        *)
CatchNullsPointers ==
  \/ fn \in {"grow", "realloc_append", "realloc_resize"}
  \/ fn = "insert_n" /\ moved >= lo

(* Mutant of Undone: the inserted elements beyond new_finish are forgotten.*)
UndoneInOrder == 0 .. (Dest(moved) - 1)

(* What the catch block of a relocation destroys: [new_start, new_finish), *)
(* and the inserted elements when they lie beyond new_finish.              *)
Undone == 0 .. (Dest(moved) - 1)
          \cup (IF fn = "realloc_insert" THEN {} ELSE lo .. (hi - 1))

(* Its constructor throws.                                                 *)
RelocateThrows ==
  /\ fn \in ReallocFns /\ TimeToMove
  /\ MoveIfNoexcept \in MayThrow
  /\ Throw([mem EXCEPT ![new_start] = RawBlock],
           [blk EXCEPT ![new_start] = 0],
           OnRelease(new_start, Undone, blk[new_start]), "exception")
  /\ IF CatchNullsPointers THEN PointersNull ELSE UNCHANGED vec

(* What the call does once its reallocation is complete: call itself, go on*)
(* inside the storage, fill it, or return.                                 *)
Afterwards ==
  CASE call.op = "insert_rv" -> "entry"
    [] call.op = "insert_range" -> "shift"
    [] call.op = "assign_n" -> "assign"
    [] call.op \in BuildOps \cup {"assign_range", "assign_input"} -> "append"
    [] OTHER -> "idle"

(* The old block is released and the pointers set.                         *)
Commit ==
  /\ fn \in ReallocFns
  /\ built = hi - lo /\ moved = m_finish
  /\ LET m == IF m_start = Null THEN mem
              ELSE [mem EXCEPT ![m_start] = RawBlock]
         k == IF m_start = Null THEN blk ELSE [blk EXCEPT ![m_start] = 0]
         f == IF m_start = Null THEN {}
              ELSE OnRelease(m_start, 0 .. (m_finish - 1), m_eos)
     IN  IF Afterwards # "idle"
         THEN /\ mem' = m /\ blk' = k /\ faults' = faults \cup f
              /\ fn' = Afterwards
              /\ i' = IF Afterwards = "shift" THEN LastShifted ELSE 0
              /\ new_start' = Null /\ lo' = 0 /\ hi' = 0
              /\ built' = 0 /\ moved' = 0
              /\ UNCHANGED <<call, outcome, before, temp>>
         ELSE EndCall(m, k, f, "ok")
  /\ m_start' = new_start
  /\ m_finish' = m_finish + (hi - lo)
  /\ m_eos' = blk[new_start]

ReallocStep == Build \/ BuildThrows \/ Relocate \/ RelocateThrows \/ Commit

=============================================================================
