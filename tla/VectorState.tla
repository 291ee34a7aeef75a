----------------------------- MODULE VectorState -----------------------------
(***************************************************************************)
(* The state of one vector<T, Allocator> and of the memory it uses, at the *)
(* granularity of the calls that vector.h makes on allocator_traits and on *)
(* the elements: allocate, construct, assign, destroy, deallocate.  Each   *)
(* may throw where the type or the allocator may (constant MayThrow); a    *)
(* destructor, deallocate and a pointer operation never do.                *)
(*                                                                         *)
(* Every use the code makes of memory is judged when it happens, and what  *)
(* was wrong with it is recorded in the variable faults, as the checking   *)
(* allocators of testsuite_util do with their counters and their map.      *)
(***************************************************************************)
EXTENDS VectorCalls

CONSTANTS
  Block,         \* the storage blocks the allocator can hand out (a bound)
  Null,          \* nullptr
  NothrowMove,   \* is_nothrow_move_constructible<T>
  MayThrow       \* what can throw: "alloc", "copy", "move", "ctor", "assign"

ASSUME StateAssumption ==
  /\ Null \notin Block
  /\ NothrowMove \in BOOLEAN
  /\ MayThrow \subseteq {"alloc", "copy", "move", "ctor", "assign"}
  /\ NothrowMove => "move" \notin MayThrow

VARIABLES
  mem,        \* block -> slot -> the object there, or Raw
  blk,        \* block -> slots allocated in it, 0 when it is not allocated
  m_start,    \* block the vector owns, or Null
  m_finish,   \* offset of m_finish from m_start
  m_eos,      \* offset of m_end_of_storage from m_start
  faults,     \* the wrong uses of memory made so far
  call,       \* the call in progress, or NoCall
  outcome,    \* how the last call ended: "ok" or what it threw; while a
              \* call runs, "ok" or what it is handling
  before,     \* history: the contents when the call in progress was made
  fn,         \* the function or loop being executed, "idle" between calls
  new_start,  \* the block a reallocating function is filling, or Null
  lo, hi,     \* where in new_start the elements being inserted go: [lo, hi)
  built,      \* how many of the inserted elements are constructed
  moved,      \* how many old elements are constructed in new_start
  temp,       \* the block of the temp_value in scope, or Null
  i           \* counter of the loop that works inside the storage

memory == <<mem, blk>>
vec == <<m_start, m_finish, m_eos>>
frame == <<new_start, lo, hi, built, moved>>
vars == <<mem, blk, m_start, m_finish, m_eos, faults, call, outcome, before,
          fn, new_start, lo, hi, built, moved, temp, i>>

Cell == Object \cup {Raw}

RawBlock == [s \in Slot |-> Raw]

FreeBlocks == {b \in Block : blk[b] = 0}

size == m_finish
capacity == m_eos

(* The elements the vector shows its caller.                               *)
Contents ==
  IF m_start = Null THEN <<>> ELSE [k \in 1 .. m_finish |-> mem[m_start][k - 1]]

-----------------------------------------------------------------------------
(* Judgement of one use of memory.                                         *)

(* Beyond m_finish an exception in the middle of an insertion may have left*)
(* objects that no later call knows of.                                    *)
Stray(b, s) == b = m_start /\ s >= m_finish /\ mem[b][s] # Raw

OnConstruct(b, s) ==
  IF mem[b][s] = Raw THEN {}
  ELSE IF Stray(b, s) THEN {"construct_stray"} ELSE {"construct_live"}
OnAssign(b, s) == IF mem[b][s] = Raw THEN {"assign_raw"} ELSE {}
OnRead(v) == IF v = Raw THEN {"read_raw"} ELSE {}
OnDestroy(b, S) == IF \E s \in S : mem[b][s] = Raw THEN {"destroy_raw"} ELSE {}

(* Destruction of the objects in S followed by deallocate(b, n).           *)
OnRelease(b, S, n) ==
  OnDestroy(b, S)
  \cup (IF blk[b] = n /\ n > 0 THEN {} ELSE {"free_wrong"})
  \cup (IF \E s \in Slot \ S : Stray(b, s) THEN {"free_stray"} ELSE {})
  \cup (IF \E s \in Slot \ S : mem[b][s] # Raw /\ ~Stray(b, s)
        THEN {"free_live"} ELSE {})

(* The memory after destroying the objects in S of block b.                *)
Destroyed(b, S) ==
  [mem EXCEPT ![b] = [s \in Slot |-> IF s \in S THEN Raw ELSE mem[b][s]]]

-----------------------------------------------------------------------------
(* The end of a call, by return or by an exception.  m and k are the       *)
(* memory and the block table the function leaves, f what it did wrong;    *)
(* leaving the scope runs ~temp_value, which destroys and deallocates.     *)

EndCall(m, k, f, out) ==
  /\ mem' = IF temp = Null THEN m ELSE [m EXCEPT ![temp] = RawBlock]
  /\ blk' = IF temp = Null THEN k ELSE [k EXCEPT ![temp] = 0]
  /\ faults' = faults \cup f
       \cup IF temp = Null THEN {} ELSE OnRelease(temp, {0}, 1)
  /\ outcome' = out
  /\ call' = NoCall /\ before' = <<>> /\ fn' = "idle"
  /\ new_start' = Null /\ lo' = 0 /\ hi' = 0 /\ built' = 0 /\ moved' = 0
  /\ temp' = Null /\ i' = 0

(* A call that ends and leaves memory and vector as they are.              *)
Finish(out) == EndCall(mem, blk, {}, out) /\ UNCHANGED vec

(* An exception leaves the function that runs.  The loops over single-pass *)
(* iterators catch it and roll back; it ends any other call.               *)
Throw(m, k, f, out) ==
  IF call.op \in InputOps
  THEN /\ mem' = m /\ blk' = k /\ faults' = faults \cup f
       /\ fn' = "rollback" /\ outcome' = out
       /\ new_start' = Null /\ lo' = 0 /\ hi' = 0 /\ built' = 0 /\ moved' = 0
       /\ UNCHANGED <<call, before, temp, i>>
  ELSE EndCall(m, k, f, out)

(* Mutant of PointersNull: m_finish is forgotten.                          *)
TwoPointersNull == m_start' = Null /\ m_finish' = m_finish /\ m_eos' = 0

(* The three pointers set to nullptr, as destroy_and_deallocate does.      *)
PointersNull == m_start' = Null /\ m_finish' = 0 /\ m_eos' = 0

(* Mutant of DestroyStorageAndEnd: a vector without elements deallocates   *)
(* nothing, although it may have reserved a block.                         *)
DestroyElementsAndEnd(out) ==
  IF m_finish = 0 THEN EndCall(mem, blk, {}, out) /\ PointersNull
  ELSE /\ EndCall([mem EXCEPT ![m_start] = RawBlock],
                  [blk EXCEPT ![m_start] = 0],
                  OnRelease(m_start, 0 .. (m_finish - 1), m_eos), out)
       /\ PointersNull

(* destroy_and_deallocate(m_start, m_finish, capacity()), then the end.    *)
DestroyStorageAndEnd(out) ==
  IF m_start = Null THEN Finish(out)
  ELSE /\ EndCall([mem EXCEPT ![m_start] = RawBlock],
                  [blk EXCEPT ![m_start] = 0],
                  OnRelease(m_start, 0 .. (m_finish - 1), m_eos), out)
       /\ PointersNull

(* allocate(n): a block nobody holds, or bad_alloc, which always happens   *)
(* when there is none.                                                     *)
Allocate(b, n) == b \in FreeBlocks /\ blk' = [blk EXCEPT ![b] = n]

AllocationFails ==
  /\ "alloc" \in MayThrow \/ FreeBlocks = {}
  /\ Throw(mem, blk, {}, "bad_alloc") /\ UNCHANGED vec

(* size_type i = this_size - 1 + count, where the count-down loops start.  *)
LastShifted == Wrap(Wrap(size - 1) + call.n)

(* The value argument of the call: the caller's, or the present value of   *)
(* the element it refers to.                                               *)
Argument ==
  IF call.arg \in Slot THEN mem[m_start][call.arg] ELSE call.arg

(* The value of the k-th element the call provides, from 0: *first after k *)
(* increments, or the argument again.                                      *)
Item(k) == IF call.op \in RangeOps THEN call.arg[k + 1] ELSE Argument

(* The constructor that initialises an element from the argument.          *)
ArgumentCopied ==
  CASE call.op \in {"push_back", "insert", "insert_n", "resize_v",
                    "build_n", "assign_n"} \cup RangeOps -> "copy"
    [] call.op \in {"push_back_rv", "insert_rv"} -> "move"
    [] OTHER -> "ctor"

(* Mutant of MoveIfNoexcept: std::move instead.                            *)
AlwaysMove == "move"

(* std::move_if_noexcept.                                                  *)
MoveIfNoexcept == IF NothrowMove THEN "move" ELSE "copy"

(* What a source object holds after it was used to construct or assign.    *)
Left(how, v) == IF how = "move" THEN Moved ELSE v

=============================================================================
