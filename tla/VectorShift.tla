----------------------------- MODULE VectorShift -----------------------------
(***************************************************************************)
(* What the insertion and erasure functions of vector.h do inside the      *)
(* storage the vector already has: construct at the end, build a           *)
(* temp_value, shift the tail to make room, put the new elements in the    *)
(* gap, and shift the tail back over erased ones.                          *)
(*                                                                         *)
(* Every loop takes one element per step, since each of them may throw.    *)
(* An exception inside shift, place or erase is caught by no function: the *)
(* vector keeps its three pointers and whatever the memory then holds.     *)
(***************************************************************************)
EXTENDS VectorState

InPlaceFns == {"temp", "fill_end", "resize_in", "shift", "place", "erase",
               "assign", "append", "rollback"}

gap == call.pos + call.n

TempValue == mem[temp][0]

(* Mutant of OneElement: no temporary, the argument is read again.         *)
ArgumentAgain == Argument

(* What insert(pos, T&&) inserts: after it has called itself, its temp.    *)
OneElement == IF temp = Null THEN Argument ELSE TempValue

(* construct(m_finish, ...); ++m_finish; and the end of the call.          *)
ConstructAtEnd ==
  \/ /\ EndCall([mem EXCEPT ![m_start][m_finish] = OneElement], blk,
                OnRead(OneElement) \cup OnConstruct(m_start, m_finish), "ok")
     /\ m_finish' = m_finish + 1
     /\ UNCHANGED <<m_start, m_eos>>
  \/ ArgumentCopied \in MayThrow /\ Finish("exception")

(* destroy [m_start + n, m_finish); m_finish = m_start + n; and the end.   *)
TruncateAndEnd(n) ==
  /\ IF n = m_finish THEN EndCall(mem, blk, {}, "ok")
     ELSE EndCall(Destroyed(m_start, n .. (m_finish - 1)), blk,
                  OnDestroy(m_start, n .. (m_finish - 1)), "ok")
  /\ m_finish' = n
  /\ UNCHANGED <<m_start, m_eos>>

(* Entering a loop of this module with counter c.                          *)
Loop(f, c) ==
  /\ fn' = f /\ i' = c
  /\ UNCHANGED <<memory, vec, faults, call, outcome, before, frame, temp>>

-----------------------------------------------------------------------------
(* temp_value: one slot is allocated, then constructed from the argument.  *)
(* While it is being constructed new_start holds its block.                *)

AllocateTemp ==
  \/ \E b \in Block :
       /\ Allocate(b, 1)
       /\ fn' = "temp" /\ new_start' = b
       /\ UNCHANGED <<mem, vec, faults, call, outcome, before,
                      lo, hi, built, moved, temp, i>>
  \/ AllocationFails

(* insert(pos, T&&) copies: its parameter, being named, is an lvalue.      *)
TempCopied == IF call.op = "emplace" THEN "ctor" ELSE "copy"

ConstructTemp ==
  /\ fn = "temp"
  /\ mem' = [mem EXCEPT ![new_start][0] = Argument]
  /\ faults' = faults \cup OnRead(Argument) \cup OnConstruct(new_start, 0)
  /\ temp' = new_start /\ new_start' = Null
  /\ IF call.op = "insert_rv" THEN fn' = "entry" /\ i' = i
     ELSE fn' = "shift" /\ i' = LastShifted
  /\ UNCHANGED <<blk, vec, call, outcome, before, lo, hi, built, moved>>

(* The constructor of temp_value does not catch: nothing owns the block.   *)
ConstructTempThrows ==
  /\ fn = "temp"
  /\ TempCopied \in MayThrow
  /\ Finish("exception")

-----------------------------------------------------------------------------
(* insert(end(), count, value): m_finish follows the elements, and the     *)
(* catch block gives up the whole vector.                                  *)

FillEnd ==
  /\ fn = "fill_end" /\ i < call.n
  /\ mem' = [mem EXCEPT ![m_start][m_finish] = Argument]
  /\ faults' = faults \cup OnRead(Argument) \cup OnConstruct(m_start, m_finish)
  /\ m_finish' = m_finish + 1 /\ i' = i + 1
  /\ UNCHANGED <<blk, m_start, m_eos, call, outcome, before, fn, frame, temp>>

FillEndThrows ==
  /\ fn = "fill_end" /\ i < call.n
  /\ ArgumentCopied \in MayThrow
  /\ DestroyStorageAndEnd("exception")

FillEndDone == fn = "fill_end" /\ i = call.n /\ Finish("ok")

(* resize within the capacity: the catch block destroys what was built.    *)
ResizeIn ==
  /\ fn = "resize_in" /\ i < call.n
  /\ mem' = [mem EXCEPT ![m_start][i] = Argument]
  /\ faults' = faults \cup OnRead(Argument) \cup OnConstruct(m_start, i)
  /\ i' = i + 1
  /\ UNCHANGED <<blk, vec, call, outcome, before, fn, frame, temp>>

ResizeInThrows ==
  /\ fn = "resize_in" /\ i < call.n
  /\ ArgumentCopied \in MayThrow
  /\ EndCall(Destroyed(m_start, m_finish .. (i - 1)), blk,
             OnDestroy(m_start, m_finish .. (i - 1)), "exception")
  /\ UNCHANGED vec

ResizeInDone ==
  /\ fn = "resize_in" /\ i = call.n
  /\ EndCall(mem, blk, {}, "ok")
  /\ m_finish' = call.n
  /\ UNCHANGED <<m_start, m_eos>>

-----------------------------------------------------------------------------
(* The tail is shifted by count, last element first: constructed beyond    *)
(* m_finish, move-assigned below it.  m_finish itself does not follow.     *)

ShiftConstructs ==
  IF call.op \in {"emplace", "insert_range"} THEN MoveIfNoexcept ELSE "move"

Shift ==
  /\ fn = "shift" /\ i >= gap
  /\ LET v == mem[m_start][i - call.n]
         how == IF i < m_finish THEN "move" ELSE ShiftConstructs
     IN  /\ mem' = [mem EXCEPT ![m_start][i] = v,
                               ![m_start][i - call.n] = Left(how, v)]
         /\ faults' = faults \cup OnRead(v)
              \cup (IF i < m_finish THEN OnAssign(m_start, i)
                    ELSE OnConstruct(m_start, i))
  /\ i' = Wrap(i - 1)
  /\ UNCHANGED <<blk, vec, call, outcome, before, fn, frame, temp>>

ShiftThrows ==
  /\ fn = "shift" /\ i >= gap
  /\ (IF i < m_finish THEN "assign" ELSE ShiftConstructs) \in MayThrow
  /\ Finish("exception")

ShiftDone == fn = "shift" /\ i < gap /\ Loop("place", call.pos)

(* The inserted elements, first one first: assigned below m_finish,        *)
(* constructed beyond it.  insert(pos, count, value) assigns from value    *)
(* itself and constructs from its temp_value.                              *)
Placed ==
  CASE call.op = "insert_range" -> Item(i - call.pos)
    [] call.op = "insert_n" /\ i < m_finish -> Argument
    [] OTHER -> OneElement

Place ==
  /\ fn = "place" /\ i < gap
  /\ mem' = [mem EXCEPT ![m_start][i] = Placed]
  /\ faults' = faults \cup OnRead(Placed)
       \cup (IF i < m_finish THEN OnAssign(m_start, i)
             ELSE OnConstruct(m_start, i))
  /\ i' = i + 1
  /\ UNCHANGED <<blk, vec, call, outcome, before, fn, frame, temp>>

PlaceThrows ==
  /\ fn = "place" /\ i < gap
  /\ (IF i < m_finish THEN "assign" ELSE "copy") \in MayThrow
  /\ Finish("exception")

PlaceDone ==
  /\ fn = "place" /\ i = gap
  /\ EndCall(mem, blk, {}, "ok")
  /\ m_finish' = m_finish + call.n
  /\ UNCHANGED <<m_start, m_eos>>

-----------------------------------------------------------------------------
(* erase: the tail is moved down over the erased elements, and the objects *)
(* left behind at the end are destroyed.                                   *)

EraseShift ==
  /\ fn = "erase" /\ i < m_finish
  /\ LET v == mem[m_start][i]
         to == i - call.n
     IN  /\ mem' = [mem EXCEPT ![m_start][to] = v, ![m_start][i] = Moved]
         /\ faults' = faults \cup OnRead(v) \cup OnAssign(m_start, to)
  /\ i' = i + 1
  /\ UNCHANGED <<blk, vec, call, outcome, before, fn, frame, temp>>

EraseThrows ==
  /\ fn = "erase" /\ i < m_finish
  /\ "assign" \in MayThrow
  /\ Finish("exception")

(* Mutant of EraseDone: m_finish is moved, nothing is destroyed.           *)
EraseWithoutDestroy ==
  /\ fn = "erase" /\ i = m_finish
  /\ EndCall(mem, blk, {}, "ok")
  /\ m_finish' = m_finish - call.n
  /\ UNCHANGED <<m_start, m_eos>>

EraseDone == fn = "erase" /\ i = m_finish /\ TruncateAndEnd(m_finish - call.n)

InPlaceStep ==
  \/ ConstructTemp \/ ConstructTempThrows
  \/ FillEnd \/ FillEndThrows \/ FillEndDone
  \/ ResizeIn \/ ResizeInThrows \/ ResizeInDone
  \/ Shift \/ ShiftThrows \/ ShiftDone
  \/ Place \/ PlaceThrows \/ PlaceDone
  \/ EraseShift \/ EraseThrows \/ EraseDone

=============================================================================
