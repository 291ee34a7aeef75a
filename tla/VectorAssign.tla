---------------------------- MODULE VectorAssign ----------------------------
(***************************************************************************)
(* The constructors of vector.h that fill a vector, and assign: contents   *)
(* that come from outside, element k of the source going to position k.    *)
(* Existing elements are assigned to (loop "assign"), the others are       *)
(* constructed at m_finish, which follows them (loop "append").            *)
(*                                                                         *)
(* Forward iterators are counted first and the storage allocated at once;  *)
(* for single-pass iterators the storage grows as they are read.  Except   *)
(* in assign(count, value), a catch block around the loop gives up the     *)
(* whole storage: no destructor runs for an object whose constructor threw.*)
(***************************************************************************)
EXTENDS VectorRealloc, VectorShift

(* Mutant of ReleaseStorage: deallocates as many slots as it destroys.     *)
ReleaseDestroyed(wrong, f) ==
  /\ IF m_start = Null THEN UNCHANGED <<memory, faults>>
     ELSE /\ mem' = [mem EXCEPT ![m_start] = RawBlock]
          /\ blk' = [blk EXCEPT ![m_start] = 0]
          /\ faults' = faults \cup OnRelease(m_start, 0 .. (m_finish - 1), m_finish)
  /\ PointersNull /\ fn' = f
  /\ UNCHANGED <<call, outcome, before, frame, temp, i>>

(* destroy_and_deallocate of the storage, with what it does wrong, and then*)
(* go on at f.                                                             *)
ReleaseStorage(wrong, f) ==
  /\ IF m_start = Null THEN UNCHANGED <<memory, faults>>
     ELSE /\ mem' = [mem EXCEPT ![m_start] = RawBlock]
          /\ blk' = [blk EXCEPT ![m_start] = 0]
          /\ faults' = faults \cup wrong
  /\ PointersNull /\ fn' = f
  /\ UNCHANGED <<call, outcome, before, frame, temp, i>>

(* destroy_and_deallocate(m_start, m_finish, capacity()).                  *)
OnReleaseElements == OnRelease(m_start, 0 .. (m_finish - 1), m_eos)

(* destroy_and_deallocate(m_start, m_end_of_storage, cap): the destructor  *)
(* runs in every slot, also in the unused ones beyond m_finish.            *)
OnReleaseCapacity ==
  LET unused == {s \in m_finish .. (m_eos - 1) : mem[m_start][s] = Raw}
  IN  OnRelease(m_start, (0 .. (m_eos - 1)) \ unused, m_eos)
      \cup (IF unused = {} THEN {} ELSE {"destroy_unused"})

-----------------------------------------------------------------------------

(* vector(count), vector(count, value) and range_initialize.               *)
ConstructVector ==
  /\ fn = "entry" /\ call.op \in BuildOps
  /\ IF call.op = "build_input" THEN Loop("append", 0)
     ELSE \/ call.n = 0 /\ Finish("ok")
          \/ call.n > max_size /\ Finish("length_error")
          \/ call.n \in 1 .. max_size /\ StartRealloc("grow", 0, 0, call.n)

(* assign(count, value): reserve first.                                    *)
AssignFill ==
  /\ fn = "entry" /\ call.op = "assign_n"
  /\ \/ call.n > max_size /\ Finish("length_error")
     \/ /\ call.n > capacity /\ call.n <= max_size
        /\ StartRealloc("grow", size, size, call.n)
     \/ call.n <= capacity /\ Loop("assign", 0)

(* range_assign over forward iterators: when the capacity is too small,    *)
(* every slot up to m_end_of_storage is destroyed, element or not.         *)
AssignRange ==
  /\ fn = "entry" /\ call.op = "assign_range"
  /\ \/ call.n > max_size /\ Finish("length_error")
     \/ /\ call.n > capacity /\ call.n <= max_size
        /\ IF m_start = Null THEN StartRealloc("grow", 0, 0, call.n)
           ELSE ReleaseStorage(OnReleaseCapacity, "entry")
     \/ call.n <= capacity /\ Loop("assign", 0)

(* range_assign over single-pass iterators.                                *)
AssignInput ==
  /\ fn = "entry" /\ call.op = "assign_input"
  /\ ReleaseStorage(OnReleaseElements, "append")

-----------------------------------------------------------------------------
(* The loops.                                                              *)

Common == IF call.n < m_finish THEN call.n ELSE m_finish

Assign ==
  /\ fn = "assign" /\ i < Common
  /\ mem' = [mem EXCEPT ![m_start][i] = Item(i)]
  /\ faults' = faults \cup OnRead(Item(i)) \cup OnAssign(m_start, i)
  /\ i' = i + 1
  /\ UNCHANGED <<blk, vec, call, outcome, before, fn, frame, temp>>

AssignThrows ==
  /\ fn = "assign" /\ i < Common
  /\ "assign" \in MayThrow
  /\ Finish("exception")

(* Mutant of AssignDone: the surplus is destroyed but m_finish not moved.  *)
AssignKeepsFinish ==
  /\ fn = "assign" /\ i = Common
  /\ IF call.n > m_finish THEN Loop("append", 0)
     ELSE /\ EndCall(Destroyed(m_start, call.n .. (m_finish - 1)), blk, {}, "ok")
          /\ UNCHANGED vec

(* Surplus elements are destroyed, or missing ones constructed.            *)
AssignDone ==
  /\ fn = "assign" /\ i = Common
  /\ \/ call.n <= m_finish /\ TruncateAndEnd(call.n)
     \/ call.n > m_finish /\ Loop("append", 0)

(* Where the source has another element.                                   *)
Appending == fn = "append" /\ m_finish < call.n

MustGrow == call.op \in InputOps /\ m_finish = m_eos

AppendNext ==
  /\ Appending /\ ~MustGrow
  /\ mem' = [mem EXCEPT ![m_start][m_finish] = Item(m_finish)]
  /\ faults' = faults \cup OnRead(Item(m_finish)) \cup OnConstruct(m_start, m_finish)
  /\ m_finish' = m_finish + 1
  /\ UNCHANGED <<blk, m_start, m_eos, call, outcome, before, fn, frame, temp, i>>

AppendThrows ==
  /\ Appending /\ ~MustGrow
  /\ ArgumentCopied \in MayThrow
  /\ IF call.op = "assign_n" THEN Finish("exception")
     ELSE DestroyStorageAndEnd("exception")

(* realloc_append( *first).                                                *)
AppendGrows ==
  Appending /\ MustGrow /\ StartGrowing("realloc_append", size, size + 1, 1)

AppendDone == fn = "append" /\ m_finish = call.n /\ Finish("ok")

(* Mutant of Rollback: the pointers are reset, the block is not released.  *)
Forget == fn = "rollback" /\ EndCall(mem, blk, {}, outcome) /\ PointersNull

(* Mutant of Rollback: the catch block only rethrows.                      *)
Rethrow == fn = "rollback" /\ Finish(outcome)

(* The catch block of the single-pass loops, for what realloc_append threw.*)
Rollback == fn = "rollback" /\ DestroyStorageAndEnd(outcome)

AssignEnter == ConstructVector \/ AssignFill \/ AssignRange \/ AssignInput

AssignStep ==
  \/ Assign \/ AssignThrows \/ AssignDone
  \/ AppendNext \/ AppendThrows \/ AppendGrows \/ AppendDone \/ Rollback

=============================================================================
