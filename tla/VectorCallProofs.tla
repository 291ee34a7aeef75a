-------------------------- MODULE VectorCallProofs --------------------------
(***************************************************************************)
(* What the calls of one vector leave behind, proved from IInv: which      *)
(* blocks are lost, what a failed constructor owns, what the old storage   *)
(* shows while a reallocation copies from it, what an insertion or an      *)
(* erasure leaves where it is, and why every call comes to its end.        *)
(***************************************************************************)
EXTENDS VectorProofs

-----------------------------------------------------------------------------
(* Which blocks are lost.                                                  *)

(* A new block is held only by the function that fills it.                 *)
NewBlockHeld == fn \notin ReallocFns \cup {"temp"} => new_start = Null

(* Where a constructor can be, and when it owns storage.                   *)
BuildValid ==
  call.op \in BuildOps =>
    /\ fn \in {"entry", "grow", "realloc_append", "append", "rollback"}
    /\ fn \in {"entry", "grow"} => m_start = Null
    /\ fn = "realloc_append" => call.op \in InputOps

(* The blocks allocated according to k that neither the vector, at s, nor  *)
(* temp_value owns.                                                        *)
Unowned(k, s) == {b \in Block : k[b] > 0 /\ b \notin {s, temp}}

(* What a step shows for OnlyElementsLoseBlocks, and which block it loses. *)
BlockStep ==
  /\ NewBlockHeld'
  /\ Leaked' # Leaked =>
       /\ outcome' = "exception" /\ LosesBlock
       /\ fn # "temp" => Leaked' = Leaked \cup {m_start}

LEMMA NothingHeld ==
  ASSUME IInv, NewBlockHeld, fn \notin ReallocFns \cup {"temp"}
  PROVE  Leaked = Unowned(blk, m_start) /\ new_start = Null
  BY StateAssumption DEF NewBlockHeld, Leaked, Unowned

LEMMA EndCallLeaked ==
  ASSUME IInv, NEW m, NEW k \in BlockTable, NEW f, NEW out, EndCall(m, k, f, out)
  PROVE  Leaked' = Unowned(k, m_start') /\ new_start' = Null /\ outcome' = out
<1>1. /\ blk' = IF temp = Null THEN k ELSE [k EXCEPT ![temp] = 0]
      /\ temp' = Null /\ new_start' = Null /\ outcome' = out
  BY DEF EndCall
<1>2. Null \notin Block
  BY StateAssumption
<1>3. CASE temp = Null
  BY <1>1, <1>2, <1>3 DEF Leaked, Unowned
<1>4. CASE temp # Null
  BY <1>1, <1>2, <1>4 DEF Leaked, Unowned, BlockTable
<1> QED
  BY <1>1, <1>3, <1>4

LEMMA ThrowLeaked ==
  ASSUME IInv, NEW m, NEW k \in BlockTable, NEW f, NEW out, Throw(m, k, f, out)
  PROVE  Leaked' = Unowned(k, m_start') /\ new_start' = Null /\ outcome' = out
<1>1. CASE call.op \notin InputOps
  BY <1>1, EndCallLeaked DEF Throw
<1>2. CASE call.op \in InputOps
  <2>1. blk' = k /\ temp' = temp /\ new_start' = Null /\ outcome' = out
    BY <1>2 DEF Throw
  <2> QED
    BY <2>1, StateAssumption DEF Leaked, Unowned
<1> QED
  BY <1>1, <1>2

(* Steps that neither allocate nor release.                                *)
LEMMA QuietStep ==
  ASSUME NewBlockHeld, UNCHANGED <<blk, m_start, new_start, temp>>,
         fn \in ReallocFns \cup {"temp"} => fn' = fn
  PROVE  BlockStep
  BY DEF BlockStep, NewBlockHeld, Leaked

(* A call that ends and leaves the storage.                                *)
LEMMA EndStep ==
  ASSUME IInv, NewBlockHeld, fn \notin ReallocFns \cup {"temp"},
         NEW m, NEW f, NEW out, m_start' = m_start,
         EndCall(m, blk, f, out) \/ Throw(m, blk, f, out)
  PROVE  BlockStep
  BY Stored, NothingHeld, EndCallLeaked, ThrowLeaked DEF BlockStep, NewBlockHeld

LEMMA FinishStep ==
  ASSUME IInv, NewBlockHeld, fn \notin ReallocFns \cup {"temp"},
         NEW out, Finish(out)
  PROVE  BlockStep
  BY EndStep DEF Finish, vec

LEMMA TruncateStep ==
  ASSUME IInv, NewBlockHeld, fn \notin ReallocFns \cup {"temp"},
         NEW n, TruncateAndEnd(n)
  PROVE  BlockStep
<1>1. m_start' = m_start
  BY DEF TruncateAndEnd
<1> QED
  BY <1>1, EndStep DEF TruncateAndEnd

(* A call that ends and gives up the storage.                              *)
LEMMA DestroyStep ==
  ASSUME IInv, NewBlockHeld, fn \notin ReallocFns \cup {"temp"},
         NEW out, DestroyStorageAndEnd(out)
  PROVE  BlockStep
<1>1. CASE m_start = Null
  BY <1>1, FinishStep DEF DestroyStorageAndEnd
<1>2. CASE m_start # Null
  <2> DEFINE k == [blk EXCEPT ![m_start] = 0]
  <2>1. PICK m, f : EndCall(m, k, f, out)
    BY <1>2 DEF DestroyStorageAndEnd
  <2>2. k \in BlockTable /\ blk \in BlockTable /\ m_start' = Null /\ m_start \in Block
    BY <1>2, Stored, Sizes DEF DestroyStorageAndEnd, PointersNull, BlockTable
  <2>3. Unowned(k, Null) = Unowned(blk, m_start)
    BY <1>2, <2>2, StateAssumption DEF Unowned, BlockTable
  <2> HIDE DEF k
  <2> QED
    BY <2>1, <2>2, <2>3, NothingHeld, EndCallLeaked DEF BlockStep, NewBlockHeld
<1> QED
  BY <1>1, <1>2

LEMMA ReleaseStep ==
  ASSUME IInv, NewBlockHeld, fn = "entry", NEW n,
         NEW f, f \notin ReallocFns \cup {"temp"},
         ReleaseStorage(n, f)
  PROVE  BlockStep
<1>1. /\ fn' = f /\ new_start' = new_start /\ temp' = temp /\ m_start' = Null
      /\ blk' = IF m_start = Null THEN blk ELSE [blk EXCEPT ![m_start] = 0]
  BY DEF ReleaseStorage, PointersNull, frame, memory
<1>2. Leaked = Unowned(blk, m_start) /\ new_start = Null
  BY NothingHeld DEF ReallocFns
<1>3. blk \in BlockTable /\ m_start \in Block \cup {Null}
  BY Stored
<1>4. Leaked' = Leaked
  BY <1>1, <1>2, <1>3, StateAssumption DEF Leaked, Unowned, BlockTable
<1> QED
  BY <1>1, <1>2, <1>4 DEF BlockStep, NewBlockHeld

(* Allocations.                                                            *)
LEMMA AllocationFailsStep ==
  ASSUME IInv, NewBlockHeld, fn \notin ReallocFns \cup {"temp"}, AllocationFails
  PROVE  BlockStep
  BY EndStep DEF AllocationFails, vec

LEMMA AllocateStep ==
  ASSUME IInv, NewBlockHeld, fn \notin ReallocFns \cup {"temp"},
         NEW b \in Block, NEW n \in 0 .. max_size, Allocate(b, n), new_start' = b,
         fn' \in ReallocFns \cup {"temp"}, UNCHANGED <<m_start, temp>>
  PROVE  BlockStep
<1>1. blk \in BlockTable /\ blk[b] = 0 /\ blk' = [blk EXCEPT ![b] = n]
  BY Stored DEF Allocate, FreeBlocks
<1>2. Leaked' = Leaked
  <2>1. Leaked = {x \in Block : blk[x] > 0 /\ x \notin {m_start, temp}}
    BY NothingHeld DEF Unowned
  <2>2. Leaked' = {x \in Block : blk'[x] > 0 /\ x \notin {m_start, b, temp}}
    BY DEF Leaked
  <2> QED
    BY <1>1, <2>1, <2>2 DEF BlockTable
<1> QED
  BY <1>2 DEF BlockStep, NewBlockHeld

LEMMA StartReallocStep ==
  ASSUME IInv, NewBlockHeld, fn \notin ReallocFns \cup {"temp"},
         NEW f \in ReallocFns, NEW l, NEW h, NEW n \in 0 .. max_size,
         StartRealloc(f, l, h, n)
  PROVE  BlockStep
<1>1. CASE AllocationFails
  BY <1>1, AllocationFailsStep
<1>2. CASE \E b \in Block :
             /\ Allocate(b, n)
             /\ fn' = f /\ new_start' = b
             /\ lo' = l /\ hi' = h /\ built' = 0 /\ moved' = 0
             /\ UNCHANGED <<mem, vec, faults, call, outcome, before, temp, i>>
  BY <1>2, AllocateStep DEF vec
<1> QED
  BY <1>1, <1>2 DEF StartRealloc

LEMMA StartGrowingStep ==
  ASSUME IInv, NewBlockHeld, fn \notin ReallocFns \cup {"temp"},
         NEW f \in ReallocFns, NEW l, NEW h, NEW n \in SizeType,
         StartGrowing(f, l, h, n)
  PROVE  BlockStep
<1>1. CASE TooLong(size, n) /\ Throw(mem, blk, {}, "length_error") /\ UNCHANGED vec
  BY <1>1, EndStep DEF vec
<1>2. CASE ~TooLong(size, n) /\ StartRealloc(f, l, h, CalculateGrowth(size, n))
  <2>0. size \in 0 .. max_size
    BY Stored
  <2>1. CalculateGrowth(size, n) \in 0 .. max_size
    BY <1>2, <2>0, GrowthBounds, Sizes, GrowthAssumption DEF SizeType, SizeTypeMod
  <2> QED
    BY <1>2, <2>1, StartReallocStep
<1> QED
  BY <1>1, <1>2 DEF StartGrowing

-----------------------------------------------------------------------------

LEMMA ReallocBlocks == ASSUME IInv, NewBlockHeld, ReallocStep PROVE BlockStep
<1>0. /\ fn \in ReallocFns /\ blk \in BlockTable /\ new_start \in Block
      /\ new_start # m_start /\ new_start # temp
      /\ temp = Null \/ m_start # temp
  BY InRealloc, Stored DEF ReallocStep, Build, BuildThrows, Relocate, RelocateThrows,
                           Commit, IInv, TempValid
<1>1. CASE Build \/ Relocate
  BY <1>1, QuietStep DEF Build, Relocate, vec
<1>2. CASE BuildThrows \/ RelocateThrows
  <2> DEFINE k == [blk EXCEPT ![new_start] = 0]
  <2>1. PICK m, f : Throw(m, k, f, "exception")
    BY <1>2 DEF BuildThrows, RelocateThrows
  <2>2. k \in BlockTable
    BY <1>0, Sizes DEF BlockTable
  <2>3. /\ Leaked' = Unowned(k, m_start')
        /\ new_start' = Null /\ outcome' = "exception"
    <3> HIDE DEF k
    <3> QED
      BY <2>1, <2>2, ThrowLeaked
  <2>4. CASE m_start' = m_start
    <3>1. Unowned(k, m_start) = Leaked
      BY <1>0, StateAssumption DEF Leaked, Unowned, BlockTable
    <3> QED
      BY <2>3, <2>4, <3>1 DEF BlockStep, NewBlockHeld
  <2>5. CASE TimeToMove /\ CatchNullsPointers /\ m_start' = Null
    <3>1. m_start \in Block /\ blk[m_start] > 0 /\ m_start # temp
      BY <1>0, <2>5, InRealloc, Stored, StateAssumption
         DEF TimeToMove, IInv, StorageValid
    <3>2. Unowned(k, Null) = Leaked \cup {m_start}
      BY <1>0, <3>1, StateAssumption DEF Leaked, Unowned, BlockTable
    <3> QED
      BY <1>0, <2>3, <2>5, <3>2 DEF BlockStep, NewBlockHeld, LosesBlock
  <2> QED
    BY <1>2, <2>4, <2>5 DEF BuildThrows, RelocateThrows, vec, PointersNull
<1>3. CASE Commit
  <2> DEFINE k == IF m_start = Null THEN blk ELSE [blk EXCEPT ![m_start] = 0]
  <2>1. k \in BlockTable /\ m_start' = new_start
    BY <1>0, <1>3, Stored, Sizes DEF Commit, BlockTable
  <2>2. Leaked = Unowned(k, new_start)
    BY <1>0, Stored, StateAssumption DEF Leaked, Unowned, BlockTable
  <2>3. CASE Afterwards = "idle"
    <3>1. PICK m, f : EndCall(m, k, f, "ok")
      BY <1>3, <2>3 DEF Commit
    <3> HIDE DEF k
    <3> QED
      BY <2>1, <2>2, <3>1, EndCallLeaked DEF BlockStep, NewBlockHeld
  <2>4. CASE Afterwards # "idle"
    <3>1. blk' = k /\ temp' = temp /\ new_start' = Null
      BY <1>3, <2>4 DEF Commit
    <3> HIDE DEF k
    <3>2. Leaked' = Unowned(k, new_start)
      BY <2>1, <3>1, StateAssumption DEF Leaked, Unowned
    <3> QED
      BY <2>2, <3>1, <3>2 DEF BlockStep, NewBlockHeld
  <2> QED
    BY <2>3, <2>4
<1> QED
  BY <1>1, <1>2, <1>3 DEF ReallocStep

LEMMA InPlaceBlocks == ASSUME IInv, NewBlockHeld, InPlaceStep PROVE BlockStep
<1>1. CASE ConstructTemp
  <2>1. /\ fn = "temp" /\ blk' = blk /\ m_start' = m_start
        /\ temp' = new_start /\ new_start' = Null /\ temp = Null
    BY <1>1 DEF ConstructTemp, vec, IInv, NewTempValid
  <2> QED
    BY <2>1, StateAssumption DEF BlockStep, NewBlockHeld, Leaked
<1>2. CASE ConstructTempThrows
  <2>1. EndCall(mem, blk, {}, "exception") /\ blk \in BlockTable
    BY <1>2, Stored DEF ConstructTempThrows, Finish
  <2> QED
    BY <1>2, <2>1, EndCallLeaked
       DEF ConstructTempThrows, BlockStep, NewBlockHeld, LosesBlock
<1>3. CASE FillEnd \/ ResizeIn \/ Shift \/ ShiftDone \/ Place \/ EraseShift
  <2>1. UNCHANGED <<blk, m_start, new_start, temp>>
    BY <1>3 DEF FillEnd, ResizeIn, Shift, ShiftDone, Place, EraseShift, Loop, vec,
                frame, memory
  <2>2. fn \notin ReallocFns \cup {"temp"}
    BY <1>3 DEF FillEnd, ResizeIn, Shift, ShiftDone, Place, EraseShift, ReallocFns
  <2> QED
    BY <2>1, <2>2, QuietStep
<1>4. CASE FillEndDone \/ ShiftThrows \/ PlaceThrows \/ EraseThrows
  <2>1. fn \notin ReallocFns \cup {"temp"}
    BY <1>4 DEF FillEndDone, ShiftThrows, PlaceThrows, EraseThrows, ReallocFns
  <2> QED
    BY <1>4, <2>1, FinishStep DEF FillEndDone, ShiftThrows, PlaceThrows, EraseThrows
<1>5. CASE ResizeInThrows \/ ResizeInDone \/ PlaceDone
  <2>1. fn \notin ReallocFns \cup {"temp"} /\ m_start' = m_start
    BY <1>5 DEF ResizeInThrows, ResizeInDone, PlaceDone, ReallocFns, vec
  <2>2. \E m, f, out : EndCall(m, blk, f, out)
    BY <1>5 DEF ResizeInThrows, ResizeInDone, PlaceDone
  <2> QED
    BY <2>1, <2>2, EndStep
<1>6. CASE EraseDone
  BY <1>6, TruncateStep DEF EraseDone, ReallocFns
<1>7. CASE FillEndThrows
  BY <1>7, DestroyStep DEF FillEndThrows, ReallocFns
<1> QED
  BY <1>1, <1>2, <1>3, <1>4, <1>5, <1>6, <1>7 DEF InPlaceStep

LEMMA AssignBlocks == ASSUME IInv, NewBlockHeld, AssignStep PROVE BlockStep
<1>1. fn \in {"assign", "append", "rollback"}
      /\ fn \notin ReallocFns \cup {"temp"}
  BY DEF AssignStep, Assign, AssignThrows, AssignDone, AppendNext, AppendThrows,
         AppendGrows, AppendDone, Rollback, Appending, ReallocFns
<1>2. CASE Assign \/ AppendNext \/ (fn = "assign" /\ Loop("append", 0))
  <2>1. UNCHANGED <<blk, m_start, new_start, temp>>
    BY <1>2 DEF Assign, AppendNext, Loop, vec, frame, memory
  <2> QED
    BY <1>1, <2>1, QuietStep
<1>3. CASE AssignThrows \/ AppendDone \/ (Appending /\ Finish("exception"))
  BY <1>1, <1>3, FinishStep DEF AssignThrows, AppendDone
<1>4. CASE fn = "assign" /\ TruncateAndEnd(call.n)
  BY <1>1, <1>4, TruncateStep
<1>5. CASE (Appending /\ DestroyStorageAndEnd("exception")) \/ Rollback
  BY <1>1, <1>5, DestroyStep DEF Rollback
<1>6. CASE AppendGrows
  <2>1. 1 \in SizeType
    BY Sizes, SizeTypeHolds
  <2> QED
    BY <1>1, <1>6, <2>1, StartGrowingStep DEF AppendGrows, ReallocFns
<1> QED
  BY <1>2, <1>3, <1>4, <1>5, <1>6 DEF AssignStep, AssignDone, AppendThrows

LEMMA EnterBlocks == ASSUME IInv, NewBlockHeld, Enter PROVE BlockStep
<1>1. /\ fn = "entry" /\ fn \notin ReallocFns \cup {"temp"} /\ fn # "idle"
      /\ call.n \in SizeType /\ 1 \in SizeType /\ 1 \in 0 .. max_size
      /\ call.n \in Nat /\ m_finish \in 0 .. max_size /\ size = m_finish
  <2>1. fn = "entry"
    BY DEF Enter, Entered, Reserve, ShrinkToFit, Clear, PopBack, DestroyVector,
           PushBack, Resize, InsertOne, InsertRvalue, InsertFill, InsertRange, Erase,
           AssignEnter, ConstructVector, AssignFill, AssignRange, AssignInput
  <2> QED
    BY <2>1, CallNumbers, Stored, Sizes, SizeTypeHolds DEF ReallocFns
<1>2. ASSUME NEW out, Finish(out) PROVE BlockStep
  BY <1>1, <1>2, FinishStep
<1>3. ASSUME NEW out, DestroyStorageAndEnd(out) PROVE BlockStep
  BY <1>1, <1>3, DestroyStep
<1>4. ASSUME NEW n, TruncateAndEnd(n) PROVE BlockStep
  BY <1>1, <1>4, TruncateStep
<1>5. ASSUME NEW f, NEW c, Loop(f, c) PROVE BlockStep
  <2>1. UNCHANGED <<blk, m_start, new_start, temp>>
    BY <1>5 DEF Loop, memory, vec, frame
  <2> QED
    BY <1>1, <2>1, QuietStep
<1>6. ASSUME NEW f \in ReallocFns, NEW l, NEW h, NEW n \in 0 .. max_size,
             StartRealloc(f, l, h, n)
      PROVE  BlockStep
  BY <1>1, <1>6, StartReallocStep
<1>7. ASSUME NEW f \in ReallocFns, NEW l, NEW h, NEW n \in SizeType,
             StartGrowing(f, l, h, n)
      PROVE  BlockStep
  BY <1>1, <1>7, StartGrowingStep
<1>8. ASSUME ConstructAtEnd PROVE BlockStep
  <2>1. CASE Finish("exception")
    BY <1>2, <2>1
  <2>2. CASE m_start' = m_start /\ \E m, f : EndCall(m, blk, f, "ok")
    BY <1>1, <2>2, EndStep
  <2> QED
    BY <1>8, <2>1, <2>2 DEF ConstructAtEnd
<1>9. ASSUME AllocateTemp PROVE BlockStep
  <2>1. CASE AllocationFails
    BY <1>1, <2>1, AllocationFailsStep
  <2>2. CASE \E b \in Block : /\ Allocate(b, 1) /\ fn' = "temp" /\ new_start' = b
                              /\ UNCHANGED <<m_start, temp>>
    BY <1>1, <2>2, AllocateStep
  <2> QED
    BY <1>9, <2>1, <2>2 DEF AllocateTemp, vec
<1>10. ASSUME NEW n, NEW f \in {"entry", "append"}, ReleaseStorage(n, f)
       PROVE  BlockStep
  BY <1>1, <1>10, ReleaseStep DEF ReallocFns
<1>11. CASE Reserve \/ ShrinkToFit \/ Clear \/ PopBack \/ DestroyVector
  BY <1>1, <1>2, <1>3, <1>4, <1>6, <1>11, Sizes
     DEF Reserve, ShrinkToFit, Clear, PopBack, DestroyVector, ReallocFns
<1>12. CASE PushBack
  BY <1>1, <1>7, <1>8, <1>12 DEF PushBack, ReallocFns
<1>13. CASE Resize
  <2>1. call.n > size => call.n - size \in SizeType
    BY <1>1, BelowCount
  <2> QED
    BY <1>1, <1>2, <1>4, <1>5, <1>7, <1>13, <2>1, Stored DEF Resize, ReallocFns
<1>14. CASE InsertOne \/ InsertRvalue
  BY <1>1, <1>5, <1>7, <1>8, <1>9, <1>14 DEF InsertOne, InsertRvalue, ReallocFns
<1>15. CASE InsertFill
  BY <1>1, <1>2, <1>5, <1>7, <1>9, <1>15 DEF InsertFill, ReallocFns
<1>16. CASE InsertRange \/ Erase
  BY <1>1, <1>2, <1>5, <1>7, <1>16 DEF InsertRange, Erase, ReallocFns
<1>17. CASE ConstructVector
  BY <1>1, <1>2, <1>5, <1>6, <1>17, Sizes DEF ConstructVector, ReallocFns
<1>18. CASE AssignFill \/ AssignInput
  BY <1>1, <1>2, <1>5, <1>6, <1>10, <1>18 DEF AssignFill, AssignInput, ReallocFns
<1>19. CASE AssignRange
  BY <1>1, <1>2, <1>5, <1>6, <1>10, <1>19 DEF AssignRange, ReallocFns
<1> QED
  BY <1>11, <1>12, <1>13, <1>14, <1>15, <1>16, <1>17, <1>18, <1>19
     DEF Enter, AssignEnter

LEMMA NextBlocks == IInv /\ NewBlockHeld /\ [Next]_vars => BlockStep
<1> SUFFICES ASSUME IInv, NewBlockHeld, [Next]_vars PROVE BlockStep
  OBVIOUS
<1>1. CASE Invoke
  <2>1. UNCHANGED <<blk, m_start, new_start, temp>> /\ fn = "idle"
    BY <1>1 DEF Invoke, memory, vec, frame, IInv, CallValid
  <2> QED
    BY <2>1, QuietStep DEF ReallocFns
<1>2. CASE UNCHANGED vars
  BY <1>2, QuietStep DEF vars
<1> QED
  BY <1>1, <1>2, EnterBlocks, ReallocBlocks, InPlaceBlocks, AssignBlocks
     DEF Next, CodeStep

(* A block is lost only in a step in which an element throws, and only by  *)
(* the functions that LosesBlock names.                                    *)
THEOREM BlocksKept == Spec => OnlyElementsLoseBlocks
<1>1. Init => NewBlockHeld
  BY DEF Init, NewBlockHeld
<1>2. IInv /\ NewBlockHeld /\ [Next]_vars =>
        NewBlockHeld' /\ [Leaked' # Leaked => outcome' = "exception" /\ LosesBlock]_vars
  BY NextBlocks DEF BlockStep
<1> QED
  BY InitIInv, NextIInv, <1>1, <1>2, PTL DEF Spec, OnlyElementsLoseBlocks

-----------------------------------------------------------------------------

(* What a step of a constructor shows: it stays in its loops, and if it    *)
(* ends with an exception the vector owns nothing.                         *)
BuildStep ==
  /\ BuildValid'
  /\ Ended /\ call.op \in BuildOps /\ outcome' # "ok" => m_start' = Null

LEMMA EndsBuild ==
  ASSUME NEW m, NEW k, NEW f, NEW out, EndCall(m, k, f, out),
         out = "ok" \/ m_start' = Null
  PROVE  BuildStep
  BY DEF EndCall, BuildStep, BuildValid, NoCall, CallRecord, BuildOps

LEMMA FinishesBuild ==
  ASSUME NEW out, Finish(out), out = "ok" \/ m_start = Null
  PROVE  BuildStep
  BY EndsBuild DEF Finish, vec

LEMMA DestroyEndsBuild ==
  ASSUME NEW out, DestroyStorageAndEnd(out) PROVE BuildStep
<1>1. CASE m_start = Null
  BY <1>1, FinishesBuild DEF DestroyStorageAndEnd
<1>2. CASE m_start # Null
  BY <1>2, EndsBuild DEF DestroyStorageAndEnd, PointersNull
<1> QED
  BY <1>1, <1>2

(* An exception of a function the constructor calls.                       *)
LEMMA ThrowInBuild ==
  ASSUME call.op \in BuildOps, NEW m, NEW k, NEW f, NEW out, Throw(m, k, f, out),
         call.op \in InputOps \/ m_start' = Null
  PROVE  BuildStep
<1>1. CASE call.op \notin InputOps
  BY <1>1, EndsBuild DEF Throw
<1>2. CASE call.op \in InputOps
  <2>1. fn' = "rollback" /\ call' = call
    BY <1>2 DEF Throw
  <2> QED
    BY <2>1 DEF BuildStep, BuildValid, Ended
<1> QED
  BY <1>1, <1>2

LEMMA StartReallocInBuild ==
  ASSUME call.op \in BuildOps, NEW f, NEW l, NEW h, NEW n, StartRealloc(f, l, h, n),
         \/ f = "grow" /\ m_start = Null
         \/ f = "realloc_append" /\ call.op \in InputOps
  PROVE  BuildStep
<1>1. CASE AllocationFails
  BY <1>1, ThrowInBuild DEF AllocationFails, vec
<1>2. CASE fn' = f /\ UNCHANGED <<vec, call>>
  BY <1>2 DEF BuildStep, BuildValid, Ended, vec
<1> QED
  BY <1>1, <1>2 DEF StartRealloc

LEMMA EnterBuild == 
  ASSUME IInv, BuildValid, call.op \in BuildOps, Enter PROVE BuildStep
<1>1. ConstructVector
  BY DEF Enter, Entered, Reserve, ShrinkToFit, Clear, PopBack, DestroyVector,
         PushBack, Resize, InsertOne, InsertRvalue, InsertFill, InsertRange, Erase,
         AssignEnter, AssignFill, AssignRange, AssignInput, BuildOps, AppendOps
<1>2. fn = "entry" /\ m_start = Null
  BY <1>1 DEF ConstructVector, BuildValid
<1>3. CASE Loop("append", 0)
  BY <1>3 DEF Loop, vec, BuildStep, BuildValid, Ended
<1> QED
  BY <1>1, <1>2, <1>3, FinishesBuild, StartReallocInBuild DEF ConstructVector

LEMMA ReallocBuild ==
  ASSUME IInv, BuildValid, call.op \in BuildOps, ReallocStep PROVE BuildStep
<1>1. /\ fn \in {"grow", "realloc_append"}
      /\ fn = "grow" => m_start = Null
      /\ fn = "realloc_append" => call.op \in InputOps
  BY DEF ReallocStep, Build, BuildThrows, Relocate, RelocateThrows, Commit,
         BuildValid, ReallocFns
<1>2. CASE Build \/ Relocate
  BY <1>1, <1>2 DEF Build, Relocate, vec, BuildStep, BuildValid, Ended
<1>3. CASE BuildThrows
  BY <1>1, <1>3, ThrowInBuild DEF BuildThrows, vec
<1>4. CASE RelocateThrows
  BY <1>1, <1>4, ThrowInBuild DEF RelocateThrows, CatchNullsPointers, PointersNull
<1>5. CASE Commit
  <2>1. Afterwards = "append"
    BY DEF Afterwards, BuildOps
  <2>2. fn' = "append" /\ call' = call
    BY <1>5, <2>1 DEF Commit
  <2> QED
    BY <2>2 DEF BuildStep, BuildValid, Ended
<1> QED
  BY <1>2, <1>3, <1>4, <1>5 DEF ReallocStep

LEMMA AppendBuild ==
  ASSUME IInv, BuildValid, call.op \in BuildOps, AssignStep PROVE BuildStep
<1>1. AppendNext \/ AppendThrows \/ AppendGrows \/ AppendDone \/ Rollback
  BY DEF AssignStep, Assign, AssignThrows, AssignDone, BuildValid
<1>2. CASE AppendNext
  BY <1>2 DEF AppendNext, Appending, BuildStep, BuildValid, Ended
<1>3. CASE AppendThrows \/ Rollback
  BY <1>3, DestroyEndsBuild DEF AppendThrows, Rollback, BuildOps
<1>4. CASE AppendGrows
  BY <1>4, ThrowInBuild, StartReallocInBuild DEF AppendGrows, MustGrow, StartGrowing
<1>5. CASE AppendDone
  BY <1>5, FinishesBuild DEF AppendDone
<1> QED
  BY <1>1, <1>2, <1>3, <1>4, <1>5

(* The code does not change the call it executes, it ends it.              *)
CallKept == call' = call \/ call' = NoCall

LEMMA CodeKeepsCall == CodeStep => CallKept
<1> SUFFICES ASSUME CodeStep PROVE CallKept
  OBVIOUS
<1>1. ASSUME NEW m, NEW k, NEW f, NEW out, EndCall(m, k, f, out) PROVE CallKept
  BY <1>1 DEF EndCall, CallKept
<1>2. ASSUME NEW m, NEW k, NEW f, NEW out, Throw(m, k, f, out) PROVE CallKept
  BY <1>1, <1>2 DEF Throw, CallKept
<1>3. ASSUME NEW out, Finish(out) \/ DestroyStorageAndEnd(out) PROVE CallKept
  BY <1>1, <1>3 DEF Finish, DestroyStorageAndEnd
<1>4. ASSUME NEW n, TruncateAndEnd(n) PROVE CallKept
  BY <1>1, <1>4 DEF TruncateAndEnd
<1>5. ASSUME NEW f, NEW n, Loop(f, n) \/ ReleaseStorage(n, f) PROVE CallKept
  BY <1>5 DEF Loop, ReleaseStorage, CallKept
<1>6. ASSUME AllocateTemp \/ ConstructAtEnd \/ AllocationFails PROVE CallKept
  BY <1>1, <1>2, <1>3, <1>6
     DEF AllocateTemp, ConstructAtEnd, AllocationFails, CallKept
<1>7. ASSUME NEW f, NEW l, NEW h, NEW n,
             StartRealloc(f, l, h, n) \/ StartGrowing(f, l, h, n)
      PROVE  CallKept
  BY <1>2, <1>6, <1>7 DEF StartRealloc, StartGrowing, CallKept
<1>8. CASE Enter
  BY <1>3, <1>4, <1>5, <1>6, <1>7, <1>8
     DEF Enter, Reserve, ShrinkToFit, Clear, PopBack, DestroyVector, PushBack, Resize,
         InsertOne, InsertRvalue, InsertFill, InsertRange, Erase, AssignEnter,
         ConstructVector, AssignFill, AssignRange, AssignInput
<1>9. CASE ReallocStep
  <2>1. CASE Build \/ Relocate
    BY <2>1 DEF Build, Relocate, CallKept
  <2>2. CASE BuildThrows \/ RelocateThrows
    BY <1>2, <2>2 DEF BuildThrows, RelocateThrows
  <2>3. CASE Commit
    BY <1>1, <2>3 DEF Commit, CallKept
  <2> QED
    BY <1>9, <2>1, <2>2, <2>3 DEF ReallocStep
<1>10. CASE InPlaceStep
  <2>1. CASE ConstructTemp \/ FillEnd \/ ResizeIn \/ Shift \/ Place \/ EraseShift
    BY <2>1 DEF ConstructTemp, FillEnd, ResizeIn, Shift, Place, EraseShift, CallKept
  <2>2. CASE ResizeInThrows \/ ResizeInDone \/ PlaceDone
    BY <1>1, <2>2 DEF ResizeInThrows, ResizeInDone, PlaceDone
  <2> QED
    BY <1>3, <1>4, <1>5, <1>10, <2>1, <2>2
       DEF InPlaceStep, ConstructTempThrows, FillEndThrows, FillEndDone, ShiftThrows,
           ShiftDone, PlaceThrows, EraseThrows, EraseDone
<1>11. CASE AssignStep
  <2>1. CASE Assign \/ AppendNext
    BY <2>1 DEF Assign, AppendNext, CallKept
  <2> QED
    BY <1>3, <1>4, <1>5, <1>7, <1>11, <2>1
       DEF AssignStep, AssignThrows, AssignDone, AppendThrows, AppendGrows,
           AppendDone, Rollback
<1> QED
  BY <1>8, <1>9, <1>10, <1>11 DEF CodeStep

(* The calls of other functions never become constructions.                *)
LEMMA OthersDoNotBuild ==
  ASSUME call.op \notin BuildOps, CodeStep PROVE BuildStep
  BY CodeKeepsCall DEF CallKept, BuildStep, BuildValid, NoCall, CallRecord, BuildOps

LEMMA NextBuild == IInv /\ BuildValid /\ [Next]_vars => BuildStep
<1> SUFFICES ASSUME IInv, BuildValid, [Next]_vars PROVE BuildStep
  OBVIOUS
<1>1. CASE Invoke
  BY <1>1 DEF Invoke, BuildStep, BuildValid, Ended, vec
<1>2. CASE UNCHANGED vars
  BY <1>2 DEF vars, BuildStep, BuildValid, Ended
<1>3. CASE CodeStep /\ call.op \in BuildOps
  <2>1. ~InPlaceStep
    BY <1>3 DEF BuildValid, InPlaceStep, ConstructTemp, ConstructTempThrows, FillEnd,
       FillEndThrows, FillEndDone, ResizeIn, ResizeInThrows, ResizeInDone, Shift,
       ShiftThrows, ShiftDone, Place, PlaceThrows, PlaceDone, EraseShift, EraseThrows,
       EraseDone
  <2> QED
    BY <1>3, <2>1, EnterBuild, ReallocBuild, AppendBuild DEF CodeStep
<1> QED
  BY <1>1, <1>2, <1>3, OthersDoNotBuild DEF Next

(* The one block that a constructor can lose is the old one of             *)
(* realloc_append.                                                         *)
LEMMA LostInBuild ==
  ASSUME IInv, BuildValid, BlockStep, call.op \in BuildOps, Leaked' # Leaked
  PROVE  fn = "realloc_append" /\ TimeToMove /\ Leaked' = Leaked \cup {m_start}
<1>1. fn \in {"grow", "realloc_append"} /\ TimeToMove
  BY DEF BuildValid, BlockStep, LosesBlock, ReallocFns
<1>2. fn # "grow"
  BY <1>1, InRealloc DEF BuildValid, TimeToMove, IInv, StorageValid, ReallocFns
<1> QED
  BY <1>1, <1>2 DEF BlockStep

(* A constructor that throws gives up its storage, and loses nothing on the*)
(* way but the block that realloc_append cannot copy from.                 *)
THEOREM FailedConstructionIsClean == Spec => FailedConstructionReleases
<1>1. Init => BuildValid /\ NewBlockHeld
  BY DEF Init, BuildValid, NewBlockHeld, NoCall, CallRecord, BuildOps
<1>2. IInv /\ BuildValid /\ NewBlockHeld /\ [Next]_vars =>
        /\ BuildValid' /\ NewBlockHeld'
        /\ [ call.op \in BuildOps =>
               /\ Ended /\ outcome' # "ok" => m_start' = Null
               /\ Leaked' # Leaked => /\ fn = "realloc_append" /\ TimeToMove
                                      /\ Leaked' = Leaked \cup {m_start} ]_vars
  BY NextBuild, NextBlocks, LostInBuild DEF BuildStep, BlockStep
<1> QED
  BY InitIInv, NextIInv, <1>1, <1>2, PTL DEF Spec, FailedConstructionReleases

-----------------------------------------------------------------------------
(* While elements are copied: what the storage shows, and what a new block *)
(* has taken over from it.                                                 *)

(* What the vector shows while a reallocation copies from it.              *)
Source ==
  IF call.op \in InputOps THEN SubSeq(call.arg, 1, m_finish)
  ELSE IF call.op = "assign_range" THEN <<>> ELSE before

SourceShown ==
  /\ fn \in {"entry", "temp"} /\ call.op # "assign_range" => Contents = before
  /\ fn \in ReallocFns \/ (fn = "append" /\ call.op \in InputOps) =>
       Contents = Source

CopiesMade ==
  fn \in ReallocFns =>
    /\ \A j \in 0 .. (moved - 1) : mem[new_start][Dest(j)] = mem[m_start][j]
    /\ Afterwards = "entry" => lo = hi
    /\ call.op \in InputOps =>
         lo = m_finish /\ (built > 0 => mem[new_start][lo] = call.arg[m_finish + 1])

CopyValid == ~NothrowMove => SourceShown /\ CopiesMade

LEMMA SubSeqFromOne ==
  ASSUME NEW n \in Nat, NEW s \in [1 .. n -> Value], NEW k \in 0 .. n
  PROVE  SubSeq(s, 1, k) = [j \in 1 .. k |-> s[j]]
<1>1. s \in Seq(Value) /\ Len(s) = n
  OBVIOUS
<1> QED
  BY <1>1

LEMMA ContentsOfStorage ==
  ASSUME IInv
  PROVE  Contents = [k \in 1 .. m_finish |-> mem[m_start][k - 1]]
<1>1. CASE m_start = Null
  <2>1. m_finish = 0
    BY <1>1 DEF IInv, StorageValid
  <2>2. <<>> = [k \in 1 .. m_finish |-> mem[m_start][k - 1]]
    BY <2>1
  <2> QED
    BY <1>1, <2>2 DEF Contents
<1> QED
  BY <1>1 DEF Contents

(* A step that leaves the elements shows the same contents.                *)
LEMMA SameContents ==
  ASSUME IInv, m_start' = m_start, m_finish' = m_finish,
         \A s \in 0 .. (m_finish - 1) : mem'[m_start][s] = mem[m_start][s]
  PROVE  Contents' = Contents
<1>1. \A k \in 1 .. m_finish : k - 1 \in 0 .. (m_finish - 1)
  BY Stored, Sizes
<1> QED
  BY <1>1 DEF Contents

(* Nothing is claimed of the other functions and loops.                    *)
LEMMA CopyIrrelevant ==
  ASSUME fn' \notin {"entry", "temp"} \cup ReallocFns,
         fn' = "append" => call'.op \notin InputOps
  PROVE  CopyValid'
  BY DEF CopyValid, SourceShown, CopiesMade, ReallocFns

LEMMA EndCopy ==
  ASSUME NEW m, NEW k, NEW f, NEW out, EndCall(m, k, f, out) \/ Throw(m, k, f, out)
  PROVE  CopyValid'
<1>1. fn' \in {"idle", "rollback"}
  BY DEF EndCall, Throw
<1> QED
  BY <1>1, CopyIrrelevant DEF ReallocFns

LEMMA FinishCopy ==
  ASSUME NEW out, Finish(out) \/ DestroyStorageAndEnd(out) PROVE CopyValid'
<1>1. ASSUME Finish(out) PROVE CopyValid'
  BY <1>1, EndCopy DEF Finish
<1> QED
  BY <1>1, EndCopy DEF DestroyStorageAndEnd

LEMMA TruncateCopy == ASSUME NEW n, TruncateAndEnd(n) PROVE CopyValid'
  BY EndCopy DEF TruncateAndEnd

LEMMA StartReallocCopy ==
  ASSUME ~NothrowMove => Contents = Source, NEW f \in ReallocFns, NEW l, NEW h, NEW n,
         StartRealloc(f, l, h, n),
         call.op \in InputOps => l = m_finish, Afterwards = "entry" => l = h
  PROVE  CopyValid'
<1>1. CASE AllocationFails
  BY <1>1, EndCopy DEF AllocationFails
<1>2. CASE /\ fn' = f /\ lo' = l /\ hi' = h /\ built' = 0 /\ moved' = 0
           /\ UNCHANGED <<mem, vec, call, before>>
  <2>1. /\ Contents' = Contents /\ Source' = Source /\ Afterwards' = Afterwards
        /\ m_finish' = m_finish
    BY <1>2 DEF Contents, Source, Afterwards, vec
  <2>2. SourceShown' \/ NothrowMove
    BY <1>2, <2>1 DEF SourceShown, ReallocFns
  <2>3. CopiesMade'
    BY <1>2, <2>1 DEF CopiesMade
  <2> QED
    BY <2>2, <2>3 DEF CopyValid
<1> QED
  BY <1>1, <1>2 DEF StartRealloc

LEMMA StartGrowingCopy ==
  ASSUME ~NothrowMove => Contents = Source, NEW f \in ReallocFns, NEW l, NEW h, NEW n,
         StartGrowing(f, l, h, n),
         call.op \in InputOps => l = m_finish, Afterwards = "entry" => l = h
  PROVE  CopyValid'
<1>1. CASE Throw(mem, blk, {}, "length_error")
  BY <1>1, EndCopy
<1>2. CASE StartRealloc(f, l, h, CalculateGrowth(size, n))
  BY <1>2, StartReallocCopy
<1> QED
  BY <1>1, <1>2 DEF StartGrowing

-----------------------------------------------------------------------------

LEMMA BuildCopy == ASSUME IInv, CopyValid, Build PROVE CopyValid'
<1> DEFINE v == Item(m_finish)
<1>1. /\ fn \in ReallocFns /\ built < hi - lo
      /\ mem' = [mem EXCEPT ![new_start][lo + built] = v] /\ built' = built + 1
      /\ UNCHANGED <<m_start, m_finish, call, before, fn, new_start, lo, hi, moved>>
  BY DEF Build, TimeToBuild, vec
<1>2. call.op \in InputOps => v = call.arg[m_finish + 1]
  BY DEF Item, RangeOps
<1> HIDE DEF v
<1>3. lo + built \in Slot
  BY <1>1, InRealloc, Stored, Sizes DEF Slot
<1>4. \A b \in Block, s \in Slot :
        mem'[b][s] = IF b = new_start /\ s = lo + built THEN v ELSE mem[b][s]
  BY <1>1, <1>3, InRealloc, Stored DEF MemoryType
<1>5. Contents' = Contents
  <2>1. \A s \in 0 .. (m_finish - 1) : mem'[m_start][s] = mem[m_start][s]
    BY <1>1, <1>4, InRealloc, StoredElement
  <2> QED
    BY <1>1, <2>1, SameContents
<1>6. SourceShown => SourceShown'
  BY <1>1, <1>5, InRealloc DEF SourceShown, Source, ReallocFns
<1>7. CopiesMade => CopiesMade'
  <2> SUFFICES ASSUME CopiesMade PROVE CopiesMade'
    OBVIOUS
  <2>1. ASSUME NEW j \in 0 .. (moved - 1)
        PROVE  mem'[new_start][Dest(j)'] = mem'[m_start][j]
    <3>1. /\ j \in 0 .. (m_finish - 1) /\ Dest(j) \in Slot /\ Dest(j)' = Dest(j)
          /\ Dest(j) # lo + built
      BY <1>1, InRealloc, DestSlot, Stored, Sizes DEF Dest
    <3>2. mem[new_start][Dest(j)] = mem[m_start][j]
      BY <1>1 DEF CopiesMade
    <3> QED
      BY <1>1, <1>4, <3>1, <3>2, InRealloc, StoredElement
  <2>2. Afterwards' = Afterwards
    BY <1>1 DEF Afterwards
  <2>3. ASSUME call.op \in InputOps PROVE mem'[new_start][lo] = call.arg[m_finish + 1]
    <3>1. built = 0
      BY <1>1, <2>3, InRealloc
    <3> QED
      BY <1>1, <1>2, <1>3, <1>4, <2>3, <3>1, InRealloc
  <2> QED
    BY <1>1, <2>1, <2>2, <2>3 DEF CopiesMade
<1> QED
  BY <1>6, <1>7 DEF CopyValid

LEMMA RelocateCopy == ASSUME IInv, CopyValid, Relocate PROVE CopyValid'
<1> SUFFICES ASSUME ~NothrowMove, SourceShown, CopiesMade
             PROVE  SourceShown' /\ CopiesMade'
  BY DEF CopyValid
<1> DEFINE v == mem[m_start][moved]
<1>1. /\ fn \in ReallocFns /\ moved \in 0 .. (m_finish - 1)
      /\ mem' = [mem EXCEPT ![new_start][Dest(moved)] = v, ![m_start][moved] = v]
      /\ moved' = moved + 1
      /\ UNCHANGED <<m_start, m_finish, call, before, fn, new_start, lo, hi, built>>
  BY InRealloc, Stored, Sizes DEF Relocate, TimeToMove, vec, MoveIfNoexcept, Left
<1>2. Dest(moved) \in Slot /\ moved \in Slot /\ m_start \in Block
  BY <1>1, DestSlot, StoredElement
<1>3. \A b \in Block, s \in Slot :
        mem'[b][s] = IF b = new_start /\ s = Dest(moved) THEN v ELSE mem[b][s]
  BY <1>1, <1>2, InRealloc, Stored DEF MemoryType
<1>0. new_start # m_start /\ new_start \in Block
  BY <1>1, InRealloc
<1> HIDE DEF v
<1>4. Contents' = Contents
  <2>1. \A s \in 0 .. (m_finish - 1) : mem'[m_start][s] = mem[m_start][s]
    BY <1>0, <1>2, <1>3, StoredElement
  <2> QED
    BY <1>1, <2>1, SameContents
<1>5. SourceShown'
  BY <1>1, <1>4, InRealloc DEF SourceShown, Source, ReallocFns
<1>6. CopiesMade'
  <2>1. ASSUME NEW j \in 0 .. moved
        PROVE  mem'[new_start][Dest(j)'] = mem'[m_start][j]
    <3>1. /\ j \in 0 .. (m_finish - 1) /\ Dest(j) \in Slot /\ Dest(j)' = Dest(j)
          /\ j \in Slot /\ (j = moved \/ j \in 0 .. (moved - 1))
          /\ j # moved => Dest(j) # Dest(moved)
      BY <1>1, InRealloc, DestSlot, StoredElement, Stored, Sizes DEF Dest
    <3>2. j # moved => mem[new_start][Dest(j)] = mem[m_start][j]
      BY <1>1, <3>1 DEF CopiesMade
    <3> QED
      BY <1>0, <1>2, <1>3, <3>1, <3>2 DEF v
  <2>2. Afterwards' = Afterwards
    BY <1>1 DEF Afterwards
  <2>3. ASSUME call.op \in InputOps, built > 0
        PROVE  mem'[new_start][lo] = call.arg[m_finish + 1]
    <3>1. lo = m_finish /\ mem[new_start][lo] = call.arg[m_finish + 1]
      BY <1>1, <2>3 DEF CopiesMade
    <3>2. lo \in Slot /\ lo # Dest(moved)
      BY <1>1, <2>3, <3>1, InRealloc, Stored, Sizes DEF Slot, Dest
    <3> QED
      BY <1>1, <1>3, <3>1, <3>2, InRealloc
  <2>4. moved' - 1 = moved
    BY <1>1
  <2> QED
    BY <1>1, <2>1, <2>2, <2>3, <2>4 DEF CopiesMade
<1> QED
  BY <1>5, <1>6

LEMMA CommitCopy == ASSUME IInv, CopyValid, Commit PROVE CopyValid'
<1>1. /\ fn \in ReallocFns /\ built = hi - lo /\ moved = m_finish
      /\ m_start' = new_start /\ m_finish' = m_finish + (hi - lo)
      /\ new_start \in Block /\ new_start # Null
  BY InRealloc, StateAssumption DEF Commit
<1>2. CASE Afterwards = "idle"
  <2>1. fn' = "idle"
    BY <1>2 DEF Commit, EndCall
  <2> QED
    BY <2>1, CopyIrrelevant DEF ReallocFns
<1>3. CASE Afterwards # "idle"
  <2>1. /\ fn' = Afterwards /\ call' = call /\ before' = before
        /\ mem' = IF m_start = Null THEN mem ELSE [mem EXCEPT ![m_start] = RawBlock]
    BY <1>3 DEF Commit
  <2>2. mem'[new_start] = mem[new_start]
    BY <1>1, <2>1, InRealloc, Stored DEF MemoryType
  <2> SUFFICES ASSUME ~NothrowMove, SourceShown, CopiesMade
               PROVE  SourceShown' /\ CopiesMade'
    BY DEF CopyValid
  <2>3. CopiesMade'
    BY <1>3, <2>1 DEF CopiesMade, Afterwards, ReallocFns
  <2>4. Contents' = [k \in 1 .. m_finish' |-> mem[new_start][k - 1]]
    BY <1>1, <2>2 DEF Contents
  <2>5. Contents = [k \in 1 .. m_finish |-> mem[m_start][k - 1]]
    BY ContentsOfStorage
  <2>6. ASSUME NEW k \in 1 .. m_finish, lo = hi \/ lo = m_finish
        PROVE  mem[new_start][k - 1] = mem[m_start][k - 1]
    <3>1. k - 1 \in 0 .. (moved - 1) /\ Dest(k - 1) = k - 1
      BY <1>1, <2>6, InRealloc, Stored, Sizes DEF Dest
    <3> QED
      BY <1>1, <3>1 DEF CopiesMade
  <2>7. CASE Afterwards = "entry"
    <3>1. lo = hi /\ call.op = "insert_rv"
      BY <1>1, <2>7 DEF CopiesMade, Afterwards
    <3>2. Contents' = Contents
      <4>1. m_finish' = m_finish
        BY <1>1, <3>1, InRealloc, Stored, Sizes
      <4>2. \A k \in 1 .. m_finish : mem[new_start][k - 1] = mem[m_start][k - 1]
        BY <2>6, <3>1
      <4> HIDE DEF Contents
      <4> QED
        BY <2>4, <2>5, <4>1, <4>2
    <3>3. Contents = before
      BY <1>1, <3>1 DEF SourceShown, Source, InputOps
    <3> QED
      BY <2>1, <2>3, <2>7, <3>2, <3>3 DEF SourceShown, ReallocFns
  <2>8. CASE Afterwards = "append" /\ call.op \in InputOps
    <3>1. /\ lo = m_finish /\ hi - lo = 1 /\ m_finish < call.n
          /\ mem[new_start][m_finish] = call.arg[m_finish + 1]
          /\ m_finish \in Nat /\ call.n \in Nat /\ m_finish' = m_finish + 1
          /\ call.arg \in [1 .. call.n -> Value]
      BY <1>1, <2>8, InRealloc, Stored, Sizes, CallNumbers
         DEF CopiesMade, IInv, CallValid, RangeOps
    <3>2. \A k \in 1 .. m_finish : mem[m_start][k - 1] = call.arg[k]
      <4>1. Contents = [k \in 1 .. m_finish |-> call.arg[k]]
        BY <1>1, <2>8, <3>1, SubSeqFromOne DEF SourceShown, Source
      <4> QED
        BY <2>5, <4>1
    <3>3. \A k \in 1 .. (m_finish + 1) : mem[new_start][k - 1] = call.arg[k]
      <4> SUFFICES ASSUME NEW k \in 1 .. (m_finish + 1)
                   PROVE  mem[new_start][k - 1] = call.arg[k]
        OBVIOUS
      <4>1. CASE k = m_finish + 1
        BY <3>1, <4>1
      <4>2. CASE k \in 1 .. m_finish
        BY <2>6, <3>1, <3>2, <4>2
      <4> QED
        BY <3>1, <4>1, <4>2
    <3>4. SubSeq(call.arg, 1, m_finish + 1) = [k \in 1 .. (m_finish + 1) |-> call.arg[k]]
      BY <3>1, SubSeqFromOne
    <3>5. Contents' = SubSeq(call.arg, 1, m_finish + 1)
      BY <2>4, <3>1, <3>3, <3>4
    <3> QED
      BY <2>1, <2>3, <2>8, <3>1, <3>5 DEF SourceShown, Source, ReallocFns
  <2>9. CASE Afterwards = "append" /\ call.op \notin InputOps
    BY <2>1, <2>3, <2>9 DEF SourceShown, ReallocFns
  <2>10. CASE Afterwards \in {"shift", "assign"}
    BY <2>1, <2>3, <2>10 DEF SourceShown, ReallocFns
  <2> QED
    BY <1>3, <2>7, <2>8, <2>9, <2>10 DEF Afterwards
<1> QED
  BY <1>2, <1>3

LEMMA ReallocCopy == ASSUME IInv, CopyValid, ReallocStep PROVE CopyValid'
  BY BuildCopy, RelocateCopy, CommitCopy, EndCopy
     DEF ReallocStep, BuildThrows, RelocateThrows

(* A temp_value is constructed outside the storage; of the loops inside it *)
(* nothing is claimed.                                                     *)
LEMMA InPlaceCopy == ASSUME IInv, CopyValid, InPlaceStep PROVE CopyValid'
<1>1. CASE ConstructTemp
  <2>1. /\ fn = "temp" /\ mem' = [mem EXCEPT ![new_start][0] = Argument]
        /\ UNCHANGED <<m_start, m_finish, call, before>>
        /\ new_start # m_start
        /\ fn' = IF call.op = "insert_rv" THEN "entry" ELSE "shift"
    BY <1>1 DEF ConstructTemp, vec, IInv, NewTempValid
  <2>2. \A s \in 0 .. (m_finish - 1) : mem'[m_start][s] = mem[m_start][s]
    BY <2>1, StoredElement, Stored DEF MemoryType
  <2>3. Contents' = Contents
    BY <2>1, <2>2, SameContents
  <2> QED
    BY <2>1, <2>3 DEF CopyValid, SourceShown, CopiesMade, ReallocFns
<1>2. CASE FillEnd \/ ResizeIn \/ Shift \/ ShiftDone \/ Place \/ EraseShift
  <2>1. fn' \in {"fill_end", "resize_in", "shift", "place", "erase"}
    BY <1>2 DEF FillEnd, ResizeIn, Shift, ShiftDone, Place, EraseShift, Loop
  <2> QED
    BY <2>1, CopyIrrelevant DEF ReallocFns
<1>3. CASE ResizeInThrows \/ ResizeInDone \/ PlaceDone
  BY <1>3, EndCopy DEF ResizeInThrows, ResizeInDone, PlaceDone
<1> QED
  BY <1>1, <1>2, <1>3, FinishCopy, TruncateCopy
     DEF InPlaceStep, ConstructTempThrows, FillEndThrows, FillEndDone, ShiftThrows,
         PlaceThrows, EraseThrows, EraseDone

(* The loop over single-pass iterators shows what it has read.             *)
LEMMA AppendNextCopy ==
  ASSUME IInv, CopyValid, AppendNext, call.op \in InputOps PROVE CopyValid'
<1> SUFFICES ASSUME ~NothrowMove, SourceShown PROVE SourceShown' /\ CopiesMade'
  BY DEF CopyValid
<1>1. /\ fn = "append" /\ m_finish < call.n /\ m_finish # m_eos
      /\ mem' = [mem EXCEPT ![m_start][m_finish] = call.arg[m_finish + 1]]
      /\ m_finish' = m_finish + 1
      /\ UNCHANGED <<m_start, call, fn>>
  BY DEF AppendNext, Appending, MustGrow, Item, RangeOps
<1>2. /\ m_finish \in Slot /\ m_finish \in Nat /\ m_start \in Block /\ m_start # Null
      /\ call.n \in Nat /\ call.arg \in [1 .. call.n -> Value]
  BY <1>1, Stored, Sizes, CallNumbers, StateAssumption
     DEF Slot, IInv, CallValid, RangeOps
<1>3. \A s \in Slot : mem'[m_start][s] =
        IF s = m_finish THEN call.arg[m_finish + 1] ELSE mem[m_start][s]
  BY <1>1, <1>2, Stored DEF MemoryType
<1>4. \A k \in 1 .. m_finish : k - 1 \in Slot /\ mem[m_start][k - 1] = call.arg[k]
  <2>1. Contents = [k \in 1 .. m_finish |-> call.arg[k]]
    BY <1>1, <1>2, SubSeqFromOne DEF SourceShown, Source
  <2>2. Contents = [k \in 1 .. m_finish |-> mem[m_start][k - 1]]
    BY ContentsOfStorage
  <2>3. \A k \in 1 .. m_finish : k - 1 \in Slot
    BY <1>2, Sizes DEF Slot
  <2> QED
    BY <2>1, <2>2, <2>3
<1>5. \A k \in 1 .. (m_finish + 1) : mem'[m_start][k - 1] = call.arg[k]
  <2> SUFFICES ASSUME NEW k \in 1 .. (m_finish + 1)
               PROVE  mem'[m_start][k - 1] = call.arg[k]
    OBVIOUS
  <2>1. CASE k = m_finish + 1
    BY <1>2, <1>3, <2>1
  <2>2. CASE k \in 1 .. m_finish
    BY <1>2, <1>3, <1>4, <2>2
  <2> QED
    BY <1>2, <2>1, <2>2
<1>6. Contents' = SubSeq(call.arg, 1, m_finish + 1)
  <2>1. Contents' = [k \in 1 .. (m_finish + 1) |-> mem'[m_start][k - 1]]
    BY <1>1, <1>2 DEF Contents
  <2>2. SubSeq(call.arg, 1, m_finish + 1) = [k \in 1 .. (m_finish + 1) |-> call.arg[k]]
    BY <1>1, <1>2, SubSeqFromOne
  <2> QED
    BY <1>5, <2>1, <2>2
<1> QED
  BY <1>1, <1>6 DEF SourceShown, CopiesMade, Source, ReallocFns

LEMMA AssignCopy == ASSUME IInv, CopyValid, AssignStep PROVE CopyValid'
<1>1. CASE Assign
  BY <1>1, CopyIrrelevant DEF Assign, ReallocFns
<1>2. CASE AssignDone
  <2>1. CASE fn = "assign" /\ Loop("append", 0)
    <3>1. fn' = "append" /\ call'.op \notin InputOps
      BY <2>1 DEF Loop, IInv, FillValid
    <3> QED
      BY <3>1, CopyIrrelevant DEF ReallocFns
  <2> QED
    BY <1>2, <2>1, TruncateCopy DEF AssignDone
<1>3. CASE AppendNext
  <2>1. CASE call.op \notin InputOps
    BY <1>3, <2>1, CopyIrrelevant DEF AppendNext, Appending, ReallocFns
  <2> QED
    BY <1>3, <2>1, AppendNextCopy
<1>4. CASE AppendGrows
  <2>1. /\ fn = "append" /\ call.op \in InputOps
        /\ StartGrowing("realloc_append", m_finish, m_finish + 1, 1)
    BY <1>4 DEF AppendGrows, Appending, MustGrow, size
  <2>2. ~NothrowMove => Contents = Source
    BY <2>1 DEF CopyValid, SourceShown
  <2>3. Afterwards # "entry"
    BY <2>1 DEF Afterwards, InputOps
  <2> QED
    BY <2>1, <2>2, <2>3, StartGrowingCopy DEF ReallocFns
<1> QED
  BY <1>1, <1>2, <1>3, <1>4, FinishCopy
     DEF AssignStep, AssignThrows, AppendThrows, AppendDone, Rollback

(* Every method that reallocates finds the contents the caller knows.      *)
LEMMA EnterCopy == ASSUME IInv, CopyValid, Enter PROVE CopyValid'
<1>1. fn = "entry"
  BY DEF Enter, Entered, Reserve, ShrinkToFit, Clear, PopBack, DestroyVector,
         PushBack, Resize, InsertOne, InsertRvalue, InsertFill, InsertRange, Erase,
         AssignEnter, ConstructVector, AssignFill, AssignRange, AssignInput
<1>2. ~NothrowMove /\ call.op \notin InputOps \cup {"assign_range"} => Contents = Source
  BY <1>1 DEF CopyValid, SourceShown, Source
<1>3. ASSUME NEW out, Finish(out) \/ DestroyStorageAndEnd(out) PROVE CopyValid'
  BY <1>3, FinishCopy
<1>4. ASSUME NEW n, TruncateAndEnd(n) PROVE CopyValid'
  BY <1>4, TruncateCopy
<1>5. ASSUME NEW f \in {"resize_in", "fill_end", "shift", "erase", "assign"}, NEW c,
             Loop(f, c)
      PROVE  CopyValid'
  BY <1>5, CopyIrrelevant DEF Loop, ReallocFns
<1>6. ASSUME NEW f \in ReallocFns, NEW l, NEW h, NEW n,
             StartRealloc(f, l, h, n) \/ StartGrowing(f, l, h, n),
             call.op \notin InputOps \cup {"assign_range"},
             Afterwards = "entry" => l = h
      PROVE  CopyValid'
  BY <1>2, <1>6, StartReallocCopy, StartGrowingCopy
<1>7. ASSUME AllocateTemp, call.op # "assign_range" PROVE CopyValid'
  <2>1. CASE AllocationFails
    BY <2>1, EndCopy DEF AllocationFails
  <2>2. CASE fn' = "temp" /\ UNCHANGED <<mem, vec, call, before>>
    <3>1. Contents' = Contents
      BY <2>2 DEF Contents, vec
    <3> QED
      BY <1>1, <1>7, <2>2, <3>1 DEF CopyValid, SourceShown, CopiesMade, ReallocFns
  <2> QED
    BY <1>7, <2>1, <2>2 DEF AllocateTemp
<1>8. ASSUME ConstructAtEnd PROVE CopyValid'
  BY <1>3, <1>8, EndCopy DEF ConstructAtEnd
<1>9. ASSUME fn' = "append", call' = call,
             call.op \in InputOps, m_finish' = 0
      PROVE  CopyValid'
  <2>1. Contents' = <<>>
    BY <1>9 DEF Contents
  <2>2. SubSeq(call.arg, 1, m_finish') = <<>>
    <3>1. call.n \in Nat /\ call.arg \in [1 .. call.n -> Value] /\ 0 \in 0 .. call.n
      BY <1>1, <1>9, CallNumbers DEF IInv, CallValid, RangeOps
    <3> QED
      BY <1>9, <3>1, SubSeqFromOne
  <2> QED
    BY <1>9, <2>1, <2>2 DEF CopyValid, SourceShown, Source, CopiesMade, ReallocFns
<1>10. CASE Reserve \/ ShrinkToFit \/ Clear \/ PopBack \/ DestroyVector
  BY <1>3, <1>4, <1>6, <1>10
     DEF Reserve, ShrinkToFit, Clear, PopBack, DestroyVector, Entered, ReallocFns,
         InputOps
<1>11. CASE PushBack \/ Resize
  <2>1. Afterwards # "entry" /\ call.op \notin InputOps \cup {"assign_range"}
    BY <1>11 DEF PushBack, Resize, Entered, AppendOps, Afterwards, InputOps, BuildOps
  <2> QED
    BY <1>3, <1>4, <1>5, <1>6, <1>8, <1>11, <2>1 DEF PushBack, Resize, ReallocFns
<1>12. CASE InsertOne \/ InsertFill
  <2>1. Afterwards # "entry" /\ call.op \notin InputOps \cup {"assign_range"}
    BY <1>12 DEF InsertOne, InsertFill, Entered, Afterwards, InputOps, BuildOps
  <2> QED
    BY <1>3, <1>5, <1>6, <1>7, <1>8, <1>12, <2>1 DEF InsertOne, InsertFill, ReallocFns
<1>13. CASE InsertRvalue \/ InsertRange \/ Erase
  <2>1. call.op \notin InputOps \cup {"assign_range"}
    BY <1>13 DEF InsertRvalue, InsertRange, Erase, Entered, InputOps
  <2> QED
    BY <1>3, <1>5, <1>6, <1>7, <1>8, <1>13, <2>1
       DEF InsertRvalue, InsertRange, Erase, ReallocFns
<1>14. CASE ConstructVector
  <2>1. CASE call.op = "build_input"
    <3>1. fn' = "append" /\ m_finish' = 0 /\ call' = call /\ call.op \in InputOps
      BY <1>14, <2>1 DEF ConstructVector, Loop, vec, InputOps, IInv, EntryValid
    <3> QED
      BY <1>9, <3>1
  <2>2. CASE call.op # "build_input"
    <3>1. Afterwards # "entry" /\ call.op \notin InputOps \cup {"assign_range"}
      BY <1>14, <2>2 DEF ConstructVector, Afterwards, InputOps, BuildOps
    <3> QED
      BY <1>3, <1>6, <1>14, <2>2, <3>1 DEF ConstructVector, ReallocFns
  <2> QED
    BY <2>1, <2>2
<1>15. CASE AssignFill
  BY <1>3, <1>5, <1>6, <1>15 DEF AssignFill, ReallocFns, InputOps
<1>16. CASE AssignRange
  <2>1. call.op = "assign_range" /\ Afterwards # "entry" /\ call.op \notin InputOps
    BY <1>16 DEF AssignRange, Afterwards, BuildOps, InputOps
  <2>2. CASE m_start = Null /\ StartRealloc("grow", 0, 0, call.n)
    <3>1. Contents = Source
      BY <2>1, <2>2 DEF Contents, Source
    <3> QED
      BY <2>1, <2>2, <3>1, StartReallocCopy DEF ReallocFns
  <2>3. CASE ReleaseStorage(OnReleaseCapacity, "entry")
    <3>1. fn' = "entry" /\ call' = call
      BY <2>3 DEF ReleaseStorage
    <3> QED
      BY <2>1, <3>1 DEF CopyValid, SourceShown, CopiesMade, ReallocFns
  <2> QED
    BY <1>3, <1>5, <1>16, <2>2, <2>3 DEF AssignRange
<1>17. CASE AssignInput
  <2>1. fn' = "append" /\ m_finish' = 0 /\ call' = call /\ call.op \in InputOps
    BY <1>17 DEF AssignInput, ReleaseStorage, PointersNull, InputOps
  <2> QED
    BY <1>9, <2>1
<1> QED
  BY <1>10, <1>11, <1>12, <1>13, <1>14, <1>15, <1>16, <1>17 DEF Enter, AssignEnter

LEMMA NextCopy == IInv /\ CopyValid /\ [Next]_vars => CopyValid'
<1> SUFFICES ASSUME IInv, CopyValid, [Next]_vars PROVE CopyValid'
  OBVIOUS
<1>1. CASE Invoke
  <2>1. fn' = "entry" /\ before' = Contents /\ Contents' = Contents
    BY <1>1 DEF Invoke, Contents, memory, vec
  <2> QED
    BY <2>1 DEF CopyValid, SourceShown, CopiesMade, ReallocFns
<1>2. CASE UNCHANGED vars
  BY <1>2 DEF vars, CopyValid, SourceShown, CopiesMade, Source, Contents, Dest,
              Afterwards
<1> QED
  BY <1>1, <1>2, EnterCopy, ReallocCopy, InPlaceCopy, AssignCopy DEF Next, CodeStep

(* While a reallocation copies, the old storage shows what the caller saw. *)
THEOREM OldStorageKept == Spec => []OldStorageIntact
<1>1. Init => CopyValid
  BY DEF Init, CopyValid, SourceShown, CopiesMade, ReallocFns
<1>2. CopyValid => OldStorageIntact
  BY DEF CopyValid, SourceShown, Source, OldStorageIntact
<1> QED
  BY InitIInv, NextIInv, NextCopy, <1>1, <1>2, PTL DEF Spec

(* The handlers of a reallocation leave the old storage, or nothing.       *)
LEMMA FailureUndone ==
  ASSUME IInv, CopyValid, ReallocStep, Ended, outcome' # "ok", ~NothrowMove
  PROVE  Contents' = IF TimeToMove /\ CatchNullsPointers THEN <<>> ELSE before
<1>1. /\ fn \in ReallocFns /\ (BuildThrows \/ RelocateThrows)
      /\ call.op \notin InputOps
  BY DEF ReallocStep, Build, BuildThrows, Relocate, RelocateThrows, Commit, EndCall,
         Throw, Ended
<1>2. /\ TimeToBuild \/ TimeToMove
      /\ IF TimeToMove /\ CatchNullsPointers THEN m_start' = Null
         ELSE m_start' = m_start /\ m_finish' = m_finish
  <2>1. CASE BuildThrows
    <3>1. built < hi - lo /\ lo \in Nat /\ hi \in Nat /\ built \in Nat
      BY <1>1, <2>1, InRealloc DEF BuildThrows, TimeToBuild
    <3>2. ~(TimeToMove /\ CatchNullsPointers)
      BY <3>1 DEF TimeToMove, CatchNullsPointers
    <3> QED
      BY <2>1, <3>2 DEF BuildThrows, vec
  <2>2. CASE RelocateThrows
    BY <2>2 DEF RelocateThrows, PointersNull, vec
  <2> QED
    BY <1>1, <2>1, <2>2
<1>3. CASE TimeToMove /\ CatchNullsPointers
  BY <1>2, <1>3 DEF Contents
<1>4. CASE ~(TimeToMove /\ CatchNullsPointers)
  <2>1. PICK k, f : EndCall([mem EXCEPT ![new_start] = RawBlock], k, f, "exception")
    BY <1>1 DEF BuildThrows, RelocateThrows, Throw
  <2>2. ASSUME NEW s \in 0 .. (m_finish - 1)
        PROVE  mem'[m_start][s] = mem[m_start][s]
    <3>1. m_start \in Block /\ m_start # new_start /\ m_start # temp
      BY <1>1, <2>2, InRealloc, StoredElement, StateAssumption DEF IInv, TempValid
    <3> QED
      BY <2>1, <3>1, Stored DEF EndCall, MemoryType
  <2>3. Contents' = Contents
    BY <1>2, <1>4, <2>2, SameContents
  <2>4. call.op # "assign_range"
    <3>1. call.op = "assign_range" => lo = hi /\ m_finish = 0
      BY <1>1 DEF IInv, ReallocValid, Afterwards, InputOps
    <3>2. lo \in Nat /\ built \in Nat /\ moved \in Nat
      BY <1>1, InRealloc
    <3>3. call.op = "assign_range" => ~TimeToBuild /\ ~TimeToMove
      BY <3>1, <3>2 DEF TimeToBuild, TimeToMove
    <3> QED
      BY <1>2, <3>3
  <2>5. Contents = before
    BY <1>1, <2>4 DEF CopyValid, SourceShown, Source
  <2> QED
    BY <1>4, <2>3, <2>5
<1> QED
  BY <1>3, <1>4

(* A reallocation that copies and fails leaves the contents of before the  *)
(* call, except where its handler sets the pointers to nullptr.            *)
THEOREM FailureHasNoEffect == Spec => FailedReallocationUndone
<1>1. Init => CopyValid
  BY DEF Init, CopyValid, SourceShown, CopiesMade, ReallocFns
<1>2. IInv /\ CopyValid /\ [Next]_vars =>
        [ Ended /\ outcome' # "ok" /\ fn \in ReallocFns /\ ~NothrowMove =>
            Contents' = IF TimeToMove /\ CatchNullsPointers
                        THEN <<>> ELSE before ]_vars
  <2> SUFFICES ASSUME IInv, CopyValid, Next, Ended, outcome' # "ok",
                      fn \in ReallocFns, ~NothrowMove
               PROVE  Contents' = IF TimeToMove /\ CatchNullsPointers
                                  THEN <<>> ELSE before
    OBVIOUS
  <2>1. ~Invoke
    BY DEF Invoke, Ended
  <2>2. ~Enter
    BY DEF Enter, Entered, Reserve, ShrinkToFit, Clear, PopBack, DestroyVector,
           PushBack, Resize, InsertOne, InsertRvalue, InsertFill, InsertRange, Erase,
           AssignEnter, ConstructVector, AssignFill, AssignRange, AssignInput,
           ReallocFns
  <2>3. ~InPlaceStep
    BY DEF InPlaceStep, ConstructTemp, ConstructTempThrows, FillEnd, FillEndThrows,
           FillEndDone, ResizeIn, ResizeInThrows, ResizeInDone, Shift, ShiftThrows,
           ShiftDone, Place, PlaceThrows, PlaceDone, EraseShift, EraseThrows,
           EraseDone, ReallocFns
  <2>4. ~AssignStep
    BY DEF AssignStep, Assign, AssignThrows, AssignDone, AppendNext, AppendThrows,
           AppendGrows, AppendDone, Rollback, Appending, ReallocFns
  <2> QED
    BY <2>1, <2>2, <2>3, <2>4, FailureUndone DEF Next, CodeStep
<1> QED
  BY InitIInv, NextIInv, NextCopy, <1>1, <1>2, PTL DEF Spec, FailedReallocationUndone

-----------------------------------------------------------------------------
(* What lies before the position of an insertion or an erasure.            *)

Insertions == InsertOneOps \cup {"insert_n", "insert_range"}

(* How far an insertion or an erasure has come.                            *)
PlaceValid ==
  /\ call.op \in Insertions \cup {"erase"} => call.pos <= m_finish
  /\ call.op = "erase" => fn \in {"entry", "erase"}
  /\ call.op \in Insertions =>
       /\ fn \in {"entry", "temp", "shift", "place", "fill_end"} \cup ReallocFns
       /\ IF fn = "fill_end" THEN call.op = "insert_n" ELSE m_finish = Len(before)
       /\ fn \in ReallocFns =>
            /\ m_finish + call.n > m_eos
            /\ call.op \in {"insert_rv", "insert_range"} => lo = hi

PrefixKept ==
  /\ m_start' = m_start
  /\ \A s \in Slot : s < call.pos => mem'[m_start][s] = mem[m_start][s]

(* What a step shows for ReferencesKept.                                   *)
PlaceStep ==
  /\ PlaceValid'
  /\ \/ call.op = "erase"
     \/ call.op \in Insertions /\ Len(before) + call.n <= m_eos
     => PrefixKept

LEMMA Unplaced == NoCall.op \notin Insertions \cup {"erase"}
  BY DEF NoCall, CallRecord, Insertions, InsertOneOps

LEMMA OthersPlaceNothing ==
  ASSUME call.op \notin Insertions \cup {"erase"}, CodeStep PROVE PlaceStep
  BY CodeKeepsCall, Unplaced DEF CallKept, PlaceStep, PlaceValid

(* A call that ends and has kept the slots before the position.            *)
LEMMA EndPlace ==
  ASSUME IInv, PlaceValid, call.op \in Insertions \cup {"erase"},
         NEW m \in MemoryType, NEW k, NEW f, NEW out, EndCall(m, k, f, out),
         m_start' = m_start,
         \A s \in Slot : s < call.pos => m[m_start][s] = mem[m_start][s]
  PROVE  PlaceStep
<1>1. PlaceValid'
  BY Unplaced DEF EndCall, PlaceValid
<1>2. \A s \in Slot : s < call.pos => mem'[m_start][s] = m[m_start][s]
  <2>1. ASSUME NEW s \in Slot, s < call.pos PROVE m_start \in Block /\ m_start # temp
    <3>1. s \in 0 .. (m_finish - 1)
      <4>1. fn # "idle"
        BY Unplaced DEF IInv, CallValid
      <4> QED
        BY <2>1, <4>1, CallNumbers, Stored, Sizes DEF PlaceValid, Slot
    <3> QED
      BY <3>1, StoredElement, StateAssumption DEF IInv, TempValid
  <2> QED
    BY <2>1 DEF EndCall, MemoryType
<1> QED
  BY <1>1, <1>2 DEF PlaceStep, PrefixKept

LEMMA FinishPlace ==
  ASSUME IInv, PlaceValid, call.op \in Insertions \cup {"erase"}, NEW out, Finish(out)
  PROVE  PlaceStep
  BY EndPlace, Stored DEF Finish, vec

(* A call that ends and was free to move the elements.                     *)
LEMMA ThrowPlace ==
  ASSUME call.op \in Insertions, NEW m, NEW k, NEW f, NEW out, Throw(m, k, f, out),
         Len(before) + call.n > m_eos, call.n \in Nat, m_eos \in Nat, Len(before) \in Nat
  PROVE  PlaceStep
<1>1. call' = NoCall
  BY DEF Throw, EndCall, Insertions, InsertOneOps, InputOps
<1> QED
  BY <1>1, Unplaced DEF PlaceStep, PlaceValid, Insertions, InsertOneOps

(* A method that starts a loop or an allocation has changed nothing yet.   *)
LEMMA HeadPlace ==
  ASSUME PlaceValid', UNCHANGED <<mem, m_start>> PROVE PlaceStep
  BY DEF PlaceStep, PrefixKept

LEMMA StartGrowingPlace ==
  ASSUME IInv, PlaceValid, call.op \in Insertions, fn = "entry",
         NEW f \in ReallocFns, NEW l, NEW h, NEW n,
         StartGrowing(f, l, h, n), m_finish + call.n > m_eos,
         call.op \in {"insert_rv", "insert_range"} => l = h
  PROVE  PlaceStep
<1>1. m_finish = Len(before) /\ m_finish \in Nat /\ call.n \in Nat /\ m_eos \in Nat
  BY CallNumbers, Stored, Sizes DEF PlaceValid
<1>2. CASE \E out : Throw(mem, blk, {}, out)
  BY <1>1, <1>2, ThrowPlace
<1>3. CASE /\ fn' = f /\ lo' = l /\ hi' = h
           /\ UNCHANGED <<mem, vec, call, before>>
  <2>1. PlaceValid'
    BY <1>1, <1>3
       DEF PlaceValid, Afterwards, vec, ReallocFns, Insertions, InsertOneOps, BuildOps
  <2> QED
    BY <1>3, <2>1, HeadPlace DEF vec
<1> QED
  BY <1>2, <1>3 DEF StartGrowing, StartRealloc, AllocationFails

LEMMA LoopPlace ==
  ASSUME IInv, PlaceValid, fn = "entry", NEW f, NEW c, Loop(f, c),
         \/ call.op = "erase" /\ f = "erase"
         \/ call.op \in Insertions /\ f = "shift"
         \/ call.op = "insert_n" /\ f = "fill_end"
  PROVE  PlaceStep
<1>1. fn' = f /\ UNCHANGED <<mem, m_start, m_finish, call, before>>
  BY DEF Loop, memory, vec
<1>2. PlaceValid'
  BY <1>1 DEF PlaceValid, Insertions, InsertOneOps, ReallocFns
<1> QED
  BY <1>1, <1>2, HeadPlace

LEMMA EnterPlace ==
  ASSUME IInv, PlaceValid, call.op \in Insertions \cup {"erase"}, Enter PROVE PlaceStep
<1>1. InsertOne \/ InsertRvalue \/ InsertFill \/ InsertRange \/ Erase
  BY DEF Enter, Entered, Reserve, ShrinkToFit, Clear, PopBack, DestroyVector,
         PushBack, Resize, AssignEnter, ConstructVector, AssignFill, AssignRange,
         AssignInput, Insertions, InsertOneOps, AppendOps, BuildOps
<1>2. /\ fn = "entry" /\ fn # "idle" /\ size = m_finish /\ capacity = m_eos
      /\ m_finish \in Nat /\ m_eos \in Nat /\ m_finish <= m_eos /\ call.n \in Nat
      /\ call.pos \in Nat /\ call.pos <= m_finish
  <2>1. fn = "entry"
    BY <1>1 DEF Entered, InsertOne, InsertRvalue, InsertFill, InsertRange, Erase
  <2> QED
    BY <2>1, CallNumbers, Stored, Sizes DEF PlaceValid
<1>3. ASSUME NEW out, Finish(out) PROVE PlaceStep
  BY <1>3, FinishPlace
<1>4. ASSUME ConstructAtEnd, size # capacity, call.op \notin RangeOps PROVE PlaceStep
  <2> DEFINE m == [mem EXCEPT ![m_start][m_finish] = OneElement]
  <2>1. CASE Finish("exception")
    BY <1>3, <2>1
  <2>2. CASE m_start' = m_start /\ \E f : EndCall(m, blk, f, "ok")
    <3>1. m_start \in Block /\ m_finish \in Slot /\ OneElement \in Object
      BY <1>2, <1>4, Stored, Sizes, OneElementIsObject DEF Slot
    <3>2. m \in MemoryType
      BY <3>1, Stored, ObjectNotRaw DEF MemoryType
    <3>3. \A s \in Slot : s < call.pos => m[m_start][s] = mem[m_start][s]
      BY <1>2, <3>1, Stored DEF MemoryType, Slot
    <3> HIDE DEF m
    <3> QED
      BY <2>2, <3>2, <3>3, EndPlace
  <2> QED
    BY <1>4, <2>1, <2>2 DEF ConstructAtEnd
<1>5. ASSUME AllocateTemp, call.op \in Insertions PROVE PlaceStep
  <2>1. CASE AllocationFails
    <3>1. Finish("bad_alloc")
      BY <1>5, <2>1
         DEF AllocationFails, Throw, Finish, Insertions, InsertOneOps, InputOps
    <3> QED
      BY <1>3, <3>1
  <2>2. CASE fn' = "temp" /\ UNCHANGED <<mem, vec, call, before>>
    <3>1. PlaceValid'
      BY <1>2, <1>5, <2>2
         DEF PlaceValid, vec, ReallocFns, Insertions, InsertOneOps
    <3> QED
      BY <2>2, <3>1, HeadPlace DEF vec
  <2> QED
    BY <1>5, <2>1, <2>2 DEF AllocateTemp
<1>6. CASE InsertOne \/ InsertRvalue
  <2>1. /\ call.op \in Insertions /\ call.op # "insert_range" /\ call.n = 1
        /\ call.op \notin RangeOps
    BY <1>6 DEF InsertOne, InsertRvalue, Entered, Insertions, InsertOneOps,
                IInv, EntryValid, RangeOps, InputOps
  <2>2. size = capacity => m_finish + call.n > m_eos
    BY <1>2, <2>1
  <2>3. ASSUME NEW f \in ReallocFns, NEW l, NEW h,
               StartGrowing(f, l, h, 1), size = capacity,
               call.op = "insert_rv" => l = h
        PROVE  PlaceStep
    BY <1>2, <2>1, <2>2, <2>3, StartGrowingPlace
  <2>4. ASSUME NEW c, Loop("shift", c) PROVE PlaceStep
    BY <1>2, <2>1, <2>4, LoopPlace
  <2> QED
    BY <1>4, <1>5, <1>6, <2>1, <2>3, <2>4
       DEF InsertOne, InsertRvalue, Entered, ReallocFns
<1>7. CASE InsertFill
  <2>1. call.op = "insert_n" /\ call.op \in Insertions
    BY <1>7 DEF InsertFill, Entered, Insertions
  <2>2. NoRoom => m_finish + call.n > m_eos
    BY <1>2, RoomExact
  <2> QED
    BY <1>2, <1>3, <1>5, <1>7, <2>1, <2>2, StartGrowingPlace, LoopPlace
       DEF InsertFill, ReallocFns
<1>8. CASE InsertRange
  <2>1. call.op = "insert_range" /\ call.op \in Insertions
    BY <1>8 DEF InsertRange, Entered, Insertions
  <2>2. NoRoom => m_finish + call.n > m_eos
    BY <1>2, RoomExact
  <2> QED
    BY <1>2, <1>3, <1>8, <2>1, <2>2, StartGrowingPlace, LoopPlace
       DEF InsertRange, ReallocFns
<1>9. CASE Erase
  BY <1>2, <1>3, <1>9, LoopPlace DEF Erase, Entered
<1> QED
  BY <1>1, <1>6, <1>7, <1>8, <1>9

LEMMA ReallocPlace ==
  ASSUME IInv, PlaceValid, call.op \in Insertions \cup {"erase"}, ReallocStep
  PROVE  PlaceStep
<1>1. /\ fn \in ReallocFns /\ fn # "fill_end" /\ call.op \in Insertions
      /\ m_finish = Len(before) /\ m_finish + call.n > m_eos
      /\ call.op \in {"insert_rv", "insert_range"} => lo = hi
  BY DEF ReallocStep, Build, BuildThrows, Relocate, RelocateThrows, Commit,
         PlaceValid, ReallocFns
<1>2. m_finish \in Nat /\ m_eos \in Nat /\ call.n \in Nat /\ lo \in Nat
  BY <1>1, InRealloc, CallNumbers, Stored, Sizes
<1>3. CASE Build \/ Relocate
  <2>1. UNCHANGED <<fn, call, before, m_finish, m_eos, lo, hi>>
    BY <1>3 DEF Build, Relocate, vec
  <2>2. PlaceValid'
    BY <2>1 DEF PlaceValid, Afterwards
  <2> QED
    BY <1>1, <1>2, <2>2 DEF PlaceStep, Insertions, InsertOneOps
<1>4. CASE BuildThrows \/ RelocateThrows
  BY <1>1, <1>2, <1>4, ThrowPlace DEF BuildThrows, RelocateThrows
<1>5. CASE Commit
  <2>1. CASE Afterwards = "idle"
    <3>1. call' = NoCall
      BY <1>5, <2>1 DEF Commit, EndCall
    <3> QED
      BY <1>1, <1>2, <3>1, Unplaced DEF PlaceStep, PlaceValid, Insertions, InsertOneOps
  <2>2. CASE Afterwards # "idle"
    <3>1. /\ Afterwards \in {"entry", "shift"}
          /\ call.op \in {"insert_rv", "insert_range"}
      BY <1>1, <2>2 DEF Afterwards, Insertions, InsertOneOps, BuildOps
    <3>2. /\ fn' \in {"entry", "shift"} /\ call' = call /\ before' = before
          /\ m_finish' = m_finish
      BY <1>1, <1>2, <1>5, <3>1 DEF Commit
    <3>3. PlaceValid'
      BY <1>1, <3>2 DEF PlaceValid, ReallocFns, Insertions, InsertOneOps
    <3> QED
      BY <1>1, <1>2, <3>3 DEF PlaceStep, Insertions, InsertOneOps
  <2> QED
    BY <2>1, <2>2
<1> QED
  BY <1>3, <1>4, <1>5 DEF ReallocStep

(* A step of a loop that only writes at the position and beyond it.        *)
LEMMA WritePlace ==
  ASSUME PlaceValid, PrefixKept, UNCHANGED <<fn, call, before>>,
         fn \notin ReallocFns, m_finish' = m_finish
  PROVE  PlaceStep
  BY DEF PlaceStep, PlaceValid

LEMMA InPlacePlace ==
  ASSUME "copy" \notin MayThrow,
         IInv, PlaceValid, call.op \in Insertions \cup {"erase"}, InPlaceStep
  PROVE  PlaceStep
<1>1. /\ call.n \in Nat /\ call.pos \in Nat /\ call.pos <= m_finish /\ m_finish \in Nat
      /\ gap = call.pos + call.n
      /\ fn \in {"temp", "fill_end", "shift", "place", "erase"}
  <2>1. /\ fn # "idle"
        /\ fn \in {"temp", "fill_end", "shift", "place", "erase"}
    BY DEF InPlaceStep, ConstructTemp, ConstructTempThrows, FillEnd, FillEndThrows,
           FillEndDone, ResizeIn, ResizeInThrows, ResizeInDone, Shift, ShiftThrows,
           ShiftDone, Place, PlaceThrows, PlaceDone, EraseShift, EraseThrows, EraseDone,
           PlaceValid, ReallocFns
  <2> QED
    BY <2>1, CallNumbers, Stored, Sizes DEF PlaceValid
<1>2. \A s \in Slot : s < call.pos => s \in Nat /\ m_start \in Block
  BY <1>1, StoredElement DEF Slot
<1>3. CASE ConstructTemp
  <2>1. /\ fn = "temp" /\ fn' \in {"entry", "shift"} /\ new_start # m_start
        /\ mem' = [mem EXCEPT ![new_start][0] = Argument]
        /\ UNCHANGED <<m_start, m_finish, call, before>>
    BY <1>3 DEF ConstructTemp, vec, IInv, NewTempValid
  <2>2. PlaceValid'
    BY <2>1 DEF PlaceValid, Insertions, InsertOneOps, ReallocFns
  <2>3. PrefixKept
    BY <1>2, <2>1, Stored DEF PrefixKept, MemoryType
  <2> QED
    BY <2>2, <2>3 DEF PlaceStep
<1>4. CASE ConstructTempThrows \/ FillEndDone \/ ShiftThrows \/ PlaceThrows \/ EraseThrows
  BY <1>4, FinishPlace
     DEF ConstructTempThrows, FillEndDone, ShiftThrows, PlaceThrows, EraseThrows
<1>5. CASE FillEnd
  <2>1. /\ fn = "fill_end" /\ call.op = "insert_n"
        /\ mem' = [mem EXCEPT ![m_start][m_finish] = Argument]
        /\ m_finish' = m_finish + 1
        /\ UNCHANGED <<m_start, call, before, fn>>
    BY <1>5 DEF FillEnd, PlaceValid
  <2>2. PlaceValid'
    BY <1>1, <2>1 DEF PlaceValid, Insertions, InsertOneOps, ReallocFns
  <2>3. PrefixKept
    BY <1>1, <1>2, <2>1, Stored DEF PrefixKept, MemoryType
  <2> QED
    BY <2>2, <2>3 DEF PlaceStep
<1>6. ~FillEndThrows
  <2>1. fn = "fill_end" => ArgumentCopied = "copy"
    BY DEF PlaceValid, Insertions, InsertOneOps, ArgumentCopied
  <2> QED
    BY <2>1 DEF FillEndThrows
<1>7. CASE Shift
  <2>1. fn = "shift" /\ gap <= i /\ i \in Nat
    BY <1>7, ShiftNumbers DEF Shift
  <2>2. \A s \in Slot : s < call.pos => s # i /\ s # i - call.n
    BY <1>1, <1>2, <2>1
  <2>3. PrefixKept
    BY <1>2, <1>7, <2>2, Stored DEF Shift, PrefixKept, MemoryType, vec
  <2> QED
    BY <1>7, <2>1, <2>3, WritePlace DEF Shift, ReallocFns, vec
<1>8. CASE ShiftDone
  <2>1. /\ fn = "shift" /\ fn' = "place"
        /\ UNCHANGED <<mem, m_start, m_finish, call, before>>
    BY <1>8 DEF ShiftDone, Loop, memory, vec
  <2>2. PlaceValid'
    BY <2>1 DEF PlaceValid, Insertions, InsertOneOps, ReallocFns
  <2> QED
    BY <2>1, <2>2, HeadPlace
<1>9. CASE Place
  <2>1. fn = "place" /\ call.pos <= i /\ i \in Nat
    BY <1>9, ShiftNumbers DEF Place
  <2>2. \A s \in Slot : s < call.pos => s # i
    BY <1>1, <1>2, <2>1
  <2>3. PrefixKept
    BY <1>2, <1>9, <2>2, Stored DEF Place, PrefixKept, MemoryType, vec
  <2> QED
    BY <1>9, <2>1, <2>3, WritePlace DEF Place, ReallocFns, vec
<1>10. CASE PlaceDone
  BY <1>10, EndPlace, Stored DEF PlaceDone
<1>11. CASE EraseShift
  <2>1. fn = "erase" /\ gap <= i /\ i \in Nat
    BY <1>11, EraseNumbers DEF EraseShift
  <2>2. \A s \in Slot : s < call.pos => s # i /\ s # i - call.n
    BY <1>1, <1>2, <2>1
  <2>3. PrefixKept
    BY <1>2, <1>11, <2>2, Stored DEF EraseShift, PrefixKept, MemoryType, vec
  <2> QED
    BY <1>11, <2>1, <2>3, WritePlace DEF EraseShift, ReallocFns, vec
<1>12. CASE EraseDone
  <2> DEFINE S == (m_finish - call.n) .. (m_finish - 1)
             m == Destroyed(m_start, S)
  <2>1. /\ fn = "erase" /\ i = m_finish /\ gap <= m_finish
        /\ TruncateAndEnd(m_finish - call.n)
    BY <1>12, EraseNumbers DEF EraseDone
  <2>2. CASE EndCall(mem, blk, {}, "ok")
    BY <2>1, <2>2, EndPlace, Stored DEF TruncateAndEnd
  <2>3. CASE \E f : EndCall(m, blk, f, "ok")
    <3>1. m_start \in Block
      BY <1>1, <2>1, EraseNumbers, Stored, Sizes
    <3>2. \A s \in Slot : s < call.pos => s \notin S
      BY <1>1, <1>2, <2>1
    <3>3. m \in MemoryType
      BY <3>1, Stored DEF Destroyed, MemoryType, Cell
    <3>4. \A s \in Slot : s < call.pos => m[m_start][s] = mem[m_start][s]
      <4> HIDE DEF S
      <4> QED
        BY <3>1, <3>2, Stored DEF Destroyed, MemoryType
    <3>5. m_start' = m_start
      BY <2>1 DEF TruncateAndEnd
    <3> HIDE DEF m
    <3> QED
      BY <2>3, <3>3, <3>4, <3>5, EndPlace
  <2> QED
    BY <2>1, <2>2, <2>3 DEF TruncateAndEnd
<1>13. ~ResizeIn /\ ~ResizeInThrows /\ ~ResizeInDone
  BY <1>1 DEF ResizeIn, ResizeInThrows, ResizeInDone
<1> QED
  BY <1>3, <1>4, <1>5, <1>6, <1>7, <1>8, <1>9, <1>10, <1>11, <1>12, <1>13
     DEF InPlaceStep

LEMMA NextPlace ==
  "copy" \notin MayThrow /\ IInv /\ PlaceValid /\ [Next]_vars
    => PlaceStep \/ UNCHANGED vars
<1> SUFFICES ASSUME "copy" \notin MayThrow, IInv, PlaceValid, Next PROVE PlaceStep
  BY DEF Next
<1>1. CASE Invoke
  <2>1. call.op \notin Insertions \cup {"erase"}
    BY <1>1, Unplaced DEF Invoke
  <2>2. IInv' /\ fn' = "entry" /\ before' = Contents /\ m_finish' = m_finish
    BY <1>1, InvokeIInv DEF Invoke, vec
  <2>3. Len(Contents) = m_finish
    BY ContentsOfStorage, Stored, Sizes
  <2>4. PlaceValid'
    BY <2>2, <2>3 DEF IInv, EntryValid, PlaceValid, ReallocFns
  <2> QED
    BY <2>1, <2>4 DEF PlaceStep
<1>2. CASE AssignStep /\ call.op \in Insertions \cup {"erase"}
  BY <1>2 DEF AssignStep, Assign, AssignThrows, AssignDone, AppendNext, AppendThrows,
              AppendGrows, AppendDone, Rollback, Appending, PlaceValid, ReallocFns
<1> QED
  BY <1>1, <1>2, EnterPlace, ReallocPlace, InPlacePlace, OthersPlaceNothing
     DEF Next, CodeStep

(* Where no copy constructor throws, an insertion that fits and an erasure *)
(* leave the elements before the position where they are, untouched.       *)
THEOREM PrefixStays == "copy" \notin MayThrow => (Spec => ReferencesKept)
<1> SUFFICES ASSUME "copy" \notin MayThrow PROVE Spec => ReferencesKept
  OBVIOUS
<1>1. Init => PlaceValid
  BY Unplaced DEF Init, PlaceValid
<1>2. IInv /\ PlaceValid /\ [Next]_vars => PlaceValid'
  BY NextPlace DEF PlaceStep, vars, PlaceValid, Afterwards
<1>3. IInv /\ PlaceValid /\ [Next]_vars =>
        [ \/ call.op = "erase"
          \/ /\ call.op \in InsertOneOps \cup {"insert_n", "insert_range"}
             /\ Len(before) + call.n <= m_eos
          => /\ m_start' = m_start
             /\ \A s \in Slot : s < call.pos => mem'[m_start][s] = mem[m_start][s]
        ]_vars
  BY NextPlace DEF PlaceStep, PrefixKept, Insertions
<1> QED
  BY InitIInv, NextIInv, <1>1, <1>2, <1>3, PTL DEF Spec, ReferencesKept

-----------------------------------------------------------------------------
(* How a call comes to its end.                                            *)

(* The new block has room for what insert(pos, T&&) will put in when it    *)
(* calls itself.                                                           *)
RoomMade ==
  fn \in ReallocFns /\ call.op = "insert_rv" =>
    m_finish + (hi - lo) < blk[new_start]

(* What a step of a call shows for CallsRunDown.                           *)
RunStep == RoomMade' /\ (call' = NoCall \/ NearerEnd)

(* The numbers left are natural wherever a call can be.                    *)
Counted == {ElementsLeft, TurnsLeft} \subseteq Nat

LEMMA CountsAreNatural == IInv => Counted
<1> SUFFICES ASSUME IInv PROVE ElementsLeft \in Nat /\ TurnsLeft \in Nat
  BY DEF Counted
<1>1. m_finish \in Nat /\ max_size \in Nat /\ (fn # "idle" => call.n \in Nat)
  BY Stored, Sizes, CallNumbers
<1>2. ElementsLeft \in Nat
  <2>1. CASE fn = "append"
    BY <1>1, <2>1 DEF ElementsLeft, IInv, FillValid
  <2>2. CASE fn \in ReallocFns /\ call.op \in InputOps
    BY <1>1, <2>2, InRealloc DEF ElementsLeft
  <2>3. CASE ~(fn = "append" \/ (fn \in ReallocFns /\ call.op \in InputOps))
    <3>1. PartsLeft # 1
      BY <2>3 DEF PartsLeft
    <3> QED
      BY <3>1 DEF ElementsLeft
  <2> QED
    BY <2>1, <2>2, <2>3
<1>3. TurnsLeft \in Nat
  <2>1. CASE fn \in ReallocFns
    BY <1>1, <2>1, InRealloc DEF TurnsLeft, ReallocFns
  <2>2. CASE fn \in {"shift", "place"}
    BY <2>2, ShiftNumbers DEF TurnsLeft, ReallocFns
  <2>3. CASE fn = "erase"
    BY <2>3, EraseNumbers, Sizes DEF TurnsLeft, ReallocFns
  <2>4. CASE fn = "assign"
    BY <2>4, AssignNumbers DEF TurnsLeft, ReallocFns
  <2>5. CASE fn \in {"fill_end", "resize_in"}
    <3>1. i \in Nat /\ call.n \in Nat /\ i <= call.n
      BY <1>1, <2>5, GrowthAssumption
         DEF IInv, FillValid, TypeOK, SizeType, SizeTypeMod
    <3> QED
      BY <2>5, <3>1 DEF TurnsLeft, ReallocFns
  <2>6. CASE fn \notin ReallocFns \cup
                {"shift", "place", "erase", "assign", "fill_end", "resize_in"}
    BY <1>1, <2>6 DEF TurnsLeft
  <2> QED
    BY <2>1, <2>2, <2>3, <2>4, <2>5, <2>6
<1> QED
  BY <1>2, <1>3

(* A call that ends.                                                       *)
LEMMA EndRuns ==
  ASSUME NEW m, NEW k, NEW f, NEW out, EndCall(m, k, f, out) PROVE RunStep
  BY DEF EndCall, RunStep, RoomMade, ReallocFns

LEMMA FinishRuns ==
  ASSUME NEW out, Finish(out) \/ DestroyStorageAndEnd(out) PROVE RunStep
  BY EndRuns DEF Finish, DestroyStorageAndEnd

LEMMA TruncateRuns == ASSUME NEW n, TruncateAndEnd(n) PROVE RunStep
  BY EndRuns DEF TruncateAndEnd

LEMMA ThrowRuns ==
  ASSUME fn \in {"entry", "append"} \cup ReallocFns,
         NEW m, NEW k, NEW f, NEW out, Throw(m, k, f, out)
  PROVE  RunStep
<1>1. CASE call.op \notin InputOps
  BY <1>1, EndRuns DEF Throw
<1>2. CASE call.op \in InputOps
  <2>1. fn' = "rollback"
    BY <1>2 DEF Throw
  <2>2. PartsLeft' = 0 /\ RoomMade'
    BY <2>1 DEF PartsLeft, RoomMade, ReallocFns
  <2>3. PartsLeft \in {1, 4, 5, 6, 8}
    BY DEF PartsLeft, ReallocFns
  <2> QED
    BY <2>2, <2>3 DEF RunStep, NearerEnd
<1> QED
  BY <1>1, <1>2

-----------------------------------------------------------------------------
(* From one part of a method to the next.                                  *)

LoopsAfterEntry == {"shift", "fill_end", "resize_in", "erase", "assign", "append"}

LEMMA LoopRuns ==
  ASSUME NEW f, NEW c, Loop(f, c),
         \/ fn = "entry" /\ f \in LoopsAfterEntry
         \/ fn = "shift" /\ f = "place"
         \/ fn = "assign" /\ f = "append"
  PROVE  RunStep
<1>1. fn' = f
  BY DEF Loop
<1>2. RoomMade'
  BY <1>1 DEF RoomMade, ReallocFns, LoopsAfterEntry
<1>3. CASE fn = "entry" /\ f \in LoopsAfterEntry
  <2>1. PartsLeft \in {4, 6, 8}
    BY <1>3 DEF PartsLeft, ReallocFns
  <2>2. PartsLeft' \in {1, 2, 3}
    BY <1>1, <1>3 DEF PartsLeft, LoopsAfterEntry, ReallocFns
  <2> QED
    BY <1>2, <2>1, <2>2 DEF RunStep, NearerEnd
<1>4. CASE fn = "shift" /\ f = "place"
  BY <1>1, <1>2, <1>4 DEF RunStep, NearerEnd, PartsLeft, ReallocFns
<1>5. CASE fn = "assign" /\ f = "append"
  BY <1>1, <1>2, <1>5 DEF RunStep, NearerEnd, PartsLeft, ReallocFns
<1> QED
  BY <1>3, <1>4, <1>5

(* One turn of a loop that does not append.                                *)
LEMMA TurnRuns ==
  ASSUME fn \in {"fill_end", "resize_in", "shift", "place", "erase", "assign"},
         fn' = fn, TurnsLeft' < TurnsLeft
  PROVE  RunStep
<1>1. PartsLeft \in {2, 3} /\ PartsLeft' = PartsLeft
  BY DEF PartsLeft, ReallocFns
<1>2. ElementsLeft' = ElementsLeft
  BY <1>1 DEF ElementsLeft
<1> QED
  BY <1>1, <1>2 DEF RunStep, RoomMade, NearerEnd, ReallocFns

(* A method that has found no room starts a reallocation.                  *)
LEMMA StartReallocRuns ==
  ASSUME IInv, fn = "entry", ~RoomFound, call.op \notin InputOps,
         NEW f \in ReallocFns, NEW l, NEW h, NEW c, StartRealloc(f, l, h, c),
         call.op = "insert_rv" => m_finish + (h - l) < c
  PROVE  RunStep
<1>1. CASE AllocationFails
  BY <1>1, ThrowRuns DEF AllocationFails
<1>2. ASSUME NEW b \in Block, Allocate(b, c), fn' = f, new_start' = b,
             lo' = l, hi' = h, UNCHANGED <<vec, call>>
      PROVE  RunStep
  <2>1. blk'[b] = c
    BY <1>2, Stored DEF Allocate, BlockTable
  <2>2. RoomMade'
    BY <1>2, <2>1 DEF RoomMade, vec
  <2>3. PartsLeft \in {6, 8}
    BY DEF PartsLeft, ReallocFns
  <2>4. PartsLeft' = 5
    BY <1>2 DEF PartsLeft, ReallocFns
  <2> QED
    BY <2>2, <2>3, <2>4 DEF RunStep, NearerEnd
<1> QED
  BY <1>1, <1>2 DEF StartRealloc

LEMMA StartGrowingRuns ==
  ASSUME IInv, fn = "entry", ~RoomFound, call.op \notin InputOps,
         NEW f \in ReallocFns, NEW l, NEW h, NEW n \in SizeType,
         StartGrowing(f, l, h, n),
         call.op = "insert_rv" => l = size /\ h = size /\ n > 0
  PROVE  RunStep
<1>1. CASE Throw(mem, blk, {}, "length_error")
  BY <1>1, ThrowRuns
<1>2. CASE ~TooLong(size, n) /\ StartRealloc(f, l, h, CalculateGrowth(size, n))
  <2>1. size \in 0 .. max_size /\ size = m_finish /\ n \in Nat
    BY Stored, Sizes, GrowthAssumption DEF SizeType, SizeTypeMod
  <2>2. CalculateGrowth(size, n) \in (size + n) .. max_size
    BY <1>2, <2>1, GrowthBounds
  <2> DEFINE c == CalculateGrowth(size, n)
  <2>3. call.op = "insert_rv" => m_finish + (h - l) < c
    BY <2>1, <2>2, Sizes
  <2> HIDE DEF c
  <2> QED
    BY <1>2, <2>3, StartReallocRuns DEF c
<1> QED
  BY <1>1, <1>2 DEF StartGrowing

(* A temp_value is made by a method that has not made one.                 *)
LEMMA AllocateTempRuns ==
  ASSUME fn = "entry", temp = Null, ~RoomFound, call.op # "assign_range", AllocateTemp
  PROVE  RunStep
<1>1. CASE AllocationFails
  BY <1>1, ThrowRuns DEF AllocationFails
<1>2. CASE fn' = "temp"
  <2>1. PartsLeft = 8
    BY DEF PartsLeft, ReadyToGrow, ReallocFns
  <2>2. PartsLeft' = 7 /\ RoomMade'
    BY <1>2 DEF PartsLeft, RoomMade, ReallocFns
  <2> QED
    BY <2>1, <2>2 DEF RunStep, NearerEnd
<1> QED
  BY <1>1, <1>2 DEF AllocateTemp

LEMMA EnterRuns == ASSUME IInv, Enter PROVE RunStep
<1>1. /\ fn = "entry" /\ call.n \in Nat /\ call.n \in SizeType
      /\ size = m_finish /\ capacity = m_eos
      /\ m_finish \in Nat /\ m_eos \in Nat /\ m_finish <= m_eos
  <2>1. fn = "entry"
    BY DEF Enter, Entered, Reserve, ShrinkToFit, Clear, PopBack, DestroyVector,
           PushBack, Resize, InsertOne, InsertRvalue, InsertFill, InsertRange, Erase,
           AssignEnter, ConstructVector, AssignFill, AssignRange, AssignInput
  <2> QED
    BY <2>1, CallNumbers, Stored, Sizes
<1>2. 1 \in SizeType
  BY Sizes, GrowthAssumption DEF SizeType, SizeTypeMod
<1>3. call.op \in InsertOneOps => call.n = 1
  BY <1>1 DEF IInv, EntryValid
<1>4. call.op # "insert_rv" => temp = Null
  BY <1>1 DEF IInv, EntryValid
<1>5. CASE Clear \/ PopBack \/ DestroyVector
  BY <1>5, FinishRuns, TruncateRuns DEF Clear, PopBack, DestroyVector
<1>6. CASE Reserve \/ ShrinkToFit
  <2>1. ~RoomFound /\ call.op \notin InputOps \cup {"insert_rv"}
    BY <1>6 DEF Reserve, ShrinkToFit, Entered, RoomFound, InputOps
  <2> QED
    BY <1>1, <1>6, <2>1, FinishRuns, StartReallocRuns
       DEF Reserve, ShrinkToFit, ReallocFns
<1>7. ASSUME ConstructAtEnd PROVE RunStep
  BY <1>7, EndRuns, FinishRuns DEF ConstructAtEnd
<1>8. CASE PushBack \/ Resize
  <2>1. ~RoomFound /\ call.op \notin InputOps \cup {"insert_rv"}
    BY <1>8 DEF PushBack, Resize, Entered, RoomFound, InputOps, AppendOps
  <2>2. call.n > size => call.n - size \in SizeType
    BY <1>1, GrowthAssumption DEF SizeType, SizeTypeMod
  <2>3. CASE PushBack
    BY <1>1, <1>2, <1>7, <2>1, <2>3, StartGrowingRuns DEF PushBack, ReallocFns
  <2>4. CASE Resize
    <3>1. call.n > capacity => call.n > size
      BY <1>1
    <3> QED
      BY <1>1, <2>1, <2>2, <2>4, <3>1, FinishRuns, TruncateRuns, LoopRuns,
         StartGrowingRuns
         DEF Resize, ReallocFns, LoopsAfterEntry
  <2> QED
    BY <1>8, <2>3, <2>4
<1>9. CASE InsertOne \/ InsertFill
  <2>1. /\ ~RoomFound /\ call.op # "assign_range" /\ temp = Null
        /\ call.op \notin InputOps \cup {"insert_rv"}
    BY <1>4, <1>9 DEF InsertOne, InsertFill, Entered, RoomFound, InputOps
  <2>2. CASE InsertOne
    BY <1>1, <1>2, <1>7, <2>1, <2>2, StartGrowingRuns, AllocateTempRuns
       DEF InsertOne, ReallocFns
  <2>3. CASE InsertFill
    BY <1>1, <2>1, <2>3, FinishRuns, LoopRuns, StartGrowingRuns, AllocateTempRuns
       DEF InsertFill, ReallocFns, LoopsAfterEntry
  <2> QED
    BY <1>9, <2>2, <2>3
<1>10. CASE InsertRvalue
  <2>1. call.op = "insert_rv" /\ call.n = 1
    BY <1>3, <1>10 DEF InsertRvalue, Entered, InsertOneOps
  <2>2. size = capacity => ~RoomFound
    BY <1>1, <2>1 DEF RoomFound
  <2> QED
    BY <1>1, <1>2, <1>7, <1>10, <2>1, <2>2, LoopRuns, StartGrowingRuns,
       AllocateTempRuns
       DEF InsertRvalue, ReallocFns, LoopsAfterEntry, InputOps
<1>11. CASE InsertRange
  <2>1. call.op = "insert_range" /\ ~RoomFound
    BY <1>11 DEF InsertRange, Entered, RoomFound
  <2> QED
    BY <1>1, <1>11, <2>1, FinishRuns, LoopRuns, StartGrowingRuns
       DEF InsertRange, ReallocFns, LoopsAfterEntry, InputOps
<1>12. CASE Erase
  BY <1>1, <1>12, FinishRuns, LoopRuns DEF Erase, LoopsAfterEntry
<1>13. CASE ConstructVector
  <2>1. ~RoomFound /\ call.op # "insert_rv"
    BY <1>13 DEF ConstructVector, RoomFound, BuildOps
  <2>2. call.op # "build_input" => call.op \notin InputOps
    BY <1>13 DEF ConstructVector, InputOps, BuildOps
  <2> QED
    BY <1>1, <1>13, <2>1, <2>2, FinishRuns, LoopRuns, StartReallocRuns
       DEF ConstructVector, ReallocFns, LoopsAfterEntry
<1>14. CASE AssignFill
  <2>1. call.op = "assign_n" /\ ~RoomFound
    BY <1>1, <1>14 DEF AssignFill, RoomFound
  <2> QED
    BY <1>1, <1>14, <2>1, FinishRuns, LoopRuns, StartReallocRuns
       DEF AssignFill, ReallocFns, LoopsAfterEntry, InputOps
<1>15. CASE AssignRange
  <2>1. call.op = "assign_range" /\ ~RoomFound /\ temp = Null
    BY <1>4, <1>15 DEF AssignRange, RoomFound
  <2>2. CASE m_start # Null /\ ReleaseStorage(OnReleaseCapacity, "entry")
    <3>1. fn' = "entry" /\ m_start' = Null /\ call' = call
      BY <2>2 DEF ReleaseStorage, PointersNull
    <3>2. PartsLeft = 8
      BY <1>1, <2>1, <2>2 DEF PartsLeft, ReadyToGrow, ReallocFns
    <3>3. PartsLeft' = 6 /\ RoomMade'
      BY <2>1, <3>1 DEF PartsLeft, ReadyToGrow, RoomFound, RoomMade, ReallocFns
    <3> QED
      BY <3>2, <3>3 DEF RunStep, NearerEnd
  <2> QED
    BY <1>1, <1>15, <2>1, <2>2, FinishRuns, LoopRuns, StartReallocRuns
       DEF AssignRange, ReallocFns, LoopsAfterEntry, InputOps
<1>16. CASE AssignInput
  <2>1. fn' = "append"
    BY <1>16 DEF AssignInput, ReleaseStorage
  <2>2. PartsLeft \in {4, 6, 8} /\ PartsLeft' = 1 /\ RoomMade'
    BY <1>1, <2>1 DEF PartsLeft, RoomMade, ReallocFns
  <2> QED
    BY <2>2 DEF RunStep, NearerEnd
<1> QED
  BY <1>5, <1>6, <1>8, <1>9, <1>10, <1>11, <1>12, <1>13, <1>14, <1>15, <1>16
     DEF Enter, AssignEnter

-----------------------------------------------------------------------------
(* The steps of the loops.                                                 *)

LEMMA ReallocRuns == ASSUME IInv, RoomMade, ReallocStep PROVE RunStep
<1>1. fn \in ReallocFns
  BY DEF ReallocStep, Build, BuildThrows, Relocate, RelocateThrows, Commit
<1>2. CASE Build \/ Relocate
  <2>1. /\ fn' = fn /\ UNCHANGED <<call, m_finish, m_eos, blk, new_start, lo, hi>>
        /\ \/ built' = built + 1 /\ moved' = moved
           \/ built' = built /\ moved' = moved + 1
    BY <1>2 DEF Build, Relocate, vec
  <2>2. PartsLeft' = PartsLeft /\ PartsLeft \in {1, 5}
    BY <1>1, <2>1 DEF PartsLeft, ReallocFns
  <2>3. ElementsLeft' = ElementsLeft
    BY <2>1, <2>2 DEF ElementsLeft
  <2>4. TurnsLeft' < TurnsLeft
    BY <1>1, <2>1, InRealloc, Stored, Sizes DEF TurnsLeft, ReallocFns
  <2> QED
    BY <1>1, <2>1, <2>2, <2>3, <2>4 DEF RunStep, RoomMade, NearerEnd
<1>3. CASE BuildThrows \/ RelocateThrows
  BY <1>1, <1>3, ThrowRuns DEF BuildThrows, RelocateThrows
<1>4. CASE Commit /\ Afterwards = "idle"
  BY <1>4, EndRuns DEF Commit
<1>5. CASE Commit /\ Afterwards # "idle"
  <2>1. /\ fn' = Afterwards /\ call' = call
        /\ m_finish' = m_finish + (hi - lo) /\ m_eos' = blk[new_start]
    BY <1>5 DEF Commit
  <2>2. RoomMade'
    BY <2>1 DEF RoomMade, Afterwards, ReallocFns
  <2>3. CASE Afterwards = "entry"
    <3>1. PartsLeft = 5
      BY <1>1, <2>3 DEF PartsLeft, Afterwards, ReallocFns, InputOps, BuildOps
    <3>2. RoomFound'
      BY <1>1, <2>1, <2>3 DEF RoomFound, RoomMade, Afterwards, BuildOps
    <3>3. PartsLeft' = 4
      BY <2>1, <2>3, <3>2 DEF PartsLeft, ReallocFns
    <3> QED
      BY <2>2, <3>1, <3>3 DEF RunStep, NearerEnd
  <2>4. CASE Afterwards = "append"
    <3>1. PartsLeft' = 1 /\ ElementsLeft' = call.n - (m_finish + (hi - lo))
      BY <2>1, <2>4 DEF PartsLeft, ElementsLeft, ReallocFns
    <3>2. CASE call.op \in InputOps
      <4>1. hi - lo = 1 /\ call.n \in Nat /\ m_finish \in Nat
        BY <1>1, <3>2, InRealloc, CallNumbers, Stored, Sizes
      <4>2. PartsLeft = 1 /\ ElementsLeft = call.n - m_finish
        BY <1>1, <3>2 DEF PartsLeft, ElementsLeft, ReallocFns
      <4>3. ElementsLeft' < ElementsLeft
        BY <3>1, <4>1, <4>2
      <4> QED
        BY <2>2, <3>1, <4>2, <4>3 DEF RunStep, NearerEnd
    <3>3. CASE call.op \notin InputOps
      <4>1. PartsLeft = 5
        BY <1>1, <3>3 DEF PartsLeft, ReallocFns
      <4> QED
        BY <2>2, <3>1, <4>1 DEF RunStep, NearerEnd
    <3> QED
      BY <3>2, <3>3
  <2>5. CASE Afterwards \in {"shift", "assign"}
    <3>1. PartsLeft = 5 /\ PartsLeft' \in {2, 3}
      BY <1>1, <2>1, <2>5 DEF PartsLeft, Afterwards, ReallocFns, InputOps, BuildOps
    <3> QED
      BY <2>2, <3>1 DEF RunStep, NearerEnd
  <2> QED
    BY <1>5, <2>3, <2>4, <2>5 DEF Afterwards
<1> QED
  BY <1>2, <1>3, <1>4, <1>5 DEF ReallocStep

LEMMA InPlaceRuns == ASSUME IInv, InPlaceStep PROVE RunStep
<1>1. CASE ConstructTemp
  <2>1. fn = "temp" /\ (fn' = "shift" \/ (fn' = "entry" /\ temp' = new_start))
    BY <1>1 DEF ConstructTemp
  <2>2. new_start # Null
    BY <2>1, StateAssumption DEF IInv, NewTempValid
  <2>3. PartsLeft = 7 /\ PartsLeft' \in {3, 4, 6} /\ RoomMade'
    BY <2>1, <2>2 DEF PartsLeft, ReadyToGrow, RoomMade, ReallocFns
  <2> QED
    BY <2>3 DEF RunStep, NearerEnd
<1>2. CASE FillEnd \/ ResizeIn
  <2>1. /\ fn \in {"fill_end", "resize_in"} /\ fn' = fn /\ call' = call /\ i' = i + 1
    BY <1>2 DEF FillEnd, ResizeIn
  <2>2. i \in Nat /\ call.n \in Nat
    BY <2>1, CallNumbers, GrowthAssumption DEF IInv, TypeOK, SizeType, SizeTypeMod
  <2>3. TurnsLeft = call.n - i /\ TurnsLeft' = call.n - (i + 1)
    BY <2>1 DEF TurnsLeft, ReallocFns
  <2> QED
    BY <2>1, <2>2, <2>3, TurnRuns
<1>3. CASE Shift
  <2>1. fn = "shift" /\ fn' = fn /\ call' = call /\ i >= gap /\ i' = Wrap(i - 1)
    BY <1>3 DEF Shift
  <2>2. /\ i \in Nat /\ gap \in Nat /\ i - 1 >= 0 /\ i < SizeTypeMod
    BY <2>1, ShiftNumbers, GrowthAssumption DEF IInv, TypeOK, SizeType, SizeTypeMod
  <2>3. i' = i - 1 /\ gap' = gap
    BY <2>1, <2>2, GrowthAssumption DEF Wrap, gap, SizeTypeMod
  <2>4. TurnsLeft = i + 1 - gap /\ TurnsLeft' = (i - 1) + 1 - gap
    BY <2>1, <2>3 DEF TurnsLeft, ReallocFns
  <2> QED
    BY <2>1, <2>2, <2>4, TurnRuns
<1>4. CASE Place
  <2>1. fn = "place" /\ fn' = fn /\ call' = call /\ i' = i + 1 /\ gap' = gap
    BY <1>4 DEF Place, gap
  <2>2. i \in Nat /\ gap \in Nat
    BY <2>1, ShiftNumbers
  <2>3. TurnsLeft = gap - i /\ TurnsLeft' = gap - (i + 1)
    BY <2>1 DEF TurnsLeft, ReallocFns
  <2> QED
    BY <2>1, <2>2, <2>3, TurnRuns
<1>5. CASE EraseShift
  <2>1. fn = "erase" /\ fn' = fn /\ i' = i + 1 /\ m_finish' = m_finish
    BY <1>5 DEF EraseShift, vec
  <2>2. TurnsLeft = m_finish - i /\ TurnsLeft' = m_finish - (i + 1)
    BY <2>1 DEF TurnsLeft, ReallocFns
  <2> QED
    BY <2>1, <2>2, EraseNumbers, Sizes, TurnRuns
<1>6. CASE ResizeInThrows \/ ResizeInDone \/ PlaceDone
  BY <1>6, EndRuns DEF ResizeInThrows, ResizeInDone, PlaceDone
<1>7. CASE ShiftDone
  BY <1>7, LoopRuns DEF ShiftDone
<1> QED
  BY <1>1, <1>2, <1>3, <1>4, <1>5, <1>6, <1>7, FinishRuns, TruncateRuns
     DEF InPlaceStep, ConstructTempThrows, FillEndThrows, FillEndDone, ShiftThrows,
         PlaceThrows, EraseThrows, EraseDone

LEMMA AssignRuns == ASSUME IInv, AssignStep PROVE RunStep
<1>1. CASE Assign
  <2>1. fn = "assign" /\ fn' = fn /\ i' = i + 1 /\ Common' = Common
    BY <1>1 DEF Assign, Common, vec
  <2>2. TurnsLeft = Common - i /\ TurnsLeft' = Common - (i + 1)
    BY <2>1 DEF TurnsLeft, ReallocFns
  <2> QED
    BY <2>1, <2>2, AssignNumbers, TurnRuns
<1>2. CASE AssignThrows \/ AppendThrows \/ AppendDone \/ Rollback
  BY <1>2, FinishRuns DEF AssignThrows, AppendThrows, AppendDone, Rollback
<1>3. CASE AssignDone
  BY <1>3, TruncateRuns, LoopRuns DEF AssignDone
<1>4. CASE AppendNext
  <2>1. /\ fn = "append" /\ fn' = "append" /\ call' = call
        /\ m_finish' = m_finish + 1 /\ call.n \in Nat /\ m_finish \in Nat
    BY <1>4, AppendNumbers DEF AppendNext, Appending
  <2>2. PartsLeft = 1 /\ PartsLeft' = 1 /\ RoomMade'
    BY <2>1 DEF PartsLeft, RoomMade, ReallocFns
  <2>3. ElementsLeft = call.n - m_finish /\ ElementsLeft' = call.n - (m_finish + 1)
    BY <2>1, <2>2 DEF ElementsLeft
  <2> QED
    BY <2>1, <2>2, <2>3 DEF RunStep, NearerEnd
<1>5. CASE AppendGrows
  <2>1. /\ fn = "append" /\ call.op \in InputOps /\ size = m_finish
        /\ m_finish \in 0 .. max_size
        /\ StartGrowing("realloc_append", size, size + 1, 1)
    BY <1>5, AppendNumbers, Stored DEF AppendGrows, Appending
  <2>2. CASE \E out : Throw(mem, blk, {}, out)
    BY <2>1, <2>2, ThrowRuns
  <2>3. CASE /\ ~TooLong(size, 1) /\ fn' = "realloc_append" /\ lo' = size /\ hi' = size + 1
             /\ built' = 0 /\ moved' = 0 /\ UNCHANGED <<vec, call>>
    <3>1. m_finish + 1 <= max_size
      BY <2>1, <2>3, TooLongExact, Sizes, GrowthAssumption DEF SizeType, SizeTypeMod
    <3>2. PartsLeft = 1 /\ PartsLeft' = 1 /\ m_finish' = m_finish /\ call' = call
      BY <2>1, <2>3 DEF PartsLeft, ReallocFns, vec
    <3>3. ElementsLeft' = ElementsLeft
      BY <3>2 DEF ElementsLeft
    <3>4. TurnsLeft = max_size + 1
      BY <2>1 DEF TurnsLeft, ReallocFns
    <3>5. TurnsLeft' = (size + 1 - size - 0) + (m_finish - 0)
      BY <2>1, <2>3, <3>2, Sizes DEF TurnsLeft, ReallocFns
    <3>6. TurnsLeft' < TurnsLeft
      BY <2>1, <3>1, <3>4, <3>5, Sizes
    <3>7. RoomMade'
      BY <2>1, <3>2 DEF RoomMade, InputOps
    <3> QED
      BY <3>2, <3>3, <3>6, <3>7 DEF RunStep, NearerEnd
  <2> QED
    BY <2>1, <2>2, <2>3 DEF StartGrowing, StartRealloc, AllocationFails
<1> QED
  BY <1>1, <1>2, <1>3, <1>4, <1>5 DEF AssignStep

LEMMA NextRuns == IInv /\ RoomMade /\ [Next]_vars =>
  RoomMade' /\ [call # NoCall => call' = NoCall \/ NearerEnd]_vars
<1> SUFFICES ASSUME IInv, RoomMade, [Next]_vars
             PROVE  RoomMade' /\ [call # NoCall => call' = NoCall \/ NearerEnd]_vars
  OBVIOUS
<1>1. CASE Invoke
  <2>1. RoomMade' /\ call = NoCall
    BY <1>1 DEF Invoke, RoomMade, ReallocFns
  <2> QED
    BY <2>1
<1>2. CASE UNCHANGED vars
  BY <1>2 DEF vars, RoomMade
<1>3. CASE CodeStep
  <2>1. RunStep
    BY <1>3, EnterRuns, ReallocRuns, InPlaceRuns, AssignRuns DEF CodeStep
  <2> QED
    BY <2>1 DEF RunStep
<1> QED
  BY <1>1, <1>2, <1>3 DEF Next

(* Every step of every call brings its end nearer, whatever throws: there  *)
(* is a measure in natural numbers that no step of a call leaves as it was,*)
(* so that no call of vector.h can run for ever.                           *)
THEOREM NoCallRunsForEver == Spec => CallsRunDown
<1>1. Init => RoomMade
  BY DEF Init, RoomMade, ReallocFns
<1>2. Counted' /\ [call # NoCall => call' = NoCall \/ NearerEnd]_vars =>
        [ call # NoCall =>
            \/ call' = NoCall
            \/ {ElementsLeft', TurnsLeft'} \subseteq Nat /\ NearerEnd ]_vars
  BY DEF Counted
<1> QED
  BY InitIInv, NextIInv, NextRuns, CountsAreNatural, <1>1, <1>2, PTL
     DEF Spec, CallsRunDown

=============================================================================
